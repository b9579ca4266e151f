---------------------------- MODULE RuntimeHandler ----------------------------
(***************************************************************************)
(* The runtime service as its callers see it: the handler                  *)
(* (service/runtime/handler), which puts each call into the namespace of   *)
(* its caller, and the keys under which the manager                        *)
(* (service/runtime/manager/services.go) keeps the services.               *)
(*                                                                         *)
(* Names are sequences of parts: what the code reads by a prefix of the    *)
(* key is read by a prefix here.  What the manager does with the events    *)
(* that it publishes for itself is in RuntimeEvents.                       *)
(***************************************************************************)
EXTENDS Naturals, Sequences, SequencesExt

CONSTANTS
  RuntimeNamespaces,   \* namespaces of callers; <<>> is none
  RuntimeDefault,      \* namespace.DefaultNamespace
  RunNames,            \* names of services
  RunVersions,         \* versions asked for; <<>> is none
  Latest,              \* the version of a service created with none
  LogStreams,          \* clients of Logs
  MaxRuntimeCalls,     \* bound on calls
  MaxLogRecords        \* bound on the records of a log

ASSUME RuntimeHandlerAssumption == MaxRuntimeCalls \in Nat /\ MaxLogRecords \in Nat

RunWords == RuntimeNamespaces \cup {RuntimeDefault} \cup RunNames \cup RunVersions \cup {Latest}

\* The parts of names, and the separator of the keys.
RunParts == {":"} \cup UNION {ToSet(w) : w \in RunWords}

\* A service has a name, and no part of a namespace or a name is the separator of
\* keys: listNamespaces (services.go) takes a key to have four parts.
ASSUME SeparatorAssumption ==
  /\ RunWords \subseteq Seq(RunParts)
  /\ <<>> \notin RunNames
  /\ \A n \in RuntimeNamespaces \cup {RuntimeDefault} \cup RunNames :
       \A i \in 1 .. Len(n) : n[i] # ":"

VARIABLES
  running,         \* the service records in the store
  runtimeCalls,    \* calls so far
  accepted,        \* history: calls the manager has accepted
  runtimeTopic,    \* calls of which an event was published
  logStream        \* each Logs: state, client there, records of the log, sent, log closed

runtimeVars == <<running, runtimeCalls, accepted, runtimeTopic, logStream>>

RunsIn(ns) == IF ns = <<>> THEN RuntimeDefault ELSE ns
VersionOf(version) == IF version = <<>> THEN Latest ELSE version
RunKey(s) == s.ns \o <<":">> \o s.name \o <<":">> \o s.version

readServices(ns, name, version) ==
  LET asked == IF name = <<>> THEN <<>> ELSE name \o <<":">> \o version
  IN {s \in running : IsPrefix(RunsIn(ns) \o <<":">> \o asked, RunKey(s))}

-----------------------------------------------------------------------------
(***************************************************************************)
(* Create, Update and Delete.  The manager may fail before the store has   *)
(* changed, or after, when it cannot publish the event for itself.         *)
(***************************************************************************)
Done(op, srv) ==
  CASE op = "create" -> running \cup {srv}
    [] op = "update" -> running
    [] op = "delete" -> running \ {srv}

\* What was accepted is published; that it cannot be is ignored.
CallRuntime(op, ns, name, version) ==
  /\ runtimeCalls < MaxRuntimeCalls /\ runtimeCalls' = runtimeCalls + 1
  /\ LET srv == [ns |-> RunsIn(ns), name |-> name, version |-> VersionOf(version)] IN
       \/ /\ running' = Done(op, srv)
          /\ accepted' = accepted \cup {runtimeCalls}
          /\ runtimeTopic' \in {runtimeTopic, runtimeTopic \cup {runtimeCalls}}
       \/ /\ running' \in {running, Done(op, srv)}
          /\ UNCHANGED <<accepted, runtimeTopic>>
  /\ UNCHANGED logStream

-----------------------------------------------------------------------------
(***************************************************************************)
(* Logs: a stream of the runtime's records, which is stopped however the   *)
(* handler returns.                                                        *)
(***************************************************************************)
OpenLogs(s) ==
  /\ logStream[s].state = "new"
  /\ logStream' = [logStream EXCEPT ![s].state = "open", ![s].following = TRUE]
  /\ UNCHANGED <<running, runtimeCalls, accepted, runtimeTopic>>

\* The runtime has a record, or closes the channel.
LogGrows(s) ==
  /\ logStream[s].following /\ ~logStream[s].closed
  /\ \/ /\ logStream[s].records < MaxLogRecords
        /\ logStream' = [logStream EXCEPT ![s].records = @ + 1]
     \/ logStream' = [logStream EXCEPT ![s].closed = TRUE]
  /\ UNCHANGED <<running, runtimeCalls, accepted, runtimeTopic>>

\* Mutant: what is received is sent, also from the closed channel.
LogsProceedsUnchecked(s) ==
  /\ logStream[s].state = "open"
  /\ \/ /\ logStream[s].records > logStream[s].sent \/ logStream[s].closed
        /\ logStream[s].client
        /\ logStream' = [logStream EXCEPT ![s].sent = @ + 1]
     \/ /\ ~logStream[s].client
        /\ logStream' = [logStream EXCEPT ![s].state = "ended", ![s].following = FALSE]
  /\ UNCHANGED <<running, runtimeCalls, accepted, runtimeTopic>>

\* A record is sent, or cannot be; the channel is closed; the client has gone.
LogsProceeds(s) ==
  /\ logStream[s].state = "open"
  /\ \/ /\ logStream[s].records > logStream[s].sent /\ logStream[s].client
        /\ logStream' = [logStream EXCEPT ![s].sent = @ + 1]
     \/ /\ \/ logStream[s].records > logStream[s].sent
           \/ logStream[s].closed /\ logStream[s].records = logStream[s].sent
           \/ ~logStream[s].client
        /\ logStream' = [logStream EXCEPT ![s].state = "ended", ![s].following = FALSE]
  /\ UNCHANGED <<running, runtimeCalls, accepted, runtimeTopic>>

LogClientLeaves(s) ==
  /\ logStream[s].state = "open" /\ logStream[s].client
  /\ logStream' = [logStream EXCEPT ![s].client = FALSE]
  /\ UNCHANGED <<running, runtimeCalls, accepted, runtimeTopic>>

-----------------------------------------------------------------------------
RuntimeInit ==
  /\ running = {} /\ runtimeCalls = 0 /\ accepted = {} /\ runtimeTopic = {}
  /\ logStream = [s \in LogStreams |->
       [state |-> "new", client |-> TRUE, following |-> FALSE, records |-> 0, sent |-> 0,
        closed |-> FALSE]]

RuntimeNext ==
  \/ \E op \in {"create", "update", "delete"}, ns \in RuntimeNamespaces,
        name \in RunNames, version \in RunVersions : CallRuntime(op, ns, name, version)
  \/ \E s \in LogStreams : OpenLogs(s) \/ LogGrows(s) \/ LogsProceeds(s) \/ LogClientLeaves(s)

Runs == [ns : {RunsIn(ns) : ns \in RuntimeNamespaces}, name : RunNames,
         version : {VersionOf(v) : v \in RunVersions}]

LogStates == [state : {"new", "open", "ended"}, client : BOOLEAN, following : BOOLEAN,
              records : 0 .. MaxLogRecords, sent : Nat, closed : BOOLEAN]

\* Types, and that a log's client is never sent more than the log has.
RuntimeTypeOK ==
  /\ running \subseteq Runs
  /\ runtimeCalls \in 0 .. MaxRuntimeCalls
  /\ accepted \subseteq 0 .. MaxRuntimeCalls /\ runtimeTopic \subseteq 0 .. MaxRuntimeCalls
  /\ logStream \in [LogStreams -> LogStates]
  /\ \A s \in LogStreams : logStream[s].sent <= logStream[s].records

-----------------------------------------------------------------------------
(***************************************************************************)
(* readServices and toReadOptions: a caller who reads a name finds all its *)
(* versions in the caller's namespace and no other service; a version that *)
(* is asked for is found if it is there, with those that begin like it.    *)
(***************************************************************************)
ReadsOwnServices ==
  \A ns \in RuntimeNamespaces, name \in RunNames :
    LET own == {s \in running : s.ns = RunsIn(ns) /\ s.name = name} IN
      /\ readServices(ns, name, <<>>) = own
      /\ \A v \in RunVersions :
           readServices(ns, name, v) = {s \in own : IsPrefix(v, s.version)}

(***************************************************************************)
(* Create, Update and Delete of the handler: only what the manager has     *)
(* accepted is told to others.                                             *)
(***************************************************************************)
ToldWasAccepted == runtimeTopic \subseteq accepted

(***************************************************************************)
(* Logs: the runtime follows a log only for a client that is being served. *)
(***************************************************************************)
LogsStopped == \A s \in LogStreams : logStream[s].following => logStream[s].state = "open"
=============================================================================
