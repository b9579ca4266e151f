---------------------------- MODULE ConfigValues ----------------------------
(***************************************************************************)
(* The values of the config service (service/config/handler/handler.go):   *)
(* Create, Update and Delete on one key of a store that replicas of the    *)
(* service share, and the events that they publish for the watchers.       *)
(*                                                                         *)
(* Update and Delete read the record, change it and write it back, with no *)
(* lock; every access to the store and the publication are steps.  The     *)
(* paths stand for places in the JSON document that do not overlap, and    *)
(* the data that a call sets is named by the call.                         *)
(***************************************************************************)
EXTENDS Naturals, Sequences

CONSTANTS
  Calls,      \* requests, served by whatever replica
  Paths,      \* places in the document
  MaxFaults,  \* bound on store and publication errors and on calls that die
  None        \* no record, no value, no request

ASSUME ValuesAssumption ==
  /\ MaxFaults \in Nat
  /\ None \notin Calls
  /\ None \notin [Paths -> Calls \cup {None}]

VARIABLES
  record,  \* store: the document, or None
  topic,   \* the documents published
  req,     \* what each call asks for
  base,    \* the document that Update or Delete has read, {} if there was none
  pc,      \* where each call is
  reply,   \* what it has answered
  missed,  \* history: the latest change has not been published
  crossed, \* history: at the latest change the event of an earlier one was still to come
  faults   \* failures so far

vars == <<record, topic, req, base, pc, reply, missed, crossed, faults>>

Documents == [Paths -> Calls \cup {None}]
Empty == [p \in Paths |-> None]
Content == IF record = None THEN Empty ELSE record

(***************************************************************************)
(* Create and Update set the data at a path, or the data of a document     *)
(* with several; Delete is given a path, or none and then removes the      *)
(* record.                                                                 *)
(***************************************************************************)
Requests ==
  [op : {"create", "update"}, paths : SUBSET Paths \ {{}}]
    \cup [op : {"delete"}, paths : {{p} : p \in Paths}]
    \cup [op : {"remove"}, paths : {Paths}]

\* Mutant: the data of the path replaces the document.
ChangedAlone(c) ==
  [p \in Paths |-> IF p \in req[c].paths THEN (IF req[c].op = "delete" THEN None ELSE c)
                   ELSE None]

\* Set, Del or Merge on what has been read; Create starts from nothing.
Changed(c) ==
  [p \in Paths |-> IF p \in req[c].paths THEN (IF req[c].op = "delete" THEN None ELSE c)
                   ELSE IF req[c].op = "create" THEN None
                   ELSE base[c][p]]

-----------------------------------------------------------------------------
Arrive(c, r) ==
  /\ pc[c] = "idle"
  /\ req' = [req EXCEPT ![c] = r]
  /\ pc' = [pc EXCEPT ![c] = CASE r.op = "create" -> "write"
                               [] r.op \in {"update", "delete"} -> "read"
                               [] r.op = "remove" -> "remove"]
  /\ UNCHANGED <<record, topic, base, reply, missed, crossed, faults>>

\* The store has no record: Update makes one, Delete is done.
Read(c) ==
  /\ pc[c] = "read"
  /\ IF record = None /\ req[c].op = "delete"
     THEN /\ pc' = [pc EXCEPT ![c] = "return"]
          /\ UNCHANGED base
     ELSE /\ pc' = [pc EXCEPT ![c] = "write"]
          /\ base' = [base EXCEPT ![c] = Content]
  /\ UNCHANGED <<record, topic, req, reply, missed, crossed, faults>>

Write(c) ==
  /\ pc[c] = "write"
  /\ record' = Changed(c)
  /\ pc' = [pc EXCEPT ![c] = "publish"]
  /\ missed' = TRUE
  /\ crossed' = (\E d \in Calls \ {c} : pc[d] = "publish")
  /\ UNCHANGED <<topic, req, base, reply, faults>>

\* Mutant: the event holds the document as it was read.
PublishBase(c) ==
  /\ pc[c] = "publish"
  /\ topic' = Append(topic, base[c])
  /\ pc' = [pc EXCEPT ![c] = "return"]
  /\ missed' = FALSE
  /\ UNCHANGED <<record, req, base, reply, crossed, faults>>

\* The event holds the document that has been written.
Publish(c) ==
  /\ pc[c] = "publish"
  /\ topic' = Append(topic, Changed(c))
  /\ pc' = [pc EXCEPT ![c] = "return"]
  /\ missed' = FALSE
  /\ UNCHANGED <<record, req, base, reply, crossed, faults>>

\* Delete without a path: no event is published.
Remove(c) ==
  /\ pc[c] = "remove"
  /\ record' = None
  /\ pc' = [pc EXCEPT ![c] = "return"]
  /\ UNCHANGED <<topic, req, base, reply, missed, crossed, faults>>

Return(c) ==
  /\ pc[c] = "return"
  /\ reply' = [reply EXCEPT ![c] = "ok"]
  /\ pc' = [pc EXCEPT ![c] = "done"]
  /\ UNCHANGED <<record, topic, req, base, missed, crossed, faults>>

-----------------------------------------------------------------------------
\* Mutant: the error of the store is set, and the call goes on.
FailsWithoutReturn(c) ==
  /\ faults < MaxFaults
  /\ faults' = faults + 1
  /\ pc[c] = "write"
  /\ reply' = [reply EXCEPT ![c] = "error"]
  /\ pc' = [pc EXCEPT ![c] = "publish"]
  /\ UNCHANGED <<record, topic, req, base, missed, crossed>>

\* An error of the store is answered; an error of the publication is ignored.
Fails(c) ==
  /\ faults < MaxFaults
  /\ faults' = faults + 1
  /\ \/ /\ pc[c] \in {"read", "write", "remove"}
        /\ reply' = [reply EXCEPT ![c] = "error"]
        /\ pc' = [pc EXCEPT ![c] = "done"]
     \/ /\ pc[c] = "publish"
        /\ pc' = [pc EXCEPT ![c] = "return"]
        /\ UNCHANGED reply
  /\ UNCHANGED <<record, topic, req, base, missed, crossed>>

\* The process that serves the call dies.
Dies(c) ==
  /\ faults < MaxFaults
  /\ faults' = faults + 1
  /\ pc[c] \notin {"idle", "done", "dead"}
  /\ pc' = [pc EXCEPT ![c] = "dead"]
  /\ UNCHANGED <<record, topic, req, base, reply, missed, crossed>>

-----------------------------------------------------------------------------
Init ==
  /\ record = None
  /\ topic = <<>>
  /\ req = [c \in Calls |-> None]
  /\ base = [c \in Calls |-> Empty]
  /\ pc = [c \in Calls |-> "idle"]
  /\ reply = [c \in Calls |-> "none"]
  /\ missed = FALSE
  /\ crossed = FALSE
  /\ faults = 0

Next ==
  \E c \in Calls :
    \/ Read(c) \/ Write(c) \/ Publish(c) \/ Remove(c) \/ Return(c) \/ Fails(c) \/ Dies(c)
    \/ \E r \in Requests : Arrive(c, r)

Spec == Init /\ [][Next]_vars

-----------------------------------------------------------------------------
\* The types of the variables, and that an answer comes with the end of the call
\* (handler.go).
TypeOK ==
  /\ record \in Documents \cup {None}
  /\ topic \in Seq(Documents)
  /\ req \in [Calls -> Requests \cup {None}]
  /\ base \in [Calls -> Documents]
  /\ pc \in [Calls -> {"idle", "read", "write", "publish", "remove", "return", "done", "dead"}]
  /\ reply \in [Calls -> {"none", "ok", "error"}]
  /\ missed \in BOOLEAN
  /\ crossed \in BOOLEAN
  /\ faults \in Nat
  /\ \A c \in Calls :
       /\ pc[c] # "idle" => req[c] \in Requests
       /\ pc[c] \in {"write", "publish"} => req[c].op # "remove"
       /\ pc[c] = "read" => req[c].op \in {"update", "delete"}
       /\ pc[c] = "remove" => req[c].op = "remove"
       /\ pc[c] = "done" <=> reply[c] # "none"

\* The event published last holds the record as it is, so a watcher that receives it
\* knows the configuration: unless an event was lost, or the events of two changes
\* were on their way at a time (publish, after Write, in Create, Update and Delete).
LastEventIsRecord ==
  ~missed /\ ~crossed /\ record # None =>
    topic # <<>> /\ topic[Len(topic)] = record

\* The calls in the terms of ConfigMap: a call has found the configuration when it has
\* read the record, and has had its effect when it has written it, or has found that
\* there is none to delete from.
StatusOf(c) ==
  CASE pc[c] = "idle" -> "idle"
    [] pc[c] \in {"read", "remove"} -> "called"
    [] pc[c] = "write" -> IF req[c].op = "create" THEN "called" ELSE "looked"
    [] pc[c] \in {"publish", "return"} -> "applied"
    [] pc[c] = "done" -> reply[c]
    [] pc[c] = "dead" -> "dead"

Status == [c \in Calls |-> StatusOf(c)]

Map == INSTANCE ConfigMap WITH conf <- Content, found <- base, status <- Status

\* "Apply the data to the existing change" (Update), "Delete at the given path"
\* (Delete): a call sets the paths it names and leaves the others as they were at one
\* moment since its request, and one that is answered with an error changes nothing
\* (ConfigMap).
ImplementsMap == Map!Spec
=============================================================================
