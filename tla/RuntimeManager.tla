--------------------------- MODULE RuntimeManager ---------------------------
(***************************************************************************)
(* The whole runtime manager: the event pipeline of RuntimeEvents and the  *)
(* goroutine watchStatus runs in, which copies the status of the services  *)
(* of the runtime into the same memory store that processEvent writes its  *)
(* results to.  Start spawns the two goroutines together and only the end  *)
(* of the process stops them, so watcher w names the pair.                 *)
(***************************************************************************)
EXTENDS RuntimeEvents

CONSTANTS
  Namespaces,       \* namespaces of services
  NamespaceOf,      \* the namespace in the key of each service
  DefaultNamespace, \* namespace.DefaultNamespace
  Bare              \* services that the runtime returns without metadata

ASSUME StatusAssumption ==
  /\ DefaultNamespace \in Namespaces
  /\ NamespaceOf \in [Services -> Namespaces]
  /\ Bare \subseteq Services

VARIABLES
  toRead,   \* the namespaces syncStatus has listed and not yet read
  toWrite   \* the services it has read from the runtime and not yet written

syncVars == <<toRead, toWrite>>
allVars == <<vars, syncVars>>

Stored == {s \in Services : services[s] # NoImage}

Running(m, ns) == {s \in Services : NamespaceOf[s] = ns /\ rt[m][s] # NoImage}

\* Mutant: only the default namespace is looked at.
DefaultOnly == {DefaultNamespace}

\* listNamespaces: the namespaces of the store, or the default one if it has
\* no service.
listNamespaces == IF Stored = {} THEN {DefaultNamespace}
                  ELSE {NamespaceOf[s] : s \in Stored}

-----------------------------------------------------------------------------
(***************************************************************************)
(* syncStatus: list the namespaces, and for each read the services of the  *)
(* runtime, and for each write its status.  A store that cannot be listed  *)
(* ends the round before it has begun; an error of the runtime, or (in     *)
(* every round) a service without metadata, ends it with the rest of its   *)
(* work undone.                                                            *)
(***************************************************************************)
\* Mutant: the goroutine runs whether or not the manager has been started.
SyncListAlways(w) ==
  /\ toRead[w] = {} /\ toWrite[w] = {}
  /\ toRead' = [toRead EXCEPT ![w] = listNamespaces]
  /\ UNCHANGED <<vars, toWrite>>

SyncList(w) ==
  /\ pc[w] # "off"
  /\ toRead[w] = {} /\ toWrite[w] = {}
  /\ toRead' = [toRead EXCEPT ![w] = listNamespaces]
  /\ UNCHANGED <<vars, toWrite>>

SyncRead(w) ==
  /\ toWrite[w] = {}
  /\ \E ns \in toRead[w] :
       /\ toRead' = [toRead EXCEPT ![w] = @ \ {ns}]
       /\ toWrite' = [toWrite EXCEPT ![w] = Running(WatcherOwner[w], ns)]
  /\ UNCHANGED vars

SyncWrite(w) ==
  /\ \E s \in toWrite[w] \ Bare :
       /\ status' = [status EXCEPT ![WatcherOwner[w]][s] = "running"]
       /\ toWrite' = [toWrite EXCEPT ![w] = @ \ {s}]
  /\ UNCHANGED <<now, faults, storeVars, running, marker, rt, threadVars,
                 applied, toRead>>

SyncAborts(w) ==
  /\ faults < MaxFaults
  /\ toRead[w] # {} \/ toWrite[w] # {}
  /\ faults' = faults + 1
  /\ toRead' = [toRead EXCEPT ![w] = {}]
  /\ toWrite' = [toWrite EXCEPT ![w] = {}]
  /\ UNCHANGED <<now, storeVars, managerVars, rt, threadVars, applied>>

SyncBare(w) ==
  /\ toWrite[w] \cap Bare # {}
  /\ toRead' = [toRead EXCEPT ![w] = {}]
  /\ toWrite' = [toWrite EXCEPT ![w] = {}]
  /\ UNCHANGED vars

SyncStatus(w) == SyncList(w) \/ SyncRead(w) \/ SyncWrite(w) \/ SyncBare(w)

-----------------------------------------------------------------------------
\* A step of the event pipeline.  The goroutines of a process that dies die
\* with it; Crash leaves them "off".
EventStep ==
  /\ Next
  /\ toRead' = [w \in Watchers |-> IF pc'[w] = "off" THEN {} ELSE toRead[w]]
  /\ toWrite' = [w \in Watchers |-> IF pc'[w] = "off" THEN {} ELSE toWrite[w]]

StatusNext ==
  \/ EventStep
  \/ \E w \in Watchers : SyncStatus(w) \/ SyncAborts(w)

\* A manager may be started on a store and a runtime that already hold
\* services, from an earlier process whose events have expired.
RebootInit ==
  /\ services \in [Services -> Images \cup {NoImage}]
  /\ rt \in [Managers -> [Services -> Images \cup {NoImage}]]
  /\ FreshManagers
  /\ toRead = [w \in Watchers |-> {}]
  /\ toWrite = [w \in Watchers |-> {}]

StatusSpec ==
  /\ RebootInit /\ [][StatusNext]_allVars
  /\ \A w \in Watchers : WF_allVars(SyncStatus(w))

-----------------------------------------------------------------------------
\* The types of the two variables of syncStatus, and that only a live pair of
\* goroutines has work left (manager.go Start).
StatusTypeOK ==
  /\ TypeOK
  /\ toRead \in [Watchers -> SUBSET Namespaces]
  /\ toWrite \in [Watchers -> SUBSET Services]
  /\ \A w \in Watchers : pc[w] = "off" => toRead[w] = {} /\ toWrite[w] = {}

\* A service of the store that the runtime runs is reported as running in the
\* end, by every manager that watches (watchStatus, syncStatus), however many
\* other services and namespaces a round has to go through, unless the runtime
\* runs one without metadata: that one ends every round before its turn may come.
RunningEventuallyReported ==
  \A w \in Watchers, s \in Services :
    LET m == WatcherOwner[w]
    IN  services[s] # NoImage /\ rt[m][s] # NoImage /\ pc[w] # "off" ~>
          \/ status[m][s] = "running"
          \/ services[s] = NoImage \/ rt[m][s] = NoImage \/ pc[w] = "off"
          \/ \E b \in Bare : rt[m][b] # NoImage
=============================================================================
