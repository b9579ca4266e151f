---------------------------- MODULE RuntimeEvents ----------------------------
(***************************************************************************)
(* The event pipeline of the runtime manager (service/runtime/manager).    *)
(*                                                                         *)
(* Several managers, each in front of a runtime of its own, share one      *)
(* global store.  Create, Update and Delete write the service record (not  *)
(* Update) and an event record to that store, then start a goroutine that  *)
(* applies the event to the local runtime.  Every manager also polls the   *)
(* store for events and applies those it has no consumed marker for.  The  *)
(* markers and the service statuses live in a store in memory, one per     *)
(* manager, so a crash forgets them.                                       *)
(*                                                                         *)
(* A thread is either the goroutine of one call (named by the id of the    *)
(* event it publishes) or a watcher, the goroutine watchEvents runs in.    *)
(* processEvent reads the marker, reads the event, calls the runtime,      *)
(* writes the status and writes the marker with no lock held: each is a    *)
(* step of its own, and the steps of different threads interleave.         *)
(***************************************************************************)
EXTENDS Naturals, FiniteSets

CONSTANTS
  Managers,      \* processes that run a manager
  Services,      \* namespace:name:version triples, the keys of service records
  Images,        \* what a service record and a create event carry
  EventIds,      \* uuids, one for each call that gets as far as needing one
  Watchers,      \* goroutines started by Start
  WatcherOwner,  \* the manager a watcher belongs to
  TTL,           \* eventTTL, in ticks of the clock
  MaxNow,        \* bound on the clock
  MaxFaults,     \* bound on store errors and crashes
  NoImage,       \* no such record
  NoEvent        \* an id that is not in use

ASSUME EventsAssumption ==
  /\ TTL \in Nat \ {0}
  /\ MaxNow \in Nat
  /\ MaxFaults \in Nat
  /\ Watchers \cap EventIds = {}
  /\ WatcherOwner \in [Watchers -> Managers]

ASSUME NoImageAssumption == NoImage \notin Images

VARIABLES
  now,       \* the time
  faults,    \* store errors and crashes so far
  services,  \* global store: the image of each service record, or NoImage
  ev,        \* the event of each id in use: a record that never changes
  born,      \* global store: when the event was written, 0 when it was not
  running,   \* manager.running
  marker,    \* manager.cache: when the consumed marker expires, 0 when none
  status,    \* manager.cache: the serviceStatus of each service
  rt,        \* the managed runtime: the image each service runs, or NoImage
  pc,        \* where each thread is
  cursor,    \* the event a watcher is processing
  queue,     \* the events a watcher has read and not yet processed
  err,       \* whether the runtime call of the thread failed
  applied    \* history: how often each thread applied each event

storeVars   == <<services, ev, born>>
managerVars == <<running, marker, status>>
threadVars  == <<pc, cursor, queue, err>>
vars == <<now, faults, storeVars, managerVars, rt, threadVars, applied>>

Threads == EventIds \cup Watchers

(***************************************************************************)
(* Events.  md says whether the service published with the event has       *)
(* metadata: Create makes sure that it has, Update does not.               *)
(***************************************************************************)
Events == [type : {"create", "update", "delete"}, mgr : Managers,
           srv : Services, image : Images \cup {NoImage}, md : BOOLEAN]

ASSUME NoEventAssumption == NoEvent \notin Events

Owner(t) == IF t \in Watchers THEN WatcherOwner[t] ELSE ev[t].mgr

\* The event a thread is working on.
Key(t) == IF t \in Watchers THEN cursor[t] ELSE t

\* The event record is in the global store and has not expired.
Live(e) == born[e] > 0 /\ now < born[e] + TTL

\* manager.cache holds a marker for the event that has not expired.
Consumed(m, e) == now < marker[m][e]

-----------------------------------------------------------------------------
(***************************************************************************)
(* Start and Stop.  Start spawns the watcher; Stop does not end it.  The   *)
(* process serves calls while running is TRUE (runtime.go).                *)
(***************************************************************************)
Start(m, w) ==
  /\ ~running[m]
  /\ WatcherOwner[w] = m /\ pc[w] = "off"
  /\ running' = [running EXCEPT ![m] = TRUE]
  /\ pc' = [pc EXCEPT ![w] = "poll"]
  /\ UNCHANGED <<now, faults, storeVars, marker, status, rt, cursor, queue,
                 err, applied>>

Stop(m) ==
  /\ running[m]
  /\ running' = [running EXCEPT ![m] = FALSE]
  /\ \E keep \in SUBSET Services :
        rt' = [rt EXCEPT ![m] =
                 [s \in Services |-> IF s \in keep THEN @[s] ELSE NoImage]]
  /\ UNCHANGED <<now, faults, storeVars, marker, status, threadVars, applied>>

(***************************************************************************)
(* The three calls, up to the point where publishEvent is entered.  A call *)
(* whose write to the store fails here returns an error and has changed    *)
(* nothing.                                                                *)
(***************************************************************************)
BeginCall(e, event) ==
  /\ ev[e] = NoEvent
  /\ running[event.mgr]
  /\ ev' = [ev EXCEPT ![e] = event]
  /\ pc' = [pc EXCEPT ![e] = "publish"]
  /\ UNCHANGED <<now, faults, born, managerVars, rt, cursor, queue, err,
                 applied>>

Create(e, m, s, image) ==
  /\ BeginCall(e, [type |-> "create", mgr |-> m, srv |-> s, image |-> image,
                   md |-> TRUE])
  /\ services' = [services EXCEPT ![s] = image]

Update(e, m, s, image, md) ==
  /\ BeginCall(e, [type |-> "update", mgr |-> m, srv |-> s, image |-> image,
                   md |-> md])
  /\ UNCHANGED services

Delete(e, m, s) ==
  /\ BeginCall(e, [type |-> "delete", mgr |-> m, srv |-> s, image |-> NoImage,
                   md |-> TRUE])
  /\ services' = [services EXCEPT ![s] = NoImage]

(***************************************************************************)
(* publishEvent: write the event, then `go processEvent`.  When the write  *)
(* fails the call returns its error, but the service record stays written. *)
(***************************************************************************)
PublishEvent(e) ==
  /\ pc[e] = "publish"
  /\ born' = [born EXCEPT ![e] = now]
  /\ pc' = [pc EXCEPT ![e] = "check"]
  /\ UNCHANGED <<now, faults, services, ev, managerVars, rt, cursor, queue,
                 err, applied>>

PublishFails(e) ==
  /\ faults < MaxFaults
  /\ pc[e] = "publish"
  /\ faults' = faults + 1
  /\ pc' = [pc EXCEPT ![e] = "done"]
  /\ UNCHANGED <<now, storeVars, managerVars, rt, cursor, queue, err, applied>>

-----------------------------------------------------------------------------
(***************************************************************************)
(* processEvent.                                                           *)
(***************************************************************************)

\* Where a thread goes when processEvent returns: the goroutine of a call
\* ends, a watcher takes the next event of its loop.
AfterEvent(t) == IF t \in Watchers THEN "next" ELSE "done"

\* Mutant: the marker is not looked at.
CheckNothing(t) ==
  /\ pc[t] = "check"
  /\ pc' = [pc EXCEPT ![t] = "lookup"]
  /\ UNCHANGED <<now, faults, storeVars, managerVars, rt, cursor, queue, err,
                 applied>>

CheckConsumed(t) ==
  /\ pc[t] = "check"
  /\ pc' = [pc EXCEPT ![t] = IF Consumed(Owner(t), Key(t))
                             THEN AfterEvent(t) ELSE "lookup"]
  /\ UNCHANGED <<now, faults, storeVars, managerVars, rt, cursor, queue, err,
                 applied>>

\* Mutant: no return when the event is not found.
LookupWithoutReturn(t) ==
  /\ pc[t] = "lookup"
  /\ pc' = [pc EXCEPT ![t] = IF Live(Key(t)) THEN "apply" ELSE "mark"]
  /\ UNCHANGED <<now, faults, storeVars, managerVars, rt, cursor, queue, err,
                 applied>>

LookupEvent(t) ==
  /\ pc[t] = "lookup"
  /\ pc' = [pc EXCEPT ![t] = IF Live(Key(t)) THEN "apply" ELSE AfterEvent(t)]
  /\ UNCHANGED <<now, faults, storeVars, managerVars, rt, cursor, queue, err,
                 applied>>

LookupFails(t) ==
  /\ faults < MaxFaults
  /\ pc[t] = "lookup"
  /\ faults' = faults + 1
  /\ pc' = [pc EXCEPT ![t] = AfterEvent(t)]
  /\ UNCHANGED <<now, storeVars, managerVars, rt, cursor, queue, err, applied>>

(***************************************************************************)
(* The managed runtime, as processEvent uses it: a call that returns nil   *)
(* has had its effect, one that returns an error has had none.  An update  *)
(* of a service the runtime does not run is an error.                      *)
(***************************************************************************)
RuntimeAccepts(m, event) ==
  event.type = "update" => rt[m][event.srv] # NoImage

RuntimeCall(t, failed) ==
  LET m == Owner(t)
      event == ev[Key(t)]
  IN  IF failed
      THEN UNCHANGED rt
      ELSE /\ RuntimeAccepts(m, event)
           /\ rt' = [rt EXCEPT ![m][event.srv] = event.image]

ApplyEvent(t, failed) ==
  /\ pc[t] = "apply"
  /\ RuntimeCall(t, failed)
  /\ err' = [err EXCEPT ![t] = failed]
  /\ applied' = [applied EXCEPT ![t][Key(t)] = @ + 1]
  /\ pc' = [pc EXCEPT ![t] = "status"]
  /\ UNCHANGED <<now, faults, storeVars, managerVars, cursor, queue>>

\* Mutant: the type of the event is cached as the status.
WriteEventType(t) ==
  /\ pc[t] = "status"
  /\ status' = [status EXCEPT ![Owner(t)][ev[Key(t)].srv] = ev[Key(t)].type]
  /\ pc' = [pc EXCEPT ![t] = "mark"]
  /\ UNCHANGED <<now, faults, storeVars, running, marker, rt, cursor, queue,
                 err, applied>>

(***************************************************************************)
(* cacheStatus from processEvent: the error, or the status the event's own *)
(* metadata holds, which is empty; nothing after a delete that succeeded,  *)
(* nor (it returns an error nobody reads) when there is no metadata.       *)
(***************************************************************************)
WriteStatus(t) ==
  LET m == Owner(t)
      event == ev[Key(t)]
  IN  /\ pc[t] = "status"
      /\ status' = [status EXCEPT ![m][event.srv] =
           IF err[t] THEN "error"
           ELSE IF event.type # "delete" /\ event.md THEN "empty"
           ELSE @]
      /\ pc' = [pc EXCEPT ![t] = "mark"]
      /\ UNCHANGED <<now, faults, storeVars, running, marker, rt, cursor,
                     queue, err, applied>>

\* Mutant: half the lifetime of an event for its marker.
MarkBriefly(t) ==
  /\ pc[t] = "mark"
  /\ marker' = [marker EXCEPT ![Owner(t)][Key(t)] = now + TTL \div 2]
  /\ pc' = [pc EXCEPT ![t] = AfterEvent(t)]
  /\ UNCHANGED <<now, faults, storeVars, running, status, rt, cursor, queue,
                 err, applied>>

\* The marker gets twice the lifetime of an event.
MarkConsumed(t) ==
  /\ pc[t] = "mark"
  /\ marker' = [marker EXCEPT ![Owner(t)][Key(t)] = now + 2 * TTL]
  /\ pc' = [pc EXCEPT ![t] = AfterEvent(t)]
  /\ err' = [err EXCEPT ![t] = FALSE]
  /\ UNCHANGED <<now, faults, storeVars, running, status, rt, cursor, queue,
                 applied>>

ProcessEvent(t) ==
  \/ CheckConsumed(t)
  \/ LookupEvent(t)
  \/ \E failed \in BOOLEAN : ApplyEvent(t, failed)
  \/ WriteStatus(t)
  \/ MarkConsumed(t)

-----------------------------------------------------------------------------
(***************************************************************************)
(* watchEvents.  The keys of one poll are processed in an order that has   *)
(* nothing to do with the order of publication, since ids are random.  The *)
(* wait for the ticker is the time between WaitTicker and the next poll; a *)
(* poll that fails is tried again at once.                                 *)
(***************************************************************************)
PollEvents(w) ==
  /\ pc[w] = "poll"
  /\ queue' = [queue EXCEPT ![w] = {e \in EventIds : Live(e)}]
  /\ pc' = [pc EXCEPT ![w] = "next"]
  /\ UNCHANGED <<now, faults, storeVars, managerVars, rt, cursor, err, applied>>

\* Mutant: the goroutine returns where the loop should go on.
PollGivesUp(w) ==
  /\ faults < MaxFaults
  /\ pc[w] = "poll"
  /\ faults' = faults + 1
  /\ pc' = [pc EXCEPT ![w] = "done"]
  /\ UNCHANGED <<now, storeVars, managerVars, rt, cursor, queue, err, applied>>

PollFails(w) ==
  /\ faults < MaxFaults
  /\ pc[w] = "poll"
  /\ faults' = faults + 1
  /\ UNCHANGED <<now, storeVars, managerVars, rt, threadVars, applied>>

NextEvent(w) ==
  /\ pc[w] = "next"
  /\ \E e \in queue[w] :
       /\ cursor' = [cursor EXCEPT ![w] = e]
       /\ queue' = [queue EXCEPT ![w] = @ \ {e}]
  /\ pc' = [pc EXCEPT ![w] = "check"]
  /\ UNCHANGED <<now, faults, storeVars, managerVars, rt, err, applied>>

WaitTicker(w) ==
  /\ pc[w] = "next"
  /\ queue[w] = {}
  /\ cursor' = [cursor EXCEPT ![w] = NoEvent]
  /\ pc' = [pc EXCEPT ![w] = "poll"]
  /\ UNCHANGED <<now, faults, storeVars, managerVars, rt, queue, err, applied>>

WatchEvents(w) == PollEvents(w) \/ NextEvent(w) \/ WaitTicker(w)

-----------------------------------------------------------------------------
Tick ==
  /\ now < MaxNow
  /\ now' = now + 1
  /\ UNCHANGED <<faults, storeVars, managerVars, rt, threadVars, applied>>

(***************************************************************************)
(* The process of a manager dies: its goroutines and its memory store are  *)
(* gone, the global store is not.  Services of the runtime may survive it. *)
(***************************************************************************)
Lost(m, t) == IF t \in Watchers THEN WatcherOwner[t] = m
              ELSE ev[t] # NoEvent /\ ev[t].mgr = m

Crash(m) ==
  /\ faults < MaxFaults
  /\ faults' = faults + 1
  /\ running' = [running EXCEPT ![m] = FALSE]
  /\ marker' = [marker EXCEPT ![m] = [e \in EventIds |-> 0]]
  /\ status' = [status EXCEPT ![m] = [s \in Services |-> "none"]]
  /\ \E keep \in SUBSET Services :
        rt' = [rt EXCEPT ![m] =
                 [s \in Services |-> IF s \in keep THEN @[s] ELSE NoImage]]
  /\ pc' = [t \in Threads |-> IF ~Lost(m, t) THEN pc[t]
                              ELSE IF t \in Watchers THEN "off" ELSE "done"]
  /\ queue' = [w \in Watchers |-> IF Lost(m, w) THEN {} ELSE queue[w]]
  /\ applied' = [t \in Threads |-> IF Lost(m, t) THEN [e \in EventIds |-> 0]
                                   ELSE applied[t]]
  /\ cursor' = [w \in Watchers |-> IF Lost(m, w) THEN NoEvent ELSE cursor[w]]
  /\ err' = [t \in Threads |-> err[t] /\ ~Lost(m, t)]
  /\ UNCHANGED <<now, storeVars>>

\* An event that does not unmarshal is logged and, for want of a return, used: the
\* pointer is nil, and the process ends.
LookupPanics(t) ==
  /\ pc[t] = "lookup" /\ Live(Key(t))
  /\ \E m \in Managers : m = Owner(t) /\ Crash(m)

-----------------------------------------------------------------------------
\* Managers that have not started yet, and no events.
FreshManagers ==
  /\ now = 1
  /\ faults = 0
  /\ ev = [e \in EventIds |-> NoEvent]
  /\ born = [e \in EventIds |-> 0]
  /\ running = [m \in Managers |-> FALSE]
  /\ marker = [m \in Managers |-> [e \in EventIds |-> 0]]
  /\ status = [m \in Managers |-> [s \in Services |-> "none"]]
  /\ pc = [t \in Threads |-> "off"]
  /\ cursor = [w \in Watchers |-> NoEvent]
  /\ queue = [w \in Watchers |-> {}]
  /\ err = [t \in Threads |-> FALSE]
  /\ applied = [t \in Threads |-> [e \in EventIds |-> 0]]

Init ==
  /\ FreshManagers
  /\ services = [s \in Services |-> NoImage]
  /\ rt = [m \in Managers |-> [s \in Services |-> NoImage]]

Call(e) ==
  \E m \in Managers, s \in Services :
    \/ \E image \in Images : Create(e, m, s, image)
    \/ \E image \in Images, md \in BOOLEAN : Update(e, m, s, image, md)
    \/ Delete(e, m, s)

Next ==
  \/ \E e \in EventIds : Call(e) \/ PublishEvent(e) \/ PublishFails(e)
  \/ \E t \in Threads : ProcessEvent(t) \/ LookupFails(t) \/ LookupPanics(t)
  \/ \E w \in Watchers : WatchEvents(w) \/ PollFails(w)
  \/ \E m \in Managers : Stop(m) \/ Crash(m) \/ \E w \in Watchers : Start(m, w)
  \/ Tick

(***************************************************************************)
(* The Go scheduler runs every goroutine that can run.  Calls need not be  *)
(* made, faults need not happen, and time need not pass.                   *)
(***************************************************************************)
Fairness ==
  /\ \A t \in Threads : WF_vars(ProcessEvent(t))
  /\ \A w \in Watchers : WF_vars(WatchEvents(w))

Spec == Init /\ [][Next]_vars /\ Fairness

-----------------------------------------------------------------------------
PCs == {"off", "publish", "check", "lookup", "apply", "status", "mark", "done",
        "poll", "next"}

\* The types of the variables, and that an id names an event from the start
\* of its call on (manager.go, events.go).
TypeOK ==
  /\ now \in Nat \ {0}
  /\ faults \in Nat
  /\ services \in [Services -> Images \cup {NoImage}]
  /\ ev \in [EventIds -> Events \cup {NoEvent}]
  /\ born \in [EventIds -> Nat]
  /\ running \in [Managers -> BOOLEAN]
  /\ marker \in [Managers -> [EventIds -> Nat]]
  /\ status \in [Managers -> [Services -> {"none", "empty", "error", "running"}]]
  /\ rt \in [Managers -> [Services -> Images \cup {NoImage}]]
  /\ pc \in [Threads -> PCs]
  /\ cursor \in [Watchers -> EventIds \cup {NoEvent}]
  /\ queue \in [Watchers -> SUBSET EventIds]
  /\ err \in [Threads -> BOOLEAN]
  /\ applied \in [Threads -> [EventIds -> Nat]]

\* No thread applies the same event twice (processEvent reads the marker
\* first, and the marker is to outlive the event).  For a watcher this takes
\* the marker, the expiry of the event and the order of the two reads.
AppliedOncePerThread ==
  \A t \in Threads, e \in EventIds : applied[t][e] <= 1

\* The threads of a manager that have handed the event to its runtime.
AppliedBy(m, e) == {t \in Threads : applied[t][e] > 0 /\ Owner(t) = m}

\* A consumed marker stands for an event that a thread of the same manager has
\* handed to the runtime: no early return of processEvent leaves a marker.
MarkedMeansApplied ==
  \A m \in Managers, e \in EventIds : marker[m][e] > 0 => AppliedBy(m, e) # {}

\* "We double the ttl to safely know the event will expire before this
\* record" (events.go): whatever the time at which an event is marked, the
\* marker does not expire before the event.
MarkerOutlivesEvent ==
  \A m \in Managers, e \in EventIds :
    marker[m][e] > 0 => born[e] > 0 /\ born[e] + TTL <= marker[m][e]

\* An event consumed at a manager stays consumed for as long as it can be
\* read from the store, unless the process dies (events.go: the doubled ttl).
ConsumedUntilExpiry ==
  [][\A m \in Managers, e \in EventIds :
       Consumed(m, e) /\ Live(e)' => Consumed(m, e)' \/ faults' # faults]_vars

\* Every event in the store is consumed by every manager that watches, unless
\* it expires first or the process dies (watchEvents, processEvent).
EventuallyConsumed ==
  \A w \in Watchers, e \in EventIds :
    Live(e) /\ pc[w] # "off" ~>
      Consumed(WatcherOwner[w], e) \/ ~Live(e) \/ pc[w] = "off"

-----------------------------------------------------------------------------
(***************************************************************************)
(* What makes the properties above inductive.                              *)
(***************************************************************************)
Processing == {"check", "lookup", "apply", "status", "mark"}

\* A request thread exists from its call on, and its event is in the store
\* from the time it has been published.
RequestThreads ==
  \A e \in EventIds :
    /\ pc[e] \notin {"poll", "next"}
    /\ pc[e] = "off" <=> ev[e] = NoEvent
    /\ pc[e] \in {"off", "publish"} => born[e] = 0
    /\ pc[e] \in Processing => born[e] > 0
    /\ born[e] <= now

\* A watcher only handles events it has read from the store.
WatcherThreads ==
  \A w \in Watchers :
    /\ pc[w] \notin {"publish", "done"}
    /\ pc[w] \in Processing => cursor[w] \in EventIds /\ born[cursor[w]] > 0
    /\ \A e \in queue[w] : born[e] > 0

\* Only published events are applied, and a request applies only its own.
OnlyPublishedApplied ==
  \A t \in Threads, e \in EventIds :
    applied[t][e] > 0 => born[e] > 0 /\ (t \in Watchers \/ t = e)

\* A thread has applied its event after the apply step of processEvent, and
\* has not before it: a watcher that gets past the marker of an event it has
\* applied earlier finds that the event has expired.
AppliedInOrder ==
  \A t \in Threads :
    /\ pc[t] \in {"status", "mark"} => applied[t][Key(t)] > 0
    /\ pc[t] = "apply" => applied[t][Key(t)] = 0
    /\ pc[t] = "lookup" => applied[t][Key(t)] = 0 \/ ~Live(Key(t))
    /\ pc[t] = "check" /\ t \notin Watchers => applied[t][t] = 0

\* An event a watcher has applied is marked, or the watcher is about to.
AppliedGetsMarked ==
  \A w \in Watchers, e \in EventIds : applied[w][e] > 0 =>
    \/ marker[WatcherOwner[w]][e] > 0
    \/ pc[w] \in {"status", "mark"} /\ cursor[w] = e

IInv ==
  /\ TypeOK
  /\ RequestThreads
  /\ WatcherThreads
  /\ OnlyPublishedApplied
  /\ AppliedInOrder
  /\ AppliedGetsMarked
  /\ AppliedOncePerThread
  /\ MarkedMeansApplied
  /\ MarkerOutlivesEvent

-----------------------------------------------------------------------------
\* The events delivered to the runtimes, seen as the log that EventDelivery
\* describes: an event is published when its record is written, and delivered
\* when a thread hands it to the runtime.
Delivery == INSTANCE EventDelivery WITH
  event     <- [e \in EventIds |-> IF born[e] > 0 THEN ev[e] ELSE NoEvent],
  delivered <- [t \in Threads |-> {e \in EventIds : applied[t][e] > 0}]

\* The pipeline delivers what it publishes, nothing else, and once per thread
\* (publishEvent, processEvent).
ImplementsDelivery == Delivery!DeliverySpec

-----------------------------------------------------------------------------
(***************************************************************************)
(* The runtimes and the store.  Under HealthySpec no store call and no     *)
(* runtime call fails, and no manager stops or crashes; calls overlap.     *)
(***************************************************************************)
About(s) == {e \in EventIds : ev[e] # NoEvent /\ ev[e].srv = s}

InFlight(e) == \E t \in Threads : Key(t) = e /\ pc[t] \in
                 {"publish", "check", "lookup", "apply", "status", "mark"}

Quiet(s) == \A e \in About(s) : ~InFlight(e) /\ \A m \in Managers : AppliedBy(m, e) # {}

HealthyNext ==
  /\ Next
  /\ faults' = faults
  /\ \A t \in Threads : ~err'[t]
  /\ \A m \in Managers : running[m] => running'[m]

HealthySpec == Init /\ [][HealthyNext]_vars

\* A service is in a runtime exactly when it is in the store, once every event about
\* it has been applied (manager.go: "publish the event which will trigger a delete in
\* the runtime").  Nothing orders the goroutines of two calls, nor the keys of one
\* poll.
RuntimesAgreeWithStore ==
  \A s \in Services : Quiet(s) => \A m \in Managers :
    (rt[m][s] # NoImage) <=> (services[s] # NoImage)

\* An event is executed once by a manager, as "verify it hasn't been consumed
\* and then execute it" says and the tests count (events_test.go).
ExecutedOnce ==
  \A m \in Managers, e \in EventIds : Cardinality(AppliedBy(m, e)) <= 1
=============================================================================
