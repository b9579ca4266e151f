------------------------ MODULE RuntimeEvents_proofs ------------------------
(***************************************************************************)
(* Proofs about the event pipeline of the runtime manager, for any number  *)
(* of managers, watchers, services and events, any lifetime of an event    *)
(* and any bound on time and faults; and about the goroutine that copies   *)
(* statuses beside it (RuntimeManager), for any number of namespaces.      *)
(***************************************************************************)
EXTENDS RuntimeManager, TLAPS

\* Writing one entry of a table of tables, as every write to a cache or a
\* runtime does, keeps its type.
LEMMA TableWrite ==
  ASSUME NEW A, NEW B, NEW C, NEW f \in [A -> [B -> C]],
         NEW a \in A, NEW b \in B, NEW c \in C
  PROVE  [f EXCEPT ![a][b] = c] \in [A -> [B -> C]]
  OBVIOUS

\* The pipeline starts with its variables in their types.
LEMMA InitTypeOK == Init => TypeOK
  BY EventsAssumption DEF Init, FreshManagers, TypeOK, Threads, PCs

\* A call of Create, Update or Delete keeps the types (manager.go).
LEMMA CallTypeOK ==
  ASSUME TypeOK, NEW e \in EventIds, Call(e)
  PROVE  TypeOK'
<1> USE DEF TypeOK, BeginCall, Events, managerVars, Threads, PCs
<1>1. PICK m \in Managers, s \in Services :
        \/ \E image \in Images : Create(e, m, s, image)
        \/ \E image \in Images, md \in BOOLEAN : Update(e, m, s, image, md)
        \/ Delete(e, m, s)
  BY DEF Call
<1>2. CASE \E image \in Images : Create(e, m, s, image)
  BY <1>2 DEF Create
<1>3. CASE \E image \in Images, md \in BOOLEAN : Update(e, m, s, image, md)
  BY <1>3 DEF Update
<1>4. CASE Delete(e, m, s)
  BY <1>4 DEF Delete
<1> QED BY <1>1, <1>2, <1>3, <1>4

\* A thread inside processEvent works on an event that is in the store, and
\* belongs to a manager.
LEMMA KeyInStore ==
  ASSUME TypeOK, WatcherThreads, RequestThreads, NEW t \in Threads,
         pc[t] \in Processing
  PROVE  /\ Key(t) \in EventIds /\ born[Key(t)] > 0
         /\ ev[Key(t)] \in Events
         /\ Owner(t) \in Managers
<1> USE EventsAssumption, NoEventAssumption DEF TypeOK, Threads, Key, Owner
<1>1. Key(t) \in EventIds /\ born[Key(t)] > 0
  BY DEF WatcherThreads, RequestThreads
<1>2. ev[Key(t)] \in Events
  BY <1>1 DEF RequestThreads
<1>3. Owner(t) \in Managers
  <2>1. CASE t \in Watchers
    BY <2>1
  <2>2. CASE t \notin Watchers
    BY <2>2, <1>2 DEF Events
  <2> QED BY <2>1, <2>2
<1> QED BY <1>1, <1>2, <1>3

\* A step of processEvent keeps the types (events.go).
LEMMA ProcessTypeOK ==
  ASSUME TypeOK, WatcherThreads, RequestThreads, NEW t \in Threads, ProcessEvent(t)
  PROVE  TypeOK'
<1> USE EventsAssumption, NoEventAssumption
    DEF TypeOK, managerVars, storeVars, Threads, PCs, AfterEvent
<1>1. CASE CheckConsumed(t)
  BY <1>1 DEF CheckConsumed
<1>2. CASE LookupEvent(t)
  BY <1>2 DEF LookupEvent
<1>3. CASE \E failed \in BOOLEAN : ApplyEvent(t, failed)
  <2>1. PICK failed \in BOOLEAN : ApplyEvent(t, failed)
    BY <1>3
  <2>2. Key(t) \in EventIds /\ ev[Key(t)] \in Events /\ Owner(t) \in Managers
    BY <2>1, KeyInStore DEF ApplyEvent, Processing
  <2>3. rt' \in [Managers -> [Services -> Images \cup {NoImage}]]
    <3>1. ev[Key(t)].srv \in Services /\ ev[Key(t)].image \in Images \cup {NoImage}
      BY <2>2 DEF Events
    <3>2. \/ rt' = rt
          \/ rt' = [rt EXCEPT ![Owner(t)][ev[Key(t)].srv] = ev[Key(t)].image]
      BY <2>1 DEF ApplyEvent, RuntimeCall
    <3>3. rt \in [Managers -> [Services -> Images \cup {NoImage}]]
      OBVIOUS
    <3>4. [rt EXCEPT ![Owner(t)][ev[Key(t)].srv] = ev[Key(t)].image]
            \in [Managers -> [Services -> Images \cup {NoImage}]]
      BY ONLY <2>2, <3>1, <3>3, TableWrite
    <3> QED BY <3>2, <3>3, <3>4
  <2> QED BY <2>1, <2>2, <2>3 DEF ApplyEvent
<1>4. CASE WriteStatus(t)
  <2>1. ev[Key(t)] \in Events /\ Owner(t) \in Managers
    BY <1>4, KeyInStore DEF WriteStatus, Processing
  <2>2. status' \in [Managers -> [Services -> {"none", "empty", "error", "running"}]]
    <3>1. ev[Key(t)].srv \in Services
      BY <2>1 DEF Events
    <3> DEFINE v == IF err[t] THEN "error"
                    ELSE IF ev[Key(t)].type # "delete" /\ ev[Key(t)].md THEN "empty"
                    ELSE status[Owner(t)][ev[Key(t)].srv]
    <3>2. status' = [status EXCEPT ![Owner(t)][ev[Key(t)].srv] = v]
      BY <1>4 DEF WriteStatus
    <3>3. v \in {"none", "empty", "error", "running"}
      BY <2>1, <3>1
    <3> HIDE DEF v
    <3> QED BY <2>1, <3>1, <3>2, <3>3, TableWrite
  <2> QED BY <1>4, <2>2 DEF WriteStatus
<1>5. CASE MarkConsumed(t)
  <2>1. now + 2 * TTL \in Nat
    OBVIOUS
  <2>2. marker' \in [Managers -> [EventIds -> Nat]]
    BY <1>5, <2>1 DEF MarkConsumed
  <2> QED BY <1>5, <2>2 DEF MarkConsumed
<1> QED BY <1>1, <1>2, <1>3, <1>4, <1>5 DEF ProcessEvent

\* An event that does not unmarshal ends the process (events.go, processEvent).
LEMMA PanicCrashes ==
  ASSUME NEW t \in Threads, LookupPanics(t)
  PROVE  \E m \in Managers : Crash(m)
  BY DEF LookupPanics

\* Every other step keeps the types.
LEMMA OtherTypeOK ==
  ASSUME TypeOK,
         \/ \E e \in EventIds : PublishEvent(e) \/ PublishFails(e)
         \/ \E t \in Threads : LookupFails(t)
         \/ \E w \in Watchers : WatchEvents(w) \/ PollFails(w)
         \/ \E m \in Managers : Stop(m) \/ Crash(m) \/ \E w \in Watchers : Start(m, w)
         \/ Tick
         \/ UNCHANGED vars
  PROVE  TypeOK'
<1> USE EventsAssumption
    DEF TypeOK, managerVars, storeVars, threadVars, Threads, PCs, AfterEvent
<1>1. CASE \E e \in EventIds : PublishEvent(e)
  BY <1>1 DEF PublishEvent
<1>2. CASE \E e \in EventIds : PublishFails(e)
  BY <1>2 DEF PublishFails
<1>3. CASE \E t \in Threads : LookupFails(t)
  BY <1>3 DEF LookupFails
<1>4. CASE \E w \in Watchers : PollEvents(w)
  BY <1>4 DEF PollEvents
<1>5. CASE \E w \in Watchers : NextEvent(w)
  BY <1>5 DEF NextEvent
<1>6. CASE \E w \in Watchers : WaitTicker(w)
  BY <1>6 DEF WaitTicker
<1>7. CASE \E w \in Watchers : PollFails(w)
  BY <1>7 DEF PollFails
<1>8. CASE \E m \in Managers : Stop(m)
  BY <1>8 DEF Stop
<1>9. CASE \E m \in Managers : Crash(m)
  BY <1>9 DEF Crash
<1>10. CASE \E m \in Managers, w \in Watchers : Start(m, w)
  BY <1>10 DEF Start
<1>11. CASE Tick
  BY <1>11 DEF Tick
<1>12. CASE UNCHANGED vars
  BY <1>12 DEF vars
<1> QED
  BY <1>1, <1>2, <1>3, <1>4, <1>5, <1>6, <1>7, <1>8, <1>9, <1>10, <1>11, <1>12
  DEF WatchEvents

\* A call takes an id nobody has used, and a record of the right shape.
LEMMA CallFacts ==
  ASSUME NEW e \in EventIds, Call(e)
  PROVE  \E content \in Events : BeginCall(e, content)
<1>1. PICK m \in Managers, s \in Services :
        \/ \E image \in Images : Create(e, m, s, image)
        \/ \E image \in Images, md \in BOOLEAN : Update(e, m, s, image, md)
        \/ Delete(e, m, s)
  BY DEF Call
<1> QED BY <1>1 DEF Create, Update, Delete, Events

\* The strengthened invariant holds before anything has started.
LEMMA InitIInv == Init => IInv
<1> SUFFICES ASSUME Init PROVE IInv
  OBVIOUS
<1>1. TypeOK
  BY InitTypeOK
<1> QED
  BY <1>1, EventsAssumption
  DEF Init, FreshManagers, IInv, Threads, RequestThreads, WatcherThreads,
     OnlyPublishedApplied, AppliedInOrder, AppliedGetsMarked, AppliedOncePerThread, MarkedMeansApplied, MarkerOutlivesEvent,
     AppliedBy, Owner, Key, Live, Processing

\* Every step of the pipeline keeps the strengthened invariant: one step of the
\* proof for each action, and under it one for each part the action disturbs.
LEMMA StepIInv == IInv /\ [Next]_vars => IInv'
<1> SUFFICES ASSUME IInv, [Next]_vars PROVE IInv'
  OBVIOUS
<1> USE EventsAssumption, NoEventAssumption
    DEF IInv, TypeOK, Threads, PCs, storeVars, managerVars, threadVars
<1>0. TypeOK'
  BY CallTypeOK, ProcessTypeOK, OtherTypeOK, PanicCrashes DEF Next
<1>1. CASE \E m \in Managers, w \in Watchers : Start(m, w)
  <2>1. WatcherThreads'
    BY <1>1 DEF Start, WatcherThreads, RequestThreads, Processing
  <2>2. AppliedInOrder'
    BY <1>1 DEF Start, AppliedInOrder, WatcherThreads, RequestThreads,
        OnlyPublishedApplied, Key, Live, Processing
  <2>3. AppliedGetsMarked'
    BY <1>1 DEF Start, AppliedGetsMarked, WatcherThreads, Key, Owner,
        Processing
  <2> QED
    BY <1>0, <1>1, <2>1, <2>2, <2>3 DEF Start, RequestThreads,
        OnlyPublishedApplied, AppliedOncePerThread, MarkedMeansApplied,
        MarkerOutlivesEvent, AppliedBy, Owner, Processing
<1>2. CASE \E m \in Managers : Stop(m)
  BY <1>0, <1>2 DEF Stop, RequestThreads, WatcherThreads,
      OnlyPublishedApplied, AppliedInOrder, AppliedGetsMarked,
      AppliedOncePerThread, MarkedMeansApplied, MarkerOutlivesEvent,
      AppliedBy, Owner, Key, Live, Processing
<1>3. CASE \E e \in EventIds : Call(e)
  <2>1. PICK e \in EventIds, content \in Events : BeginCall(e, content)
    BY <1>3, CallFacts
  <2>2. born[e] = 0 /\ (\A t \in Threads : applied[t][e] = 0)
    <3>1. born[e] = 0
      BY <2>1 DEF BeginCall, RequestThreads
    <3>2. \A t \in Threads : applied[t][e] \in Nat /\ ~(applied[t][e] > 0)
      BY <3>1 DEF OnlyPublishedApplied
    <3> QED BY <3>1, <3>2
  <2>3. RequestThreads'
    BY <2>1, <2>2 DEF BeginCall, RequestThreads, Processing
  <2>4. WatcherThreads' /\ AppliedGetsMarked'
    BY <2>1 DEF BeginCall, WatcherThreads, AppliedGetsMarked, Processing
  <2>5. AppliedInOrder'
    BY <2>1, <2>2 DEF BeginCall, AppliedInOrder, Key, Live
  <2>6. MarkedMeansApplied'
    <3>1. \A t \in Threads : Owner(t)' = Owner(t) \/ t = e
      BY <2>1 DEF BeginCall, Owner
    <3>2. \A t \in Threads, f \in EventIds : applied[t][f] > 0 => t # e
      BY <2>1, <2>2 DEF BeginCall, OnlyPublishedApplied
    <3>3. \A m \in Managers, f \in EventIds : AppliedBy(m, f) \subseteq AppliedBy(m, f)'
      BY <2>1, <3>1, <3>2 DEF BeginCall, AppliedBy
    <3> QED BY <2>1, <3>3 DEF BeginCall, managerVars, MarkedMeansApplied
  <2> QED
    BY <1>0, <2>1, <2>3, <2>4, <2>5, <2>6
    DEF BeginCall, OnlyPublishedApplied, AppliedOncePerThread, MarkerOutlivesEvent
<1>4. CASE \E e \in EventIds : PublishEvent(e)
  <2>1. RequestThreads'
    BY <1>4 DEF PublishEvent, RequestThreads, Processing
  <2>2. WatcherThreads'
    BY <1>4 DEF PublishEvent, WatcherThreads, RequestThreads, Processing
  <2>3. OnlyPublishedApplied'
    BY <1>4 DEF PublishEvent, OnlyPublishedApplied, WatcherThreads,
        RequestThreads, Key, Processing
  <2>4. AppliedInOrder'
    BY <1>4, <2>3 DEF PublishEvent, AppliedInOrder, WatcherThreads,
        RequestThreads, OnlyPublishedApplied, Key, Live, Processing
  <2>5. MarkedMeansApplied'
    BY <1>4 DEF PublishEvent, MarkedMeansApplied, AppliedBy, AppliedInOrder,
        OnlyPublishedApplied, RequestThreads, WatcherThreads, Owner, Key,
        Processing
  <2>6. MarkerOutlivesEvent'
    BY <1>4 DEF PublishEvent, MarkerOutlivesEvent, WatcherThreads,
        RequestThreads, Key, Owner, Processing
  <2> QED
    BY <1>0, <1>4, <2>1, <2>2, <2>3, <2>4, <2>5, <2>6 DEF PublishEvent,
        AppliedGetsMarked, AppliedOncePerThread, Processing
<1>5. CASE \E e \in EventIds : PublishFails(e)
  <2>1. RequestThreads'
    BY <1>5 DEF PublishFails, RequestThreads, Processing
  <2>2. AppliedInOrder'
    BY <1>5 DEF PublishFails, AppliedInOrder, WatcherThreads, RequestThreads,
        OnlyPublishedApplied, Key, Live, Processing
  <2> QED
    BY <1>0, <1>5, <2>1, <2>2 DEF PublishFails, WatcherThreads,
        OnlyPublishedApplied, AppliedGetsMarked, AppliedOncePerThread,
        MarkedMeansApplied, MarkerOutlivesEvent, AppliedBy, Owner, Processing
<1>6. CASE \E t \in Threads : CheckConsumed(t)
  <2>1. PICK t \in Threads : CheckConsumed(t)
    BY <1>6
  <2>2. RequestThreads' /\ WatcherThreads'
    BY <2>1 DEF CheckConsumed, AfterEvent, RequestThreads, WatcherThreads, Processing
  <2>3. t \in Watchers /\ ~Consumed(Owner(t), Key(t)) =>
          applied[t][Key(t)] = 0 \/ ~Live(Key(t))
    <3>1. SUFFICES ASSUME t \in Watchers, now >= marker[WatcherOwner[t]][cursor[t]],
                          applied[t][cursor[t]] > 0, cursor[t] \in EventIds
                   PROVE  ~Live(cursor[t])
      BY <2>1 DEF CheckConsumed, Consumed, Owner, Key, WatcherThreads, Processing
    <3>2. marker[WatcherOwner[t]][cursor[t]] > 0
      BY <2>1, <3>1 DEF CheckConsumed, AppliedGetsMarked
    <3>3. born[cursor[t]] + TTL <= marker[WatcherOwner[t]][cursor[t]]
      BY <3>1, <3>2 DEF MarkerOutlivesEvent
    <3> QED BY <3>1, <3>3 DEF Live
  <2>4. AppliedInOrder'
    BY <2>1, <2>3 DEF CheckConsumed, AfterEvent, AppliedInOrder, Key, Live
  <2>5. AppliedGetsMarked'
    BY <2>1 DEF CheckConsumed, AfterEvent, AppliedGetsMarked
  <2> QED
    BY <1>0, <2>1, <2>2, <2>4, <2>5
    DEF CheckConsumed, OnlyPublishedApplied, AppliedOncePerThread,
        MarkedMeansApplied, MarkerOutlivesEvent, AppliedBy, Owner
<1>7. CASE \E t \in Threads : LookupEvent(t)
  <2>1. RequestThreads'
    BY <1>7 DEF LookupEvent, AfterEvent, RequestThreads, Processing
  <2>2. WatcherThreads'
    BY <1>7 DEF LookupEvent, AfterEvent, WatcherThreads, RequestThreads,
        Processing
  <2>3. AppliedInOrder'
    BY <1>7 DEF LookupEvent, AfterEvent, AppliedInOrder, WatcherThreads,
        RequestThreads, OnlyPublishedApplied, Key, Live, Processing
  <2> QED
    BY <1>0, <1>7, <2>1, <2>2, <2>3 DEF LookupEvent, AfterEvent,
        OnlyPublishedApplied, AppliedGetsMarked, AppliedOncePerThread,
        MarkedMeansApplied, MarkerOutlivesEvent, AppliedBy, Owner, Processing
<1>8. CASE \E t \in Threads : LookupFails(t)
  <2>1. RequestThreads'
    BY <1>8 DEF LookupFails, AfterEvent, RequestThreads, Processing
  <2>2. WatcherThreads'
    BY <1>8 DEF LookupFails, AfterEvent, WatcherThreads, RequestThreads,
        Processing
  <2>3. AppliedInOrder'
    BY <1>8 DEF LookupFails, AfterEvent, AppliedInOrder, WatcherThreads,
        RequestThreads, OnlyPublishedApplied, Key, Live, Processing
  <2> QED
    BY <1>0, <1>8, <2>1, <2>2, <2>3 DEF LookupFails, AfterEvent,
        OnlyPublishedApplied, AppliedGetsMarked, AppliedOncePerThread,
        MarkedMeansApplied, MarkerOutlivesEvent, AppliedBy, Owner, Processing
<1>9. CASE \E t \in Threads, failed \in BOOLEAN : ApplyEvent(t, failed)
  <2>1. RequestThreads'
    BY <1>9 DEF ApplyEvent, RequestThreads, Processing
  <2>2. WatcherThreads'
    BY <1>9 DEF ApplyEvent, WatcherThreads, RequestThreads, Processing
  <2>3. OnlyPublishedApplied'
    BY <1>9 DEF ApplyEvent, OnlyPublishedApplied, WatcherThreads,
        RequestThreads, Key, Processing
  <2>4. AppliedInOrder'
    BY <1>9, <2>3 DEF ApplyEvent, AppliedInOrder, WatcherThreads,
        RequestThreads, OnlyPublishedApplied, Key, Live, Processing
  <2>5. AppliedGetsMarked'
    BY <1>9 DEF ApplyEvent, AppliedGetsMarked, WatcherThreads, Key, Owner,
        Processing
  <2>6. AppliedOncePerThread'
    BY <1>9 DEF ApplyEvent, AppliedOncePerThread, AppliedInOrder,
        WatcherThreads, RequestThreads, Key, Processing
  <2>7. MarkedMeansApplied'
    BY <1>9 DEF ApplyEvent, MarkedMeansApplied, AppliedBy, AppliedInOrder,
        OnlyPublishedApplied, RequestThreads, WatcherThreads, Owner, Key,
        Processing
  <2> QED
    BY <1>0, <1>9, <2>1, <2>2, <2>3, <2>4, <2>5, <2>6, <2>7 DEF ApplyEvent,
        MarkerOutlivesEvent, Processing
<1>10. CASE \E t \in Threads : WriteStatus(t)
  <2>1. RequestThreads'
    BY <1>10 DEF WriteStatus, RequestThreads, Processing
  <2>2. WatcherThreads'
    BY <1>10 DEF WriteStatus, WatcherThreads, RequestThreads, Processing
  <2>3. AppliedInOrder'
    BY <1>10 DEF WriteStatus, AppliedInOrder, WatcherThreads, RequestThreads,
        OnlyPublishedApplied, Key, Live, Processing
  <2>4. AppliedGetsMarked'
    BY <1>10 DEF WriteStatus, AppliedGetsMarked, WatcherThreads, Key, Owner,
        Processing
  <2> QED
    BY <1>0, <1>10, <2>1, <2>2, <2>3, <2>4 DEF WriteStatus,
        OnlyPublishedApplied, AppliedOncePerThread, MarkedMeansApplied,
        MarkerOutlivesEvent, AppliedBy, Owner, Processing
<1>11. CASE \E t \in Threads : MarkConsumed(t)
  <2>1. RequestThreads'
    BY <1>11 DEF MarkConsumed, AfterEvent, RequestThreads, Processing
  <2>2. WatcherThreads'
    BY <1>11 DEF MarkConsumed, AfterEvent, WatcherThreads, RequestThreads,
        Processing
  <2>3. AppliedInOrder'
    BY <1>11 DEF MarkConsumed, AfterEvent, AppliedInOrder, WatcherThreads,
        RequestThreads, OnlyPublishedApplied, Key, Live, Processing
  <2>4. AppliedGetsMarked'
    BY <1>11 DEF MarkConsumed, AfterEvent, AppliedGetsMarked, WatcherThreads,
        Key, Owner, Processing
  <2>5. MarkedMeansApplied'
    BY <1>11 DEF MarkConsumed, AfterEvent, MarkedMeansApplied, AppliedBy,
        AppliedInOrder, OnlyPublishedApplied, RequestThreads, WatcherThreads,
        Owner, Key, Processing
  <2>6. MarkerOutlivesEvent'
    BY <1>11 DEF MarkConsumed, AfterEvent, MarkerOutlivesEvent,
        WatcherThreads, RequestThreads, Key, Owner, Processing
  <2> QED
    BY <1>0, <1>11, <2>1, <2>2, <2>3, <2>4, <2>5, <2>6 DEF MarkConsumed,
        AfterEvent, OnlyPublishedApplied, AppliedOncePerThread, Processing
<1>12. CASE \E w \in Watchers : PollEvents(w)
  <2>1. WatcherThreads'
    BY <1>12 DEF PollEvents, Live, WatcherThreads, RequestThreads, Processing
  <2>2. AppliedInOrder'
    BY <1>12 DEF PollEvents, Live, AppliedInOrder, WatcherThreads,
        RequestThreads, OnlyPublishedApplied, Key, Processing
  <2>3. AppliedGetsMarked'
    BY <1>12 DEF PollEvents, Live, AppliedGetsMarked, WatcherThreads, Key,
        Owner, Processing
  <2> QED
    BY <1>0, <1>12, <2>1, <2>2, <2>3 DEF PollEvents, Live, RequestThreads,
        OnlyPublishedApplied, AppliedOncePerThread, MarkedMeansApplied,
        MarkerOutlivesEvent, AppliedBy, Owner, Processing
<1>13. CASE \E w \in Watchers : PollFails(w)
  BY <1>0, <1>13 DEF PollFails, RequestThreads, WatcherThreads,
      OnlyPublishedApplied, AppliedInOrder, AppliedGetsMarked,
      AppliedOncePerThread, MarkedMeansApplied, MarkerOutlivesEvent,
      AppliedBy, Owner, Key, Live, Processing
<1>14. CASE \E w \in Watchers : NextEvent(w)
  <2>1. WatcherThreads'
    BY <1>14 DEF NextEvent, WatcherThreads, RequestThreads, Processing
  <2>2. AppliedInOrder'
    BY <1>14 DEF NextEvent, AppliedInOrder, WatcherThreads, RequestThreads,
        OnlyPublishedApplied, Key, Live, Processing
  <2>3. AppliedGetsMarked'
    BY <1>14 DEF NextEvent, AppliedGetsMarked, WatcherThreads, Key, Owner,
        Processing
  <2> QED
    BY <1>0, <1>14, <2>1, <2>2, <2>3 DEF NextEvent, RequestThreads,
        OnlyPublishedApplied, AppliedOncePerThread, MarkedMeansApplied,
        MarkerOutlivesEvent, AppliedBy, Owner, Processing
<1>15. CASE \E w \in Watchers : WaitTicker(w)
  <2>1. WatcherThreads'
    BY <1>15 DEF WaitTicker, WatcherThreads, RequestThreads, Processing
  <2>2. AppliedInOrder'
    BY <1>15 DEF WaitTicker, AppliedInOrder, WatcherThreads, RequestThreads,
        OnlyPublishedApplied, Key, Live, Processing
  <2>3. AppliedGetsMarked'
    BY <1>15 DEF WaitTicker, AppliedGetsMarked, WatcherThreads, Key, Owner,
        Processing
  <2> QED
    BY <1>0, <1>15, <2>1, <2>2, <2>3 DEF WaitTicker, RequestThreads,
        OnlyPublishedApplied, AppliedOncePerThread, MarkedMeansApplied,
        MarkerOutlivesEvent, AppliedBy, Owner, Processing
<1>16. CASE Tick
  <2>1. RequestThreads'
    BY <1>16 DEF Tick, RequestThreads, Processing
  <2>2. AppliedInOrder'
    BY <1>16 DEF Tick, AppliedInOrder, WatcherThreads, RequestThreads,
        OnlyPublishedApplied, Key, Live, Processing
  <2> QED
    BY <1>0, <1>16, <2>1, <2>2 DEF Tick, WatcherThreads, OnlyPublishedApplied,
        AppliedGetsMarked, AppliedOncePerThread, MarkedMeansApplied,
        MarkerOutlivesEvent, AppliedBy, Owner, Processing
<1>17. CASE \E m \in Managers : Crash(m)
  <2>1. PICK m \in Managers : Crash(m)
    BY <1>17
  <2>2. \A t \in Threads : Lost(m, t) =>
          \A e \in EventIds : applied'[t][e] = 0
    BY <2>1 DEF Crash
  <2>3. RequestThreads' /\ WatcherThreads'
    BY <2>1 DEF Crash, Lost, RequestThreads, WatcherThreads, Processing
  <2>4. AppliedInOrder'
    BY <2>1 DEF Crash, Lost, AppliedInOrder, Key, Live
  <2>5. OnlyPublishedApplied' /\ AppliedOncePerThread'
    BY <2>1 DEF Crash, OnlyPublishedApplied, AppliedOncePerThread
  <2>6. AppliedGetsMarked'
    BY <2>1 DEF Crash, Lost, AppliedGetsMarked
  <2>7. MarkedMeansApplied'
    <3>1. \A t \in Threads, e \in EventIds :
            applied[t][e] > 0 /\ Owner(t) # m => ~Lost(m, t)
      BY DEF Owner, Lost
    <3>2. SUFFICES ASSUME NEW n \in Managers, NEW e \in EventIds, marker'[n][e] > 0
                   PROVE  AppliedBy(n, e)' # {}
      BY DEF MarkedMeansApplied
    <3>3. n # m /\ marker[n][e] > 0
      BY <2>1, <3>2 DEF Crash
    <3>4. PICK t \in Threads : applied[t][e] > 0 /\ Owner(t) = n
      BY <3>3 DEF MarkedMeansApplied, AppliedBy
    <3>5. applied'[t][e] > 0 /\ Owner(t)' = n
      BY <2>1, <3>1, <3>3, <3>4 DEF Crash, Owner
    <3> QED BY <3>5 DEF AppliedBy
  <2> QED
    BY <1>0, <2>1, <2>3, <2>4, <2>5, <2>6, <2>7 DEF Crash, MarkerOutlivesEvent
<1>18. CASE UNCHANGED vars
  BY <1>0, <1>18 DEF vars, RequestThreads, WatcherThreads,
      OnlyPublishedApplied, AppliedInOrder, AppliedGetsMarked,
      AppliedOncePerThread, MarkedMeansApplied, MarkerOutlivesEvent,
      AppliedBy, Owner, Key, Live, Processing
<1> QED
  BY <1>1, <1>2, <1>3, <1>4, <1>5, <1>6, <1>7, <1>8, <1>9, <1>10, <1>11,
      <1>12, <1>13, <1>14, <1>15, <1>16, <1>17, <1>18, PanicCrashes
      DEF Next, ProcessEvent, WatchEvents

\* The strengthened invariant holds in every state of every behaviour.
THEOREM Invariance == Spec => []IInv
  BY InitIInv, StepIInv, PTL DEF Spec

\* Every variable keeps its type, with any number of managers and threads.
THEOREM TypeCorrectness == Spec => []TypeOK
  BY Invariance, PTL DEF IInv

\* processEvent's check of the marker is enough for one thread: no thread of a
\* manager ever applies an event twice, however long it runs.
THEOREM AppliedOnceTheorem == Spec => []AppliedOncePerThread
  BY Invariance, PTL DEF IInv

\* processEvent leaves a marker only behind an event that the manager has
\* handed to its runtime since it started.
THEOREM MarkedMeansAppliedTheorem == Spec => []MarkedMeansApplied
  BY Invariance, PTL DEF IInv

\* The doubled lifetime of markers (events.go) does what its comment says, for
\* every lifetime and every delay between publication and consumption.
THEOREM MarkerOutlivesEventTheorem == Spec => []MarkerOutlivesEvent
  BY Invariance, PTL DEF IInv

-----------------------------------------------------------------------------
\* A step that is not a fault leaves an event consumed at a manager consumed
\* there for as long as it can be read from the store.
LEMMA ConsumedStep ==
  ASSUME IInv, [Next]_vars, NEW m \in Managers, NEW e \in EventIds,
         Consumed(m, e), Live(e)'
  PROVE  Consumed(m, e)' \/ faults' # faults
<1> USE EventsAssumption DEF IInv, TypeOK, Consumed
<1>1. TypeOK'
  BY StepIInv
<1>2. CASE Tick
  <2>1. marker[m][e] >= born[e] + TTL
    BY DEF MarkerOutlivesEvent
  <2>2. now' < born[e] + TTL /\ marker'[m][e] = marker[m][e]
    BY <1>2 DEF Tick, Live, storeVars, managerVars
  <2> QED BY <1>1, <2>1, <2>2
<1>3. CASE \E t \in Threads : MarkConsumed(t)
  <2>1. PICK t \in Threads : MarkConsumed(t)
    BY <1>3
  <2>2. marker'[m][e] = marker[m][e] \/ marker'[m][e] = now + 2 * TTL
    BY <2>1 DEF MarkConsumed
  <2>3. now' = now /\ now < now + 2 * TTL
    BY <2>1 DEF MarkConsumed
  <2> QED BY <2>2, <2>3
<1>4. CASE \E n \in Managers : Crash(n)
  BY <1>4 DEF Crash
<1>5. CASE marker' = marker /\ now' = now
  BY <1>5
<1>6. \/ Tick \/ (\E t \in Threads : MarkConsumed(t)) \/ (\E n \in Managers : Crash(n))
      \/ marker' = marker /\ now' = now
  BY PanicCrashes DEF Next, ProcessEvent, WatchEvents, vars, managerVars, Start, Stop, Call,
         Create, Update, Delete, BeginCall, PublishEvent, PublishFails,
         CheckConsumed, LookupEvent, LookupFails, ApplyEvent, WriteStatus,
         PollEvents, PollFails, NextEvent, WaitTicker
<1> QED BY <1>2, <1>3, <1>4, <1>5, <1>6

\* An event consumed at a manager stays consumed until it expires or the
\* process dies: watchEvents never processes it again.
THEOREM ConsumedUntilExpiryTheorem == Spec => ConsumedUntilExpiry
<1>1. IInv /\ [Next]_vars =>
        [\A m \in Managers, e \in EventIds :
           Consumed(m, e) /\ Live(e)' => Consumed(m, e)' \/ faults' # faults]_vars
  BY ConsumedStep
<1> QED BY <1>1, Invariance, PTL DEF Spec, ConsumedUntilExpiry

-----------------------------------------------------------------------------
(***************************************************************************)
(* The pipeline implements EventDelivery.  Seen through the refinement     *)
(* mapping, publishing an event is Publish, applying one is Deliver, and   *)
(* the end of a manager is Halt or Forget; every other step is a stutter.  *)
(***************************************************************************)

\* A step that neither applies nor publishes an event, and leaves the runtimes
\* alone, is invisible in the log.
LEMMA DeliveryStutter ==
  ASSUME rt' = rt, applied' = applied, born' = born,
         \A e \in EventIds : born[e] > 0 => ev'[e] = ev[e]
  PROVE  UNCHANGED Delivery!dvars
  BY DEF Delivery!dvars

\* Applying an event is delivering it, and for the first time.
LEMMA ApplyDelivers ==
  ASSUME IInv, NEW t \in Threads, NEW failed \in BOOLEAN, ApplyEvent(t, failed),
         NEW f \in EventIds, f = Key(t)
  PROVE  Delivery!Deliver(t, f)
<1> USE DEF IInv
<1>1. Key(t) \in EventIds /\ born[Key(t)] > 0 /\ ev[Key(t)] \in Events
  BY KeyInStore DEF ApplyEvent, Processing
<1>2. applied[t][Key(t)] = 0 /\ applied \in [Threads -> [EventIds -> Nat]]
  BY DEF ApplyEvent, AppliedInOrder, TypeOK
<1>3. t \in Watchers \/ t = Key(t)
  BY DEF Key
<1>4. [u \in Threads |-> {e \in EventIds : applied'[u][e] > 0}]
        = [[u \in Threads |-> {e \in EventIds : applied[u][e] > 0}]
             EXCEPT ![t] = @ \cup {Key(t)}]
  <2>1. applied' = [applied EXCEPT ![t][Key(t)] = @ + 1]
    BY DEF ApplyEvent
  <2>2. {e \in EventIds : applied'[t][e] > 0}
          = {e \in EventIds : applied[t][e] > 0} \cup {Key(t)}
    BY <1>1, <1>2, <2>1
  <2>3. \A u \in Threads : u # t => applied'[u] = applied[u]
    BY <1>2, <2>1
  <2> QED BY <2>2, <2>3
<1>5. \/ rt' = [rt EXCEPT ![Owner(t)][ev[Key(t)].srv] = ev[Key(t)].image]
      \/ rt' = rt
  BY DEF ApplyEvent, RuntimeCall
<1>6. ev' = ev /\ born' = born
  BY DEF ApplyEvent, storeVars
<1>7. Delivery!Home(t) = Owner(t)
  BY <1>1, <1>3 DEF Delivery!Home, Owner
<1>8. [e \in EventIds |-> IF born[e] > 0 THEN ev[e] ELSE NoEvent][Key(t)] = ev[Key(t)]
  BY <1>1
<1>9. Key(t) \notin [u \in Threads |-> {e \in EventIds : applied[u][e] > 0}][t]
  BY <1>2
<1> QED
  BY <1>1, <1>3, <1>4, <1>5, <1>6, <1>7, <1>8, <1>9, NoEventAssumption
  DEF Delivery!Deliver

\* The death of a manager is Forget.
LEMMA CrashForgets ==
  ASSUME IInv, NEW m \in Managers, Crash(m)
  PROVE  Delivery!Forget(m)
<1> USE DEF IInv
<1>1. Delivery!Shed(m) /\ ev' = ev /\ born' = born
  BY DEF Crash, Delivery!Shed, storeVars
<1>2. \A t \in Threads : {e \in EventIds : applied'[t][e] > 0} =
        IF (t \in Watchers \/ born[t] > 0) /\ Owner(t) = m
        THEN {} ELSE {e \in EventIds : applied[t][e] > 0}
  <2>1. SUFFICES ASSUME NEW t \in Threads
                 PROVE  {e \in EventIds : applied'[t][e] > 0} =
                          IF (t \in Watchers \/ born[t] > 0) /\ Owner(t) = m
                          THEN {} ELSE {e \in EventIds : applied[t][e] > 0}
    OBVIOUS
  <2>2. CASE Lost(m, t)
    <3>1. {e \in EventIds : applied'[t][e] > 0} = {}
      BY <2>2 DEF Crash
    <3>2. Owner(t) = m
      BY <2>2 DEF Lost, Owner
    <3>3. ~(t \in Watchers \/ born[t] > 0) => {e \in EventIds : applied[t][e] > 0} = {}
      BY DEF OnlyPublishedApplied
    <3> QED BY <3>1, <3>2, <3>3
  <2>3. CASE ~Lost(m, t)
    <3>1. applied'[t] = applied[t]
      BY <2>3 DEF Crash
    <3>2. (t \in Watchers \/ born[t] > 0) => Owner(t) # m
      BY <2>3, EventsAssumption DEF Lost, Owner, RequestThreads, TypeOK, Threads
    <3> QED BY <3>1, <3>2
  <2> QED BY <2>2, <2>3
<1>3. \A t \in Threads \ Watchers : born[t] > 0 => ev[t] # NoEvent
  BY DEF RequestThreads, Threads
<1> QED
  BY <1>1, <1>2, <1>3 DEF Delivery!Forget, Delivery!Home, Delivery!Workers, Threads, Owner

\* Publishing an event is Publish.
LEMMA PublishPublishes ==
  ASSUME IInv, NEW e \in EventIds, PublishEvent(e),
         NEW content, content = ev[e]
  PROVE  Delivery!Publish(e, content)
<1> USE DEF IInv, TypeOK
<1>1. born[e] = 0 /\ born' = [born EXCEPT ![e] = now] /\ now > 0
  BY DEF PublishEvent, RequestThreads
<1>2. ev' = ev /\ rt' = rt /\ applied' = applied
  BY DEF PublishEvent
<1>3. [f \in EventIds |-> IF born'[f] > 0 THEN ev[f] ELSE NoEvent]
        = [[f \in EventIds |-> IF born[f] > 0 THEN ev[f] ELSE NoEvent]
             EXCEPT ![e] = ev[e]]
  BY <1>1
<1> QED BY <1>1, <1>2, <1>3 DEF Delivery!Publish

\* Every step of the pipeline is a step of the log or leaves it alone.
LEMMA StepDelivers ==
  IInv /\ [Next]_vars => [Delivery!DeliveryNext]_(Delivery!dvars)
<1> SUFFICES ASSUME IInv, [Next]_vars
             PROVE  Delivery!DeliveryNext \/ UNCHANGED Delivery!dvars
  OBVIOUS
<1>1. CASE \E e \in EventIds : PublishEvent(e)
  <2>1. PICK e \in EventIds : PublishEvent(e)
    BY <1>1
  <2>2. ev[e] \in Events
    BY <2>1 DEF IInv, TypeOK, PublishEvent, RequestThreads
  <2>3. PICK content \in Events : content = ev[e]
    BY <2>2
  <2>4. Delivery!Publish(e, content)
    BY <2>1, <2>3, PublishPublishes
  <2> QED BY <2>4 DEF Delivery!DeliveryNext, Events
<1>2. CASE \E t \in Threads, failed \in BOOLEAN : ApplyEvent(t, failed)
  <2>1. PICK t \in Threads, failed \in BOOLEAN : ApplyEvent(t, failed)
    BY <1>2
  <2>2. Key(t) \in EventIds
    BY <2>1, KeyInStore DEF IInv, ApplyEvent, Processing
  <2>3. PICK f \in EventIds : f = Key(t)
    BY <2>2
  <2>4. Delivery!Deliver(t, f)
    BY <2>1, <2>3, ApplyDelivers
  <2> QED BY <2>4 DEF Delivery!DeliveryNext, Delivery!Workers, Threads
<1>3. CASE \E m \in Managers : Stop(m)
  BY <1>3 DEF Stop, Delivery!DeliveryNext, Delivery!Halt, Delivery!Shed, storeVars
<1>4. CASE \E m \in Managers : Crash(m)
  BY <1>4, CrashForgets DEF Delivery!DeliveryNext
<1>5. CASE \E e \in EventIds : Call(e)
  <2>1. PICK e \in EventIds, content \in Events : BeginCall(e, content)
    BY <1>5, CallFacts
  <2>2. born[e] = 0
    BY <2>1 DEF BeginCall, IInv, RequestThreads
  <2>3. \A f \in EventIds : born[f] > 0 => ev'[f] = ev[f]
    BY <2>1, <2>2 DEF BeginCall, IInv, TypeOK
  <2> QED BY <2>1, <2>3, DeliveryStutter DEF BeginCall
<1>6. CASE rt' = rt /\ applied' = applied /\ born' = born /\ ev' = ev
  BY <1>6, DeliveryStutter
<1>7. \/ \E e \in EventIds : PublishEvent(e) \/ Call(e)
      \/ \E t \in Threads, failed \in BOOLEAN : ApplyEvent(t, failed)
      \/ \E m \in Managers : Stop(m) \/ Crash(m)
      \/ rt' = rt /\ applied' = applied /\ born' = born /\ ev' = ev
  BY PanicCrashes DEF Next, ProcessEvent, WatchEvents, vars, storeVars, Start, PublishFails,
         CheckConsumed, LookupEvent, LookupFails, WriteStatus, MarkConsumed,
         PollEvents, PollFails, NextEvent, WaitTicker, Tick
<1> QED BY <1>1, <1>2, <1>3, <1>4, <1>5, <1>6, <1>7

\* The event pipeline implements the log it promises: only published events
\* reach a runtime, whole, and each at most once from each thread.
THEOREM Implementation == Spec => ImplementsDelivery
<1>1. Init => Delivery!DeliveryInit
  BY DEF Init, FreshManagers, Delivery!DeliveryInit, Delivery!Workers, Threads
<1> QED
  BY <1>1, StepDelivers, Invariance, PTL
  DEF Spec, ImplementsDelivery, Delivery!DeliverySpec

-----------------------------------------------------------------------------
(***************************************************************************)
(* The manager with syncStatus beside the pipeline (RuntimeManager).       *)
(***************************************************************************)

\* The work syncStatus has left: namespaces and services of the right types,
\* and none for a pair of goroutines that is not running.
SyncWork ==
  /\ toRead \in [Watchers -> SUBSET Namespaces]
  /\ toWrite \in [Watchers -> SUBSET Services]
  /\ \A w \in Watchers : pc[w] = "off" => toRead[w] = {} /\ toWrite[w] = {}

StatusInv == IInv /\ SyncWork

\* A manager may be started on a store and a runtime that hold services.
LEMMA RebootStatusInv == RebootInit => StatusInv
<1> SUFFICES ASSUME RebootInit PROVE StatusInv
  OBVIOUS
<1>1. TypeOK
  BY EventsAssumption DEF RebootInit, FreshManagers, TypeOK, Threads, PCs
<1>2. IInv
  BY <1>1, EventsAssumption
  DEF RebootInit, FreshManagers, IInv, Threads, RequestThreads, WatcherThreads,
     OnlyPublishedApplied, AppliedInOrder, AppliedGetsMarked, AppliedOncePerThread,
     MarkedMeansApplied, MarkerOutlivesEvent, AppliedBy, Owner, Key, Live, Processing
<1>3. SyncWork
  BY DEF RebootInit, SyncWork
<1> QED BY <1>2, <1>3 DEF StatusInv

\* syncStatus only writes statuses, and none of the pipeline's invariants
\* depends on them (status.go, syncStatus).
LEMMA StatusOnly ==
  ASSUME IInv, status' \in [Managers -> [Services -> {"none", "empty", "error", "running"}]],
         UNCHANGED <<now, storeVars, running, marker, rt, threadVars, applied>>,
         faults' \in Nat
  PROVE  IInv'
BY DEF IInv, TypeOK, storeVars, threadVars, RequestThreads, WatcherThreads,
   OnlyPublishedApplied, AppliedInOrder, AppliedGetsMarked, AppliedOncePerThread,
   MarkedMeansApplied, MarkerOutlivesEvent, AppliedBy, Owner, Key, Live, Processing

\* The steps of syncStatus keep the pipeline's invariant and their own.
LEMMA SyncStatusInv ==
  ASSUME StatusInv, NEW w \in Watchers, SyncStatus(w) \/ SyncAborts(w)
  PROVE  StatusInv'
<1> USE StatusAssumption, EventsAssumption DEF StatusInv, SyncWork
<1>1. CASE SyncList(w)
  <2>1. listNamespaces \in SUBSET Namespaces
    BY DEF listNamespaces, Stored
  <2>2. IInv'
    BY <1>1, StepIInv DEF SyncList
  <2> QED BY <1>1, <2>1, <2>2 DEF SyncList, vars, threadVars
<1>2. CASE SyncRead(w)
  <2>1. PICK ns \in toRead[w] : SyncRead(w)!2!(ns)
    BY <1>2 DEF SyncRead
  <2>2. IInv'
    BY <1>2, StepIInv DEF SyncRead
  <2>3. Running(WatcherOwner[w], ns) \in SUBSET Services
    BY DEF Running
  <2>4. pc' = pc /\ pc[w] # "off"
    BY <1>2, <2>1 DEF SyncRead, vars, threadVars
  <2> QED BY <2>1, <2>2, <2>3, <2>4
<1>3. CASE SyncWrite(w)
  <2>1. PICK s \in toWrite[w] : SyncWrite(w)!1!(s)
    BY <1>3 DEF SyncWrite
  <2>2. s \in Services /\ WatcherOwner[w] \in Managers
    BY <2>1
  <2>3. status' \in [Managers -> [Services -> {"none", "empty", "error", "running"}]]
    <3>1. status \in [Managers -> [Services -> {"none", "empty", "error", "running"}]]
      BY DEF IInv, TypeOK
    <3>2. "running" \in {"none", "empty", "error", "running"}
      OBVIOUS
    <3> QED BY ONLY <2>1, <2>2, <3>1, <3>2, TableWrite
  <2>4. IInv'
    BY <1>3, <2>3, StatusOnly DEF SyncWrite, IInv, TypeOK
  <2>5. pc' = pc /\ toRead' = toRead
    BY <1>3 DEF SyncWrite, threadVars
  <2> QED BY <2>1, <2>2, <2>4, <2>5
<1>4. CASE SyncAborts(w)
  <2>1. status' = status /\ faults' \in Nat /\ pc' = pc
    BY <1>4 DEF SyncAborts, IInv, TypeOK, managerVars, threadVars
  <2>2. IInv'
    BY <1>4, <2>1, StatusOnly DEF SyncAborts, IInv, TypeOK, managerVars
  <2> QED BY <1>4, <2>1, <2>2 DEF SyncAborts
<1>5. CASE SyncBare(w)
  <2>1. IInv'
    BY <1>5, StepIInv DEF SyncBare
  <2>2. pc' = pc
    BY <1>5 DEF SyncBare, vars, threadVars
  <2> QED BY <1>5, <2>1, <2>2 DEF SyncBare
<1> QED BY <1>1, <1>2, <1>3, <1>4, <1>5 DEF SyncStatus

\* Every step of the manager keeps the invariant.
LEMMA StepStatusInv == StatusInv /\ [StatusNext]_allVars => StatusInv'
<1> SUFFICES ASSUME StatusInv, [StatusNext]_allVars PROVE StatusInv'
  OBVIOUS
<1>1. CASE EventStep
  <2>1. IInv'
    BY <1>1, StepIInv DEF EventStep, StatusInv
  <2>2. SyncWork'
    BY <1>1 DEF EventStep, StatusInv, SyncWork
  <2> QED BY <2>1, <2>2 DEF StatusInv
<1>2. CASE \E w \in Watchers : SyncStatus(w) \/ SyncAborts(w)
  BY <1>2, SyncStatusInv
<1>3. CASE UNCHANGED allVars
  <2>1. IInv'
    BY <1>3, StepIInv DEF allVars, StatusInv
  <2>2. SyncWork'
    BY <1>3 DEF allVars, syncVars, vars, threadVars, StatusInv, SyncWork
  <2> QED BY <2>1, <2>2 DEF StatusInv
<1> QED BY <1>1, <1>2, <1>3 DEF StatusNext

\* A manager that copies statuses beside its pipeline, started on any store and
\* any runtime, keeps the strengthened invariant of the pipeline: that
\* goroutine never makes an event be applied twice or lose its marker.
THEOREM StatusInvariance == StatusSpec => []IInv
<1>1. StatusInv => IInv
  BY DEF StatusInv
<1> QED BY <1>1, RebootStatusInv, StepStatusInv, PTL DEF StatusSpec

\* The types of the manager, and that only a live pair of goroutines has
\* statuses left to copy (manager.go Start, status.go syncStatus).
THEOREM StatusTypeCorrectness == StatusSpec => []StatusTypeOK
<1>1. StatusInv => StatusTypeOK
  BY DEF StatusInv, SyncWork, IInv, StatusTypeOK
<1> QED BY <1>1, RebootStatusInv, StepStatusInv, PTL DEF StatusSpec

\* A step of the manager is a step of the event pipeline, or it is syncStatus
\* at work, which touches neither the events, their markers nor the runtimes
\* (status.go, syncStatus).
LEMMA StatusStepKinds ==
  ASSUME [StatusNext]_allVars
  PROVE  \/ [Next]_vars
         \/ UNCHANGED <<now, storeVars, marker, rt, threadVars, applied>>
<1>1. CASE EventStep
  BY <1>1 DEF EventStep
<1>2. CASE \E w \in Watchers : SyncStatus(w) \/ SyncAborts(w)
  BY <1>2 DEF SyncStatus, SyncList, SyncRead, SyncWrite, SyncBare, SyncAborts, managerVars
<1>3. CASE UNCHANGED allVars
  BY <1>3 DEF allVars
<1> QED BY <1>1, <1>2, <1>3 DEF StatusNext

\* What syncStatus writes into the memory store never makes watchEvents process
\* an event again: a consumed marker lasts as long as its event there too.
THEOREM StatusConsumedTheorem == StatusSpec => ConsumedUntilExpiry
<1>1. IInv /\ [StatusNext]_allVars =>
        [\A m \in Managers, e \in EventIds :
           Consumed(m, e) /\ Live(e)' => Consumed(m, e)' \/ faults' # faults]_vars
  <2>1. SUFFICES ASSUME IInv, [StatusNext]_allVars, NEW m \in Managers, NEW e \in EventIds,
                        Consumed(m, e), Live(e)'
                 PROVE  Consumed(m, e)' \/ faults' # faults
    OBVIOUS
  <2>2. CASE [Next]_vars
    BY <2>1, <2>2, ConsumedStep
  <2>3. CASE now' = now /\ marker' = marker
    BY <2>1, <2>3 DEF Consumed
  <2> QED BY <2>1, <2>2, <2>3, StatusStepKinds
<1> QED BY <1>1, StatusInvariance, PTL DEF StatusSpec, ConsumedUntilExpiry

\* A manager that is started on a store and a runtime that hold services, and
\* that copies statuses beside its pipeline, delivers events as EventDelivery
\* says: each step applies one published event, whole, to the runtime of its
\* manager and for the first time from its thread, or leaves the log alone.
THEOREM StatusDeliversTheorem ==
  StatusSpec => [][Delivery!DeliveryNext]_(Delivery!dvars)
<1>1. IInv /\ [StatusNext]_allVars => [Delivery!DeliveryNext]_(Delivery!dvars)
  <2>1. SUFFICES ASSUME IInv, [StatusNext]_allVars
                 PROVE  [Delivery!DeliveryNext]_(Delivery!dvars)
    OBVIOUS
  <2>2. CASE [Next]_vars
    BY <2>1, <2>2, StepDelivers
  <2>3. CASE UNCHANGED <<now, storeVars, marker, rt, threadVars, applied>>
    BY <2>3, DeliveryStutter DEF storeVars
  <2> QED BY <2>1, <2>2, <2>3, StatusStepKinds
<1> QED BY <1>1, StatusInvariance, PTL DEF StatusSpec
=============================================================================
