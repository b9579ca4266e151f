------------------------ MODULE ConfigWatchers_proofs ------------------------
(***************************************************************************)
(* The map of the watchers is right at every moment, for every set of      *)
(* streams and events: what is offered an event is in it, an open stream   *)
(* is in it, and a stopped one is not, or is about to be removed.  And the *)
(* streams are sent events as ConfigFeed says.                             *)
(***************************************************************************)
EXTENDS ConfigWatchers, TLAPS

\* Who can be where: an aide starts after its loop has registered, and to close
\* comes before to remove.
PlaceInv ==
  /\ \A s \in Streams :
       pc[Loop(s)] \in {"idle", "register"} => pc[Aide(s)] = "idle" /\ s \notin closed
  /\ \A s \in Streams :
       pc[Loop(s)] = "remove" \/ pc[Aide(s)] = "remove" => s \in closed

\* A handler that does not hold the read lock offers nothing, and one that does has
\* crossed off the watcher it offers its event to.
OfferInv ==
  /\ \A e \in Events : handling[e] # "offering" => offered[e] = None
  /\ \A e \in Events : offered[e] \notin todo[e]

IInv ==
  /\ TypeOK /\ PlaceInv /\ OfferInv
  /\ OfferedAreRegistered /\ OpenIsRegistered /\ ClosedIsForgotten

LEMMA RoutineFacts ==
  /\ \A s \in Streams : Loop(s) \in Routines /\ Aide(s) \in Routines /\ Loop(s) # Aide(s)
  /\ \A s \in Streams, t \in Streams :
       /\ Loop(s) # Aide(t)
       /\ s # t => Loop(s) # Loop(t) /\ Aide(s) # Aide(t)
  /\ \A s \in Streams : Loop(s)[1] = s /\ Aide(s)[1] = s
  BY DEF Loop, Aide, Routines, Roles

LEMMA InitIInv == Init => IInv
<1> SUFFICES ASSUME Init
             PROVE  IInv
  OBVIOUS
<1>1. panicked \in BOOLEAN
  BY DEF Init
<1>2. \A g \in Routines : pc[g] = "idle"
  BY DEF Init
<1>3. TypeOK
  BY <1>1, <1>2, RoutineFacts DEF Init, TypeOK, LoopPCs, AidePCs
<1>4. PlaceInv /\ OpenIsRegistered
  BY <1>2, RoutineFacts DEF Init, PlaceInv, OpenIsRegistered
<1>5. OfferedAreRegistered /\ ClosedIsForgotten
  BY DEF Init, OfferedAreRegistered, ClosedIsForgotten, Readers
<1> QED
  BY <1>3, <1>4, <1>5 DEF Init, IInv, OfferInv

-----------------------------------------------------------------------------
\* The steps that leave the map, the exit channels and the handlers' lists alone,
\* and take no goroutine to a place that matters.
LEMMA QuietSteps ==
  ASSUME IInv, NEW s \in Streams,
         Open(s) \/ NextStopped(s) \/ SendReturns(s) \/ ContextDone(s) \/ AideWakes(s)
  PROVE  IInv'
<1> USE RoutineFacts DEF IInv, OfferInv, TypeOK, Goto, LoopPCs, AidePCs
<1>1. UNCHANGED <<watchers, closed, handling, todo, offered>>
  BY DEF Open, NextStopped, SendReturns, ContextDone, AideWakes
<1>2. OfferedAreRegistered'
  BY <1>1 DEF OfferedAreRegistered, Readers
<1>3. CASE Open(s)
  BY <1>1, <1>2, <1>3 DEF Open, PlaceInv, OpenIsRegistered, ClosedIsForgotten
<1>4. CASE NextStopped(s)
  BY <1>1, <1>2, <1>4 DEF NextStopped, PlaceInv, OpenIsRegistered, ClosedIsForgotten
<1>5. CASE SendReturns(s)
  BY <1>1, <1>2, <1>5 DEF SendReturns, PlaceInv, OpenIsRegistered, ClosedIsForgotten
<1>6. CASE ContextDone(s)
  BY <1>1, <1>2, <1>6 DEF ContextDone, PlaceInv, OpenIsRegistered, ClosedIsForgotten
<1>7. CASE AideWakes(s)
  BY <1>1, <1>2, <1>7 DEF AideWakes, PlaceInv, OpenIsRegistered, ClosedIsForgotten
<1> QED
  BY <1>3, <1>4, <1>5, <1>6, <1>7

LEMMA RegisterStep ==
  ASSUME IInv, NEW s \in Streams, Register(s)
  PROVE  IInv'
<1> USE RoutineFacts DEF IInv, OfferInv, TypeOK, Register, LoopPCs, AidePCs
<1>1. TypeOK'
  OBVIOUS
<1>2. OfferedAreRegistered'
  BY DEF OfferedAreRegistered, Readers
<1>3. PlaceInv' /\ OpenIsRegistered'
  BY DEF PlaceInv, OpenIsRegistered
<1>4. ClosedIsForgotten'
  BY DEF ClosedIsForgotten, PlaceInv
<1> QED
  BY <1>1, <1>2, <1>3, <1>4

LEMMA LockStep ==
  ASSUME IInv, NEW s \in Streams, NEW g \in {Loop(s), Aide(s)}, Lock(g)
  PROVE  IInv'
<1> USE RoutineFacts DEF IInv, OfferInv, TypeOK, Lock
<1>1. TypeOK' /\ OfferedAreRegistered'
  BY DEF OfferedAreRegistered, Readers
<1>2. PlaceInv' /\ OpenIsRegistered' /\ ClosedIsForgotten'
  BY DEF PlaceInv, OpenIsRegistered, ClosedIsForgotten
<1> QED
  BY <1>1, <1>2

LEMMA StopSteps ==
  ASSUME IInv, NEW s \in Streams, NEW g \in {Loop(s), Aide(s)}, StopStep(g)
  PROVE  IInv'
<1> USE RoutineFacts DEF IInv, OfferInv, TypeOK, Goto, LoopPCs, AidePCs
<1>1. g \in Routines /\ g[1] = s
  OBVIOUS
<1>2. CASE StopChecks(g)
  <2>1. TypeOK' /\ OfferInv' /\ OfferedAreRegistered'
    BY <1>1, <1>2 DEF StopChecks, OfferedAreRegistered, Readers
  <2>2. PlaceInv' /\ OpenIsRegistered' /\ ClosedIsForgotten'
    BY <1>1, <1>2 DEF StopChecks, PlaceInv, OpenIsRegistered, ClosedIsForgotten
  <2> QED
    BY <2>1, <2>2
<1>3. CASE StopCloses(g)
  <2>1. panicked' \in BOOLEAN
    BY <1>3 DEF StopCloses
  <2>2. TypeOK' /\ OfferInv' /\ OfferedAreRegistered'
    BY <1>1, <1>3, <2>1 DEF StopCloses, OfferedAreRegistered, Readers
  <2>3. PlaceInv' /\ OpenIsRegistered' /\ ClosedIsForgotten'
    BY <1>1, <1>3 DEF StopCloses, PlaceInv, OpenIsRegistered, ClosedIsForgotten
  <2> QED
    BY <2>2, <2>3
<1>4. CASE StopRemoves(g)
  <2>1. TypeOK' /\ OfferInv' /\ OfferedAreRegistered'
    BY <1>1, <1>4 DEF StopRemoves, Locked, OfferedAreRegistered, Readers
  <2>2. PlaceInv' /\ OpenIsRegistered' /\ ClosedIsForgotten'
    BY <1>1, <1>4 DEF StopRemoves, PlaceInv, OpenIsRegistered, ClosedIsForgotten
  <2> QED
    BY <2>1, <2>2
<1> QED
  BY <1>2, <1>3, <1>4 DEF StopStep

LEMMA HandlerSteps ==
  ASSUME IInv, NEW e \in Events, Receive(e) \/ HandlerStep(e)
  PROVE  IInv'
<1> USE RoutineFacts, WatchersAssumption DEF IInv, OfferInv, TypeOK
<1>1. CASE Receive(e) \/ RLock(e) \/ Offer(e) \/ GivesUp(e) \/ RUnlock(e)
  <2>1. UNCHANGED <<watchers, closed, gone, pc, pending, panicked>>
    BY <1>1 DEF Receive, RLock, Offer, GivesUp, RUnlock
  <2>2. PlaceInv' /\ OpenIsRegistered' /\ ClosedIsForgotten'
    BY <2>1 DEF PlaceInv, OpenIsRegistered, ClosedIsForgotten
  <2>3. CASE Receive(e)
    BY <2>1, <2>2, <2>3 DEF Receive, OfferedAreRegistered, Readers
  <2>4. CASE RLock(e)
    BY <2>1, <2>2, <2>4 DEF RLock, OfferedAreRegistered, Readers
  <2>5. CASE Offer(e)
    BY <2>1, <2>2, <2>5 DEF Offer, OfferedAreRegistered, Readers
  <2>6. CASE GivesUp(e)
    BY <2>1, <2>2, <2>6 DEF GivesUp, OfferedAreRegistered, Readers
  <2>7. CASE RUnlock(e)
    BY <2>1, <2>2, <2>7 DEF RUnlock, OfferedAreRegistered, Readers
  <2> QED
    BY <1>1, <2>3, <2>4, <2>5, <2>6, <2>7
<1>2. ASSUME NEW s \in Streams, Deliver(e, s)
      PROVE  IInv'
  <2>1. TypeOK' /\ OfferInv' /\ OfferedAreRegistered'
    BY <1>2 DEF Deliver, Goto, LoopPCs, AidePCs, OfferedAreRegistered, Readers
  <2>2. PlaceInv' /\ OpenIsRegistered' /\ ClosedIsForgotten'
    BY <1>2 DEF Deliver, Goto, PlaceInv, OpenIsRegistered, ClosedIsForgotten
  <2> QED
    BY <2>1, <2>2
<1> QED
  BY <1>1, <1>2 DEF HandlerStep

LEMMA StepIInv == IInv /\ [Next]_vars => IInv'
<1>1. CASE UNCHANGED vars
  BY <1>1 DEF vars, IInv, OfferInv, TypeOK, PlaceInv, OfferedAreRegistered, Readers,
     OpenIsRegistered, ClosedIsForgotten
<1>2. CASE Next
  BY <1>2, QuietSteps, RegisterStep, LockStep, StopSteps, HandlerSteps DEF Next, StreamStep
<1> QED
  BY <1>1, <1>2

\* The invariant holds in every state of every behaviour.
THEOREM Invariance == Spec => []IInv
  BY InitIInv, StepIInv, PTL DEF Spec

\* The variables keep their types, and mtx is locked only for a goroutine that is
\* to change the map.
THEOREM TypeCorrectness == Spec => []TypeOK
<1>1. IInv => TypeOK
  BY DEF IInv
<1> QED
  BY <1>1, Invariance, PTL

\* Watcher ranges over the live slice, and while it does nothing it has yet to
\* offer the event to is taken from the map.
THEOREM OfferedTheorem == Spec => []OfferedAreRegistered
<1>1. IInv => OfferedAreRegistered
  BY DEF IInv
<1> QED
  BY <1>1, Invariance, PTL

\* A stream is in the map from Watch to its own Stop.
THEOREM OpenTheorem == Spec => []OpenIsRegistered
<1>1. IInv => OpenIsRegistered
  BY DEF IInv
<1> QED
  BY <1>1, Invariance, PTL

\* A stopped watcher is in the map only while the goroutine that closed it is about
\* to remove it, whichever of the two that is and even if both do.
THEOREM ForgottenTheorem == Spec => []ClosedIsForgotten
<1>1. IInv => ClosedIsForgotten
  BY DEF IInv
<1> QED
  BY <1>1, Invariance, PTL

-----------------------------------------------------------------------------
(***************************************************************************)
(* The streams and events of a key implement ConfigFeed.  What changes the *)
(* map under its lock is Register and Leave, to take the read lock is      *)
(* Announce, the rendezvous of Deliver is Send and the end of its          *)
(* patience Miss; every other step is a stutter.                           *)
(***************************************************************************)

\* A step that leaves the map and the handlers alone, and takes no loop across what a
\* feed tells of it, is invisible in the feed.
LEMMA FeedStutter ==
  ASSUME UNCHANGED <<watchers, todo, offered, handling>>,
         \A s \in Streams :
           /\ pc[Loop(s)] = "send" <=> pc'[Loop(s)] = "send"
           /\ s \notin watchers =>
                (pc[Loop(s)] \in {"idle", "register"} <=> pc'[Loop(s)] \in {"idle", "register"})
  PROVE  UNCHANGED Feed!fvars
BY DEF Feed!fvars

\* The steps of a stream: its place in the map and the end of a Send show in the feed,
\* the rest of what its two goroutines do does not.
LEMMA StreamFeeds ==
  ASSUME IInv, NEW s \in Streams,
         \/ Open(s) \/ StreamStep(s) \/ SendReturns(s) \/ ContextDone(s)
  PROVE  [Feed!FeedNext]_(Feed!fvars)
<1> USE RoutineFacts DEF IInv, TypeOK
<1>1. CASE Open(s) \/ NextStopped(s) \/ ContextDone(s) \/ AideWakes(s)
  <2>1. UNCHANGED <<watchers, todo, offered, handling>>
    BY <1>1 DEF Open, NextStopped, ContextDone, AideWakes
  <2>2. \A t \in Streams :
          /\ pc[Loop(t)] = "send" <=> pc'[Loop(t)] = "send"
          /\ pc[Loop(t)] \in {"idle", "register"} <=> pc'[Loop(t)] \in {"idle", "register"}
    BY <1>1 DEF Open, NextStopped, ContextDone, AideWakes, Goto
  <2> QED BY <2>1, <2>2, FeedStutter
<1>2. CASE SendReturns(s)
  <2>1. UNCHANGED <<watchers, todo, offered, handling>> /\ pc[Loop(s)] = "send"
    BY <1>2 DEF SendReturns
  <2>2. pc'[Loop(s)] \in {"next", "stop"}
    BY <1>2 DEF SendReturns, Goto
  <2>3. \A t \in Streams : t # s => pc'[Loop(t)] = pc[Loop(t)]
    BY <1>2 DEF SendReturns, Goto
  <2>4. Feed!Sent(s)
    BY <2>1, <2>2, <2>3 DEF Feed!Sent
  <2> QED BY <2>4 DEF Feed!FeedNext
<1>3. CASE Register(s)
  <2>1. UNCHANGED <<todo, offered, handling>> /\ watchers' = watchers \cup {s}
    BY <1>3 DEF Register
  <2>2. pc[Loop(s)] = "register" /\ pc'[Loop(s)] = "next" /\ Readers = {}
    BY <1>3 DEF Register, Locked
  <2>3. \A t \in Streams : t # s => pc'[Loop(t)] = pc[Loop(t)]
    BY <1>3 DEF Register
  <2>4. CASE s \in watchers
    BY <2>1, <2>2, <2>3, <2>4, FeedStutter
  <2>5. CASE s \notin watchers
    <3>1. Feed!NobodyOffers
      BY <2>2 DEF Readers, Feed!NobodyOffers
    <3>2. Feed!Register(s)
      BY <2>1, <2>2, <2>3, <2>5, <3>1 DEF Feed!Register
    <3> QED BY <3>2 DEF Feed!FeedNext
  <2> QED BY <2>4, <2>5
<1>4. ASSUME NEW g \in {Loop(s), Aide(s)}, Lock(g) \/ StopChecks(g) \/ StopCloses(g)
      PROVE  [Feed!FeedNext]_(Feed!fvars)
  <2>1. UNCHANGED <<watchers, todo, offered, handling>>
    BY <1>4 DEF Lock, StopChecks, StopCloses
  <2>2. \A t \in Streams :
          /\ pc[Loop(t)] = "send" <=> pc'[Loop(t)] = "send"
          /\ pc[Loop(t)] \in {"idle", "register"} <=> pc'[Loop(t)] \in {"idle", "register"}
    BY <1>4 DEF Lock, StopChecks, StopCloses, Goto
  <2> QED BY <2>1, <2>2, FeedStutter
<1>5. ASSUME NEW g \in {Loop(s), Aide(s)}, StopRemoves(g)
      PROVE  [Feed!FeedNext]_(Feed!fvars)
  <2>1. UNCHANGED <<todo, offered, handling>> /\ watchers' = watchers \ {s} /\ Readers = {}
    BY <1>5 DEF StopRemoves, Locked
  <2>2. \A t \in Streams :
          /\ pc[Loop(t)] = "send" <=> pc'[Loop(t)] = "send"
          /\ pc[Loop(t)] \in {"idle", "register"} <=> pc'[Loop(t)] \in {"idle", "register"}
    BY <1>5 DEF StopRemoves, Goto
  <2>3. pc[Loop(s)] \notin {"idle", "register"}
    BY <1>5 DEF StopRemoves, PlaceInv
  <2>4. CASE s \notin watchers
    BY <2>1, <2>2, <2>4, FeedStutter
  <2>5. CASE s \in watchers
    <3>1. Feed!NobodyOffers
      BY <2>1 DEF Readers, Feed!NobodyOffers
    <3>2. Feed!Leave(s)
      BY <2>1, <2>2, <2>3, <2>5, <3>1 DEF Feed!Leave
    <3> QED BY <3>2 DEF Feed!FeedNext
  <2> QED BY <2>4, <2>5
<1> QED BY <1>1, <1>2, <1>3, <1>4, <1>5 DEF StreamStep, StopStep

\* The watchers that may still be sent each event.
Audience == [e \in Events |-> todo[e] \cup ({offered[e]} \ {None})]

\* A watcher that takes an event, or does not in time, is out of its audience.
LEMMA CrossedOff ==
  ASSUME NEW e \in Events, NEW s \in Streams,
         offered[e] = s, offered'[e] = None, s \notin todo[e], todo' = todo,
         \A f \in Events : f # e => offered'[f] = offered[f]
  PROVE  s \in Audience[e] /\ Audience' = [Audience EXCEPT ![e] = @ \ {s}]
<1>1. s # None
  BY WatchersAssumption
<1>2. {offered[e]} \ {None} = {s} /\ {offered'[e]} \ {None} = {}
  BY <1>1
<1>3. todo[e] \cup {} = (todo[e] \cup {s}) \ {s}
  OBVIOUS
<1>4. Audience[e] = todo[e] \cup {s}
  BY <1>2 DEF Audience
<1>5. Audience'[e] = todo[e] \cup {}
  BY <1>2 DEF Audience
<1>6. \A f \in Events : f # e => Audience'[f] = Audience[f]
  BY DEF Audience
<1>7. Audience' = [f \in Events |-> Audience'[f]]
  BY DEF Audience
<1>8. Audience = [f \in Events |-> Audience[f]]
  BY DEF Audience
<1>9. s \in Audience[e]
  BY <1>4
<1> QED BY ONLY <1>3, <1>4, <1>5, <1>6, <1>7, <1>8, <1>9

\* The steps of the handler of an event.
LEMMA HandlerFeeds ==
  ASSUME IInv, NEW e \in Events, Receive(e) \/ HandlerStep(e)
  PROVE  [Feed!FeedNext]_(Feed!fvars)
<1> USE RoutineFacts, WatchersAssumption DEF IInv, TypeOK, OfferInv
<1>1. CASE Receive(e)
  BY <1>1 DEF Receive, Feed!fvars
<1>2. CASE RLock(e)
  <2>1. Feed!Registered = watchers
    BY DEF Feed!Registered
  <2>2. Feed!Announce(e)
    BY <1>2, <2>1 DEF RLock, Feed!Announce
  <2> QED BY <2>2 DEF Feed!FeedNext
<1>3. CASE Offer(e)
  <2>1. \A f \in Events : todo'[f] \cup ({offered'[f]} \ {None})
                             = todo[f] \cup ({offered[f]} \ {None})
    BY <1>3 DEF Offer
  <2> QED BY <1>3, <2>1 DEF Offer, Feed!fvars
<1>4. CASE \E s \in Streams : Deliver(e, s)
  <2>1. PICK s \in Streams : Deliver(e, s)
    BY <1>4
  <2>2. UNCHANGED <<watchers, handling, todo>> /\ offered[e] = s /\ offered'[e] = None
    BY <2>1 DEF Deliver
  <2>3. pc[Loop(s)] = "next" /\ pc'[Loop(s)] = "send"
    BY <2>1 DEF Deliver, Goto
  <2>4. \A t \in Streams : t # s => pc'[Loop(t)] = pc[Loop(t)]
    BY <2>1 DEF Deliver, Goto
  <2>5. \A f \in Events : f # e => offered'[f] = offered[f]
    BY <2>1 DEF Deliver
  <2>6. handling[e] = "offering" /\ s \in watchers /\ s \notin todo[e]
    BY <2>2 DEF OfferedAreRegistered, Readers
  <2>7. s \in Audience[e] /\ Audience' = [Audience EXCEPT ![e] = @ \ {s}]
    BY <2>2, <2>5, <2>6, CrossedOff
  <2>8. {t \in Streams : pc'[Loop(t)] = "send"} = {t \in Streams : pc[Loop(t)] = "send"} \cup {s}
    BY <2>3, <2>4
  <2>9. UNCHANGED [t \in Streams |-> IF t \in watchers THEN "registered"
                                     ELSE IF pc[Loop(t)] \in {"idle", "register"} THEN "new"
                                     ELSE "left"]
    BY <2>2, <2>3, <2>4
  <2> HIDE DEF IInv, TypeOK, OfferInv
  <2>10. Feed!Send(e, s)
    BY <2>2, <2>3, <2>6, <2>7, <2>8, <2>9 DEF Feed!Send, Audience
  <2> QED BY <2>10 DEF Feed!FeedNext
<1>5. CASE GivesUp(e)
  <2>1. PICK s \in Streams : offered[e] = s
    BY <1>5 DEF GivesUp
  <2>2. handling[e] = "offering" /\ s \notin todo[e]
    BY <2>1
  <2>3. s \in Audience[e] /\ Audience' = [Audience EXCEPT ![e] = @ \ {s}]
    BY <1>5, <2>1, <2>2, CrossedOff DEF GivesUp
  <2>4. UNCHANGED <<watchers, pc, handling>>
    BY <1>5 DEF GivesUp
  <2> HIDE DEF IInv, TypeOK, OfferInv
  <2>5. Feed!Miss(e, s)
    BY <2>2, <2>3, <2>4 DEF Feed!Miss, Audience
  <2> QED BY <2>5 DEF Feed!FeedNext
<1>6. CASE RUnlock(e)
  <2>1. Feed!Finish(e)
    BY <1>6 DEF RUnlock, Feed!Finish
  <2> QED BY <2>1 DEF Feed!FeedNext
<1> QED BY <1>1, <1>2, <1>3, <1>4, <1>5, <1>6 DEF HandlerStep

\* The Watch streams keep what ConfigFeed promises of them: each event reaches a stream
\* at most once, and only one that was registered when the event came and still is.
THEOREM Implementation == Spec => ImplementsFeed
<1>1. Init => Feed!FeedInit
  BY RoutineFacts DEF Init, Feed!FeedInit
<1>2. IInv /\ [Next]_vars => [Feed!FeedNext]_(Feed!fvars)
  <2>1. CASE Next
    BY <2>1, StreamFeeds, HandlerFeeds DEF Next
  <2>2. CASE UNCHANGED vars
    BY <2>2 DEF vars, Feed!fvars
  <2> QED BY <2>1, <2>2
<1> QED BY <1>1, <1>2, Invariance, PTL DEF Spec, ImplementsFeed, Feed!FeedSpec
=============================================================================
