---------------------------- MODULE ConfigWatchers ----------------------------
(***************************************************************************)
(* The Watch streams of one replica of the config service, and the events  *)
(* handed to them (service/config/handler/watcher.go; Watch and Watcher of *)
(* handler.go), for one key of the watchers map.                           *)
(*                                                                         *)
(* A stream is served by two goroutines: the loop that waits in Next and   *)
(* sends, and the aide that waits for the end of the stream's context.     *)
(* Either may call Stop.  An event is handled by a goroutine of its own,   *)
(* which holds the read lock of mtx while it offers the event to one       *)
(* watcher after the other, for at most 100 milliseconds each.             *)
(***************************************************************************)
EXTENDS Naturals

CONSTANTS
  Streams,  \* calls of Watch; each has a watcher of its own
  Events,   \* messages on the watch topic
  None      \* no goroutine, no stream

Roles == {"loop", "aide"}
Routines == Streams \X Roles
Loop(s) == <<s, "loop">>
Aide(s) == <<s, "aide">>

ASSUME WatchersAssumption == None \notin Routines /\ None \notin Streams

VARIABLES
  watchers,  \* the registered watchers
  closed,    \* the watchers whose exit channel is closed
  gone,      \* the streams whose context is done
  pc,        \* where each goroutine of each stream is
  pending,   \* the goroutine that mtx is being locked for, which keeps readers out
  handling,  \* where the handler of each event is
  todo,      \* the watchers it has yet to offer the event to
  offered,   \* the watcher it offers the event to
  panicked   \* a channel was closed twice

vars == <<watchers, closed, gone, pc, pending, handling, todo, offered, panicked>>

Readers == {e \in Events : handling[e] = "offering"}

Goto(g, place) == pc' = [pc EXCEPT ![g] = place]

-----------------------------------------------------------------------------
(***************************************************************************)
(* mtx.Lock, in two steps: from the first on no reader comes in, and the   *)
(* second waits for those that are in.  What is done under the lock does   *)
(* not block and is part of the second.                                    *)
(***************************************************************************)
Lock(g) ==
  /\ pc[g] \in {"register", "remove"}
  /\ pending = None
  /\ pending' = g
  /\ UNCHANGED <<watchers, closed, gone, pc, handling, todo, offered, panicked>>

Locked(g) == pending = g /\ Readers = {}

\* A client calls Watch.
Open(s) ==
  /\ pc[Loop(s)] = "idle"
  /\ Goto(Loop(s), "register")
  /\ UNCHANGED <<watchers, closed, gone, pending, handling, todo, offered, panicked>>

Register(s) ==
  /\ pc[Loop(s)] = "register"
  /\ Locked(Loop(s))
  /\ watchers' = watchers \cup {s}
  /\ pending' = None
  /\ pc' = [pc EXCEPT ![Loop(s)] = "next", ![Aide(s)] = "wait"]
  /\ UNCHANGED <<closed, gone, handling, todo, offered, panicked>>

-----------------------------------------------------------------------------
(***************************************************************************)
(* watcher.Stop.  Whether exit is closed is one step, to close it the      *)
(* next; to close it again is a panic, and the end of the process.         *)
(***************************************************************************)
StopChecks(g) ==
  /\ pc[g] = "stop"
  /\ Goto(g, IF g[1] \in closed THEN "ended" ELSE "close")
  /\ UNCHANGED <<watchers, closed, gone, pending, handling, todo, offered, panicked>>

StopCloses(g) ==
  /\ pc[g] = "close"
  /\ closed' = closed \cup {g[1]}
  /\ panicked' = (g[1] \in closed)
  /\ Goto(g, "remove")
  /\ UNCHANGED <<watchers, gone, pending, handling, todo, offered>>

\* Mutant: mtx is locked without waiting for the handlers that read.
StopRemovesNow(g) ==
  /\ pc[g] = "remove"
  /\ pending = g
  /\ watchers' = watchers \ {g[1]}
  /\ pending' = None
  /\ Goto(g, "ended")
  /\ UNCHANGED <<closed, gone, handling, todo, offered, panicked>>

\* Mutant: nothing is removed while there are handlers that read.
StopRemovesIfFree(g) ==
  /\ pc[g] = "remove"
  /\ pending = g
  /\ watchers' = IF Readers = {} THEN watchers \ {g[1]} ELSE watchers
  /\ pending' = None
  /\ Goto(g, "ended")
  /\ UNCHANGED <<closed, gone, handling, todo, offered, panicked>>

\* Mutant: mtx is not unlocked.
StopKeepsLock(g) ==
  /\ pc[g] = "remove"
  /\ Locked(g)
  /\ watchers' = watchers \ {g[1]}
  /\ Goto(g, "ended")
  /\ UNCHANGED <<closed, gone, pending, handling, todo, offered, panicked>>

StopRemoves(g) ==
  /\ pc[g] = "remove"
  /\ Locked(g)
  /\ watchers' = watchers \ {g[1]}
  /\ pending' = None
  /\ Goto(g, "ended")
  /\ UNCHANGED <<closed, gone, handling, todo, offered, panicked>>

-----------------------------------------------------------------------------
(***************************************************************************)
(* The loop of Watch, beside Next's case of an event, which is Deliver.    *)
(* An error of Next or of Send returns, and Watch defers Stop.             *)
(***************************************************************************)
NextStopped(s) ==
  /\ pc[Loop(s)] = "next"
  /\ s \in closed
  /\ Goto(Loop(s), "stop")
  /\ UNCHANGED <<watchers, closed, gone, pending, handling, todo, offered, panicked>>

\* Send may block as long as the stream's context is not done.
SendReturns(s) ==
  /\ pc[Loop(s)] = "send"
  /\ \E place \in {"next", "stop"} : Goto(Loop(s), place)
  /\ UNCHANGED <<watchers, closed, gone, pending, handling, todo, offered, panicked>>

\* The client goes away, or the call has returned.
ContextDone(s) ==
  /\ pc[Loop(s)] # "idle"
  /\ s \notin gone
  /\ gone' = gone \cup {s}
  /\ UNCHANGED <<watchers, closed, pc, pending, handling, todo, offered, panicked>>

\* Mutant: the aide closes the stream and does not stop the watcher.
AideClosesOnly(s) ==
  /\ pc[Aide(s)] = "wait"
  /\ s \in gone
  /\ Goto(Aide(s), "ended")
  /\ UNCHANGED <<watchers, closed, gone, pending, handling, todo, offered, panicked>>

AideWakes(s) ==
  /\ pc[Aide(s)] = "wait"
  /\ s \in gone
  /\ Goto(Aide(s), "stop")
  /\ UNCHANGED <<watchers, closed, gone, pending, handling, todo, offered, panicked>>

-----------------------------------------------------------------------------
(***************************************************************************)
(* Watcher, the subscriber of the watch topic.  The watchers are offered   *)
(* the event in some order.                                                *)
(***************************************************************************)
Receive(e) ==
  /\ handling[e] = "none"
  /\ handling' = [handling EXCEPT ![e] = "locking"]
  /\ UNCHANGED <<watchers, closed, gone, pc, pending, todo, offered, panicked>>

RLock(e) ==
  /\ handling[e] = "locking"
  /\ pending = None
  /\ handling' = [handling EXCEPT ![e] = "offering"]
  /\ todo' = [todo EXCEPT ![e] = watchers]
  /\ UNCHANGED <<watchers, closed, gone, pc, pending, offered, panicked>>

Offer(e) ==
  /\ handling[e] = "offering"
  /\ offered[e] = None
  /\ \E s \in todo[e] : /\ offered' = [offered EXCEPT ![e] = s]
                        /\ todo' = [todo EXCEPT ![e] = @ \ {s}]
  /\ UNCHANGED <<watchers, closed, gone, pc, pending, handling, panicked>>

\* The next channel has no buffer: the loop receives where the handler sends.
Deliver(e, s) ==
  /\ offered[e] = s
  /\ pc[Loop(s)] = "next"
  /\ Goto(Loop(s), "send")
  /\ offered' = [offered EXCEPT ![e] = None]
  /\ UNCHANGED <<watchers, closed, gone, pending, handling, todo, panicked>>

\* Mutant: the handler waits until the watcher takes the event, or has stopped.
GivesUpStopped(e) ==
  /\ offered[e] # None
  /\ pc[Loop(offered[e])] = "ended"
  /\ offered' = [offered EXCEPT ![e] = None]
  /\ UNCHANGED <<watchers, closed, gone, pc, pending, handling, todo, panicked>>

\* After 100 milliseconds.
GivesUp(e) ==
  /\ offered[e] # None
  /\ offered' = [offered EXCEPT ![e] = None]
  /\ UNCHANGED <<watchers, closed, gone, pc, pending, handling, todo, panicked>>

RUnlock(e) ==
  /\ handling[e] = "offering"
  /\ offered[e] = None /\ todo[e] = {}
  /\ handling' = [handling EXCEPT ![e] = "done"]
  /\ UNCHANGED <<watchers, closed, gone, pc, pending, todo, offered, panicked>>

-----------------------------------------------------------------------------
Init ==
  /\ watchers = {}
  /\ closed = {}
  /\ gone = {}
  /\ pc = [g \in Routines |-> "idle"]
  /\ pending = None
  /\ handling = [e \in Events |-> "none"]
  /\ todo = [e \in Events |-> {}]
  /\ offered = [e \in Events |-> None]
  /\ panicked = FALSE

\* What a goroutine of a stream does by itself, and what the handler of an event does.
StopStep(g) == StopChecks(g) \/ StopCloses(g) \/ StopRemoves(g)
StreamStep(s) ==
  \/ Register(s) \/ NextStopped(s) \/ AideWakes(s)
  \/ \E g \in {Loop(s), Aide(s)} : Lock(g) \/ StopStep(g)
HandlerStep(e) ==
  RLock(e) \/ Offer(e) \/ (\E s \in Streams : Deliver(e, s)) \/ GivesUp(e) \/ RUnlock(e)

Next ==
  /\ ~panicked
  /\ \/ \E s \in Streams : Open(s) \/ StreamStep(s) \/ SendReturns(s) \/ ContextDone(s)
     \/ \E e \in Events : Receive(e) \/ HandlerStep(e)

(***************************************************************************)
(* Goroutines run, the mutex is fair, and Send fails in the end on a       *)
(* stream whose context is done.  Nobody need open a stream, and a client  *)
(* need not read or leave.                                                 *)
(***************************************************************************)
Fairness ==
  /\ \A s \in Streams :
       /\ WF_vars(~panicked /\ (Register(s) \/ NextStopped(s)))
       /\ WF_vars(~panicked /\ AideWakes(s))
       /\ WF_vars(~panicked /\ s \in gone /\ SendReturns(s))
       /\ \A g \in {Loop(s), Aide(s)} :
            WF_vars(~panicked /\ StopStep(g)) /\ WF_vars(~panicked /\ Lock(g))
  /\ \A e \in Events : WF_vars(~panicked /\ HandlerStep(e))

Spec == Init /\ [][Next]_vars /\ Fairness

-----------------------------------------------------------------------------
LoopPCs == {"idle", "register", "next", "send", "stop", "close", "remove", "ended"}
AidePCs == {"idle", "wait", "stop", "close", "remove", "ended"}

\* The types of the variables, where a goroutine can be, and that mtx is locked only
\* for one that is to change the map (watcher.go, handler.go).
TypeOK ==
  /\ watchers \subseteq Streams
  /\ closed \subseteq Streams
  /\ gone \subseteq Streams
  /\ pc \in [Routines -> LoopPCs \cup AidePCs]
  /\ \A s \in Streams : pc[Loop(s)] \in LoopPCs /\ pc[Aide(s)] \in AidePCs
  /\ pending \in Routines \cup {None}
  /\ handling \in [Events -> {"none", "locking", "offering", "done"}]
  /\ todo \in [Events -> SUBSET Streams]
  /\ offered \in [Events -> Streams \cup {None}]
  /\ panicked \in BOOLEAN
  /\ pending # None => pc[pending] \in {"register", "remove"}

\* While an event is being offered no watcher it is still to be offered to leaves
\* the map: Stop waits for the read lock (Watcher ranges over the live slice).
OfferedAreRegistered ==
  \A e \in Readers : todo[e] \cup ({offered[e]} \ {None}) \subseteq watchers

\* The streams and events of the key, seen as the feed that ConfigFeed describes: a
\* stream that is not in the map has left it, unless it has yet to be put there, and an
\* event is for the watchers it is offered to or is yet to be offered to.
Feed == INSTANCE ConfigFeed WITH
  stage    <- [s \in Streams |-> IF s \in watchers THEN "registered"
                                 ELSE IF pc[Loop(s)] \in {"idle", "register"} THEN "new"
                                 ELSE "left"],
  busy     <- {s \in Streams : pc[Loop(s)] = "send"},
  phase    <- [e \in Events |-> IF handling[e] = "locking" THEN "none" ELSE handling[e]],
  audience <- [e \in Events |-> todo[e] \cup ({offered[e]} \ {None})]

\* Watcher, Next and Stop keep what ConfigFeed says: an event is sent at most once to a
\* stream, and only to one that was registered when it was announced and still is.
ImplementsFeed == Feed!FeedSpec

\* A stream keeps its place in the map until its own watcher is stopped, whatever
\* the other streams do.
OpenIsRegistered ==
  \A s \in Streams :
    pc[Loop(s)] \notin {"idle", "register"} /\ s \notin closed => s \in watchers

\* A stopped watcher is in the map only as long as a goroutine is about to remove it:
\* the map does not collect the watchers of streams that are over.
ClosedIsForgotten ==
  \A s \in closed \cap watchers : \E g \in {Loop(s), Aide(s)} : pc[g] = "remove"

\* "already stopped" (Stop): to stop a watcher twice is an error, not a panic.
NeverClosedTwice == ~panicked

\* A stream whose context is done ends, unless the process does: its watcher is
\* removed, its loop returns, even while events are being offered to it.
GoneStreamsEnd ==
  \A s \in Streams :
    s \in gone ~> \/ panicked
                  \/ s \notin watchers /\ pc[Loop(s)] = "ended" /\ pc[Aide(s)] = "ended"

\* The handling of an event ends: a client that does not read, or a watcher that
\* waits for mtx in order to leave, cannot hold it (nor mtx) for ever.
EventsHandled == \A e \in Events : handling[e] # "none" ~> panicked \/ handling[e] = "done"
=============================================================================
