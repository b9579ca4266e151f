-------------------------- MODULE RuntimeScheduler ---------------------------
(***************************************************************************)
(* The scheduler of the runtime (service/runtime/scheduler), which turns   *)
(* changes of a folder into notifications, and initScheduler               *)
(* (internal/platform), which turns each notification into an event for    *)
(* every service.  Channels that hold the same thing again and again are   *)
(* numbers here.                                                           *)
(***************************************************************************)
EXTENDS Naturals, Sequences, SequencesExt

CONSTANTS
  InitServices,     \* services of initScheduler, in order
  ChannelSize,      \* the capacity of update, notify and evChan (32)
  MaxFileChanges    \* bound on changes of the folder

ASSUME SchedulerAssumption ==
  ChannelSize \in Nat \ {0} /\ MaxFileChanges \in Nat /\ InitServices \in Seq(STRING)

VARIABLES
  running,       \* run: "no", "yes", "ended", or "panic" of the whole process
  closing,       \* Close: "no", "exit" is closed, or "done" with the watcher, too
  watcherOpen,   \* n.fsnotify is open
  replaced,      \* history: n.fsnotify has been replaced
  fileChanges,   \* changes of the folder so far
  fsEvents,      \* events of the watcher that nobody has received yet
  update, notify,  \* the two channels
  forwarding,    \* the services initScheduler is still to send the event to
  evChan,        \* its channel
  unaware        \* history: services that have had no event since the last change

schedulerVars == <<running, closing, watcherOpen, replaced, fileChanges, fsEvents, update, notify,
                   forwarding, evChan, unaware>>

\* Mutant: the capacity is not looked at.
OfferAlways(n) == n + 1

\* A send that gives up if the channel is full.
Offer(n) == IF n < ChannelSize THEN n + 1 ELSE n

-----------------------------------------------------------------------------
FileChanges ==
  /\ fileChanges < MaxFileChanges /\ fileChanges' = fileChanges + 1
  /\ watcherOpen
  /\ fsEvents' = fsEvents + 1
  /\ unaware' = ToSet(InitServices)
  /\ UNCHANGED <<running, closing, watcherOpen, replaced, update, notify, forwarding, evChan>>

\* Notify of both, before Close: run is started once.
Notify ==
  /\ closing = "no" /\ running = "no"
  /\ running' = "yes"
  /\ UNCHANGED <<closing, watcherOpen, replaced, fileChanges, fsEvents, update, notify, forwarding,
                 evChan, unaware>>

CloseExit ==
  /\ running # "panic" /\ closing = "no" /\ closing' = "exit"
  /\ UNCHANGED <<running, watcherOpen, replaced, fileChanges, fsEvents, update, notify, forwarding,
                 evChan, unaware>>

CloseWatcher ==
  /\ running # "panic" /\ closing = "exit" /\ closing' = "done"
  /\ watcherOpen' = FALSE /\ fsEvents' = 0
  /\ UNCHANGED <<running, replaced, fileChanges, update, notify, forwarding, evChan, unaware>>

-----------------------------------------------------------------------------
(***************************************************************************)
(* run: whichever channel is ready.  A closed channel always is.           *)
(***************************************************************************)
RunExits ==
  /\ running = "yes" /\ closing # "no"
  /\ running' = "ended"
  /\ UNCHANGED <<closing, watcherOpen, replaced, fileChanges, fsEvents, update, notify, forwarding,
                 evChan, unaware>>

RunUpdate ==
  /\ running = "yes" /\ update > 0
  /\ update' = update - 1 /\ notify' = Offer(notify)
  /\ UNCHANGED <<running, closing, watcherOpen, replaced, fileChanges, fsEvents, forwarding, evChan,
                 unaware>>

RunFsEvent ==
  /\ running = "yes" /\ (fsEvents > 0 \/ ~watcherOpen)
  /\ fsEvents' = IF fsEvents > 0 THEN fsEvents - 1 ELSE 0
  /\ update' = Offer(update)
  /\ UNCHANGED <<running, closing, watcherOpen, replaced, fileChanges, notify, forwarding, evChan,
                 unaware>>

\* An error of the watcher, or its closed channel of errors: what the old one
\* had to tell is lost.  Nobody looks whether there is a new one; if not, using
\* it panics.  (One error of an open watcher is the bound.)
RunFsError ==
  /\ running = "yes" /\ (~watcherOpen \/ ~replaced)
  /\ replaced' = TRUE /\ fsEvents' = 0
  /\ \/ watcherOpen' = TRUE /\ UNCHANGED running
     \/ watcherOpen' = FALSE /\ running' = "panic"
  /\ UNCHANGED <<closing, fileChanges, update, notify, forwarding, evChan, unaware>>

-----------------------------------------------------------------------------
(***************************************************************************)
(* initScheduler.Notify: the goroutine, which waits for room in evChan.    *)
(***************************************************************************)
ForwardTakes ==
  /\ running \notin {"no", "panic"} /\ notify > 0 /\ forwarding = <<>>
  /\ notify' = notify - 1 /\ forwarding' = InitServices
  /\ UNCHANGED <<running, closing, watcherOpen, replaced, fileChanges, fsEvents, update, evChan, unaware>>

ForwardSends ==
  /\ running # "panic" /\ forwarding # <<>> /\ Len(evChan) < ChannelSize
  /\ evChan' = Append(evChan, Head(forwarding))
  /\ forwarding' = Tail(forwarding)
  /\ UNCHANGED <<running, closing, watcherOpen, replaced, fileChanges, fsEvents, update, notify, unaware>>

RuntimeTakes ==
  /\ running # "panic" /\ evChan # <<>>
  /\ evChan' = Tail(evChan)
  /\ unaware' = unaware \ {Head(evChan)}
  /\ UNCHANGED <<running, closing, watcherOpen, replaced, fileChanges, fsEvents, update, notify, forwarding>>

-----------------------------------------------------------------------------
SchedulerInit ==
  /\ running = "no" /\ closing = "no" /\ watcherOpen = TRUE /\ replaced = FALSE
  /\ fileChanges = 0 /\ fsEvents = 0 /\ update = 0 /\ notify = 0
  /\ forwarding = <<>> /\ evChan = <<>> /\ unaware = {}

SchedulerProceeds ==
  \/ RunUpdate \/ RunFsEvent \/ ForwardTakes \/ ForwardSends \/ RuntimeTakes \/ CloseWatcher

SchedulerNext ==
  \/ SchedulerProceeds \/ RunExits \/ RunFsError
  \/ FileChanges \/ Notify \/ CloseExit

-----------------------------------------------------------------------------
SchedulerTypeOK ==
  /\ running \in {"no", "yes", "ended", "panic"} /\ closing \in {"no", "exit", "done"}
  /\ watcherOpen \in BOOLEAN /\ replaced \in BOOLEAN
  /\ fileChanges \in 0 .. MaxFileChanges /\ fsEvents \in Nat
  /\ update \in 0 .. ChannelSize /\ notify \in 0 .. ChannelSize
  /\ forwarding \in Seq(ToSet(InitServices))
  /\ evChan \in Seq(ToSet(InitServices)) /\ Len(evChan) <= ChannelSize
  /\ unaware \subseteq ToSet(InitServices)

(***************************************************************************)
(* run and initScheduler: however many notifications are given up, each    *)
(* service gets an event after the last change of the folder, unless the   *)
(* scheduler is closed or the watcher was replaced before its events were  *)
(* read.                                                                   *)
(***************************************************************************)
ChangesReachServices ==
  \A s \in ToSet(InitServices) :
    (running = "yes" /\ s \in unaware) ~> (s \notin unaware \/ closing # "no" \/ replaced)

(***************************************************************************)
(* Close and run: a closed scheduler stops running, although the channels  *)
(* of the closed watcher are always ready, too - which is also how it may  *)
(* come to panic, for want of a new watcher that it no longer needs.       *)
(***************************************************************************)
SchedulerCloses == (running = "yes" /\ closing # "no") ~> running \in {"ended", "panic"}
=============================================================================
