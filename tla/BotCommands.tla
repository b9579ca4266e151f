----------------------------- MODULE BotCommands -----------------------------
(***************************************************************************)
(* The bot (client/bot): loops that receive messages and answer them with  *)
(* a command of a service, and a goroutine, watch, that keeps the map of   *)
(* the services: a delete of the registry takes its service away, whatever *)
(* nodes it has left, and any other change adds it.  The map is shared     *)
(* with the loops as b.services and then changed in place, without the     *)
(* lock.                                                                   *)
(***************************************************************************)
EXTENDS Naturals, Sequences

CONSTANTS
  BotServices,     \* services within the bot's namespace
  BotNodes,        \* nodes that a service may have
  Inputs,          \* inputs, with a loop each
  MaxBotChanges,   \* bound on changes of the registry
  MaxBotMessages   \* bound on messages

ASSUME BotAssumption == MaxBotChanges \in Nat /\ MaxBotMessages \in Nat

VARIABLES
  available,    \* <<service, node>>: what is in the registry
  botChanges,   \* changes of the registry so far
  results,      \* results for the watcher, from when Watch was called
  watcherPc,    \* where watch is
  toHelp,       \* services of the list whose help is still to be asked for
  services,     \* the map
  shared,       \* b.services is the map
  doubtful,     \* history: changed between list and watch, or gave no help
  partly,       \* history: services that last lost one node of several
  loopPc,       \* where each input's loop is
  botMessages,  \* messages received so far
  botExit,      \* b.exit is closed
  inputStop,    \* each input's Stop: "no", "done", or "failed"
  fatal         \* the process has died of a concurrent read and write

botVars == <<available, botChanges, results, watcherPc, toHelp, services, shared, doubtful,
             partly, loopPc, botMessages, botExit, inputStop, fatal>>

watchVars == <<results, watcherPc, toHelp, services, shared>>
loopVars == <<loopPc, botMessages, botExit, inputStop>>

Nodes(s) == {n \in BotNodes : <<s, n>> \in available}

Served == {s \in BotServices : Nodes(s) # {}}

Watching == watcherPc \in {"next", "delete", "create", "relock"}

\* A node of a service comes or goes: a result for the watcher, which names the
\* service.
BotRegistryChanges(s, n) ==
  /\ ~fatal /\ botChanges < MaxBotChanges /\ botChanges' = botChanges + 1
  /\ LET action == IF <<s, n>> \in available THEN "delete" ELSE "create" IN
       /\ available' = IF action = "delete" THEN available \ {<<s, n>>} ELSE available \cup {<<s, n>>}
       /\ results' = IF Watching THEN Append(results, [action |-> action, service |-> s]) ELSE results
       /\ partly' = IF Watching /\ action = "delete" /\ Nodes(s) # {n} THEN partly \cup {s}
                    ELSE partly \ {s}
  /\ doubtful' = IF watcherPc \in {"help", "lock", "watch"} THEN doubtful \cup {s} ELSE doubtful
  /\ UNCHANGED <<watcherPc, toHelp, services, shared, loopVars, fatal>>

-----------------------------------------------------------------------------
(***************************************************************************)
(* watch.  A list or a Watch that fails ends it.                           *)
(***************************************************************************)
WatchLists ==
  /\ ~fatal /\ watcherPc = "list"
  /\ \/ watcherPc' = "help" /\ toHelp' = Served
     \/ watcherPc' = "ended" /\ UNCHANGED toHelp
  /\ UNCHANGED <<available, botChanges, results, services, shared, doubtful, partly, loopVars, fatal>>

WatchHelps ==
  /\ ~fatal /\ watcherPc = "help"
  /\ IF toHelp = {} THEN watcherPc' = "lock" /\ UNCHANGED <<toHelp, services, doubtful>>
     ELSE \E s \in toHelp :
            /\ toHelp' = toHelp \ {s}
            /\ \/ services' = services \cup {s} /\ UNCHANGED doubtful
               \/ doubtful' = doubtful \cup {s} /\ UNCHANGED services
            /\ UNCHANGED watcherPc
  /\ UNCHANGED <<available, botChanges, results, shared, partly, loopVars, fatal>>

\* Lock waits until no message is being processed.
WatchShares ==
  /\ ~fatal /\ watcherPc \in {"lock", "relock"}
  /\ \A io \in Inputs : loopPc[io] # "process"
  /\ shared' = TRUE
  /\ watcherPc' = IF watcherPc = "lock" THEN "watch" ELSE "next"
  /\ UNCHANGED <<available, botChanges, results, toHelp, services, doubtful, partly, loopVars, fatal>>

WatchWatches ==
  /\ ~fatal /\ watcherPc = "watch"
  /\ watcherPc' \in {"next", "ended"}
  /\ UNCHANGED <<available, botChanges, results, toHelp, services, shared, doubtful, partly, loopVars,
                 fatal>>

WatchNext ==
  /\ ~fatal /\ watcherPc = "next"
  /\ \/ /\ results # <<>>
        /\ \/ watcherPc' = Head(results).action /\ UNCHANGED <<results, doubtful>>
           \/ /\ Head(results).action = "create"
              /\ results' = Tail(results)
              /\ doubtful' = doubtful \cup {Head(results).service}
              /\ UNCHANGED watcherPc
     \/ botExit /\ watcherPc' = "ended" /\ UNCHANGED <<results, doubtful>>
  /\ UNCHANGED <<available, botChanges, toHelp, services, shared, partly, loopVars, fatal>>

\* The map is changed: between "delete" or "create" and here it is written to.
WatchChanges ==
  /\ ~fatal /\ watcherPc \in {"delete", "create"}
  /\ services' = IF watcherPc = "delete" THEN services \ {Head(results).service}
                 ELSE services \cup {Head(results).service}
  /\ results' = Tail(results) /\ watcherPc' = "relock"
  /\ UNCHANGED <<available, botChanges, toHelp, shared, doubtful, partly, loopVars, fatal>>

-----------------------------------------------------------------------------
(***************************************************************************)
(* loop, run and process.                                                  *)
(***************************************************************************)
LoopStreams(io) ==
  /\ ~fatal /\ loopPc[io] = "loop"
  /\ loopPc' = [loopPc EXCEPT ![io] = IF botExit THEN "ended" ELSE "recv"]
  /\ UNCHANGED <<available, botChanges, watchVars, doubtful, partly, botMessages, botExit, inputStop,
                 fatal>>

\* Recv blocks until there is a message or the input is stopped.
LoopReceives(io) ==
  /\ ~fatal /\ loopPc[io] = "recv"
  /\ \/ /\ botMessages < MaxBotMessages /\ botMessages' = botMessages + 1
        /\ inputStop[io] # "done"
        /\ loopPc' = [loopPc EXCEPT ![io] = "process"]
     \/ /\ inputStop[io] = "done"
        /\ loopPc' = [loopPc EXCEPT ![io] = "loop"]
        /\ UNCHANGED botMessages
  /\ UNCHANGED <<available, botChanges, watchVars, doubtful, partly, botExit, inputStop, fatal>>

\* process reads the map, with the read lock.
LoopProcesses(io) ==
  /\ ~fatal /\ loopPc[io] = "process"
  /\ \/ loopPc' = [loopPc EXCEPT ![io] = IF botExit THEN "loop" ELSE "recv"] /\ UNCHANGED fatal
     \/ shared /\ watcherPc \in {"delete", "create"} /\ fatal' = TRUE /\ UNCHANGED loopPc
  /\ UNCHANGED <<available, botChanges, watchVars, doubtful, partly, botMessages, botExit, inputStop>>

BotExits ==
  /\ ~fatal /\ ~botExit /\ botExit' = TRUE
  /\ UNCHANGED <<available, botChanges, watchVars, doubtful, partly, loopPc, botMessages, inputStop, fatal>>

\* A Stop that fails is logged, and leaves the input as it is.
StopInput(io) ==
  /\ ~fatal /\ botExit /\ inputStop[io] = "no"
  /\ \E did \in {"done", "failed"} : inputStop' = [inputStop EXCEPT ![io] = did]
  /\ UNCHANGED <<available, botChanges, watchVars, doubtful, partly, loopPc, botMessages, botExit, fatal>>

-----------------------------------------------------------------------------
BotInit ==
  /\ available = {} /\ botChanges = 0 /\ results = <<>> /\ watcherPc = "list" /\ toHelp = {}
  /\ services = {} /\ shared = FALSE /\ doubtful = {} /\ partly = {}
  /\ loopPc = [io \in Inputs |-> "loop"] /\ botMessages = 0 /\ botExit = FALSE
  /\ inputStop = [io \in Inputs |-> "no"] /\ fatal = FALSE

BotProceeds ==
  \/ WatchLists \/ WatchHelps \/ WatchShares \/ WatchWatches \/ WatchNext \/ WatchChanges
  \/ \E io \in Inputs : LoopStreams(io) \/ LoopReceives(io) \/ LoopProcesses(io) \/ StopInput(io)

BotNext == BotProceeds \/ BotExits \/ \E s \in BotServices, n \in BotNodes : BotRegistryChanges(s, n)

-----------------------------------------------------------------------------
Results == [action : {"create", "delete"}, service : BotServices]

BotTypeOK ==
  /\ available \subseteq BotServices \X BotNodes
  /\ services \subseteq BotServices /\ partly \subseteq BotServices
  /\ results \in Seq(Results)
  /\ toHelp \subseteq BotServices /\ doubtful \subseteq BotServices
  /\ watcherPc \in {"list", "help", "lock", "watch", "next", "delete", "create", "relock", "ended"}
  /\ loopPc \in [Inputs -> {"loop", "recv", "process", "ended"}]
  /\ inputStop \in [Inputs -> {"no", "done", "failed"}] /\ fatal \in BOOLEAN

\* What results tell of the registry: a service that has lost one of its nodes is
\* as good as gone.
Told == Served \ partly

(***************************************************************************)
(* watch: with no result left to read, the bot's map has the services that *)
(* the registry has, but for those that changed after the list was made    *)
(* and before the watch began, or whose help could not be had; and it has  *)
(* no longer a service that last lost a node, were it one of several.      *)
(***************************************************************************)
BotKnowsServices ==
  watcherPc \in {"next", "relock"} /\ results = <<>> =>
    \A s \in BotServices \ doubtful : s \in services <=> s \in Told

\* What it rests on: the last result of a service that is still to be read, or
\* else the map, tells what the registry has; while the list is asked for help,
\* the map and what is left of the list do.
LastResult(i) == \A j \in 1 .. Len(results) : j > i => results[j].service # results[i].service

Pending(s) == \E i \in 1 .. Len(results) : results[i].service = s

BotIInv ==
  /\ BotTypeOK
  /\ watcherPc = "list" => services = {}
  /\ watcherPc \in {"list", "help", "lock", "watch"} => results = <<>> /\ partly = {}
  /\ watcherPc \in {"lock", "watch"} => toHelp = {}
  /\ watcherPc \in {"help", "lock", "watch"} =>
       \A s \in BotServices \ doubtful : s \in services \cup toHelp <=> s \in Told
  /\ watcherPc \in {"delete", "create"} => results # <<>> /\ Head(results).action = watcherPc
  /\ Watching =>
       /\ \A s \in BotServices \ doubtful : Pending(s) \/ (s \in services <=> s \in Told)
       /\ \A i \in 1 .. Len(results) :
            LastResult(i) => (results[i].action = "create" <=> results[i].service \in Told)

(***************************************************************************)
(* stop, loop and run: a bot that is stopped ends its loops, also those    *)
(* that wait for a message, but for inputs whose Stop failed - if it has   *)
(* not died before.                                                        *)
(***************************************************************************)
BotStops ==
  botExit ~> (fatal \/ \A io \in Inputs : loopPc[io] = "ended" \/ inputStop[io] = "failed")
=============================================================================
