----------------------------- MODULE CommandLine ------------------------------
(***************************************************************************)
(* A session of the command line of micro (client/cli, internal/command,   *)
(* and the commands of service/auth and service/store/cli): one command    *)
(* whose exit status tells how it ended or, interactively, one command     *)
(* after the other, whose errors are printed and that is left by an exit.  *)
(*                                                                         *)
(* The services that a command calls change in the meantime.  A call that  *)
(* fails may have had its effect all the same.                             *)
(***************************************************************************)
EXTENDS Naturals, Sequences, FiniteSets, SequencesExt

CONSTANTS
  ServiceNodes,     \* nodes of the service that commands ask about
  Rule,             \* a rule of auth
  SyncKeys,         \* keys of the stores of `store sync`
  SyncValues,       \* their values
  NoRecord,         \* no record of a key
  MaxWorldChanges,  \* bound on changes made by others
  MaxCommands       \* bound on the commands of a session

ASSUME CommandLineAssumption ==
  /\ MaxWorldChanges \in Nat /\ MaxCommands \in Nat
  /\ IsFiniteSet(ServiceNodes) /\ IsFiniteSet(SyncKeys) /\ SyncValues # {}

VARIABLES
  world,         \* nodes registered, nodes up, rules, whether a config value
                 \* is set; the stores from and to
  worldChanges,  \* changes made by others
  session,       \* interactive or not, the command, where it is, how it ended
  toAsk,         \* nodes or keys still to be asked for
  report,        \* what the command has printed of each node
  expected       \* history: what the first answer listed

commandVars == <<world, worldChanges, session, toAsk, report, expected>>

\* The commands of an interactive session.
commands == {"register", "deregister", "call", "publish", "list", "nodes", "routes", "get", "health",
             "health at", "stats", "stream"}

\* Run: the next command of the session, or the only one.
Prompt(cmd) ==
  /\ session.at = "prompt" /\ session.commands < MaxCommands
  /\ session.interactive => cmd \in commands

\* A panic ends an interactive session, too.
Ended(cmd, code, said) ==
  [session EXCEPT !.at = IF session.interactive /\ said # "panic" THEN "prompt" ELSE "ended",
                  !.command = cmd, !.code = code, !.said = said, !.commands = @ + 1]

\* exit, or the input ends.
quit ==
  /\ session.at = "prompt" /\ session.interactive
  /\ session' \in [interactive : {TRUE}, at : {"ended"}, command : {"quit"}, code : {0, 1},
                   said : {"ok"}, commands : {session.commands}]
  /\ UNCHANGED <<world, worldChanges, toAsk, report, expected>>

\* Mutant: an error is printed and the command returns like any other.
FailsQuietly(cmd) == session' = Ended(cmd, 0, "error")

\* Print: an error is printed, and the process exits.  The loop of an
\* interactive session prints it and goes on.
Fails(cmd) == session' = Ended(cmd, 1, "error")

Succeeds(cmd) == session' = Ended(cmd, 0, "ok")

\* createRule, deleteRule, whoami and getTrace print an error and return.
SaysError(cmd) == session' = Ended(cmd, 0, "error")

\* A command that calls a service once: what the world is then, and how it ends.
\* After an error it fails or, as those four, says so.
Calls(cmd, then) ==
  /\ \/ world' = then /\ Succeeds(cmd)
     \/ world' \in {world, then} /\ Fails(cmd)
  /\ toAsk' = <<>> /\ report' = <<>> /\ expected' = <<>>
  /\ UNCHANGED worldChanges

CallsOrSays(cmd, then) ==
  /\ \/ world' = then /\ Succeeds(cmd)
     \/ world' \in {world, then} /\ SaysError(cmd)
  /\ toAsk' = <<>> /\ report' = <<>> /\ expected' = <<>>
  /\ UNCHANGED worldChanges

\* A command that its arguments make end before it calls.
Refuses(cmd, code, said) ==
  /\ session' = Ended(cmd, code, said)
  /\ toAsk' = <<>> /\ report' = <<>> /\ expected' = <<>>
  /\ UNCHANGED <<world, worldChanges>>

-----------------------------------------------------------------------------
(***************************************************************************)
(* Commands of one call.                                                   *)
(***************************************************************************)
RegisterService(n) ==
  Prompt("register") /\ \/ Calls("register", [world EXCEPT !.nodes = @ \cup {n}])
                        \/ Refuses("register", 1, "error")

DeregisterService(n) ==
  Prompt("deregister") /\ \/ Calls("deregister", [world EXCEPT !.nodes = @ \ {n}])
                          \/ Refuses("deregister", 1, "error")

CallService == Prompt("call") /\ (Calls("call", world) \/ Refuses("call", 1, "error"))

Publish == Prompt("publish") /\ (Calls("publish", world) \/ Refuses("publish", 1, "error"))

ListAllServices == Prompt("list") /\ (Calls("list", world) \/ Refuses("list", 1, "error"))

\* Without an address it does nothing, and says nothing.
NetworkConnect ==
  Prompt("connect") /\ (Calls("connect", world) \/ Refuses("connect", 0, "nothing"))

\* An answer without routes ends the process in a panic.
NetworkRoutes == Prompt("routes") /\ (Calls("routes", world) \/ Refuses("routes", 2, "panic"))

\* An answer with nothing in it is not said to have nothing.
NetworkConnections ==
  Prompt("connections") /\ (Calls("connections", world) \/ Refuses("connections", 0, "nothing"))
NetworkNodes == Prompt("nodes") /\ (Calls("nodes", world) \/ Refuses("nodes", 0, "nothing"))
NetworkServices ==
  Prompt("services") /\ (Calls("services", world) \/ Refuses("services", 0, "nothing"))
NetworkGraph == Prompt("graph") /\ Calls("graph", world)

\* A stream is printed until Recv fails, as it does when it has been read.
streamService == Prompt("stream") /\ Refuses("stream", 1, "error")

listDatabases == Prompt("databases") /\ Calls("databases", world)
listTables == Prompt("tables") /\ (Calls("tables", world) \/ Refuses("tables", 1, "error"))
listAccounts == Prompt("list accounts") /\ Calls("list accounts", world)
listRules == Prompt("list rules") /\ Calls("list rules", world)

\* The store commands, on the store from: initStore, and a call.
ReadRecord(k) ==
  /\ Prompt("read")
  /\ IF world.from[k] # NoRecord THEN Calls("read", world) ELSE Refuses("read", 1, "error")

\* Read with a prefix that nothing has.
ReadNone == Prompt("read") /\ Refuses("read", 0, "nothing")

WriteRecord(k, v) ==
  /\ Prompt("write")
  /\ Calls("write", [world EXCEPT !.from[k] = v]) \/ Refuses("write", 1, "error")

DeleteRecord(k) ==
  /\ Prompt("delete")
  /\ Calls("delete", [world EXCEPT !.from[k] = NoRecord]) \/ Refuses("delete", 1, "error")

ListRecords == Prompt("list records") /\ Calls("list records", world)

\* micro config: a value that is not there is an error.
setConfig ==
  /\ Prompt("set config")
  /\ Calls("set config", [world EXCEPT !.config = TRUE]) \/ Refuses("set config", 1, "error")

getConfig ==
  /\ Prompt("get config")
  /\ IF world.config THEN Calls("get config", world) ELSE Refuses("get config", 1, "error")

delConfig ==
  /\ Prompt("del config")
  /\ Calls("del config", [world EXCEPT !.config = FALSE]) \/ Refuses("del config", 1, "error")

createRule ==
  /\ Prompt("create rule")
  /\ \/ CallsOrSays("create rule", [world EXCEPT !.rules = {Rule}])
     \/ Refuses("create rule", 1, "error")

deleteRule ==
  /\ Prompt("delete rule")
  /\ \/ CallsOrSays("delete rule", [world EXCEPT !.rules = {}])
     \/ Refuses("delete rule", 1, "error")

\* createAccount without an id says so and returns.
createAccount ==
  /\ Prompt("create account")
  /\ \/ Calls("create account", world) \/ Refuses("create account", 0, "error")

\* Without a token, or an error that is none of the auth service's: whoami fails.
whoami == Prompt("whoami") /\ (CallsOrSays("whoami", world) \/ Refuses("whoami", 1, "error"))

\* No name of a service, no spans: getTrace says so, or nothing.
getTrace ==
  /\ Prompt("trace")
  /\ \/ CallsOrSays("trace", world)
     \/ \E said \in {"error", "nothing"} : Refuses("trace", 0, said)

-----------------------------------------------------------------------------
(***************************************************************************)
(* Commands about the nodes of a service: the registry is asked, then each *)
(* node, in the registry's order.  get only lists them.                    *)
(***************************************************************************)
NodeCommands == {"get", "health", "stats"}

QueryNodes(cmd) ==
  /\ Prompt(cmd)
  /\ \/ Refuses(cmd, 1, "error")
     \/ /\ world.nodes # {}
        /\ \E nodes \in SetToSeqs(world.nodes) :
             /\ expected' = nodes
             /\ IF cmd = "get"
                  THEN report' = nodes /\ toAsk' = <<>> /\ Succeeds(cmd)
                  ELSE /\ toAsk' = nodes /\ report' = <<>>
                       /\ session' = [session EXCEPT !.at = "ask", !.command = cmd]
        /\ UNCHANGED <<world, worldChanges>>

\* QueryHealth of one address.
HealthAt(n) ==
  /\ Prompt("health at")
  /\ IF n \in world.up THEN Calls("health at", world) ELSE Refuses("health at", 1, "error")

\* A node that does not answer is reported with its error (health), or with
\* blanks (stats).
AskNode ==
  /\ session.at = "ask" /\ session.command \in {"health", "stats"}
  /\ IF toAsk = <<>>
       THEN Succeeds(session.command) /\ UNCHANGED <<toAsk, report>>
       ELSE /\ toAsk' = Tail(toAsk) /\ report' = Append(report, Head(toAsk))
            /\ UNCHANGED session
  /\ UNCHANGED <<world, worldChanges, expected>>

-----------------------------------------------------------------------------
(***************************************************************************)
(* store sync: every key that is listed is read, and written.  An error    *)
(* ends it where it is.                                                    *)
(***************************************************************************)
SyncLists ==
  /\ Prompt("sync")
  /\ \/ Refuses("sync", 1, "error")
     \/ /\ \E keys \in SetToSeqs({k \in SyncKeys : world.from[k] # NoRecord}) :
             toAsk' = keys /\ expected' = keys
        /\ report' = <<>>
        /\ session' = [session EXCEPT !.at = "ask", !.command = "sync"]
        /\ UNCHANGED <<world, worldChanges>>

SyncCopies ==
  /\ session.at = "ask" /\ session.command = "sync" /\ toAsk # <<>>
  /\ LET k == Head(toAsk) IN
       \/ /\ world.from[k] # NoRecord
          /\ world' = [world EXCEPT !.to[k] = world.from[k]]
          /\ report' = Append(report, <<k, world.from[k]>>)
          /\ toAsk' = Tail(toAsk) /\ UNCHANGED session
       \/ Fails("sync") /\ UNCHANGED <<world, toAsk, report>>
  /\ UNCHANGED <<worldChanges, expected>>

SyncEnds ==
  /\ session.at = "ask" /\ session.command = "sync" /\ toAsk = <<>>
  /\ Succeeds("sync")
  /\ UNCHANGED <<world, worldChanges, toAsk, report, expected>>

-----------------------------------------------------------------------------
(***************************************************************************)
(* What others do meanwhile.                                               *)
(***************************************************************************)
NodeChanges(n) ==
  /\ worldChanges < MaxWorldChanges /\ worldChanges' = worldChanges + 1
  /\ \/ world' = [world EXCEPT !.up = IF n \in @ THEN @ \ {n} ELSE @ \cup {n}]
     \/ world' = [world EXCEPT !.nodes = IF n \in @ THEN @ \ {n} ELSE @ \cup {n}]
  /\ UNCHANGED <<session, toAsk, report, expected>>

FromChanges(k, v) ==
  /\ worldChanges < MaxWorldChanges /\ worldChanges' = worldChanges + 1
  /\ world' = [world EXCEPT !.from[k] = v]
  /\ UNCHANGED <<session, toAsk, report, expected>>

-----------------------------------------------------------------------------
CommandInit ==
  /\ world = [nodes |-> ServiceNodes, up |-> ServiceNodes, rules |-> {}, config |-> FALSE,
              from |-> [k \in SyncKeys |-> CHOOSE v \in SyncValues : TRUE],
              to |-> [k \in SyncKeys |-> NoRecord]]
  /\ worldChanges = 0
  /\ session \in [interactive : BOOLEAN, at : {"prompt"}, command : {"none"}, code : {0},
                  said : {"nothing"}, commands : {0}]
  /\ toAsk = <<>> /\ report = <<>> /\ expected = <<>>

CommandNext ==
  \/ \E n \in ServiceNodes : RegisterService(n) \/ DeregisterService(n) \/ HealthAt(n)
  \/ CallService \/ Publish \/ ListAllServices \/ NetworkConnect \/ NetworkRoutes
  \/ NetworkConnections \/ NetworkNodes \/ NetworkServices \/ NetworkGraph \/ streamService
  \/ listDatabases \/ listTables \/ listAccounts \/ listRules
  \/ \E k \in SyncKeys : ReadRecord(k) \/ DeleteRecord(k) \/ \E v \in SyncValues : WriteRecord(k, v)
  \/ ReadNone \/ ListRecords \/ setConfig \/ getConfig \/ delConfig
  \/ createRule \/ deleteRule \/ createAccount \/ whoami \/ getTrace \/ quit
  \/ \E cmd \in NodeCommands : QueryNodes(cmd)
  \/ AskNode \/ SyncLists \/ SyncCopies \/ SyncEnds
  \/ \E n \in ServiceNodes : NodeChanges(n)
  \/ \E k \in SyncKeys, v \in SyncValues \cup {NoRecord} : FromChanges(k, v)

-----------------------------------------------------------------------------
\* The commands of a session, and the world that they are about.
AllCommands ==
  commands \cup {"none", "quit", "connect", "connections", "services", "graph", "databases", "tables",
                 "list accounts", "list rules", "read", "write", "delete", "list records",
                 "set config", "get config", "del config", "create rule", "delete rule",
                 "create account", "whoami", "trace", "sync"}

Sessions ==
  [interactive : BOOLEAN, at : {"prompt", "ask", "ended"}, command : AllCommands, code : 0 .. 2,
   said : {"nothing", "ok", "error", "panic"}, commands : Nat]

Stores == [SyncKeys -> SyncValues \cup {NoRecord}]

Worlds ==
  [nodes : SUBSET ServiceNodes, up : SUBSET ServiceNodes, rules : SUBSET {Rule}, config : BOOLEAN,
   from : Stores, to : Stores]

CommandTypeOK == world \in Worlds /\ session \in Sessions

\* The keys of what Sync has copied, in order.
Copied == [i \in DOMAIN report |-> report[i][1]]

(***************************************************************************)
(* Print, QueryHealth, QueryStats and Sync: a command that exits with 0    *)
(* has done what it was asked - reported every node of the service that    *)
(* the registry listed, up or not, or copied every key listed, with a      *)
(* value that it had - except those that may only have said why not        *)
(* (createRule, deleteRule, createAccount, whoami, getTrace), and those    *)
(* that say nothing when there is nothing.                                 *)
(***************************************************************************)
ExitTellsOutcome ==
  session.at # "ask" /\ session.code = 0 =>
    /\ session.said = "error" =>
         session.command \in {"create rule", "delete rule", "create account", "whoami", "trace"}
    /\ session.said = "nothing" =>
         session.command \in {"none", "connect", "connections", "nodes", "services", "read", "trace"}
    /\ session.command \in NodeCommands => report = expected
    /\ session.command = "sync" =>
         /\ Copied = expected
         /\ \A i \in DOMAIN report : world.to[report[i][1]] = report[i][2]

(***************************************************************************)
(* What it rests on: a command that asks has reported or copied what the   *)
(* registry or the store listed, but for what is still to be asked for.    *)
(***************************************************************************)
AskedSoFar ==
  /\ report \in Seq(ServiceNodes) /\ toAsk \in Seq(ServiceNodes)
  /\ report \o toAsk = expected

CopiedSoFar ==
  /\ report \in Seq(SyncKeys \X SyncValues) /\ toAsk \in Seq(SyncKeys)
  /\ Copied \o toAsk = expected
  /\ \A i, j \in 1 .. Len(expected) : i # j => expected[i] # expected[j]
  /\ \A i \in 1 .. Len(report) : world.to[report[i][1]] = report[i][2]

CommandIInv ==
  /\ CommandTypeOK /\ ExitTellsOutcome
  /\ session.at = "ask" => session.command \in {"health", "stats", "sync"}
  /\ session.at = "ask" /\ session.command \in {"health", "stats"} => AskedSoFar
  /\ session.at = "ask" /\ session.command = "sync" => CopiedSoFar
=============================================================================
