---------------------------- MODULE ServiceStartup ----------------------------
(***************************************************************************)
(* How the processes of the system begin and end: the Run function of each *)
(* service and client, as the steps it takes, what it does when one fails, *)
(* what it has started by then and what it stops before it ends.           *)
(*                                                                         *)
(* log.Fatal and os.Exit end a process at once, without its deferred       *)
(* calls.  A signal ends a process that does not listen for it; the micro  *)
(* service inside service.Run does, and returns when there is one.         *)
(***************************************************************************)
EXTENDS Naturals, Sequences

VARIABLES
  program,     \* the Run function the process executes
  step,        \* the step it is at; 0 are the flags and the Before functions
  alive,       \* what it has started and not stopped
  deferred,    \* what its deferred calls will stop
  unstopped,   \* history: what it could not stop
  listening,   \* it listens for signals
  signalled,   \* a signal has come
  exit         \* "no", "0", "1" or "killed"

startupVars == <<program, step, alive, deferred, unstopped, listening, signalled, exit>>

Try(else) == [does |-> "try", what |-> "none", else |-> else]
Start(what, else) == [does |-> "start", what |-> what, else |-> else]
Stop(what, else) == [does |-> "stop", what |-> what, else |-> else]
Defer(what) == [does |-> "defer", what |-> what, else |-> "ignore"]
Listen == [does |-> "listen", what |-> "none", else |-> "ignore"]
Await == [does |-> "await", what |-> "none", else |-> "ignore"]
\* service.Run listens and waits; ListenAndServe waits, and only fails.
Serve(else) == [does |-> "serve", what |-> "none", else |-> else]
ServeHttp(else) == [does |-> "http", what |-> "none", else |-> else]

-----------------------------------------------------------------------------
RunRegistry == <<Serve("fatal")>>
RunConfig == <<Serve("fatal")>>
RunAuth == <<Serve("fatal")>>
RunAuthApi == <<Serve("ignore")>>

\* Connect of the broker.
RunBroker == <<Try("ignore"), Serve("ignore")>>

\* Init of the store.
RunStore == <<Try("ignore"), Serve("fatal")>>

\* The scan of the cache; the statistics and the traces, each with a loop.
RunDebug ==
  <<Defer("loops"), Start("loops", "ignore"), Try("fatal"), Try("fatal"), Serve("fatal")>>

\* The flags, then the HTTP server.
RunHealth == <<Try("fatal"), ServeHttp("fatal")>>

\* The manager's Start and Stop start and stop the runtime below it.
RunRuntime == <<Start("services", "fatal"), Serve("ignore"), Stop("services", "fatal")>>

\* A service with a command to run, or a proxy only.
RunCommand ==
  <<Start("services", "ignore"), Try("ignore"), Defer("services"), Serve("ignore")>>
RunService == <<Serve("ignore")>>

\* Mutant: the signals are asked for when the runtime has started.
RunInitLate == <<Try("fatal"), Start("services", "fatal"), Listen, Await, Stop("services", "fatal")>>

\* No arguments; the signals; the runtime.
RunInit == <<Try("fatal"), Listen, Start("services", "fatal"), Await, Stop("services", "fatal")>>

\* No arguments; Create of each service; the runtime; the server of uploads.
RunServer ==
  <<Try("fatal"), Try("return"), Start("services", "fatal"), Serve("ignore"), Stop("services", "fatal")>>

\* The certificates, the statistics, the API.
RunApi ==
  <<Try("return"), Start("stats", "ignore"), Defer("stats"),
    Start("server", "fatal"), Serve("fatal"), Stop("server", "fatal")>>

RunWeb ==
  <<Start("stats", "ignore"), Defer("stats"), Try("return"),
    Start("server", "fatal"), Serve("fatal"), Stop("server", "fatal")>>

\* The router, the certificates, the server.
RunProxy ==
  <<Start("router", "fatal"), Try("fatal"),
    Start("server", "fatal"), Serve("fatal"), Stop("server", "fatal")>>

\* The inputs, start of the bot.
RunBot ==
  <<Try("fatal"), Start("inputs", "fatal"), Serve("fatal"), Stop("inputs", "ignore")>>

Runs ==
  [registry |-> RunRegistry, config |-> RunConfig, auth |-> RunAuth, authApi |-> RunAuthApi,
   broker |-> RunBroker, store |-> RunStore, debug |-> RunDebug, health |-> RunHealth,
   runtime |-> RunRuntime, command |-> RunCommand, service |-> RunService, init |-> RunInit,
   server |-> RunServer, api |-> RunApi, web |-> RunWeb, proxy |-> RunProxy, bot |-> RunBot]

-----------------------------------------------------------------------------
\* The flags and the Before functions that every program runs first.
Before == Try("fatal")

Current == IF step = 0 THEN Before ELSE Runs[program][step]
Going == exit = "no" /\ step <= Len(Runs[program])

StepWorks ==
  /\ Going
  /\ Current.does # "http"
  /\ Current.does \in {"await", "serve"} => signalled
  /\ alive' = CASE Current.does = "start" -> alive \cup {Current.what}
                [] Current.does = "stop" -> alive \ {Current.what}
                [] OTHER -> alive
  /\ deferred' = IF Current.does = "defer" THEN deferred \cup {Current.what} ELSE deferred
  /\ listening' = (listening \/ Current.does = "listen")
  /\ step' = step + 1
  /\ UNCHANGED <<program, unstopped, signalled, exit>>

\* service.Run has begun to listen.
BeginsToServe ==
  /\ Going /\ Current.does = "serve" /\ ~listening
  /\ listening' = TRUE
  /\ UNCHANGED <<program, step, alive, deferred, unstopped, signalled, exit>>

Returns(rest) ==
  /\ exit' = "0"
  /\ alive' = rest \ deferred
  /\ deferred' = {}

\* A call returns an error.
StepFails ==
  /\ Going
  /\ Current.does \in {"try", "start", "stop", "serve", "http"}
  /\ unstopped' = IF Current.does = "stop" THEN unstopped \cup {Current.what} ELSE unstopped
  /\ CASE Current.else = "fatal" -> exit' = "1" /\ UNCHANGED <<step, alive, deferred>>
       [] Current.else = "return" -> Returns(alive) /\ UNCHANGED step
       [] Current.else = "ignore" -> step' = step + 1 /\ UNCHANGED <<alive, deferred, exit>>
  /\ UNCHANGED <<program, listening, signalled>>

RunReturns ==
  /\ exit = "no" /\ step > Len(Runs[program])
  /\ Returns(alive)
  /\ UNCHANGED <<program, step, unstopped, listening, signalled>>

Signal ==
  /\ exit = "no"
  /\ IF listening THEN signalled' = TRUE /\ UNCHANGED exit
                  ELSE exit' = "killed" /\ UNCHANGED signalled
  /\ UNCHANGED <<program, step, alive, deferred, unstopped, listening>>

-----------------------------------------------------------------------------
StartupInit ==
  /\ program \in DOMAIN Runs /\ step = 0 /\ alive = {} /\ deferred = {} /\ unstopped = {}
  /\ listening = FALSE /\ signalled = FALSE /\ exit = "no"

StartupProceeds == StepWorks \/ BeginsToServe \/ RunReturns

StartupNext == StartupProceeds \/ StepFails \/ Signal

StartupTypeOK ==
  /\ program \in DOMAIN Runs /\ step \in 0 .. Len(Runs[program]) + 1
  /\ deferred \subseteq {"loops", "services", "stats"}
  /\ exit \in {"no", "0", "1", "killed"}

(***************************************************************************)
(* The Run functions: the services that a process has started do not       *)
(* outlive it unless stopping them failed or it was killed before it       *)
(* listened for signals, and micro init listens before it starts any; one  *)
(* that ends well has stopped all it could, but for the proxy's router.    *)
(***************************************************************************)
ServicesNotOrphaned ==
  /\ exit # "no" /\ "services" \in alive =>
       \/ "services" \in unstopped
       \/ exit = "killed" /\ program # "init"
  /\ exit = "0" => alive \subseteq unstopped \cup {"router"}

-----------------------------------------------------------------------------
(***************************************************************************)
(* What they rest on: how the steps of the Run functions are ordered, and  *)
(* that a process has started, stopped, deferred and heard what the steps  *)
(* behind it say.                                                          *)
(***************************************************************************)
Starts(p, i, what) == Runs[p][i].does = "start" /\ Runs[p][i].what = what
Stops(p, i, what) == Runs[p][i].does = "stop" /\ Runs[p][i].what = what
Defers(p, i, what) == Runs[p][i].does = "defer" /\ Runs[p][i].what = what

\* Before a step whose error is fatal no services are left, unless it stops them;
\* what is started before one that returns is deferred by then, and what is
\* started at all is stopped or deferred, but for the router.
StepsInOrder(p) ==
  LET steps == 1 .. Len(Runs[p]) IN
    /\ \A i, j \in steps :
         /\ Starts(p, i, "services") /\ i < j /\ Runs[p][j].else = "fatal" => Stops(p, j, "services")
         /\ \A w \in {Runs[p][i].what} :
              /\ Starts(p, i, w) /\ Stops(p, j, w) => i < j
              /\ Starts(p, i, w) /\ i < j /\ Runs[p][j].else = "return" =>
                   \E k \in 1 .. j - 1 : Defers(p, k, w)
    /\ \A i \in steps : \A w \in {Runs[p][i].what} :
         Starts(p, i, w) =>
           w = "router" \/ \E j \in steps : Defers(p, j, w) \/ Stops(p, j, w)
    /\ \A i \in steps :
         /\ Runs[p][i].does = "defer" => Runs[p][i].what \in {"loops", "services", "stats"}
         /\ Runs[p][i].else \in {"fatal", "return", "ignore"}
    /\ p = "init" => \A i \in steps :
         Starts(p, i, "services") => \E j \in 1 .. i - 1 : Runs[p][j].does = "listen"

Behind == {i \in 1 .. Len(Runs[program]) : i < step}

StartupIInv ==
  /\ StartupTypeOK /\ ServicesNotOrphaned
  /\ exit = "no" =>
       /\ \A w \in alive : \E i \in Behind : Starts(program, i, w)
       /\ \A i \in Behind :
            /\ Runs[program][i].does = "stop" => Runs[program][i].what \notin alive \ unstopped
            /\ Runs[program][i].does = "defer" => Runs[program][i].what \in deferred
            /\ Runs[program][i].does = "listen" => listening

(***************************************************************************)
(* service.Run and the select of Init: a process that was told to stop     *)
(* while it listened comes to an end.                                      *)
(***************************************************************************)
SignalEnds == signalled ~> exit # "no"
=============================================================================
