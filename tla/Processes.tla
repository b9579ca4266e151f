------------------------------ MODULE Processes ------------------------------
(***************************************************************************)
(* The long-running parts that wait for one another inside a process: the  *)
(* handlers of the broker, the routers, the scheduler of the runtime, the  *)
(* bot, and the Run function around each of them.                          *)
(*                                                                         *)
(* They share nothing with one another, so that a behaviour of the system  *)
(* is one of each; a behaviour here is one of one part, which is chosen    *)
(* when it begins.                                                         *)
(***************************************************************************)
EXTENDS BrokerHandler, RouterService, RuntimeScheduler, BotCommands, ServiceStartup

VARIABLE part   \* the part whose behaviour this is

vars == <<part, brokerVars, routerVars, schedulerVars, botVars, startupVars>>

ProcessesInit ==
  /\ part \in {"broker", "router", "scheduler", "bot", "startup"}
  /\ BrokerInit /\ RouterInit /\ SchedulerInit /\ BotInit
  /\ IF part = "startup" THEN StartupInit
     ELSE StartupInit /\ program = "broker"

BrokerStep ==
  part = "broker" /\ BrokerNext /\ UNCHANGED <<part, routerVars, schedulerVars, botVars, startupVars>>

RouterStep ==
  part = "router" /\ RouterNext /\ UNCHANGED <<part, brokerVars, schedulerVars, botVars, startupVars>>

SchedulerStep ==
  part = "scheduler" /\ SchedulerNext /\ UNCHANGED <<part, brokerVars, routerVars, botVars, startupVars>>

BotStep ==
  part = "bot" /\ BotNext /\ UNCHANGED <<part, brokerVars, routerVars, schedulerVars, startupVars>>

StartupStep ==
  part = "startup" /\ StartupNext /\ UNCHANGED <<part, brokerVars, routerVars, schedulerVars, botVars>>

ProcessesNext == BrokerStep \/ RouterStep \/ SchedulerStep \/ BotStep \/ StartupStep

(***************************************************************************)
(* A goroutine that can take a step takes it at some time.  A select with  *)
(* several channels ready chooses among them at random: strong fairness    *)
(* for the one that must be chosen in the end.  Nothing is assumed of what *)
(* clients, the file system, the registry and the callers of Close do, nor *)
(* that a call fails.                                                      *)
(***************************************************************************)
ProcessesFairness ==
  /\ \A d \in (1 .. MaxMessages) \X BrokerStreams : WF_brokerVars(part = "broker" /\ Handle(d))
  /\ \A s \in BrokerStreams : WF_brokerVars(part = "broker" /\ SubscribeReturns(s))
  /\ \A r \in Routers : WF_routerVars(part = "router" /\ (FirstResult(r) \/ StopRouter(r)))
  /\ WF_schedulerVars(part = "scheduler" /\ RunUpdate)
  /\ WF_schedulerVars(part = "scheduler" /\ RunFsEvent)
  /\ WF_schedulerVars(part = "scheduler" /\ ForwardTakes)
  /\ WF_schedulerVars(part = "scheduler" /\ ForwardSends)
  /\ WF_schedulerVars(part = "scheduler" /\ RuntimeTakes)
  /\ SF_schedulerVars(part = "scheduler" /\ RunExits)
  /\ \A io \in Inputs :
       /\ WF_botVars(part = "bot" /\ (LoopStreams(io) \/ LoopReceives(io) \/ LoopProcesses(io)))
       /\ WF_botVars(part = "bot" /\ StopInput(io))
  /\ WF_startupVars(part = "startup" /\ StartupProceeds)

ProcessesSpec == ProcessesInit /\ [][ProcessesNext]_vars /\ ProcessesFairness

-----------------------------------------------------------------------------
\* Types, in every part, and that no channel has more entries than its size.
ProcessesTypeOK == BrokerTypeOK /\ RouterTypeOK /\ SchedulerTypeOK /\ BotTypeOK /\ StartupTypeOK

(***************************************************************************)
(* The broker's streams and the bot's map: what a client is sent is of its *)
(* own namespace and topic, but for namespaces that begin one another, and *)
(* once for each queue; and the bot, when it has read all results, knows   *)
(* the services of the registry, but for those that have lost a node.      *)
(***************************************************************************)
ProcessesFaithful == BrokerStreamsFaithful /\ BotKnowsServices

(***************************************************************************)
(* Run of each service and client: what ends has stopped what it started.  *)
(***************************************************************************)
StartupClean == ServicesNotOrphaned

\* What these rest on, part by part.
ProcessesIInv ==
  BrokerIInv /\ RouterIInv /\ SchedulerTypeOK /\ BotIInv /\ StartupIInv

(***************************************************************************)
(* The broker's handlers return and its subscriptions end, a router stops  *)
(* at its first failure, a change of the folder reaches every service, a   *)
(* closed scheduler and a stopped bot end, and so does a process that is   *)
(* told to while it listens.                                               *)
(***************************************************************************)
ServicesProceed ==
  /\ BrokerProceeds /\ RouterStops
  /\ ChangesReachServices /\ SchedulerCloses
  /\ BotStops /\ SignalEnds
=============================================================================
