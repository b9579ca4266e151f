------------------------------- MODULE Services -------------------------------
(***************************************************************************)
(* The parts that answer callers: the handlers of the registry, of the     *)
(* store and of the runtime, the store's snapshots, the collectors of the  *)
(* debug service, the statistics of requests, the web gateway, the         *)
(* settings file and the command line.                                     *)
(*                                                                         *)
(* They are processes that share nothing with one another but what others  *)
(* change, which each module has as actions of its own; a behaviour here   *)
(* is one of one part, which is chosen when it begins.                     *)
(***************************************************************************)
EXTENDS RegistryHandler, RuntimeHandler, StoreHandler, StoreSnapshot, DebugCollectors,
        RequestStats, WebGateway, SettingsFile, CommandLine

VARIABLE part   \* the part whose behaviour this is

handlerVars == <<registryVars, runtimeVars, storeVars, snapshotVars>>
watchVars == <<debugVars, statsVars>>
clientVars == <<webVars, settingsVars, commandVars>>
vars == <<part, handlerVars, watchVars, clientVars>>

\* What the registry has in the behaviours that are not about it.
SomeListed == {CHOOSE s \in Listed : TRUE}

ServicesInit ==
  /\ part \in {"registry", "runtime", "store", "snapshot", "cache", "traces", "stats", "web",
               "settings", "commands"}
  /\ RegistryInit /\ RuntimeInit /\ StoreInit /\ SnapshotInit
  /\ DebugInit /\ StatsInit
  /\ WebInit /\ SettingsInit /\ CommandInit
  /\ part # "web" => /\ webRegistry = {}
                     /\ gateway = [type |-> "api", resolver |-> "micro", namespace |-> "domain"]
  /\ part # "commands" => session.interactive
  /\ part # "cache" => registry.services = SomeListed

RegistryStep ==
  /\ part = "registry" /\ RegistryNext
  /\ UNCHANGED <<part, runtimeVars, storeVars, snapshotVars, watchVars, clientVars>>

RuntimeStep ==
  /\ part = "runtime" /\ RuntimeNext
  /\ UNCHANGED <<part, registryVars, storeVars, snapshotVars, watchVars, clientVars>>

StoreStep ==
  /\ part = "store" /\ StoreNext
  /\ UNCHANGED <<part, registryVars, runtimeVars, snapshotVars, watchVars, clientVars>>

SnapshotStep ==
  /\ part = "snapshot" /\ SnapshotNext
  /\ UNCHANGED <<part, registryVars, runtimeVars, storeVars, watchVars, clientVars>>

\* The collectors and the cache are one process: with part = "cache" nothing is
\* scraped, with "traces" the registry stays as it is.
DebugStep ==
  /\ \/ part = "cache" /\ (CacheNext \/ RegistryMoves)
     \/ part = "traces" /\ (CacheNext \/ RingNext)
  /\ UNCHANGED <<part, handlerVars, statsVars, clientVars>>

StatsStep ==
  part = "stats" /\ StatsNext /\ UNCHANGED <<part, handlerVars, debugVars, clientVars>>

WebStep ==
  part = "web" /\ WebNext /\ UNCHANGED <<part, handlerVars, watchVars, settingsVars, commandVars>>

SettingsStep ==
  part = "settings" /\ SettingsNext /\ UNCHANGED <<part, handlerVars, watchVars, webVars, commandVars>>

CommandStep ==
  part = "commands" /\ CommandNext /\ UNCHANGED <<part, handlerVars, watchVars, webVars, settingsVars>>

ServicesNext ==
  \/ RegistryStep \/ RuntimeStep \/ StoreStep \/ SnapshotStep
  \/ DebugStep \/ StatsStep
  \/ WebStep \/ SettingsStep \/ CommandStep

ServicesSpec == ServicesInit /\ [][ServicesNext]_vars

-----------------------------------------------------------------------------
\* Types, bounds of the rings and of what is under way, in every part.
ServicesTypeOK ==
  /\ RegistryTypeOK /\ RuntimeTypeOK /\ StoreTypeOK /\ SnapshotTypeOK
  /\ DebugTypeOK /\ StatsTypeOK
  /\ WebTypeOK /\ SettingsTypeOK /\ CommandTypeOK

(***************************************************************************)
(* Watch of the registry, and Read and Logs of the runtime: watchers and   *)
(* readers see what the registry and the store of the runtime hold, in     *)
(* their own namespace, and nothing is told that was not done.             *)
(***************************************************************************)
CallersSeeTheirOwn ==
  /\ RegistryStreamsFaithful
  /\ ReadsOwnServices /\ ToldWasAccepted /\ LogsStopped

(***************************************************************************)
(* SnapshotRuns and restore: a snapshot that is reported as made has every *)
(* record it was handed, and a record is restored as it was saved.         *)
(***************************************************************************)
SnapshotsFaithful == SnapshotComplete /\ RestoredAsSaved

(***************************************************************************)
(* ServeHTTP, Roll and Trace.Read: every response of the window is         *)
(* counted, and the spans of the traces that are asked for are all read.   *)
(***************************************************************************)
ReadsTellAll == ResponsesCounted /\ TraceReadsComplete

(***************************************************************************)
(* The wrapper and the proxy of the web: a request goes where it was       *)
(* verified to go, and the links of the pages lead to services.            *)
(***************************************************************************)
GatewayFaithful == ForwardedWhereVerified /\ LinksLeadToServices

(***************************************************************************)
(* The commands: what one has set stays set, the environment that is       *)
(* selected exists, and the code a command exits with tells its outcome.   *)
(***************************************************************************)
CommandsFaithful == SettingsKept /\ EnvSelectedExists /\ ExitTellsOutcome
=============================================================================
