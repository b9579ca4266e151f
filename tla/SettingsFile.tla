----------------------------- MODULE SettingsFile -----------------------------
(***************************************************************************)
(* The settings of the commands of micro: the file ~/.micro                *)
(* (internal/config), the environments (client/cli/util) and the login     *)
(* (service/auth).  Each command is a process that loads the whole file    *)
(* when it starts and writes the whole of it whenever it sets one value;   *)
(* nothing keeps two commands apart, and any of them may be interrupted.   *)
(*                                                                         *)
(* There is one environment to log in to.  The values that a process sets  *)
(* are named by the process.                                               *)
(***************************************************************************)
EXTENDS Naturals, Sequences

CONSTANTS
  Commanders,    \* processes
  AddedEnvs,     \* environments that are added
  BuiltinEnvs,   \* defaultEnvs
  Unset,         \* the empty string
  MaxInterrupts  \* bound on commands that are interrupted

\* Environments have names, and are kept apart from the other settings.
ASSUME SettingsAssumption ==
  /\ MaxInterrupts \in Nat /\ BuiltinEnvs \cap AddedEnvs = {}
  /\ Unset \notin AddedEnvs \cup Commanders /\ "env" \notin AddedEnvs

Settings == {"env", "token", "refresh-token"} \cup AddedEnvs
SettingValues == {Unset} \cup Commanders \cup BuiltinEnvs \cup AddedEnvs
Configs == [Settings -> SettingValues]
Empty == [x \in Settings |-> Unset]

VARIABLES
  settingsFile,  \* what the file holds, and whether it is blank or garbled
  commander,     \* the processes
  promised,      \* history: the last value written for each setting
  lost,          \* history: settings overwritten by a process that had not seen them
  interrupts

settingsVars == <<settingsFile, commander, promised, lost, interrupts>>

Commands == [name : {"login", "login token"}] \cup
            [name : {"env set", "env add"}, env : BuiltinEnvs \cup AddedEnvs]

\* getEnvs: the built-in environments hide those of the file.
getEnvs(config) == BuiltinEnvs \cup {e \in AddedEnvs : config[e] # Unset}

\* GetEnv and GetEnvByName, which ends the process if there is none.
GetEnv(config) == config["env"] = Unset \/ config["env"] \in getEnvs(config)

Exit(p, code) == [commander[p] EXCEPT !.at = "exited", !.code = code]

-----------------------------------------------------------------------------
(***************************************************************************)
(* newConfig, and what the command sets, in order.  An environment that is *)
(* built in is written to the file like any other and is hidden from then  *)
(* on: it is left out here.                                                *)
(***************************************************************************)
StartCommand(p, c) ==
  /\ commander[p].at = "new"
  /\ commander' = [commander EXCEPT ![p] =
       [@ EXCEPT !.at = "run", !.command = c,
                 !.config = IF settingsFile.unreadable THEN Empty ELSE settingsFile.holds,
                 !.missed = IF settingsFile.unreadable THEN Settings ELSE {}]]
  /\ UNCHANGED <<settingsFile, promised, lost, interrupts>>

\* The library watches the file while the process runs.
ReloadSettings(p) ==
  /\ commander[p].at = "run" /\ ~settingsFile.unreadable
  /\ commander' = [commander EXCEPT ![p].config = settingsFile.holds, ![p].missed = {}]
  /\ UNCHANGED <<settingsFile, promised, lost, interrupts>>

Sets(p, values) ==
  commander' = [commander EXCEPT ![p].at = "set", ![p].toSet = values]

\* login: the environment is looked up, then the auth service asked, which fails
\* or not; a token alone is stored, or the access and the refresh token.
Login(p) ==
  /\ commander[p].at = "run" /\ commander[p].command.name \in {"login", "login token"}
  /\ \/ /\ GetEnv(commander[p].config)
        /\ Sets(p, IF commander[p].command.name = "login token" THEN <<<<"token", p>>>>
                   ELSE <<<<"token", p>>, <<"refresh-token", p>>>>)
     \/ commander' = [commander EXCEPT ![p] = Exit(p, 1)]
  /\ UNCHANGED <<settingsFile, promised, lost, interrupts>>

SetEnv(p) ==
  /\ commander[p].at = "run" /\ commander[p].command.name = "env set"
  /\ IF commander[p].command.env \in getEnvs(commander[p].config)
       THEN Sets(p, <<<<"env", commander[p].command.env>>>>)
       ELSE commander' = [commander EXCEPT ![p] = Exit(p, 1)]
  /\ UNCHANGED <<settingsFile, promised, lost, interrupts>>

AddEnv(p) ==
  /\ commander[p].at = "run" /\ commander[p].command.name = "env add"
  /\ Sets(p, IF commander[p].command.env \in AddedEnvs
               THEN <<<<commander[p].command.env, p>>>> ELSE <<>>)
  /\ UNCHANGED <<settingsFile, promised, lost, interrupts>>

-----------------------------------------------------------------------------
(***************************************************************************)
(* Set: the value is set in memory, and the file emptied and written.      *)
(***************************************************************************)
SetTruncates(p) ==
  /\ commander[p].at = "set" /\ commander[p].toSet # <<>>
  /\ LET set == Head(commander[p].toSet) IN
       commander' = [commander EXCEPT ![p] =
                       [@ EXCEPT !.at = "write", !.config[set[1]] = set[2], !.over = FALSE]]
  /\ settingsFile' = [settingsFile EXCEPT !.unreadable = TRUE]
  /\ UNCHANGED <<promised, lost, interrupts>>

\* If another one has written since the file was emptied, what it wrote is
\* written over, and what is longer of it stays at the end.
SetWrites(p) ==
  /\ commander[p].at = "write"
  /\ LET set == Head(commander[p].toSet) IN
       /\ \E garbled \in IF commander[p].over THEN BOOLEAN ELSE {FALSE} :
            settingsFile' = [unreadable |-> garbled, holds |-> commander[p].config]
       /\ promised' = [promised EXCEPT ![set[1]] = set[2]]
       /\ lost' = (lost \ {set[1]}) \cup (commander[p].missed \ {set[1]})
       /\ commander' = [q \in Commanders |->
            IF q = p THEN [commander[p] EXCEPT !.at = "set", !.toSet = Tail(@)]
            ELSE [commander[q] EXCEPT !.missed = @ \cup {set[1]} \cup commander[p].missed,
                                      !.over = commander[q].at = "write"]]
  /\ UNCHANGED interrupts

\* The file cannot be written.  SetEnv does not look at the error.
SetFails(p) ==
  /\ commander[p].at = "set" /\ commander[p].toSet # <<>>
  /\ commander' = [commander EXCEPT ![p] =
                     Exit(p, IF commander[p].command.name = "env set" THEN 0 ELSE 1)]
  /\ UNCHANGED <<settingsFile, promised, lost, interrupts>>

CommandEnds(p) ==
  /\ commander[p].at = "set" /\ commander[p].toSet = <<>>
  /\ commander' = [commander EXCEPT ![p] = Exit(p, 0)]
  /\ UNCHANGED <<settingsFile, promised, lost, interrupts>>

Interrupt(p) ==
  /\ commander[p].at \notin {"new", "exited"}
  /\ interrupts < MaxInterrupts /\ interrupts' = interrupts + 1
  /\ commander' = [commander EXCEPT ![p] = Exit(p, 130)]
  /\ UNCHANGED <<settingsFile, promised, lost>>

-----------------------------------------------------------------------------
SettingsInit ==
  /\ settingsFile = [unreadable |-> FALSE, holds |-> Empty]
  /\ commander = [p \in Commanders |->
       [at |-> "new", command |-> [name |-> "login"], config |-> Empty, missed |-> {},
        toSet |-> <<>>, over |-> FALSE, code |-> 0]]
  /\ promised = Empty /\ lost = {} /\ interrupts = 0

SettingsNext ==
  \E p \in Commanders :
    \/ \E c \in Commands : StartCommand(p, c)
    \/ ReloadSettings(p) \/ Login(p) \/ SetEnv(p) \/ AddEnv(p)
    \/ SetTruncates(p) \/ SetWrites(p) \/ SetFails(p) \/ CommandEnds(p) \/ Interrupt(p)

-----------------------------------------------------------------------------
CommandStates == [at : {"new", "run", "set", "write", "exited"}, command : Commands, config : Configs,
                  missed : SUBSET Settings, toSet : Seq(Settings \X SettingValues), over : BOOLEAN,
                  code : {0, 1, 130}]

SettingsTypeOK ==
  /\ settingsFile \in [unreadable : BOOLEAN, holds : Configs]
  /\ commander \in [Commanders -> CommandStates]
  /\ promised \in Configs /\ lost \subseteq Settings

(***************************************************************************)
(* Set and newConfig: the file holds what was last set for each setting,   *)
(* unless a process wrote it that had loaded the file before - or had      *)
(* found it blank or garbled, for then a process starts with nothing.      *)
(***************************************************************************)
SettingsKept ==
  ~settingsFile.unreadable => \A x \in Settings \ lost : settingsFile.holds[x] = promised[x]

(***************************************************************************)
(* SetEnv and GetEnvByName: the environment that the file selects is one   *)
(* that it has, or every later command would exit - through lost updates   *)
(* and interrupts, since a file is always one that some process had.       *)
(***************************************************************************)
EnvSelectedExists == ~settingsFile.unreadable => GetEnv(settingsFile.holds)

-----------------------------------------------------------------------------
(***************************************************************************)
(* What the two rest on: what a process has loaded is what was last set,   *)
(* except where others have set since, and selects an environment it has;  *)
(* so does what the process is about to set.                               *)
(***************************************************************************)
LoadedAsPromised(c) ==
  LET setting == IF c.at = "write" THEN {Head(c.toSet)[1]} ELSE {}
  IN \A x \in Settings \ (lost \cup c.missed \cup setting) : c.config[x] = promised[x]

WritesWhatIsSet(c) ==
  c.at = "write" => c.toSet # <<>> /\ c.config[Head(c.toSet)[1]] = Head(c.toSet)[2]

SelectsWhatIsThere(c) ==
  /\ GetEnv(c.config)
  /\ \A i \in 1 .. Len(c.toSet) :
       IF c.toSet[i][1] = "env" THEN c.toSet[i][2] \in getEnvs(c.config)
       ELSE c.toSet[i][2] # Unset

KeepsSettings(c) ==
  /\ c.at \in {"new", "run"} => c.toSet = <<>>
  /\ c.at \in {"run", "set", "write"} => LoadedAsPromised(c)
  /\ WritesWhatIsSet(c) /\ SelectsWhatIsThere(c)

SettingsIInv ==
  /\ SettingsTypeOK /\ SettingsKept /\ EnvSelectedExists
  /\ \A p \in Commanders : KeepsSettings(commander[p])
=============================================================================
