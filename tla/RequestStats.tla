---------------------------- MODULE RequestStats -----------------------------
(***************************************************************************)
(* Statistics of HTTP requests (internal/stats): a list of counters, one   *)
(* for each window of five seconds, which a goroutine rolls while requests *)
(* are counted in the last.                                                *)
(***************************************************************************)
EXTENDS Naturals, Sequences

CONSTANTS
  WindowTotal,   \* total: counters that make up 120 seconds (24)
  MaxRequests,   \* bound on requests
  MaxRolls,      \* bound on ticks
  MaxStarts      \* bound on calls of Start and Stop

ASSUME StatsAssumption ==
  WindowTotal \in Nat \ {0, 1} /\ MaxRequests \in Nat /\ MaxRolls \in Nat /\ MaxStarts \in Nat

VARIABLES
  counters,    \* Counters: what each has counted, by status code
  rollers,     \* goroutines that run
  isRunning,   \* running
  statsCalls,  \* calls of Start and Stop so far
  rolls,       \* ticks so far
  responses,   \* history: responses of the handlers, by status code
  rolledOut    \* history: counts of the counters that were dropped

statsVars == <<counters, rollers, isRunning, statsCalls, rolls, responses, rolledOut>>

Codes == {"20x", "30x", "40x", "50x"}
NoCounts == [c \in Codes |-> 0]
Plus(a, b) == [c \in Codes |-> a[c] + b[c]]
Total(counts) == counts["20x"] + counts["30x"] + counts["40x"] + counts["50x"]

\* run: a tick of one of the goroutines.
Roll ==
  /\ rollers > 0 /\ rolls < MaxRolls /\ rolls' = rolls + 1
  /\ LET longer == Append(counters, NoCounts) IN
       IF Len(longer) >= WindowTotal
         THEN /\ counters' = Tail(longer)
              /\ rolledOut' = Plus(rolledOut, Head(longer))
         ELSE counters' = longer /\ UNCHANGED rolledOut
  /\ UNCHANGED <<rollers, isRunning, statsCalls, responses>>

Record(code) ==
  counters' = [counters EXCEPT ![Len(counters)] = Plus(@, [NoCounts EXCEPT ![code] = 1])]

\* ServeHTTP hands the handler the writer that it was given, not the one that
\* notes the status: what it records is the status that one began with.
ServeHTTP(code) ==
  /\ Total(responses) < MaxRequests
  /\ responses' = [responses EXCEPT ![code] = @ + 1]
  /\ Record("20x")
  /\ UNCHANGED <<rollers, isRunning, statsCalls, rolls, rolledOut>>

StartStats ==
  /\ statsCalls < MaxStarts /\ statsCalls' = statsCalls + 1
  /\ rollers' = IF isRunning THEN rollers ELSE rollers + 1
  /\ UNCHANGED <<counters, isRunning, rolls, responses, rolledOut>>

StopStats ==
  /\ statsCalls < MaxStarts /\ statsCalls' = statsCalls + 1
  /\ rollers' = IF isRunning THEN rollers - 1 ELSE rollers
  /\ UNCHANGED <<counters, isRunning, rolls, responses, rolledOut>>

StatsInit ==
  /\ counters = <<NoCounts>> /\ rollers = 0 /\ isRunning = FALSE
  /\ statsCalls = 0 /\ rolls = 0 /\ responses = NoCounts /\ rolledOut = NoCounts

StatsNext == Roll \/ (\E c \in Codes : ServeHTTP(c)) \/ StartStats \/ StopStats

-----------------------------------------------------------------------------
StatsTypeOK ==
  /\ counters \in Seq([Codes -> Nat]) /\ Len(counters) \in 1 .. WindowTotal - 1
  /\ rollers \in Nat /\ isRunning \in BOOLEAN
  /\ responses \in [Codes -> Nat] /\ rolledOut \in [Codes -> Nat]

\* What the first n of some counters count, on top of what was counted before them.
Counted(before, cs, n) ==
  LET upTo[i \in 0 .. n] == IF i = 0 THEN before ELSE Plus(upTo[i - 1], cs[i]) IN upTo[n]

(***************************************************************************)
(* ServeHTTP, Record and run: every response is counted in one counter -   *)
(* as a 20x, whatever it was - Start and Stop notwithstanding.             *)
(***************************************************************************)
ResponsesCounted ==
  LET counted == Counted(rolledOut, counters, Len(counters))
  IN Total(counted) = Total(responses) /\ counted["20x"] = Total(counted)

\* What it rests on: running is never set, so that Stop stops nothing.
StatsIInv == StatsTypeOK /\ ~isRunning /\ ResponsesCounted
=============================================================================
