----------------------------- MODULE AuthService -----------------------------
(***************************************************************************)
(* The auth service: the handlers of the accounts and of the rules, served *)
(* by the same processes.  They share neither records nor mutexes; what    *)
(* they share is the fate of their process.                                *)
(***************************************************************************)
EXTENDS AuthAccounts, AuthRules, FiniteSets

CONSTANT MaxCalls  \* bound on the requests that arrive

ASSUME ServiceAssumption == MaxCalls \in Nat

ServiceInit == Init /\ RulesInit

Arrived ==
  Cardinality({c \in Calls : pc[c] # "idle"})
    + Cardinality({c \in RuleCalls : rulePc[c] # "idle"})

AccountStep ==
  /\ \E c \in Calls : \/ Proceed(c) \/ StoreFails(c)
                      \/ \E r \in Requests : Arrived < MaxCalls /\ Arrive(c, r)
  /\ UNCHANGED ruleVars

RuleStep ==
  /\ \E c \in RuleCalls :
       \/ RuleProceed(c) \/ CreateReadFails(c) \/ RuleStoreFails(c)
       \/ \E r \in RuleRequests : Arrived < MaxCalls /\ RuleArrive(c, r)
  /\ UNCHANGED vars

\* A process dies with the calls of both handlers.
ProcessCrash(r) == Crash(r) /\ RuleCrash(r)

ServiceNext == AccountStep \/ RuleStep \/ \E r \in Replicas : ProcessCrash(r)

ServiceSpec ==
  /\ ServiceInit /\ [][ServiceNext]_<<vars, ruleVars>>
  /\ \A c \in Calls : WF_vars(Proceed(c))
  /\ \A c \in RuleCalls : WF_ruleVars(RuleProceed(c))

\* Every call of either handler is answered unless its replica dies: neither the
\* setups nor what they call leave a mutex locked.
EveryCallServed == EveryCallAnswered /\ EveryRuleCallAnswered
=============================================================================
