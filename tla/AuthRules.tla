------------------------------ MODULE AuthRules ------------------------------
(***************************************************************************)
(* The access rules of the auth service (service/auth/handler/rules):      *)
(* Create, Delete and List, called at several replicas that share a store. *)
(*                                                                         *)
(* List first makes sure, under the mutex of its replica, that a namespace *)
(* without rules gets the default one.  Every access to the store is a     *)
(* step.  Namespaces do not share records, so there is one.  The record of *)
(* a rule is the call that wrote it.                                       *)
(***************************************************************************)
EXTENDS Naturals, AuthReplicas

CONSTANTS
  RuleCalls,      \* requests
  RuleIds,        \* ids of rules
  DefaultRuleId,  \* defaultRule.ID
  MaxRuleFaults,  \* bound on store errors
  MaxCrashes      \* bound on crashes of replicas

ASSUME RulesAssumption ==
  /\ MaxRuleFaults \in Nat /\ MaxCrashes \in Nat
  /\ DefaultRuleId \in RuleIds
  /\ None \notin RuleCalls

VARIABLES
  rule,          \* store: the rule record of each id
  ruleVerified,  \* Rules.namespaces of each replica holds the namespace
  ruleHolder,    \* the call that has locked each replica's mutex
  ruleReq,       \* what each call asks for, and where
  rulePc,        \* where each call is
  ruleReply,     \* what each call has answered; "empty" is a List of no rules
  deleted,       \* history: a rule has been deleted
  unsure,        \* history: the ids that a call was to write a rule for without
                 \* knowing that there is none
  ruleFaults,    \* store errors so far
  crashes        \* crashes so far

ruleVars == <<rule, ruleVerified, ruleHolder, ruleReq, rulePc, ruleReply, deleted,
              unsure, ruleFaults, crashes>>

RuleRequests ==
  [op : {"create", "delete"}, at : Replicas, id : RuleIds]
    \cup [op : {"list"}, at : Replicas, id : {DefaultRuleId}]

ASSUME NoRuleAssumption == None \notin RuleRequests

Rules == {id \in RuleIds : rule[id] # None}

-----------------------------------------------------------------------------
RuleArrive(c, r) ==
  /\ rulePc[c] = "idle"
  /\ ruleReq' = [ruleReq EXCEPT ![c] = r]
  /\ rulePc' = [rulePc EXCEPT ![c] = CASE r.op = "create" -> "read"
                               [] r.op = "delete" -> "delete"
                               [] r.op = "list" -> "setup"]
  /\ UNCHANGED <<rule, ruleVerified, ruleHolder, ruleReply, deleted, unsure, ruleFaults, crashes>>

RuleAnswer(c, answer) ==
  /\ ruleReply' = [ruleReply EXCEPT ![c] = answer]
  /\ rulePc' = [rulePc EXCEPT ![c] = "done"]

(***************************************************************************)
(* setupDefaultRules, which List serves first.  It looks for any rule of   *)
(* the namespace and, finding none, runs Create for the default one.       *)
(***************************************************************************)
LeaveRuleSetup(c, cached) ==
  /\ ruleVerified' = IF cached THEN [ruleVerified EXCEPT ![ruleReq[c].at] = TRUE] ELSE ruleVerified
  /\ ruleHolder' = [ruleHolder EXCEPT ![ruleReq[c].at] = None]
  /\ rulePc' = [rulePc EXCEPT ![c] = "list"]

\* Mutant: the mutex is not locked.
EnterRuleSetupUnlocked(c) ==
  /\ rulePc[c] = "setup"
  /\ rulePc' = [rulePc EXCEPT ![c] = IF ruleVerified[ruleReq[c].at] THEN "list" ELSE "scan"]
  /\ UNCHANGED <<rule, ruleVerified, ruleHolder, ruleReq, ruleReply, deleted, unsure,
                 ruleFaults, crashes>>

EnterRuleSetup(c) ==
  /\ rulePc[c] = "setup"
  /\ ruleHolder[ruleReq[c].at] = None
  /\ IF ruleVerified[ruleReq[c].at]
     THEN /\ rulePc' = [rulePc EXCEPT ![c] = "list"]
          /\ UNCHANGED ruleHolder
     ELSE /\ rulePc' = [rulePc EXCEPT ![c] = "scan"]
          /\ ruleHolder' = [ruleHolder EXCEPT ![ruleReq[c].at] = c]
  /\ UNCHANGED <<rule, ruleVerified, ruleReq, ruleReply, deleted, unsure, ruleFaults, crashes>>

\* Mutant: a namespace that holds no rules is taken as set up.
ScanNothing(c) ==
  /\ rulePc[c] = "scan"
  /\ LeaveRuleSetup(c, TRUE)
  /\ UNCHANGED <<rule, ruleReq, ruleReply, deleted, unsure, ruleFaults, crashes>>

ScanRules(c) ==
  /\ rulePc[c] = "scan"
  /\ IF Rules # {}
     THEN LeaveRuleSetup(c, TRUE)
     ELSE /\ rulePc' = [rulePc EXCEPT ![c] = "read"]
          /\ UNCHANGED <<ruleVerified, ruleHolder>>
  /\ UNCHANGED <<rule, ruleReq, ruleReply, deleted, unsure, ruleFaults, crashes>>

(***************************************************************************)
(* Create.  Its outcome is the answer of a call that asks for it, and is   *)
(* ignored by setupDefaultRules, which caches the namespace regardless.    *)
(***************************************************************************)
CreateEnds(c, outcome) ==
  IF ruleReq[c].op = "list"
  THEN LeaveRuleSetup(c, TRUE) /\ UNCHANGED ruleReply
  ELSE RuleAnswer(c, outcome) /\ UNCHANGED <<ruleVerified, ruleHolder>>

\* Another call has found no rule of the id, and is to write it.
RuleContested(c) ==
  \E d \in RuleCalls \ {c} : rulePc[d] = "write" /\ ruleReq[d].id = ruleReq[c].id

\* Mutant: the rule is not looked up.
CreateReadsNothing(c) ==
  /\ rulePc[c] = "read"
  /\ rulePc' = [rulePc EXCEPT ![c] = "write"]
  /\ unsure' = IF RuleContested(c) THEN unsure \cup {ruleReq[c].id} ELSE unsure
  /\ UNCHANGED <<rule, ruleVerified, ruleHolder, ruleReq, ruleReply, deleted, ruleFaults,
                 crashes>>

CreateReads(c) ==
  /\ rulePc[c] = "read"
  /\ IF rule[ruleReq[c].id] = None
     THEN /\ rulePc' = [rulePc EXCEPT ![c] = "write"]
          /\ unsure' = IF RuleContested(c) THEN unsure \cup {ruleReq[c].id} ELSE unsure
          /\ UNCHANGED <<ruleVerified, ruleHolder, ruleReply>>
     ELSE CreateEnds(c, "error") /\ UNCHANGED unsure
  /\ UNCHANGED <<rule, ruleReq, deleted, ruleFaults, crashes>>

\* An error of the read, whatever it is, is taken for a rule that is not there.
CreateReadFails(c) ==
  /\ rulePc[c] = "read"
  /\ ruleFaults < MaxRuleFaults
  /\ ruleFaults' = ruleFaults + 1
  /\ rulePc' = [rulePc EXCEPT ![c] = "write"]
  /\ unsure' = unsure \cup {ruleReq[c].id}
  /\ UNCHANGED <<rule, ruleVerified, ruleHolder, ruleReq, ruleReply, deleted, crashes>>

CreateWrites(c) ==
  /\ rulePc[c] = "write"
  /\ rule' = [rule EXCEPT ![ruleReq[c].id] = c]
  /\ CreateEnds(c, "ok")
  /\ UNCHANGED <<ruleReq, deleted, unsure, ruleFaults, crashes>>

\* The stores differ in whether it is an error to delete what is not there.
Delete(c) ==
  /\ rulePc[c] = "delete"
  /\ rule' = [rule EXCEPT ![ruleReq[c].id] = None]
  /\ deleted' = (deleted \/ rule[ruleReq[c].id] # None)
  /\ \E answer \in {"ok", "error"} :
       /\ answer = "error" => rule[ruleReq[c].id] = None
       /\ RuleAnswer(c, answer)
  /\ UNCHANGED <<ruleVerified, ruleHolder, ruleReq, unsure, ruleFaults, crashes>>

ServeRuleList(c) ==
  /\ rulePc[c] = "list"
  /\ RuleAnswer(c, IF Rules = {} THEN "empty" ELSE "ok")
  /\ UNCHANGED <<rule, ruleVerified, ruleHolder, ruleReq, deleted, unsure, ruleFaults, crashes>>

-----------------------------------------------------------------------------
\* The other store calls that can fail.  The scan's error leaves the setup, and
\* List goes on.
RuleStoreFails(c) ==
  /\ ruleFaults < MaxRuleFaults
  /\ ruleFaults' = ruleFaults + 1
  /\ \/ rulePc[c] = "scan" /\ LeaveRuleSetup(c, FALSE) /\ UNCHANGED ruleReply
     \/ rulePc[c] = "write" /\ CreateEnds(c, "error")
     \/ /\ rulePc[c] \in {"delete", "list"}
        /\ RuleAnswer(c, "error")
        /\ UNCHANGED <<ruleVerified, ruleHolder>>
  /\ UNCHANGED <<rule, ruleReq, deleted, unsure, crashes>>

\* The process of a replica dies with its calls; the store does not.
RuleCrash(r) ==
  /\ crashes < MaxCrashes
  /\ crashes' = crashes + 1
  /\ ruleVerified' = [ruleVerified EXCEPT ![r] = FALSE]
  /\ ruleHolder' = [ruleHolder EXCEPT ![r] = None]
  /\ rulePc' = [c \in RuleCalls |-> IF rulePc[c] \notin {"idle", "done"} /\ ruleReq[c].at = r
                            THEN "dead" ELSE rulePc[c]]
  /\ UNCHANGED <<rule, ruleReq, ruleReply, deleted, unsure, ruleFaults>>

-----------------------------------------------------------------------------
RulesInit ==
  /\ rule = [id \in RuleIds |-> None]
  /\ ruleVerified = [r \in Replicas |-> FALSE]
  /\ ruleHolder = [r \in Replicas |-> None]
  /\ ruleReq = [c \in RuleCalls |-> None]
  /\ rulePc = [c \in RuleCalls |-> "idle"]
  /\ ruleReply = [c \in RuleCalls |-> "none"]
  /\ deleted = FALSE
  /\ unsure = {}
  /\ ruleFaults = 0
  /\ crashes = 0

RuleProceed(c) ==
  \/ EnterRuleSetup(c) \/ ScanRules(c)
  \/ CreateReads(c) \/ CreateWrites(c)
  \/ Delete(c) \/ ServeRuleList(c)

RulesNext ==
  \/ \E c \in RuleCalls : \/ RuleProceed(c) \/ CreateReadFails(c) \/ RuleStoreFails(c)
                      \/ \E r \in RuleRequests : RuleArrive(c, r)
  \/ \E r \in Replicas : RuleCrash(r)

\* Each call is served by a goroutine of its own.
RulesSpec == RulesInit /\ [][RulesNext]_ruleVars /\ \A c \in RuleCalls : WF_ruleVars(RuleProceed(c))

-----------------------------------------------------------------------------
RulePCs == {"idle", "setup", "scan", "read", "write", "delete", "list", "done", "dead"}
\* The types of the variables, and the mutex: what is between Lock and Unlock of
\* setupDefaultRules is run by the call that holds it (rules.go).
RulesTypeOK ==
  /\ rule \in [RuleIds -> RuleCalls \cup {None}]
  /\ ruleVerified \in [Replicas -> BOOLEAN]
  /\ ruleHolder \in [Replicas -> RuleCalls \cup {None}]
  /\ ruleReq \in [RuleCalls -> RuleRequests \cup {None}]
  /\ rulePc \in [RuleCalls -> RulePCs]
  /\ ruleReply \in [RuleCalls -> {"none", "ok", "empty", "error"}]
  /\ deleted \in BOOLEAN
  /\ unsure \subseteq RuleIds
  /\ ruleFaults \in Nat /\ crashes \in Nat
  /\ \A c \in RuleCalls :
       /\ rulePc[c] # "idle" => ruleReq[c] \in RuleRequests
       /\ rulePc[c] \in {"setup", "scan", "list"} => ruleReq[c].op = "list"
       /\ rulePc[c] \in {"scan", "read", "write"} /\ ruleReq[c].op = "list"
            => ruleHolder[ruleReq[c].at] = c

\* List answers that there are no rules only if one has been deleted, or the store
\* has failed: it has seen a rule or made the default one first, or another call
\* of its replica has.
ListNotEmpty ==
  \A c \in RuleCalls : ruleReply[c] = "empty" => deleted \/ ruleFaults > 0

\* "setup the defaults incase none exist" (List): once a replica has the namespace
\* in its cache, there are rules, unless someone deletes them.
CachedMeansSetUp == \A r \in Replicas : ruleVerified[r] /\ ~deleted => Rules # {}

\* "Chck the rule doesn't exist" (Create): a rule is removed by Delete, never
\* written over by another Create or by the setup of the default rule, unless two
\* calls create it at a time or a read fails.
RulesNeverReplaced ==
  [][\A id \in RuleIds \ unsure : rule[id] # None => rule'[id] \in {rule[id], None}]_ruleVars

\* Every call is answered unless its replica dies: the setup runs Create with the
\* mutex locked, and unlocks it on every path.
EveryRuleCallAnswered ==
  \A c \in RuleCalls : rulePc[c] # "idle" ~> rulePc[c] \in {"done", "dead"}
=============================================================================
