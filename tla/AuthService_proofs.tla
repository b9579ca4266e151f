-------------------------- MODULE AuthService_proofs --------------------------
(***************************************************************************)
(* What AuthRules keeps, for every set of replicas, calls and ids - its    *)
(* types, that List finds rules on a store that answers without errors,    *)
(* and that no rule is written over but where two calls create it at a     *)
(* time, or a read fails - and that the auth service implements the        *)
(* specifications of its two handlers, so that what is proved of each      *)
(* holds in the service.                                                   *)
(***************************************************************************)
EXTENDS AuthService, AuthAccounts_proofs

(***************************************************************************)
(* The handler of rules.                                                   *)
(***************************************************************************)
LEMMA RulesInitType == RulesInit => RulesTypeOK
<1> SUFFICES ASSUME RulesInit
             PROVE  RulesTypeOK
  OBVIOUS
<1>1. deleted \in BOOLEAN /\ ruleVerified \in [Replicas -> BOOLEAN]
  BY DEF RulesInit
<1> QED
  BY <1>1, RulesAssumption DEF RulesInit, RulesTypeOK, RulePCs

\* A call that leaves the setup unlocks what it, and so no other call, has locked.
LEMMA LeaveRuleSetupType ==
  ASSUME RulesTypeOK, NEW c \in RuleCalls,
         rulePc[c] \in {"scan", "read", "write"}, ruleReq[c].op = "list",
         NEW cached \in BOOLEAN, LeaveRuleSetup(c, cached), UNCHANGED <<ruleReq, ruleReply>>,
         rule' \in [RuleIds -> RuleCalls \cup {None}], deleted' \in BOOLEAN,
         unsure' \subseteq RuleIds,
         ruleFaults' \in Nat, crashes' \in Nat
  PROVE  RulesTypeOK'
<1>1. ruleReq[c].at \in Replicas
  BY DEF RulesTypeOK, RuleRequests
<1>2. ASSUME NEW d \in RuleCalls, d # c,
             rulePc[d] \in {"scan", "read", "write"}, ruleReq[d].op = "list"
      PROVE  ruleReq[d].at # ruleReq[c].at
  BY <1>2 DEF RulesTypeOK
<1>3. ruleVerified' \in [Replicas -> BOOLEAN] /\ ruleHolder' \in [Replicas -> RuleCalls \cup {None}]
  BY <1>1 DEF LeaveRuleSetup, RulesTypeOK
<1>4. /\ rulePc' \in [RuleCalls -> RulePCs] /\ rulePc'[c] = "list"
      /\ \A d \in RuleCalls \ {c} : rulePc'[d] = rulePc[d]
  BY DEF LeaveRuleSetup, RulesTypeOK, RulePCs
<1>5. \A r \in Replicas : r # ruleReq[c].at => ruleHolder'[r] = ruleHolder[r]
  BY DEF LeaveRuleSetup, RulesTypeOK
<1>6. ASSUME NEW d \in RuleCalls
      PROVE  /\ rulePc'[d] # "idle" => ruleReq'[d] \in RuleRequests
             /\ rulePc'[d] \in {"setup", "scan", "list"} => ruleReq'[d].op = "list"
             /\ rulePc'[d] \in {"scan", "read", "write"} /\ ruleReq'[d].op = "list"
                  => ruleHolder'[ruleReq'[d].at] = d
  <2>1. rulePc[d] # "idle" => ruleReq[d].at \in Replicas
    BY DEF RulesTypeOK, RuleRequests
  <2>2. CASE d = c
    BY <1>4, <2>2 DEF RulesTypeOK
  <2>3. CASE d # c
    BY <1>2, <1>4, <1>5, <2>1, <2>3 DEF RulesTypeOK
  <2> QED
    BY <2>2, <2>3
<1> QED
  BY <1>3, <1>4, <1>6 DEF RulesTypeOK

LEMMA RulesStepType ==
  ASSUME RulesTypeOK, [RulesNext]_ruleVars
  PROVE  RulesTypeOK'
<1> USE RulesAssumption, NoRuleAssumption
    DEF RulesTypeOK, RulePCs, RuleAnswer, LeaveRuleSetup, CreateEnds
<1>1. ASSUME NEW c \in RuleCalls, rulePc[c] # "idle"
      PROVE  ruleReq[c] \in RuleRequests /\ ruleReq[c].at \in Replicas /\ ruleReq[c].id \in RuleIds
  BY <1>1 DEF RuleRequests
<1>2. ASSUME NEW c \in RuleCalls, NEW r \in RuleRequests, RuleArrive(c, r)
      PROVE  RulesTypeOK'
  BY <1>2 DEF RuleArrive, RuleRequests
<1>3. ASSUME NEW c \in RuleCalls, EnterRuleSetup(c)
      PROVE  RulesTypeOK'
  BY <1>1, <1>3 DEF EnterRuleSetup
<1>4. ASSUME NEW c \in RuleCalls, ScanRules(c)
      PROVE  RulesTypeOK'
  <2>1. CASE Rules # {}
    <3>1. LeaveRuleSetup(c, TRUE) /\ rulePc[c] = "scan" /\ ruleReq[c].op = "list"
      BY <1>4, <2>1 DEF ScanRules
    <3> QED
      BY <1>4, <3>1, LeaveRuleSetupType DEF ScanRules
  <2>2. CASE Rules = {}
    BY <1>1, <1>4, <2>2 DEF ScanRules
  <2> QED
    BY <2>1, <2>2
<1>5. ASSUME NEW c \in RuleCalls, CreateReads(c)
      PROVE  RulesTypeOK'
  <2>1. unsure' \subseteq RuleIds
    BY <1>1, <1>5 DEF CreateReads
  <2>2. CASE rule[ruleReq[c].id] = None
    BY <1>5, <2>1, <2>2 DEF CreateReads
  <2>3. CASE rule[ruleReq[c].id] # None
    <3>1. CASE ruleReq[c].op = "list"
      <4>1. LeaveRuleSetup(c, TRUE) /\ UNCHANGED ruleReply /\ rulePc[c] = "read"
        BY <1>5, <2>3, <3>1 DEF CreateReads
      <4> QED
        BY <1>5, <2>1, <3>1, <4>1, LeaveRuleSetupType DEF CreateReads
    <3>2. CASE ruleReq[c].op # "list"
      BY <1>1, <1>5, <2>1, <2>3, <3>2 DEF CreateReads
    <3> QED
      BY <3>1, <3>2
  <2> QED
    BY <2>2, <2>3
<1>6. ASSUME NEW c \in RuleCalls, CreateReadFails(c)
      PROVE  RulesTypeOK'
  BY <1>1, <1>6 DEF CreateReadFails
<1>7. ASSUME NEW c \in RuleCalls, CreateWrites(c)
      PROVE  RulesTypeOK'
  <2>1. /\ rule' \in [RuleIds -> RuleCalls \cup {None}] /\ deleted' \in BOOLEAN
        /\ unsure' \subseteq RuleIds
    BY <1>1, <1>7 DEF CreateWrites
  <2>2. CASE ruleReq[c].op = "list"
    <3>1. LeaveRuleSetup(c, TRUE) /\ UNCHANGED <<ruleReq, ruleReply, unsure, ruleFaults, crashes>>
      BY <1>7, <2>2 DEF CreateWrites
    <3> QED
      BY <1>7, <2>1, <2>2, <3>1, LeaveRuleSetupType DEF CreateWrites
  <2>3. CASE ruleReq[c].op # "list"
    BY <1>1, <1>7, <2>1, <2>3 DEF CreateWrites
  <2> QED
    BY <2>2, <2>3
<1>8. ASSUME NEW c \in RuleCalls, Delete(c)
      PROVE  RulesTypeOK'
  BY <1>1, <1>8 DEF Delete
<1>9. ASSUME NEW c \in RuleCalls, ServeRuleList(c)
      PROVE  RulesTypeOK'
  BY <1>1, <1>9 DEF ServeRuleList
<1>10. ASSUME NEW c \in RuleCalls, RuleStoreFails(c)
       PROVE  RulesTypeOK'
  <2>1. ruleFaults' \in Nat /\ deleted' \in BOOLEAN /\ unsure' \subseteq RuleIds
    BY <1>10 DEF RuleStoreFails
  <2>2. CASE rulePc[c] = "scan"
    BY <1>1, <1>10, <2>1, <2>2 DEF RuleStoreFails
  <2>3. CASE rulePc[c] = "write"
    <3>1. CASE ruleReq[c].op = "list"
      <4>1. LeaveRuleSetup(c, TRUE) /\ UNCHANGED <<rule, ruleReq, ruleReply, unsure, crashes>>
        BY <1>10, <2>3, <3>1 DEF RuleStoreFails
      <4> QED
        BY <2>1, <2>3, <3>1, <4>1, LeaveRuleSetupType
    <3>2. CASE ruleReq[c].op # "list"
      BY <1>1, <1>10, <2>1, <2>3, <3>2 DEF RuleStoreFails
    <3> QED
      BY <3>1, <3>2
  <2>4. CASE rulePc[c] \in {"delete", "list"}
    BY <1>1, <1>10, <2>1, <2>4 DEF RuleStoreFails
  <2> QED
    BY <1>10, <2>2, <2>3, <2>4 DEF RuleStoreFails
<1>11. ASSUME NEW r \in Replicas, RuleCrash(r)
       PROVE  RulesTypeOK'
  BY <1>11 DEF RuleCrash
<1>12. CASE UNCHANGED ruleVars
  BY <1>12 DEF ruleVars
<1> QED
  BY <1>2, <1>3, <1>4, <1>5, <1>6, <1>7, <1>8, <1>9, <1>10, <1>11, <1>12 DEF RulesNext, RuleProceed

\* The variables keep their types, and a call is in the setup with the mutex of
\* its replica locked (rules.go).
THEOREM RulesTypeCorrectness == RulesSpec => []RulesTypeOK
  BY RulesInitType, RulesStepType, PTL DEF RulesSpec

-----------------------------------------------------------------------------
(***************************************************************************)
(* What a replica has in its cache, and a List that has left the setup,    *)
(* can count on a rule, or on one having been deleted, or on the store     *)
(* having failed.                                                          *)
(***************************************************************************)
SetUp == Rules # {} \/ deleted \/ ruleFaults > 0

SetUpInv ==
  /\ RulesTypeOK
  /\ \A r \in Replicas : ruleVerified[r] => SetUp
  /\ \A c \in RuleCalls : rulePc[c] = "list" => SetUp
  /\ ListNotEmpty

\* No step takes that back: only Delete removes rules.
LEMMA SetUpStays ==
  ASSUME RulesTypeOK, [RulesNext]_ruleVars, SetUp
  PROVE  SetUp'
<1>1. ASSUME NEW c \in RuleCalls, CreateWrites(c)
      PROVE  SetUp'
  <2>1. rule'[ruleReq[c].id] = c /\ ruleReq[c].id \in RuleIds /\ c # None
    BY <1>1, RulesAssumption DEF CreateWrites, RulesTypeOK, RuleRequests
  <2> QED
    BY <2>1 DEF SetUp, Rules
<1>2. ASSUME NEW c \in RuleCalls, Delete(c)
      PROVE  SetUp'
  <2>1. CASE rule[ruleReq[c].id] = None
    BY <1>2, <2>1 DEF Delete, SetUp, Rules, RulesTypeOK
  <2>2. CASE rule[ruleReq[c].id] # None
    BY <1>2, <2>2 DEF Delete, SetUp
  <2> QED
    BY <2>1, <2>2
<1>3. ASSUME NEW c \in RuleCalls,
             \/ EnterRuleSetup(c) \/ ScanRules(c) \/ CreateReads(c) \/ ServeRuleList(c)
             \/ CreateReadFails(c) \/ RuleStoreFails(c) \/ \E r \in RuleRequests : RuleArrive(c, r)
      PROVE  SetUp'
  <2>1. /\ rule' = rule /\ deleted' = deleted
        /\ ruleFaults' = ruleFaults \/ ruleFaults' = ruleFaults + 1
    BY <1>3 DEF EnterRuleSetup, ScanRules, CreateReads, ServeRuleList, CreateReadFails,
         RuleStoreFails, RuleArrive
  <2> QED
    BY <2>1 DEF SetUp, Rules, RulesTypeOK
<1>4. ASSUME NEW r \in Replicas, RuleCrash(r)
      PROVE  SetUp'
  BY <1>4 DEF RuleCrash, SetUp, Rules
<1>5. CASE UNCHANGED ruleVars
  BY <1>5 DEF ruleVars, SetUp, Rules
<1> QED
  BY <1>1, <1>2, <1>3, <1>4, <1>5 DEF RulesNext, RuleProceed

LEMMA StepSetUp ==
  ASSUME SetUpInv, [RulesNext]_ruleVars
  PROVE  SetUpInv'
<1>1. RulesTypeOK /\ RulesTypeOK'
  BY RulesStepType DEF SetUpInv
<1>2. SetUp => SetUp'
  BY <1>1, SetUpStays
<1> DEFINE Excused == deleted \/ ruleFaults > 0
<1> DEFINE Kept ==
      /\ \A r \in Replicas : ruleVerified'[r] => ruleVerified[r] \/ SetUp'
      /\ \A c \in RuleCalls : rulePc'[c] = "list" => rulePc[c] = "list" \/ SetUp'
      /\ \A c \in RuleCalls : ruleReply'[c] = "empty" => ruleReply[c] = "empty" \/ Excused
      /\ Excused => Excused'
<1>3. ASSUME NEW c \in RuleCalls, NEW r \in RuleRequests, RuleArrive(c, r)
      PROVE  Kept
  BY <1>1, <1>3 DEF RuleArrive, RulesTypeOK, RuleRequests
<1>4. ASSUME NEW c \in RuleCalls, EnterRuleSetup(c)
      PROVE  Kept
  <2>1. ruleVerified[ruleReq[c].at] => SetUp'
    BY <1>1, <1>2, <1>4 DEF SetUpInv, EnterRuleSetup, RulesTypeOK, RuleRequests
  <2> QED
    BY <1>1, <1>4, <2>1 DEF EnterRuleSetup, RulesTypeOK
<1>5. ASSUME NEW c \in RuleCalls, ScanRules(c)
      PROVE  Kept
  <2>1. Rules # {} => SetUp'
    BY <1>2 DEF SetUp
  <2> QED
    BY <1>1, <1>5, <2>1 DEF ScanRules, LeaveRuleSetup, RulesTypeOK
<1>6. ASSUME NEW c \in RuleCalls, CreateReads(c)
      PROVE  Kept
  <2>1. rule[ruleReq[c].id] # None => SetUp'
    <3>1. ruleReq[c].id \in RuleIds
      BY <1>1, <1>6, RulesAssumption DEF CreateReads, RulesTypeOK, RuleRequests
    <3>2. rule[ruleReq[c].id] # None => Rules # {}
      BY <3>1 DEF Rules
    <3> QED
      BY <1>2, <3>2 DEF SetUp
  <2> QED
    BY <1>1, <1>6, <2>1 DEF CreateReads, CreateEnds, LeaveRuleSetup, RuleAnswer, RulesTypeOK
<1>7. ASSUME NEW c \in RuleCalls, CreateWrites(c)
      PROVE  Kept
  <2>1. rule'[ruleReq[c].id] = c /\ ruleReq[c].id \in RuleIds /\ c # None
    BY <1>1, <1>7, RulesAssumption DEF CreateWrites, RulesTypeOK, RuleRequests
  <2>2. SetUp'
    BY <2>1 DEF SetUp, Rules
  <2>3. \A d \in RuleCalls : ruleReply'[d] = "empty" => ruleReply[d] = "empty"
    BY <1>1, <1>7 DEF CreateWrites, CreateEnds, LeaveRuleSetup, RuleAnswer, RulesTypeOK
  <2> QED
    BY <1>7, <2>2, <2>3 DEF CreateWrites
<1>8. ASSUME NEW c \in RuleCalls, Delete(c)
      PROVE  Kept
  BY <1>1, <1>8 DEF Delete, RuleAnswer, RulesTypeOK
<1>9. ASSUME NEW c \in RuleCalls, ServeRuleList(c)
      PROVE  Kept
  <2>1. Rules = {} => Excused
    BY <1>9 DEF SetUpInv, SetUp, ServeRuleList
  <2> QED
    BY <1>1, <1>9, <2>1 DEF ServeRuleList, RuleAnswer, RulesTypeOK
<1>10. ASSUME NEW c \in RuleCalls, CreateReadFails(c) \/ RuleStoreFails(c)
       PROVE  Kept
  <2>1. ruleFaults' > 0
    <3>1. ruleFaults' = ruleFaults + 1
      BY <1>10 DEF CreateReadFails, RuleStoreFails
    <3>2. ruleFaults \in Nat
      BY <1>1 DEF RulesTypeOK
    <3> QED
      BY <3>1, <3>2
  <2>2. SetUp' /\ Excused'
    BY <2>1 DEF SetUp
  <2>3. \A d \in RuleCalls : ruleReply'[d] = "empty" => ruleReply[d] = "empty"
    BY <1>1, <1>10 DEF CreateReadFails, RuleStoreFails, CreateEnds, LeaveRuleSetup,
         RuleAnswer, RulesTypeOK
  <2> QED
    BY <2>2, <2>3
<1>11. ASSUME NEW r \in Replicas, RuleCrash(r)
       PROVE  Kept
  BY <1>1, <1>11 DEF RuleCrash, RulesTypeOK
<1>12. ASSUME UNCHANGED ruleVars
       PROVE  Kept
  <2>1. /\ ruleVerified' = ruleVerified /\ rulePc' = rulePc
        /\ ruleReply' = ruleReply /\ deleted' = deleted
        /\ ruleFaults' = ruleFaults
    BY <1>12 DEF ruleVars
  <2> QED
    BY <2>1
<1>13. Kept
  BY <1>3, <1>4, <1>5, <1>6, <1>7, <1>8, <1>9, <1>10, <1>11, <1>12 DEF RulesNext, RuleProceed
<1>14. ListNotEmpty'
  BY <1>13 DEF SetUpInv, ListNotEmpty
<1>15. /\ \A r \in Replicas : ruleVerified'[r] => SetUp'
       /\ \A c \in RuleCalls : rulePc'[c] = "list" => SetUp'
  BY <1>2, <1>13 DEF SetUpInv
<1> QED
  BY <1>1, <1>14, <1>15 DEF SetUpInv

\* With any number of crashes, List answers that there are no rules only if one has
\* been deleted or the store has failed (setupDefaultRules, rules.go).
THEOREM ListNotEmptyTheorem == RulesSpec => []ListNotEmpty
<1>1. RulesInit => SetUpInv
  BY RulesInitType DEF RulesInit, SetUpInv, ListNotEmpty
<1>2. SetUpInv /\ [RulesNext]_ruleVars => SetUpInv'
  BY StepSetUp
<1>3. SetUpInv => ListNotEmpty
  BY DEF SetUpInv
<1> QED
  BY <1>1, <1>2, <1>3, PTL DEF RulesSpec

-----------------------------------------------------------------------------
\* Where no two calls have met and no read has failed: a call that is to write a
\* rule has found none, and there still is none.
RuleUnwritten ==
  \A c \in RuleCalls :
    rulePc[c] = "write" => rule[ruleReq[c].id] = None \/ ruleReq[c].id \in unsure

RuleExclusion ==
  \A c, d \in RuleCalls :
    /\ c # d
    /\ rulePc[c] = "write" /\ rulePc[d] = "write"
    /\ ruleReq[c].id = ruleReq[d].id
    => ruleReq[c].id \in unsure

\* Where a call that is to write a rule has come from.
LEMMA RuleWriteSteps ==
  ASSUME RulesTypeOK, [RulesNext]_ruleVars, NEW d \in RuleCalls
  PROVE  rulePc'[d] = "write" =>
           /\ ruleReq'[d] = ruleReq[d]
           /\ \/ rulePc[d] = "write"
              \/ CreateReads(d) /\ rule[ruleReq[d].id] = None
              \/ CreateReadFails(d)
<1> USE DEF RulesTypeOK, RuleAnswer, LeaveRuleSetup, CreateEnds
<1> DEFINE Goal == rulePc'[d] = "write" =>
             /\ ruleReq'[d] = ruleReq[d]
             /\ \/ rulePc[d] = "write"
                \/ CreateReads(d) /\ rule[ruleReq[d].id] = None
                \/ CreateReadFails(d)
<1>1. ASSUME NEW c \in RuleCalls, NEW r \in RuleRequests, RuleArrive(c, r)
      PROVE  Goal
  BY <1>1 DEF RuleArrive, RuleRequests
<1>2. ASSUME NEW c \in RuleCalls, EnterRuleSetup(c) \/ ScanRules(c)
      PROVE  Goal
  BY <1>2 DEF EnterRuleSetup, ScanRules
<1>3. ASSUME NEW c \in RuleCalls, CreateReads(c)
      PROVE  Goal
  BY <1>3 DEF CreateReads
<1>4. ASSUME NEW c \in RuleCalls, CreateReadFails(c)
      PROVE  Goal
  BY <1>4 DEF CreateReadFails
<1>5. ASSUME NEW c \in RuleCalls, CreateWrites(c)
      PROVE  Goal
  BY <1>5 DEF CreateWrites
<1>6. ASSUME NEW c \in RuleCalls, Delete(c) \/ ServeRuleList(c)
      PROVE  Goal
  BY <1>6 DEF Delete, ServeRuleList
<1>7. ASSUME NEW c \in RuleCalls, RuleStoreFails(c)
      PROVE  Goal
  BY <1>7 DEF RuleStoreFails
<1>8. ASSUME NEW r \in Replicas, RuleCrash(r)
      PROVE  Goal
  BY <1>8 DEF RuleCrash
<1>9. CASE UNCHANGED ruleVars
  BY <1>9 DEF ruleVars
<1> QED
  BY <1>1, <1>2, <1>3, <1>4, <1>5, <1>6, <1>7, <1>8, <1>9 DEF RulesNext, RuleProceed

\* Only Create's write makes rules and only Delete removes them.
LEMMA RuleSteps ==
  ASSUME RulesTypeOK, [RulesNext]_ruleVars
  PROVE  /\ unsure \subseteq unsure'
         /\ \/ \E c \in RuleCalls : CreateWrites(c)
            \/ \A id \in RuleIds : rule'[id] \in {rule[id], None}
<1>1. unsure \subseteq unsure'
  BY DEF RulesNext, RuleProceed, ruleVars, RuleArrive, EnterRuleSetup, ScanRules,
     CreateReads, CreateReadFails, CreateWrites, Delete, ServeRuleList,
     RuleStoreFails, RuleCrash
<1>2. \/ \E c \in RuleCalls : CreateWrites(c) \/ Delete(c)
      \/ rule' = rule
  BY DEF RulesNext, RuleProceed, ruleVars, RuleArrive, EnterRuleSetup, ScanRules,
     CreateReads, CreateReadFails, ServeRuleList, RuleStoreFails, RuleCrash
<1>3. ASSUME NEW c \in RuleCalls, Delete(c)
      PROVE  \A id \in RuleIds : rule'[id] \in {rule[id], None}
  BY <1>3 DEF Delete, RulesTypeOK
<1> QED
  BY <1>1, <1>2, <1>3

\* A call that goes to write a rule that another is to write, or that it could
\* not read, notes that it is unsure.
LEMMA RuleReadSteps ==
  ASSUME RulesTypeOK, NEW c \in RuleCalls, rulePc'[c] = "write",
         CreateReads(c) \/ CreateReadFails(c),
         NEW d \in RuleCalls, c # d, rulePc'[d] = "write", ruleReq[d].id = ruleReq[c].id
  PROVE  ruleReq[c].id \in unsure'
<1>1. CASE CreateReads(c)
  <2>1. rule[ruleReq[c].id] = None
    BY <1>1 DEF CreateReads, CreateEnds, LeaveRuleSetup, RuleAnswer, RulesTypeOK
  <2>2. /\ rulePc[d] = "write"
        /\ unsure' = IF RuleContested(c) THEN unsure \cup {ruleReq[c].id} ELSE unsure
    BY <1>1, <2>1 DEF CreateReads, RulesTypeOK
  <2>3. RuleContested(c)
    BY <2>2 DEF RuleContested
  <2> QED
    BY <2>2, <2>3
<1>2. CASE CreateReadFails(c)
  BY <1>2 DEF CreateReadFails
<1> QED
  BY <1>1, <1>2

RuleRaceInv == RulesTypeOK /\ RuleUnwritten /\ RuleExclusion

LEMMA StepRuleRaceInv == RuleRaceInv /\ [RulesNext]_ruleVars => RuleRaceInv'
<1> SUFFICES ASSUME RuleRaceInv, [RulesNext]_ruleVars
             PROVE  RuleRaceInv'
  OBVIOUS
<1>1. RulesTypeOK /\ RulesTypeOK' /\ unsure \subseteq unsure'
  BY RulesStepType, RuleSteps DEF RuleRaceInv
<1>2. ASSUME NEW c \in RuleCalls, rulePc'[c] = "write"
      PROVE  /\ ruleReq'[c].id = ruleReq[c].id
             /\ \/ rulePc[c] = "write"
                \/ CreateReads(c) /\ rule[ruleReq[c].id] = None
                \/ CreateReadFails(c)
  BY <1>1, <1>2, RuleWriteSteps
<1>3. RuleExclusion'
  <2> SUFFICES ASSUME NEW c \in RuleCalls, NEW d \in RuleCalls, c # d,
                      rulePc'[c] = "write", rulePc'[d] = "write",
                      ruleReq'[c].id = ruleReq'[d].id
               PROVE  ruleReq'[c].id \in unsure'
    BY DEF RuleExclusion
  <2>1. /\ ruleReq'[c].id = ruleReq[c].id
        /\ ruleReq'[d].id = ruleReq[d].id
        /\ ruleReq[c].id = ruleReq[d].id
    BY <1>2
  <2>2. CASE rulePc[c] = "write" /\ rulePc[d] = "write"
    BY <1>1, <2>1, <2>2 DEF RuleRaceInv, RuleExclusion
  <2>3. CASE CreateReads(c) \/ CreateReadFails(c)
    BY <1>1, <2>1, <2>3, RuleReadSteps
  <2>4. CASE CreateReads(d) \/ CreateReadFails(d)
    BY <1>1, <2>1, <2>4, RuleReadSteps
  <2> QED
    BY <1>2, <2>2, <2>3, <2>4
<1>4. RuleUnwritten'
  <2> SUFFICES ASSUME NEW c \in RuleCalls, rulePc'[c] = "write", ruleReq[c].id \notin unsure'
               PROVE  rule'[ruleReq[c].id] = None
    BY <1>2 DEF RuleUnwritten
  <2>1. ~CreateReadFails(c)
    BY DEF CreateReadFails
  <2>2. rule[ruleReq[c].id] = None
    BY <1>1, <1>2, <2>1 DEF RuleRaceInv, RuleUnwritten
  <2>3. ruleReq[c].id \in RuleIds
    <3>1. rulePc[c] # "idle"
      BY <1>2, <2>1 DEF CreateReads
    <3> QED
      BY <1>1, <3>1, RulesAssumption DEF RulesTypeOK, RuleRequests
  <2>4. ASSUME NEW d \in RuleCalls, CreateWrites(d)
        PROVE  rule'[ruleReq[c].id] = None
    <3>1. /\ rulePc[d] = "write" /\ rulePc'[d] # "write"
          /\ \A id \in RuleIds : id # ruleReq[d].id => rule'[id] = rule[id]
          /\ \A a \in RuleCalls : a # d => rulePc'[a] = rulePc[a]
      BY <1>1, <2>4 DEF CreateWrites, CreateEnds, LeaveRuleSetup, RuleAnswer, RulesTypeOK
    <3>2. c # d /\ rulePc[c] = "write"
      BY <3>1
    <3>3. ruleReq[d].id # ruleReq[c].id
      BY <1>1, <3>1, <3>2 DEF RuleRaceInv, RuleExclusion
    <3> QED
      BY <2>2, <2>3, <3>1, <3>3
  <2> QED
    BY <1>1, <2>2, <2>3, <2>4, RuleSteps
<1> QED
  BY <1>1, <1>3, <1>4 DEF RuleRaceInv

\* A rule is never written over, whatever crashes, unless two calls were at a time
\* between the read and the write of Create for it, or a read failed (rules.go).
THEOREM RuleNeverReplacedTheorem == RulesSpec => RulesNeverReplaced
<1>1. RulesInit => RuleRaceInv
  BY RulesInitType DEF RulesInit, RuleRaceInv, RuleUnwritten, RuleExclusion
<1>2. RuleRaceInv /\ [RulesNext]_ruleVars => RuleRaceInv'
  BY StepRuleRaceInv
<1>3. RuleRaceInv /\ [RulesNext]_ruleVars =>
        [\A id \in RuleIds \ unsure : rule[id] # None => rule'[id] \in {rule[id], None}]_ruleVars
  <2> SUFFICES ASSUME RuleRaceInv, [RulesNext]_ruleVars,
                      NEW id \in RuleIds \ unsure, rule[id] # None
               PROVE  rule'[id] \in {rule[id], None}
    OBVIOUS
  <2>1. ASSUME NEW c \in RuleCalls, CreateWrites(c)
        PROVE  rule'[id] = rule[id]
    <3>1. rule[ruleReq[c].id] = None \/ ruleReq[c].id \in unsure
      BY <2>1 DEF RuleRaceInv, RuleUnwritten, CreateWrites
    <3>2. id # ruleReq[c].id
      BY <3>1
    <3> QED
      BY <2>1, <3>2 DEF CreateWrites, RuleRaceInv, RulesTypeOK
  <2> QED
    BY <2>1, RuleSteps DEF RuleRaceInv
<1> QED
  BY <1>1, <1>2, <1>3, PTL DEF RulesSpec, RulesNeverReplaced

-----------------------------------------------------------------------------
(***************************************************************************)
(* The service.                                                            *)
(***************************************************************************)
\* Seen by the accounts, a step of the service is one of theirs or none.
THEOREM ImplementsAccounts == ServiceSpec => Spec
<1>1. ServiceInit => Init
  BY DEF ServiceInit
<1>2. [ServiceNext]_<<vars, ruleVars>> => [Next]_vars
  BY DEF ServiceNext, AccountStep, RuleStep, ProcessCrash, Next
<1> QED
  BY <1>1, <1>2, PTL DEF ServiceSpec, Spec

\* And seen by the rules, one of theirs or none.
THEOREM ImplementsRules == ServiceSpec => RulesSpec
<1>1. ServiceInit => RulesInit
  BY DEF ServiceInit
<1>2. [ServiceNext]_<<vars, ruleVars>> => [RulesNext]_ruleVars
  BY DEF ServiceNext, AccountStep, RuleStep, ProcessCrash, RulesNext
<1> QED
  BY <1>1, <1>2, PTL DEF ServiceSpec, RulesSpec

\* The service as a whole keeps the invariants of its handlers, for any number of
\* replicas, calls, store errors and crashes.
THEOREM ServiceInvariants ==
  ServiceSpec => [](RefreshTokenHasAccount /\ GeneratedCanLogIn /\ OneGenerateSucceeds
                      /\ ListNotEmpty)
  BY ImplementsAccounts, ImplementsRules, RefreshTokenTheorem, GeneratedTheorem,
     OneGenerateTheorem, ListNotEmptyTheorem, PTL
=============================================================================
