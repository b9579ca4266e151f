------------------------- MODULE AuthAccounts_proofs -------------------------
(***************************************************************************)
(* What AuthAccounts keeps, for every set of replicas, calls and ids and   *)
(* any number of store errors and crashes.                                 *)
(***************************************************************************)
EXTENDS AuthAccounts, TLAPS

\* The account is in the store before the refresh token is written, and the
\* token that an answered call wrote is still there.
GenerateInv ==
  \A c \in Calls :
    /\ pc[c] = "token" => account[Target(c)] # None
    /\ Generated(c) => <<req[c].id, c>> \in refresh

IInv == TypeOK /\ RefreshTokenHasAccount /\ GenerateInv

LEMMA InitIInv == Init => IInv
  BY AuthAssumption
  DEF Init, IInv, TypeOK, InSetup, PCs, RefreshTokenHasAccount, GenerateInv, Generated

LEMMA StepType ==
  ASSUME TypeOK, [Next]_vars
  PROVE  TypeOK'
<1> USE AuthAssumption, NoneAssumption DEF TypeOK, PCs, Answer, LeaveSetup, GenerateEnds, InSetup
<1>1. ASSUME NEW c \in Calls, NEW r \in Requests, Arrive(c, r)
      PROVE  TypeOK'
  BY <1>1 DEF Arrive
<1>2. ASSUME NEW c \in Calls, pc[c] # "idle"
      PROVE  req[c].at \in Replicas /\ req[c] \in Requests
  BY <1>2 DEF Requests
<1>3. ASSUME NEW c \in Calls, pc[c] # "idle"
      PROVE  /\ Target(c) \in Ids
             /\ req[c].op \in {"generate", "secret", "refresh", "list"}
             /\ req[c].op = "secret" => req[c].id \in Ids
             /\ ~InSetup(c) => req[c].type \in Types
  BY <1>3 DEF Requests, Target, InSetup
<1>4. ASSUME NEW c \in Calls, EnterSetup(c)
      PROVE  TypeOK'
  BY <1>2, <1>4 DEF EnterSetup
<1>5. ASSUME NEW c \in Calls, ScanAccounts(c)
      PROVE  TypeOK'
  BY <1>2, <1>5 DEF ScanAccounts
<1>6. ASSUME NEW c \in Calls, GenerateReads(c)
      PROVE  TypeOK'
  <2>1. raced' \subseteq Ids
    <3>1. Target(c) \in Ids
      BY <1>3, <1>6 DEF GenerateReads
    <3> QED
      BY <1>6, <3>1 DEF GenerateReads
  <2>2. CASE account[Target(c)] = None
    BY <1>6, <2>1, <2>2 DEF GenerateReads
  <2>3. CASE account[Target(c)] # None
    BY <1>2, <1>6, <2>1, <2>3 DEF GenerateReads
  <2> QED
    BY <2>2, <2>3
<1>7. ASSUME NEW c \in Calls, GenerateWrites(c)
      PROVE  TypeOK'
  BY <1>3, <1>7 DEF GenerateWrites, Accounts, Secrets, Types
<1>8. ASSUME NEW c \in Calls, setRefreshToken(c)
      PROVE  TypeOK'
  <2>1. refresh' \subseteq Ids \X Calls
    BY <1>3, <1>8 DEF setRefreshToken
  <2>2. CASE InSetup(c)
    <3>1. req[c].at \in Replicas /\ req[c] \in Requests
      BY <1>2, <1>8 DEF setRefreshToken
    <3>2. /\ verified' \in [Replicas -> BOOLEAN] /\ holder' \in [Replicas -> Calls \cup {None}]
          /\ pc[c] = "token" /\ pc' = [pc EXCEPT ![c] = "serve"] /\ reply' = reply
          /\ UNCHANGED <<account, req, who, raced, faults>>
      BY <1>8, <2>2, <3>1 DEF setRefreshToken
    <3> QED
      BY <2>1, <2>2, <3>1, <3>2
  <2>3. CASE ~InSetup(c)
    BY <1>8, <2>1, <2>3 DEF setRefreshToken
  <2> QED
    BY <2>2, <2>3
<1>9. ASSUME NEW c \in Calls, ServeList(c)
      PROVE  TypeOK'
  BY <1>9 DEF ServeList
<1>10. ASSUME NEW c \in Calls, FindAccount(c)
       PROVE  TypeOK'
  <2>1. CASE req[c].op = "secret"
    BY <1>3, <1>10, <2>1 DEF FindAccount
  <2>2. CASE req[c].op = "refresh" /\ who' = who
    BY <1>10, <2>2 DEF FindAccount
  <2>3. ASSUME NEW id \in Ids, req[c].op = "refresh", who' = [who EXCEPT ![c] = id],
               pc' = [pc EXCEPT ![c] = "account"], reply' = reply
        PROVE  TypeOK'
    BY <1>10, <2>3 DEF FindAccount
  <2> QED
    BY <1>10, <2>1, <2>2, <2>3 DEF FindAccount
<1>11. ASSUME NEW c \in Calls, CheckAccount(c)
       PROVE  TypeOK'
  BY <1>11 DEF CheckAccount
<1>12. ASSUME NEW c \in Calls, refreshTokenForAccount(c)
       PROVE  TypeOK'
  BY <1>12 DEF refreshTokenForAccount
<1>13. ASSUME NEW c \in Calls, IssueToken(c)
       PROVE  TypeOK'
  BY <1>13 DEF IssueToken
<1>14. ASSUME NEW c \in Calls, StoreFails(c)
       PROVE  TypeOK'
  BY <1>2, <1>14 DEF StoreFails
<1>15. ASSUME NEW r \in Replicas, Crash(r)
       PROVE  TypeOK'
  BY <1>15 DEF Crash
<1>16. CASE UNCHANGED vars
  BY <1>16 DEF vars
<1> QED
  BY <1>1, <1>4, <1>5, <1>6, <1>7, <1>8, <1>9, <1>10, <1>11, <1>12, <1>13,
     <1>14, <1>15, <1>16 DEF Next, Proceed

-----------------------------------------------------------------------------
\* Accounts are not removed, refresh tokens neither.
LEMMA StoreGrows ==
  ASSUME TypeOK, [Next]_vars
  PROVE  /\ \A id \in Ids : account[id] # None => account'[id] # None
         /\ refresh \subseteq refresh'
<1> USE AuthAssumption, NoneAssumption
<1>1. ASSUME NEW c \in Calls, GenerateWrites(c)
      PROVE  /\ refresh' = refresh
             /\ \A id \in Ids : account[id] # None => account'[id] # None
  <2>1. [type |-> "user", secret |-> DefaultSecret] \in Accounts
    BY DEF Accounts, Types, Secrets
  <2>2. req[c] \in Requests
    BY <1>1 DEF GenerateWrites, TypeOK
  <2>3. ~InSetup(c) => [type |-> req[c].type, secret |-> c] \in Accounts
    BY <2>2 DEF Accounts, Types, Secrets, Requests, InSetup
  <2> QED
    BY <1>1, <2>1, <2>3 DEF GenerateWrites, TypeOK
<1>2. ASSUME NEW c \in Calls, setRefreshToken(c)
      PROVE  account' = account /\ refresh \subseteq refresh'
  BY <1>2 DEF setRefreshToken
<1>3. ASSUME NEW c \in Calls,
             \/ EnterSetup(c) \/ ScanAccounts(c) \/ GenerateReads(c)
             \/ ServeList(c) \/ FindAccount(c) \/ CheckAccount(c)
             \/ refreshTokenForAccount(c) \/ IssueToken(c) \/ StoreFails(c)
             \/ \E r \in Requests : Arrive(c, r)
      PROVE  account' = account /\ refresh' = refresh
  BY <1>3 DEF EnterSetup, ScanAccounts, GenerateReads, ServeList, FindAccount,
       CheckAccount, refreshTokenForAccount, IssueToken, StoreFails, Arrive
<1>4. ASSUME NEW r \in Replicas, Crash(r)
      PROVE  account' = account /\ refresh' = refresh
  BY <1>4 DEF Crash
<1>5. CASE UNCHANGED vars
  BY <1>5 DEF vars
<1> QED
  BY <1>1, <1>2, <1>3, <1>4, <1>5 DEF Next, Proceed

\* Where a call can have come from that is to write its refresh token, or that
\* is a Generate answered without an error.
LEMMA GenerateSteps ==
  ASSUME TypeOK, [Next]_vars, NEW d \in Calls
  PROVE  /\ pc'[d] = "token" => req'[d] = req[d] /\ (pc[d] = "token" \/ GenerateWrites(d))
         /\ Generated(d)' => req'[d] = req[d] /\ (Generated(d) \/ setRefreshToken(d))
<1> USE DEF TypeOK, PCs, Answer, LeaveSetup, GenerateEnds, Generated, InSetup
<1> DEFINE Goal ==
      /\ pc'[d] = "token" => req'[d] = req[d] /\ (pc[d] = "token" \/ GenerateWrites(d))
      /\ Generated(d)' => req'[d] = req[d] /\ (Generated(d) \/ setRefreshToken(d))
<1>1. ASSUME NEW c \in Calls, NEW r \in Requests, Arrive(c, r)
      PROVE  Goal
  BY <1>1 DEF Arrive
<1>2. ASSUME NEW c \in Calls, EnterSetup(c) \/ ScanAccounts(c)
      PROVE  Goal
  BY <1>2 DEF EnterSetup, ScanAccounts
<1>3. ASSUME NEW c \in Calls, GenerateReads(c)
      PROVE  Goal
  BY <1>3 DEF GenerateReads
<1>4. ASSUME NEW c \in Calls, GenerateWrites(c)
      PROVE  Goal
  BY <1>4 DEF GenerateWrites
<1>5. ASSUME NEW c \in Calls, setRefreshToken(c)
      PROVE  Goal
  <2>1. CASE d = c
    BY <1>5, <2>1 DEF setRefreshToken
  <2>2. CASE d # c
    BY <1>5, <2>2 DEF setRefreshToken
  <2> QED
    BY <2>1, <2>2
<1>6. ASSUME NEW c \in Calls, ServeList(c)
      PROVE  Goal
  BY <1>6 DEF ServeList
<1>7. ASSUME NEW c \in Calls, FindAccount(c)
      PROVE  Goal
  BY <1>7 DEF FindAccount
<1>8. ASSUME NEW c \in Calls, CheckAccount(c)
      PROVE  Goal
  BY <1>8 DEF CheckAccount
<1>9. ASSUME NEW c \in Calls, refreshTokenForAccount(c)
      PROVE  Goal
  BY <1>9 DEF refreshTokenForAccount
<1>10. ASSUME NEW c \in Calls, IssueToken(c)
       PROVE  Goal
  BY <1>10 DEF IssueToken
<1>11. ASSUME NEW c \in Calls, StoreFails(c)
       PROVE  Goal
  BY <1>11 DEF StoreFails
<1>12. ASSUME NEW r \in Replicas, Crash(r)
       PROVE  Goal
  BY <1>12 DEF Crash
<1>13. CASE UNCHANGED vars
  BY <1>13 DEF vars
<1> QED
  BY <1>1, <1>2, <1>3, <1>4, <1>5, <1>6, <1>7, <1>8, <1>9, <1>10, <1>11,
     <1>12, <1>13 DEF Next, Proceed

LEMMA StepIInv == IInv /\ [Next]_vars => IInv'
<1> SUFFICES ASSUME IInv, [Next]_vars
             PROVE  IInv'
  OBVIOUS
<1>1. TypeOK'
  BY StepType DEF IInv
<1>2. ASSUME NEW c \in Calls, pc[c] # "idle"
      PROVE  Target(c) \in Ids
  BY <1>2, AuthAssumption DEF IInv, TypeOK, Requests, Target, InSetup
<1>3. GenerateInv'
  <2> SUFFICES ASSUME NEW c \in Calls
               PROVE  /\ pc'[c] = "token" => account'[Target(c)'] # None
                      /\ Generated(c)' => <<req'[c].id, c>> \in refresh'
    BY DEF GenerateInv
  <2>1. ASSUME pc'[c] = "token"
        PROVE  account'[Target(c)'] # None
    <3>1. Target(c)' = Target(c) /\ (pc[c] = "token" \/ GenerateWrites(c))
      BY <2>1, GenerateSteps DEF IInv, Target, InSetup
    <3>2. CASE pc[c] = "token"
      <4>1. Target(c) \in Ids /\ account[Target(c)] # None
        BY <3>2, <1>2 DEF IInv, GenerateInv
      <4> QED
        BY <4>1, <3>1, StoreGrows DEF IInv
    <3>3. CASE GenerateWrites(c)
      <4>1. Target(c) \in Ids
        BY <3>3, <1>2 DEF GenerateWrites
      <4>2. [type |-> "user", secret |-> DefaultSecret] \in Accounts
        BY DEF Accounts, Types, Secrets
      <4>3. ~InSetup(c) => [type |-> req[c].type, secret |-> c] \in Accounts
        BY <3>3 DEF IInv, TypeOK, GenerateWrites, Accounts, Types, Secrets, Requests, InSetup
      <4> QED
        BY <3>1, <3>3, <4>1, <4>2, <4>3, NoneAssumption DEF GenerateWrites, IInv, TypeOK
    <3> QED
      BY <3>1, <3>2, <3>3
  <2>2. ASSUME Generated(c)'
        PROVE  <<req'[c].id, c>> \in refresh'
    <3>1. req'[c] = req[c] /\ (Generated(c) \/ setRefreshToken(c))
      BY <2>2, GenerateSteps DEF IInv
    <3>2. CASE Generated(c)
      BY <3>1, <3>2, StoreGrows DEF IInv, GenerateInv
    <3>3. CASE setRefreshToken(c)
      BY <2>2, <3>1, <3>3 DEF setRefreshToken, Generated, Target, InSetup
    <3> QED
      BY <3>1, <3>2, <3>3
  <2> QED
    BY <2>1, <2>2
<1>4. RefreshTokenHasAccount'
  <2>1. ASSUME NEW id \in Ids, NEW token \in Calls, <<id, token>> \in refresh'
        PROVE  <<id, token>> \in refresh \/ account[id] # None
    <3>1. ASSUME NEW c \in Calls, setRefreshToken(c), <<id, token>> \notin refresh
          PROVE  account[id] # None
      BY <2>1, <3>1 DEF setRefreshToken, IInv, GenerateInv
    <3>2. \/ refresh' = refresh
          \/ \E c \in Calls : setRefreshToken(c)
      BY DEF Next, Proceed, vars, Arrive, EnterSetup, ScanAccounts, GenerateReads,
         GenerateWrites, ServeList, FindAccount, CheckAccount,
         refreshTokenForAccount, IssueToken, StoreFails, Crash
    <3> QED
      BY <2>1, <3>1, <3>2
  <2> QED
    BY <2>1, StoreGrows DEF RefreshTokenHasAccount, IInv
<1> QED
  BY <1>1, <1>3, <1>4 DEF IInv

THEOREM Invariance == Spec => []IInv
  BY InitIInv, StepIInv, PTL DEF Spec

\* The variables keep their types, and a call has what its point of the code
\* needs (auth.go).
THEOREM TypeCorrectness == Spec => []TypeOK
<1>1. IInv => TypeOK
  BY DEF IInv
<1> QED
  BY <1>1, Invariance, PTL

\* A refresh token in the store always names an account that is there, since
\* Generate writes the account first and no one removes it.
THEOREM RefreshTokenTheorem == Spec => []RefreshTokenHasAccount
<1>1. IInv => RefreshTokenHasAccount
  BY DEF IInv
<1> QED
  BY <1>1, Invariance, PTL

\* An account whose Generate was answered without an error is in the store
\* with a refresh token, the two things Token looks for.
THEOREM GeneratedTheorem == Spec => []GeneratedCanLogIn
<1>1. IInv => GeneratedCanLogIn
  <2> SUFFICES ASSUME IInv, NEW c \in Calls, Generated(c)
               PROVE  /\ account[req[c].id] # None
                      /\ \E token \in Calls : <<req[c].id, token>> \in refresh
    BY DEF GeneratedCanLogIn
  <2>1. <<req[c].id, c>> \in refresh
    BY DEF IInv, GenerateInv
  <2>2. req[c].id \in Ids
    BY DEF IInv, TypeOK, Generated, Requests
  <2> QED
    BY <2>1, <2>2 DEF IInv, RefreshTokenHasAccount
<1> QED
  BY <1>1, Invariance, PTL

-----------------------------------------------------------------------------
(***************************************************************************)
(* Where no two calls have met: a call that is to write an account has     *)
(* found none, and there still is none, since the others write other       *)
(* accounts.                                                               *)
(***************************************************************************)
Exclusion ==
  \A c, d \in Calls :
    c # d /\ pc[c] = "write" /\ pc[d] = "write" /\ Target(c) = Target(d) => Target(c) \in raced

Unwritten ==
  \A c \in Calls : pc[c] = "write" => account[Target(c)] = None \/ Target(c) \in raced

\* The calls that have written an account for a caller.
Wrote(c) == ~InSetup(c) /\ (pc[c] = "token" \/ Generated(c))

WroteAlone ==
  \A c, d \in Calls :
    Wrote(c) /\ Wrote(d) /\ req[c].id = req[d].id => c = d \/ req[c].id \in raced

RaceInv == IInv /\ Exclusion /\ Unwritten /\ WroteAlone

\* Where a call that is to write its account has come from.
LEMMA WriteSteps ==
  ASSUME TypeOK, [Next]_vars, NEW d \in Calls
  PROVE  pc'[d] = "write" =>
           /\ req'[d] = req[d]
           /\ pc[d] = "write" \/ (GenerateReads(d) /\ account[Target(d)] = None)
<1> USE DEF TypeOK, PCs, Answer, LeaveSetup, GenerateEnds
<1> DEFINE Goal == pc'[d] = "write" =>
             /\ req'[d] = req[d]
             /\ pc[d] = "write" \/ (GenerateReads(d) /\ account[Target(d)] = None)
<1>1. ASSUME NEW c \in Calls, NEW r \in Requests, Arrive(c, r)
      PROVE  Goal
  BY <1>1 DEF Arrive
<1>2. ASSUME NEW c \in Calls, EnterSetup(c) \/ ScanAccounts(c)
      PROVE  Goal
  BY <1>2 DEF EnterSetup, ScanAccounts
<1>3. ASSUME NEW c \in Calls, GenerateReads(c)
      PROVE  Goal
  BY <1>3 DEF GenerateReads
<1>4. ASSUME NEW c \in Calls, GenerateWrites(c)
      PROVE  Goal
  BY <1>4 DEF GenerateWrites
<1>5. ASSUME NEW c \in Calls, setRefreshToken(c)
      PROVE  Goal
  BY <1>5 DEF setRefreshToken
<1>6. ASSUME NEW c \in Calls, ServeList(c) \/ FindAccount(c) \/ CheckAccount(c)
      PROVE  Goal
  BY <1>6 DEF ServeList, FindAccount, CheckAccount
<1>7. ASSUME NEW c \in Calls, refreshTokenForAccount(c) \/ IssueToken(c)
      PROVE  Goal
  BY <1>7 DEF refreshTokenForAccount, IssueToken
<1>8. ASSUME NEW c \in Calls, StoreFails(c)
      PROVE  Goal
  BY <1>8 DEF StoreFails
<1>9. ASSUME NEW r \in Replicas, Crash(r)
      PROVE  Goal
  BY <1>9 DEF Crash
<1>10. CASE UNCHANGED vars
  BY <1>10 DEF vars
<1> QED
  BY <1>1, <1>2, <1>3, <1>4, <1>5, <1>6, <1>7, <1>8, <1>9, <1>10 DEF Next, Proceed

\* An id that calls have raced for stays one.
LEMMA RacedGrows ==
  ASSUME [Next]_vars
  PROVE  raced \subseteq raced'
  BY DEF Next, Proceed, vars, Arrive, EnterSetup, ScanAccounts, GenerateReads,
     GenerateWrites, setRefreshToken, ServeList, FindAccount, CheckAccount,
     refreshTokenForAccount, IssueToken, StoreFails, Crash

\* A call that finds no account while another is to write it notes the race.
LEMMA ReadSteps ==
  ASSUME TypeOK, NEW c \in Calls, GenerateReads(c), pc'[c] = "write",
         NEW d \in Calls, c # d, pc'[d] = "write", Target(d) = Target(c)
  PROVE  Target(c) \in raced'
<1>1. account[Target(c)] = None
  BY DEF GenerateReads, GenerateEnds, LeaveSetup, Answer, TypeOK
<1>2. pc[d] = "write" /\ raced' = IF Contested(c) THEN raced \cup {Target(c)} ELSE raced
  BY <1>1 DEF GenerateReads, TypeOK
<1>3. Contested(c)
  BY <1>2 DEF Contested
<1> QED
  BY <1>2, <1>3

\* The accounts change in GenerateWrites and nowhere else, and nothing else does there.
LEMMA AccountSteps ==
  ASSUME [Next]_vars
  PROVE  account' = account \/ \E c \in Calls : GenerateWrites(c)
  BY DEF Next, Proceed, vars, Arrive, EnterSetup, ScanAccounts, GenerateReads,
     setRefreshToken, ServeList, FindAccount, CheckAccount,
     refreshTokenForAccount, IssueToken, StoreFails, Crash

\* A call that has written an account for a caller is the one that does so now,
\* or has done so before.
LEMMA WroteSteps ==
  ASSUME IInv, [Next]_vars, NEW c \in Calls, Wrote(c)'
  PROVE  req'[c] = req[c] /\ ~InSetup(c) /\ (Wrote(c) \/ GenerateWrites(c))
<1>1. pc'[c] = "token" \/ Generated(c)'
  BY DEF Wrote
<1>2. /\ req'[c] = req[c]
      /\ pc[c] = "token" \/ Generated(c) \/ GenerateWrites(c) \/ setRefreshToken(c)
  BY <1>1, GenerateSteps DEF IInv
<1>3. setRefreshToken(c) => pc[c] = "token"
  BY DEF setRefreshToken
<1> QED
  BY <1>2, <1>3 DEF Wrote, InSetup

LEMMA WroteHasAccount ==
  ASSUME IInv, NEW c \in Calls, Wrote(c)
  PROVE  Target(c) = req[c].id /\ account[req[c].id] # None
<1>1. Target(c) = req[c].id
  BY DEF Wrote, Target
<1>2. CASE pc[c] = "token"
  BY <1>1, <1>2 DEF IInv, GenerateInv
<1>3. CASE Generated(c)
  <2>1. <<req[c].id, c>> \in refresh /\ req[c].id \in Ids
    BY <1>3 DEF IInv, GenerateInv, TypeOK
  <2> QED
    BY <1>1, <2>1 DEF IInv, RefreshTokenHasAccount
<1> QED
  BY <1>2, <1>3 DEF Wrote

LEMMA InitRaceInv == Init => RaceInv
<1> SUFFICES ASSUME Init
             PROVE  RaceInv
  OBVIOUS
<1>1. \A c \in Calls : pc[c] = "idle"
  BY DEF Init
<1> QED
  BY <1>1, InitIInv DEF RaceInv, Exclusion, Unwritten, WroteAlone, Wrote, Generated

LEMMA StepRaceInv == RaceInv /\ [Next]_vars => RaceInv'
<1> SUFFICES ASSUME RaceInv, [Next]_vars
             PROVE  RaceInv'
  OBVIOUS
<1>1. IInv /\ TypeOK /\ raced \subseteq raced'
  BY RacedGrows DEF RaceInv, IInv
<1>2. IInv'
  BY <1>1, StepIInv
<1>3. ASSUME NEW c \in Calls, pc'[c] = "write"
      PROVE  /\ Target(c)' = Target(c)
             /\ pc[c] = "write" \/ (GenerateReads(c) /\ account[Target(c)] = None)
  BY <1>1, <1>3, WriteSteps DEF Target, InSetup
<1>4. Exclusion'
  <2> SUFFICES ASSUME NEW c \in Calls, NEW d \in Calls, c # d,
                      pc'[c] = "write", pc'[d] = "write", Target(c)' = Target(d)'
               PROVE  Target(c)' \in raced'
    BY DEF Exclusion
  <2>1. Target(c)' = Target(c) /\ Target(d)' = Target(d) /\ Target(c) = Target(d)
    BY <1>3
  <2>2. CASE pc[c] = "write" /\ pc[d] = "write"
    BY <1>1, <2>1, <2>2 DEF RaceInv, Exclusion
  <2>3. CASE GenerateReads(c)
    BY <1>1, <2>1, <2>3, ReadSteps
  <2>4. CASE GenerateReads(d)
    BY <1>1, <2>1, <2>4, ReadSteps
  <2> QED
    BY <1>3, <2>2, <2>3, <2>4
<1>5. ASSUME NEW d \in Calls, GenerateWrites(d)
      PROVE  /\ pc'[d] = "token" /\ pc[d] = "write"
             /\ \A id \in Ids : id # Target(d) => account'[id] = account[id]
             /\ \A c \in Calls : c # d => pc'[c] = pc[c]
  BY <1>1, <1>5 DEF GenerateWrites, TypeOK
<1>6. Unwritten'
  <2> SUFFICES ASSUME NEW c \in Calls, pc'[c] = "write", Target(c) \notin raced'
               PROVE  account'[Target(c)] = None
    BY <1>3 DEF Unwritten
  <2>1. account[Target(c)] = None /\ Target(c) \notin raced
    BY <1>1, <1>3 DEF RaceInv, Unwritten
  <2>2. ASSUME NEW d \in Calls, GenerateWrites(d)
        PROVE  account'[Target(c)] = None
    <3>1. c # d /\ pc[c] = "write" /\ pc[d] = "write"
      BY <1>5, <2>2
    <3>2. Target(c) # Target(d)
      BY <2>1, <3>1 DEF RaceInv, Exclusion
    <3>3. Target(c) \in Ids
      BY <1>1, <3>1, AuthAssumption DEF TypeOK, Requests, Target, InSetup
    <3> QED
      BY <1>5, <2>1, <2>2, <3>2, <3>3
  <2> QED
    BY <2>1, <2>2, AccountSteps
<1>7. WroteAlone'
  <2> SUFFICES ASSUME NEW c \in Calls, NEW d \in Calls, c # d,
                      Wrote(c)', Wrote(d)', req'[c].id = req'[d].id
               PROVE  req'[c].id \in raced'
    BY DEF WroteAlone
  <2>1. /\ req'[c] = req[c] /\ ~InSetup(c) /\ (Wrote(c) \/ GenerateWrites(c))
        /\ req'[d] = req[d] /\ ~InSetup(d) /\ (Wrote(d) \/ GenerateWrites(d))
    BY <1>1, WroteSteps
  <2>2. Target(c) = req[c].id /\ Target(d) = req[d].id /\ req[c].id = req[d].id
    BY <2>1 DEF Target
  <2>3. CASE Wrote(c) /\ Wrote(d)
    BY <1>1, <2>1, <2>2, <2>3 DEF RaceInv, WroteAlone
  <2>4. ASSUME NEW a \in Calls, NEW b \in Calls, Wrote(a), GenerateWrites(b),
               req[a].id = Target(b)
        PROVE  Target(b) \in raced
    <3>1. account[Target(b)] # None
      BY <1>1, <2>4, WroteHasAccount
    <3> QED
      BY <1>5, <2>4, <3>1 DEF RaceInv, Unwritten
  <2>5. CASE GenerateWrites(c) /\ GenerateWrites(d)
    BY <1>5, <2>5
  <2> QED
    BY <1>1, <2>1, <2>2, <2>3, <2>4, <2>5
<1> QED
  BY <1>2, <1>4, <1>6, <1>7 DEF RaceInv

THEOREM RaceInvariance == Spec => []RaceInv
  BY InitRaceInv, StepRaceInv, PTL DEF Spec

\* Of any number of calls of Generate for an id at most one succeeds, unless two
\* were at a time between its read and its write: that gap is all that stands
\* against it, whatever fails or crashes (auth.go).
THEOREM OneGenerateTheorem == Spec => []OneGenerateSucceeds
<1>1. RaceInv => OneGenerateSucceeds
  BY DEF RaceInv, WroteAlone, OneGenerateSucceeds, Wrote, Generated, InSetup
<1> QED
  BY <1>1, RaceInvariance, PTL

\* A step does not change an account that nobody has raced for.
LEMMA NeverReplacedStep ==
  ASSUME RaceInv, [Next]_vars, NEW id \in Ids \ raced, account[id] # None
  PROVE  account'[id] = account[id]
<1>1. ASSUME NEW c \in Calls, GenerateWrites(c)
      PROVE  account'[id] = account[id]
  <2>1. account[Target(c)] = None \/ Target(c) \in raced
    BY <1>1 DEF RaceInv, Unwritten, GenerateWrites
  <2>2. id # Target(c)
    BY <2>1
  <2> QED
    BY <1>1, <2>2 DEF GenerateWrites, RaceInv, IInv, TypeOK
<1> QED
  BY <1>1, AccountSteps

\* Nor is the account of such an id ever written over, by Generate or by the
\* setup of the default account.
THEOREM NeverReplacedTheorem == Spec => AccountsNeverReplaced
<1>1. RaceInv /\ [Next]_vars =>
        [\A id \in Ids \ raced : account[id] # None => account'[id] = account[id]]_vars
  BY NeverReplacedStep
<1> QED
  BY <1>1, RaceInvariance, PTL DEF Spec, AccountsNeverReplaced

-----------------------------------------------------------------------------
(***************************************************************************)
(* A replica caches the namespace when it has found a user account, or     *)
(* has made the default one and written its refresh token.  Every account  *)
(* has been written by a call that goes on to its refresh token.           *)
(***************************************************************************)
Seen(id) == account[id] # None /\ (account[id].type = "user" \/ id \in raced)

UserSeen == \E id \in Ids : Seen(id)

UserInv ==
  /\ RaceInv
  /\ \A id \in Ids : account[id] # None => LoginComes(id)
  /\ \A r \in Replicas : verified[r] => UserSeen
  /\ \A c \in Calls : InSetup(c) /\ pc[c] = "token" => UserSeen

LEMMA InitUserInv == Init => UserInv
<1> SUFFICES ASSUME Init
             PROVE  UserInv
  OBVIOUS
<1>1. /\ \A c \in Calls : pc[c] = "idle"
      /\ \A r \in Replicas : ~verified[r]
      /\ \A id \in Ids : account[id] = None
  BY DEF Init
<1> QED
  BY <1>1, InitRaceInv DEF UserInv

\* A user account is not written over by another one but in a race.
LEMMA UserKept ==
  ASSUME RaceInv, [Next]_vars, UserSeen
  PROVE  UserSeen'
<1>1. PICK id \in Ids : Seen(id)
  BY DEF UserSeen
<1>2. raced \subseteq raced' /\ account'[id] # None
  BY <1>1, RacedGrows, StoreGrows DEF Seen, RaceInv, IInv
<1>3. CASE id \in raced
  BY <1>2, <1>3 DEF UserSeen, Seen
<1>4. CASE id \notin raced
  <2>1. account'[id] = account[id]
    BY <1>1, <1>4, NeverReplacedStep DEF Seen
  <2> QED
    BY <1>1, <1>2, <1>4, <2>1 DEF UserSeen, Seen
<1> QED
  BY <1>3, <1>4

\* What lets a replica cache the namespace.
LEMMA VerifiedSteps ==
  ASSUME TypeOK, [Next]_vars, NEW r \in Replicas, verified'[r], ~verified[r]
  PROVE  HasUser \/ \E c \in Calls : InSetup(c) /\ pc[c] = "token"
<1> USE DEF TypeOK, Answer, LeaveSetup, GenerateEnds
<1>1. ASSUME NEW c \in Calls, ScanAccounts(c)
      PROVE  HasUser
  BY <1>1 DEF ScanAccounts
<1>2. ASSUME NEW c \in Calls, setRefreshToken(c)
      PROVE  InSetup(c) /\ pc[c] = "token"
  BY <1>2 DEF setRefreshToken
<1>3. ASSUME NEW c \in Calls, GenerateReads(c) \/ StoreFails(c)
      PROVE  FALSE
  BY <1>3 DEF GenerateReads, StoreFails
<1>4. ASSUME NEW s \in Replicas, Crash(s)
      PROVE  FALSE
  BY <1>4 DEF Crash
<1>5. ASSUME NEW c \in Calls,
             \/ EnterSetup(c) \/ GenerateWrites(c) \/ ServeList(c) \/ FindAccount(c)
             \/ CheckAccount(c) \/ refreshTokenForAccount(c) \/ IssueToken(c)
             \/ \E q \in Requests : Arrive(c, q)
      PROVE  FALSE
  BY <1>5 DEF EnterSetup, GenerateWrites, ServeList, FindAccount, CheckAccount,
     refreshTokenForAccount, IssueToken, Arrive
<1>6. ~ UNCHANGED vars
  BY DEF vars
<1> QED
  BY <1>1, <1>2, <1>3, <1>4, <1>5, <1>6 DEF Next, Proceed

\* A call that is to write a refresh token writes it, unless its store call fails
\* or its replica crashes.
LEMMA TokenSteps ==
  ASSUME TypeOK, [Next]_vars, NEW d \in Calls, pc[d] = "token"
  PROVE  \/ pc'[d] = "token" /\ req'[d] = req[d]
         \/ <<Target(d), d>> \in refresh'
         \/ faults' > 0
<1> USE DEF TypeOK, PCs, Answer, LeaveSetup, GenerateEnds
<1> DEFINE Goal == \/ pc'[d] = "token" /\ req'[d] = req[d]
                   \/ <<Target(d), d>> \in refresh'
                   \/ faults' > 0
<1>1. ASSUME NEW c \in Calls, NEW r \in Requests, Arrive(c, r)
      PROVE  Goal
  BY <1>1 DEF Arrive
<1>2. ASSUME NEW c \in Calls, EnterSetup(c) \/ ScanAccounts(c)
      PROVE  Goal
  BY <1>2 DEF EnterSetup, ScanAccounts
<1>3. ASSUME NEW c \in Calls, GenerateReads(c)
      PROVE  Goal
  BY <1>3 DEF GenerateReads
<1>4. ASSUME NEW c \in Calls, GenerateWrites(c)
      PROVE  Goal
  BY <1>4 DEF GenerateWrites
<1>5. ASSUME NEW c \in Calls, setRefreshToken(c)
      PROVE  Goal
  <2>1. CASE d = c
    BY <1>5, <2>1 DEF setRefreshToken
  <2>2. CASE d # c
    BY <1>5, <2>2 DEF setRefreshToken
  <2> QED
    BY <2>1, <2>2
<1>6. ASSUME NEW c \in Calls, ServeList(c) \/ FindAccount(c) \/ CheckAccount(c)
      PROVE  Goal
  BY <1>6 DEF ServeList, FindAccount, CheckAccount
<1>7. ASSUME NEW c \in Calls, refreshTokenForAccount(c) \/ IssueToken(c)
      PROVE  Goal
  BY <1>7 DEF refreshTokenForAccount, IssueToken
<1>8. ASSUME NEW c \in Calls, StoreFails(c)
      PROVE  Goal
  <2>1. faults' = faults + 1 /\ faults \in Nat
    BY <1>8 DEF StoreFails
  <2>2. faults' > 0
    BY ONLY <2>1
  <2> QED
    BY <2>2
<1>9. ASSUME NEW r \in Replicas, Crash(r)
      PROVE  Goal
  <2>1. faults' = faults + 1 /\ faults \in Nat
    BY <1>9 DEF Crash
  <2>2. faults' > 0
    BY ONLY <2>1
  <2> QED
    BY <2>2
<1>10. CASE UNCHANGED vars
  BY <1>10 DEF vars
<1> QED
  BY <1>1, <1>2, <1>3, <1>4, <1>5, <1>6, <1>7, <1>8, <1>9, <1>10 DEF Next, Proceed

LEMMA FaultsStay ==
  ASSUME TypeOK, [Next]_vars, faults > 0
  PROVE  faults' > 0
<1>1. faults \in Nat /\ (faults' = faults \/ faults' = faults + 1)
  BY DEF TypeOK, Next, Proceed, vars, Arrive, EnterSetup, ScanAccounts, GenerateReads,
     GenerateWrites, setRefreshToken, ServeList, FindAccount, CheckAccount,
     refreshTokenForAccount, IssueToken, StoreFails, Crash
<1> QED
  BY ONLY <1>1, faults > 0

LEMMA LoginKept ==
  ASSUME TypeOK, [Next]_vars, NEW id \in Ids, LoginComes(id)
  PROVE  LoginComes(id)'
<1>1. ASSUME NEW token \in Calls, <<id, token>> \in refresh
      PROVE  LoginComes(id)'
  BY <1>1, StoreGrows DEF LoginComes
<1>2. ASSUME NEW c \in Calls, pc[c] = "token", Target(c) = id
      PROVE  LoginComes(id)'
  <2>1. req'[c] = req[c] => Target(c)' = id
    BY <1>2 DEF Target, InSetup
  <2> QED
    BY <1>2, <2>1, TokenSteps DEF LoginComes
<1>3. CASE faults > 0
  BY <1>3, FaultsStay DEF LoginComes
<1> QED
  BY <1>1, <1>2, <1>3 DEF LoginComes

LEMMA StepUserInv == UserInv /\ [Next]_vars => UserInv'
<1> SUFFICES ASSUME UserInv, [Next]_vars
             PROVE  UserInv'
  OBVIOUS
<1>1. RaceInv /\ RaceInv' /\ TypeOK /\ TypeOK'
  BY StepRaceInv DEF UserInv, RaceInv, IInv
<1>2. UserSeen => UserSeen'
  BY <1>1, UserKept
<1>3. ASSUME NEW id \in Ids, account'[id] # None
      PROVE  LoginComes(id)'
  <2>1. CASE account[id] # None
    BY <1>1, <2>1, LoginKept DEF UserInv
  <2>2. CASE account[id] = None
    <3>1. PICK c \in Calls : GenerateWrites(c)
      BY <1>3, <2>2, AccountSteps
    <3>2. Target(c) = id /\ req' = req
      BY <1>1, <1>3, <2>2, <3>1 DEF GenerateWrites, TypeOK
    <3>3. pc'[c] = "token" /\ Target(c)' = id
      BY <1>1, <3>1, <3>2 DEF GenerateWrites, TypeOK, Target, InSetup
    <3> QED
      BY <3>3 DEF LoginComes
  <2> QED
    BY <2>1, <2>2
<1>4. ASSUME NEW r \in Replicas, verified'[r]
      PROVE  UserSeen'
  <2>1. CASE verified[r]
    BY <1>2, <2>1 DEF UserInv
  <2>2. CASE ~verified[r]
    <3>1. HasUser => UserSeen
      BY DEF HasUser, UserSeen, Seen
    <3> QED
      BY <1>1, <1>2, <1>4, <2>2, <3>1, VerifiedSteps DEF UserInv
  <2> QED
    BY <2>1, <2>2
<1>5. ASSUME NEW c \in Calls, InSetup(c)', pc'[c] = "token"
      PROVE  UserSeen'
  <2>1. req'[c] = req[c] /\ (pc[c] = "token" \/ GenerateWrites(c))
    BY <1>1, <1>5, GenerateSteps
  <2>2. CASE pc[c] = "token"
    BY <1>2, <1>5, <2>1, <2>2 DEF UserInv, InSetup
  <2>3. CASE GenerateWrites(c)
    <3>1. InSetup(c) /\ Target(c) = DefaultId /\ DefaultId \in Ids
      BY <1>5, <2>1, AuthAssumption DEF InSetup, Target
    <3>2. account'[DefaultId] = [type |-> "user", secret |-> DefaultSecret]
      BY <1>1, <2>3, <3>1 DEF GenerateWrites, TypeOK
    <3>3. [type |-> "user", secret |-> DefaultSecret] \in Accounts
      BY DEF Accounts, Types, Secrets
    <3> QED
      BY <3>1, <3>2, <3>3, NoneAssumption DEF UserSeen, Seen
  <2> QED
    BY <2>1, <2>2, <2>3
<1> QED
  BY <1>1, <1>3, <1>4, <1>5 DEF UserInv

THEOREM UserInvariance == Spec => []UserInv
  BY InitUserInv, StepUserInv, PTL DEF Spec

\* A replica that has cached the namespace need not look for a user account
\* again: one is there, or one that two calls wrote at a time and that may have
\* lost its type by it; and as long as no store call failed and no process died,
\* that very account has the refresh token Token asks for or a call is about to
\* write it (the namespaces map of auth.go, setupDefaultAccount and Generate).
THEOREM VerifiedTheorem == Spec => []VerifiedHasUser
<1>1. UserInv => VerifiedHasUser
  BY DEF UserInv, UserSeen, Seen, VerifiedHasUser
<1> QED
  BY <1>1, UserInvariance, PTL
=============================================================================
