---------------------------- MODULE AuthAccounts ----------------------------
(***************************************************************************)
(* The accounts of the auth service (service/auth/handler/auth): Generate, *)
(* Token and List, called at several replicas that share one store.        *)
(*                                                                         *)
(* A replica serves its calls concurrently and locks its mutex only while  *)
(* it makes sure that the namespace has a default account.  Every read and *)
(* every write of the store is a step of its own.  There is one namespace: *)
(* others have records of their own, but the list of refresh tokens that   *)
(* Token looks a token up in has those of every namespace whose name       *)
(* begins with this one's, so these are here too and do not change.  The   *)
(* secret and the refresh token that a call makes are uuids: each call     *)
(* stands for its own.                                                     *)
(***************************************************************************)
EXTENDS Naturals, AuthReplicas

CONSTANTS
  Calls,          \* requests
  Ids,            \* ids of accounts
  DefaultId,      \* defaultAccount.ID
  DefaultSecret,  \* defaultAccount.Secret
  OtherTokens,    \* refresh tokens made in other namespaces
  Neighbours,     \* the refresh token records of namespaces that this one's name begins
  MaxFaults       \* bound on store errors and crashes

ASSUME AuthAssumption ==
  /\ MaxFaults \in Nat
  /\ DefaultId \in Ids
  /\ None \notin Calls
  /\ DefaultSecret \notin Calls
  /\ OtherTokens \cap Calls = {}
  /\ Neighbours \subseteq Ids \X OtherTokens

VARIABLES
  account,   \* store: the account record of each id
  refresh,   \* store: the refresh token records, as pairs of an id and a token
  verified,  \* Auth.namespaces of each replica holds the namespace
  holder,    \* the call that has locked each replica's mutex
  req,       \* what each call asks for, and where
  pc,        \* where each call is
  who,       \* the id of the account a Token call is about
  reply,     \* what each call has answered
  raced,     \* history: the ids two calls were to write an account for at a time
  faults     \* store errors and crashes so far

vars == <<account, refresh, verified, holder, req, pc, who, reply, raced, faults>>

Secrets == Calls \cup {DefaultSecret}
Types == {"user", "service"}
Accounts == [type : Types, secret : Secrets]

Requests ==
  [op : {"generate"}, at : Replicas, id : Ids, type : Types]
    \cup [op : {"secret"}, at : Replicas, id : Ids, secret : Secrets]
    \cup [op : {"refresh"}, at : Replicas, token : Calls \cup OtherTokens]
    \cup [op : {"list"}, at : Replicas]

ASSUME NoneAssumption == None \notin Accounts /\ None \notin Requests

\* Token and List set up the default account before anything else, which may run
\* Generate for it from inside the mutex.
InSetup(c) == req[c].op # "generate"
Target(c) == IF InSetup(c) THEN DefaultId ELSE req[c].id

HasUser == \E id \in Ids : account[id] # None /\ account[id].type = "user"

\* The tokens that accountIDForRefreshToken lists: its prefix ends with the
\* namespace and no separator.
Listed == refresh \cup Neighbours

-----------------------------------------------------------------------------
Answer(c, ok) ==
  /\ reply' = [reply EXCEPT ![c] = IF ok THEN "ok" ELSE "error"]
  /\ pc' = [pc EXCEPT ![c] = "done"]

Arrive(c, r) ==
  /\ pc[c] = "idle"
  /\ req' = [req EXCEPT ![c] = r]
  /\ pc' = [pc EXCEPT ![c] = IF r.op = "generate" THEN "read" ELSE "setup"]
  /\ UNCHANGED <<account, refresh, verified, holder, who, reply, raced, faults>>

(***************************************************************************)
(* setupDefaultAccount.  An error is logged or ignored by its callers,     *)
(* which go on to serve the request.                                       *)
(***************************************************************************)
\* Mutant: the namespace is cached whatever setupDefaultAccount came to.
LeaveSetupCached(c, ok) ==
  /\ verified' = [verified EXCEPT ![req[c].at] = TRUE]
  /\ holder' = [holder EXCEPT ![req[c].at] = None]
  /\ pc' = [pc EXCEPT ![c] = "serve"]

LeaveSetup(c, ok) ==
  /\ verified' = IF ok THEN [verified EXCEPT ![req[c].at] = TRUE] ELSE verified
  /\ holder' = [holder EXCEPT ![req[c].at] = None]
  /\ pc' = [pc EXCEPT ![c] = "serve"]

EnterSetup(c) ==
  /\ pc[c] = "setup"
  /\ holder[req[c].at] = None
  /\ IF verified[req[c].at]
     THEN /\ pc' = [pc EXCEPT ![c] = "serve"]
          /\ UNCHANGED holder
     ELSE /\ pc' = [pc EXCEPT ![c] = "scan"]
          /\ holder' = [holder EXCEPT ![req[c].at] = c]
  /\ UNCHANGED <<account, refresh, verified, req, who, reply, raced, faults>>

ScanAccounts(c) ==
  /\ pc[c] = "scan"
  /\ IF HasUser
     THEN LeaveSetup(c, TRUE)
     ELSE /\ pc' = [pc EXCEPT ![c] = "read"]
          /\ UNCHANGED <<verified, holder>>
  /\ UNCHANGED <<account, refresh, req, who, reply, raced, faults>>

-----------------------------------------------------------------------------
(***************************************************************************)
(* Generate: read the account, write it, write a refresh token for it.  It *)
(* takes no lock; the default account's setup already holds the mutex.     *)
(***************************************************************************)
GenerateEnds(c, ok) ==
  IF InSetup(c)
  THEN LeaveSetup(c, ok) /\ UNCHANGED reply
  ELSE Answer(c, ok) /\ UNCHANGED <<verified, holder>>

\* The id is being written: another call has found it free and is to write it.
Contested(c) == \E d \in Calls \ {c} : pc[d] = "write" /\ Target(d) = Target(c)

\* Mutant: the account is not looked up.
GenerateReadsNothing(c) ==
  /\ pc[c] = "read"
  /\ pc' = [pc EXCEPT ![c] = "write"]
  /\ raced' = IF Contested(c) THEN raced \cup {Target(c)} ELSE raced
  /\ UNCHANGED <<account, refresh, verified, holder, req, who, reply, faults>>

\* Mutant: Generate waits for the mutex that setupDefaultAccount locks.
GenerateReadsUnlocked(c) ==
  /\ pc[c] = "read" /\ holder[req[c].at] = None
  /\ IF account[Target(c)] = None
     THEN /\ pc' = [pc EXCEPT ![c] = "write"]
          /\ raced' = IF Contested(c) THEN raced \cup {Target(c)} ELSE raced
          /\ UNCHANGED <<verified, holder, reply>>
     ELSE GenerateEnds(c, FALSE) /\ UNCHANGED raced
  /\ UNCHANGED <<account, refresh, req, who, faults>>

GenerateReads(c) ==
  /\ pc[c] = "read"
  /\ IF account[Target(c)] = None
     THEN /\ pc' = [pc EXCEPT ![c] = "write"]
          /\ raced' = IF Contested(c) THEN raced \cup {Target(c)} ELSE raced
          /\ UNCHANGED <<verified, holder, reply>>
     ELSE GenerateEnds(c, FALSE) /\ UNCHANGED raced
  /\ UNCHANGED <<account, refresh, req, who, faults>>

GenerateWrites(c) ==
  /\ pc[c] = "write"
  /\ account' = [account EXCEPT ![Target(c)] =
       IF InSetup(c) THEN [type |-> "user", secret |-> DefaultSecret]
       ELSE [type |-> req[c].type, secret |-> c]]
  /\ pc' = [pc EXCEPT ![c] = "token"]
  /\ UNCHANGED <<refresh, verified, holder, req, who, reply, raced, faults>>

setRefreshToken(c) ==
  /\ pc[c] = "token"
  /\ refresh' = refresh \cup {<<Target(c), c>>}
  /\ GenerateEnds(c, TRUE)
  /\ UNCHANGED <<account, req, who, raced, faults>>

-----------------------------------------------------------------------------
(***************************************************************************)
(* The rest of Token and List.  Token is given an id and a secret, or a    *)
(* refresh token, whose record names the account; it reads the account and *)
(* then, if it was given a secret that matches, any refresh token of it.   *)
(***************************************************************************)
ServeList(c) ==
  /\ pc[c] = "serve" /\ req[c].op = "list"
  /\ Answer(c, TRUE)
  /\ UNCHANGED <<account, refresh, verified, holder, req, who, raced, faults>>

\* Mutant: the account id is not set from what the request names.
FindAccountLost(c) ==
  /\ pc[c] = "serve" /\ req[c].op # "list"
  /\ pc' = [pc EXCEPT ![c] = "account"]
  /\ UNCHANGED <<account, refresh, verified, holder, req, who, reply, raced, faults>>

FindAccount(c) ==
  /\ pc[c] = "serve"
  /\ \/ /\ req[c].op = "secret"
        /\ who' = [who EXCEPT ![c] = req[c].id]
        /\ pc' = [pc EXCEPT ![c] = "account"]
        /\ UNCHANGED reply
     \/ /\ req[c].op = "refresh"
        /\ \E id \in Ids : /\ <<id, req[c].token>> \in Listed
                           /\ who' = [who EXCEPT ![c] = id]
        /\ pc' = [pc EXCEPT ![c] = "account"]
        /\ UNCHANGED reply
     \/ /\ req[c].op = "refresh"
        /\ \A id \in Ids : <<id, req[c].token>> \notin Listed
        /\ Answer(c, FALSE)
        /\ UNCHANGED who
  /\ UNCHANGED <<account, refresh, verified, holder, req, raced, faults>>

CheckAccount(c) ==
  /\ pc[c] = "account"
  /\ \/ /\ account[who[c]] # None
        /\ req[c].op = "secret"
        /\ account[who[c]].secret = req[c].secret
        /\ pc' = [pc EXCEPT ![c] = "find"]
        /\ UNCHANGED reply
     \/ /\ account[who[c]] # None
        /\ req[c].op = "refresh"
        /\ pc' = [pc EXCEPT ![c] = "issue"]
        /\ UNCHANGED reply
     \/ /\ account[who[c]] # None
        /\ req[c].op = "secret"
        /\ account[who[c]].secret # req[c].secret
        /\ Answer(c, FALSE)
     \/ account[who[c]] = None /\ Answer(c, FALSE)
  /\ UNCHANGED <<account, refresh, verified, holder, req, who, raced, faults>>

refreshTokenForAccount(c) ==
  /\ pc[c] = "find"
  /\ IF \E token \in Calls : <<who[c], token>> \in refresh
     THEN pc' = [pc EXCEPT ![c] = "issue"] /\ UNCHANGED reply
     ELSE Answer(c, FALSE)
  /\ UNCHANGED <<account, refresh, verified, holder, req, who, raced, faults>>

\* The token provider makes the access token the caller asked for.
IssueToken(c) ==
  /\ pc[c] = "issue"
  /\ Answer(c, TRUE)
  /\ UNCHANGED <<account, refresh, verified, holder, req, who, raced, faults>>

-----------------------------------------------------------------------------
(***************************************************************************)
(* A store call that fails, in each of the places where one is made: the   *)
(* error of setupDefaultAccount's is swallowed, the others answer the      *)
(* call.  What has been written before stays.                              *)
(***************************************************************************)
\* Mutant: a refresh token that could not be written is not an error.
StoreFailsSilently(c) ==
  /\ faults < MaxFaults
  /\ faults' = faults + 1
  /\ pc[c] = "token"
  /\ GenerateEnds(c, TRUE)
  /\ UNCHANGED <<account, refresh, req, who, raced>>

\* Mutant: Generate takes the account back if its refresh token cannot be written.
StoreFailsUndone(c) ==
  /\ faults < MaxFaults
  /\ faults' = faults + 1
  /\ pc[c] = "token"
  /\ account' = [account EXCEPT ![Target(c)] = None]
  /\ GenerateEnds(c, FALSE)
  /\ UNCHANGED <<refresh, req, who, raced>>

StoreFails(c) ==
  /\ faults < MaxFaults
  /\ faults' = faults + 1
  /\ \/ pc[c] = "scan" /\ LeaveSetup(c, FALSE) /\ UNCHANGED reply
     \/ pc[c] \in {"read", "write", "token"} /\ GenerateEnds(c, FALSE)
     \/ /\ \/ pc[c] = "serve" /\ req[c].op # "secret"
           \/ pc[c] \in {"account", "find", "issue"}
        /\ Answer(c, FALSE)
        /\ UNCHANGED <<verified, holder>>
  /\ UNCHANGED <<account, refresh, req, who, raced>>

\* The process of a replica dies with its calls; the store does not.
Crash(r) ==
  /\ faults < MaxFaults
  /\ faults' = faults + 1
  /\ verified' = [verified EXCEPT ![r] = FALSE]
  /\ holder' = [holder EXCEPT ![r] = None]
  /\ pc' = [c \in Calls |-> IF pc[c] \notin {"idle", "done"} /\ req[c].at = r
                            THEN "dead" ELSE pc[c]]
  /\ UNCHANGED <<account, refresh, req, who, reply, raced>>

-----------------------------------------------------------------------------
Init ==
  /\ account = [id \in Ids |-> None]
  /\ refresh = {}
  /\ verified = [r \in Replicas |-> FALSE]
  /\ holder = [r \in Replicas |-> None]
  /\ req = [c \in Calls |-> None]
  /\ pc = [c \in Calls |-> "idle"]
  /\ who = [c \in Calls |-> None]
  /\ reply = [c \in Calls |-> "none"]
  /\ raced = {}
  /\ faults = 0

Proceed(c) ==
  \/ EnterSetup(c) \/ ScanAccounts(c)
  \/ GenerateReads(c) \/ GenerateWrites(c) \/ setRefreshToken(c)
  \/ ServeList(c) \/ FindAccount(c) \/ CheckAccount(c)
  \/ refreshTokenForAccount(c) \/ IssueToken(c)

Next ==
  \/ \E c \in Calls : Proceed(c) \/ StoreFails(c) \/ \E r \in Requests : Arrive(c, r)
  \/ \E r \in Replicas : Crash(r)

\* Each call is served by a goroutine of its own.
Spec == Init /\ [][Next]_vars /\ \A c \in Calls : WF_vars(Proceed(c))

-----------------------------------------------------------------------------
PCs == {"idle", "setup", "scan", "read", "write", "token", "serve", "account",
        "find", "issue", "done", "dead"}

\* The types of the variables, and what a call has at each point (auth.go).
TypeOK ==
  /\ account \in [Ids -> Accounts \cup {None}]
  /\ refresh \subseteq Ids \X Calls
  /\ verified \in [Replicas -> BOOLEAN]
  /\ holder \in [Replicas -> Calls \cup {None}]
  /\ req \in [Calls -> Requests \cup {None}]
  /\ pc \in [Calls -> PCs]
  /\ who \in [Calls -> Ids \cup {None}]
  /\ reply \in [Calls -> {"none", "ok", "error"}]
  /\ raced \subseteq Ids
  /\ faults \in Nat
  /\ \A c \in Calls :
       /\ pc[c] # "idle" => req[c] \in Requests
       /\ pc[c] \in {"setup", "scan", "serve", "account", "find", "issue"} => InSetup(c)
       /\ pc[c] \in {"account", "find", "issue"} => who[c] \in Ids
       /\ pc[c] \notin {"done", "dead"} => reply[c] = "none"

Generated(c) == pc[c] = "done" /\ reply[c] = "ok" /\ req[c].op = "generate"

\* A refresh token in the store always leads to an account: no interleaving,
\* store error or crash leaves a token of an account that does not exist
\* (Generate writes the account first).
RefreshTokenHasAccount ==
  \A id \in Ids, token \in Calls : <<id, token>> \in refresh => account[id] # None

\* An account whose Generate was answered without an error can be logged in
\* to: it exists and has a refresh token, which Token cannot do without.
GeneratedCanLogIn ==
  \A c \in Calls : Generated(c) =>
    /\ account[req[c].id] # None
    /\ \E token \in Calls : <<req[c].id, token>> \in refresh

\* Every call is answered unless its replica dies: the setup calls Generate
\* while it holds the mutex, and leaves it on every path.
EveryCallAnswered ==
  \A c \in Calls : pc[c] # "idle" ~> pc[c] \in {"done", "dead"}

-----------------------------------------------------------------------------
(***************************************************************************)
(* Two calls that are at a time between the read and the write of Generate *)
(* for the same id both write it, in whatever replicas they are.  raced    *)
(* has the ids that this happened to; what follows is about the others.    *)
(***************************************************************************)

\* "check the user does not already exists" (Generate): an account is not written
\* over, so the secret of a caller who was told it was made stays good.
AccountsNeverReplaced ==
  [][\A id \in Ids \ raced : account[id] # None => account'[id] = account[id]]_vars

\* Of several calls of Generate for an id at most one succeeds.
OneGenerateSucceeds ==
  \A c, d \in Calls :
    Generated(c) /\ Generated(d) /\ req[c].id = req[d].id => c = d \/ req[c].id \in raced

\* The account has a refresh token, or the call that has written it is to write
\* one, or a store error or a crash may have come between the two.
LoginComes(id) ==
  \/ \E token \in Calls : <<id, token>> \in refresh
  \/ \E c \in Calls : pc[c] = "token" /\ Target(c) = id
  \/ faults > 0

\* A replica that has the namespace in its cache need not look again
\* (setupDefaultAccount): there is an account of type "user", after any store
\* errors and crashes, and without them it has the refresh token that Token asks
\* for, or gets it from a call on its way.  Only an account that two calls raced
\* for may have lost its type.
VerifiedHasUser ==
  \A r \in Replicas : verified[r] =>
    \E id \in Ids : /\ account[id] # None
                    /\ account[id].type = "user" \/ id \in raced
                    /\ LoginComes(id)
=============================================================================
