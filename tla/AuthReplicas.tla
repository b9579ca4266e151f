---------------------------- MODULE AuthReplicas ----------------------------
(***************************************************************************)
(* The processes of the auth service.  Each serves the handlers of         *)
(* AuthAccounts and of AuthRules; the store they use is shared.            *)
(***************************************************************************)
CONSTANTS
  Replicas,  \* processes of the service
  None       \* no record, no holder, no call
=============================================================================
