---------------------------- MODULE MCAuthService ----------------------------
(***************************************************************************)
(* Small instances of AuthService.                                         *)
(***************************************************************************)
EXTENDS AuthService

\* A namespace whose name begins with this one's has a refresh token for the
\* default account.
NeighbourTokens == {<<DefaultId, token>> : token \in OtherTokens}
=============================================================================
