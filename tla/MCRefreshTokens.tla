-------------------------- MODULE MCRefreshTokens --------------------------
(***************************************************************************)
(* A small instance of RefreshTokens for TLC.  Tokens are random and stand *)
(* for nothing but themselves, so issuing them in one order only shows all *)
(* there is; liveness does not allow a SYMMETRY of the configuration.      *)
(***************************************************************************)
EXTENDS RefreshTokens

IssuedInOrder ==
  \A t \in Unissued \ Unissued' : t = CHOOSE s \in Unissued : TRUE

MCNext == Next /\ IssuedInOrder

MCSpec == Init /\ [][MCNext]_vars /\ Fairness

=============================================================================
