--------------------------- MODULE MCRegistration ---------------------------
(* Registration on small instances. *)
EXTENDS Registration, TLC

\* Not used when a liveness property is checked.
Symmetry ==
  Permutations(Emails) \cup Permutations(Accounts) \cup Permutations(Rows)
    \cup Permutations(Values) \cup Permutations(Requests)

=============================================================================
