----------------------------- MODULE MCHistory -----------------------------
(* History on small instances. *)
EXTENDS History, TLC

\* Users and walks are interchangeable; the ids of messages are not.
Symmetry == Permutations(Users) \cup Permutations(Walks)

=============================================================================
