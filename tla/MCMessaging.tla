---------------------------- MODULE MCMessaging ----------------------------
(* Messaging on small instances. *)
EXTENDS Messaging, TLC

CONSTANTS u1, u2, u3, c1, c2, m1, m2, m3, k1, k2, old, lost

\* One user with two conversations, and two users with one each.
MCMembers == (c1 :> {u1, u2}) @@ (c2 :> {u1, u3})

\* Two new keys, one of before the new master key, and one of another secret.
MCMaster == [k \in {k1, k2} |-> "v2"] @@ (old :> "v1") @@ (lost :> "other")

\* Bound: the old messages are of the user who is in both conversations.
MCInit == Init /\ \A m \in messages : m.sender = u1

MCSpec == MCInit /\ [][Next]_vars

\* The two conversations change places together with their other members.
Mirror == [v \in {u2, u3, c1, c2} |-> CASE v = u2 -> u3 [] v = u3 -> u2
                                         [] v = c1 -> c2 [] v = c2 -> c1]

\* New messages, new keys and requests are not told apart; users and
\* conversations are by Members, which the mirror keeps, and old messages and
\* keys by what they are.
Symmetry ==
  Permutations(Msgs \ OldMsgs) \cup Permutations({k1, k2}) \cup Permutations(Requests)
    \cup {Mirror}

=============================================================================
