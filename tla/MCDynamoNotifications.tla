------------------------ MODULE MCDynamoNotifications ------------------------
(* Values of the constants of DynamoNotifications for TLC. *)
EXTENDS DynamoNotifications, TLC

CONSTANTS n1, u1, u2, c1, c2

OneId == {n1}
TwoRecipients == {u1, u2}
TwoClients == {c1, c2}

Symmetry == Permutations(Clients) \cup Permutations(Recipients)
==============================================================================
