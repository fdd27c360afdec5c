---------------------------- MODULE MCDynamoLists ----------------------------
(* Instances of DynamoLists for TLC. *)
EXTENDS DynamoLists, TLC

CONSTANTS n1, r1, r2, r3, c1, c2

OneName == {n1}
ThreeRecipients == {r1, r2, r3}
TwoClients == {c1, c2}
\* Recipients and handlers are interchangeable
Symmetry == Permutations(Recipients) \cup Permutations(Clients)

=============================================================================
