------------------------- MODULE MCDistributionLists -------------------------
(* Instances of DistributionLists for TLC. *)
EXTENDS DistributionLists, TLC

CONSTANTS n1, n2, r1, r2, c1, c2, c3

OneName == {n1}
TwoNames == {n1, n2}
TwoRecipients == {r1, r2}
TwoClients == {c1, c2}
ThreeClients == {c1, c2, c3}

=============================================================================
