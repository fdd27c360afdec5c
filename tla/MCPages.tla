------------------------------- MODULE MCPages -------------------------------
(* Instances of Pages for TLC. *)
EXTENDS Pages

TwoOwners == 1..2
FourItems == 1..4
ThreeItems == 1..3

=============================================================================
