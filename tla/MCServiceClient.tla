--------------------------- MODULE MCServiceClient ---------------------------
(* Instances of ServiceClient for TLC. *)
EXTENDS ServiceClient

CONSTANTS c1, c2, c3

TwoCallers == {c1, c2}
ThreeCallers == {c1, c2, c3}

=============================================================================
