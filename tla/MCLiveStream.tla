----------------------------- MODULE MCLiveStream -----------------------------
(* Instances of LiveStream for TLC. *)
EXTENDS LiveStream

CONSTANTS c1, c2

TwoConnections == {c1, c2}

=============================================================================
