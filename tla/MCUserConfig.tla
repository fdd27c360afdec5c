----------------------------- MODULE MCUserConfig -----------------------------
(* Instances of UserConfig for TLC. *)
EXTENDS UserConfig

CONSTANTS r1, r2, r3, v1, v2

ThreeRequests == {r1, r2, r3}
TwoValues == {v1, v2}

=============================================================================
