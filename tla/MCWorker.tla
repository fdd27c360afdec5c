------------------------------ MODULE MCWorker ------------------------------
(* Values of the constants of Worker for TLC. *)
EXTENDS Worker, TLC

CONSTANTS w1, w2, r1, r2

OneWorker == {w1}
TwoWorkers == {w1, w2}

\* r1 is named in the request, r2 only by the distribution list
DirectR1 == {r1}
ListR2 == {r2}
\* r1 is named twice: in the request and by the list
ListR1R2 == {r1, r2}

LateQueuedAndCancel == {"QUEUED", "CANCELED"}
OnlyCancel == {"CANCELED"}
NoServiceWrites == {}

\* the workers run the same program
WorkerSymmetry == Permutations(Workers)
=============================================================================
