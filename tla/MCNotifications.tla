--------------------------- MODULE MCNotifications ---------------------------
(* Values of the constants of Notifications for TLC. *)
EXTENDS Notifications, TLC

CONSTANTS n1, n2, n3, k1, k2

OneRequest == {n1}
TwoRequests == {n1, n2}
ThreeRequests == {n1, n2, n3}

NoRequest == {}
NoCalls == {}
TwoCalls == {k1, k2}

NoOperation == {}
EveryOperation == {"cancel", "delete", "update", "get"}
OnlySent == {"SENT"}

\* two requests of one priority, and one of another
TwoQueues == [n \in Requests |-> IF n = n3 THEN "low" ELSE "high"]
\* the requests with a template have the same
OneTemplate == [n \in Requests |-> "welcome"]

\* the handlers run the same program
CallSymmetry == Permutations(Calls)
==============================================================================
