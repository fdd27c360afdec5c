------------------------ MODULE NotificationRegistry ------------------------
(***************************************************************************)
(* What both registries promise of a notification's row, whatever calls    *)
(* they take to do it: it is saved once, its status is written while it is *)
(* there, and once removed it never comes back.                            *)
(***************************************************************************)

CONSTANTS Ids, Statuses

VARIABLE row   \* row[n]: the status of n, "unsaved" or "deleted"

Exists(n) == row[n] \in Statuses

Init == row = [n \in Ids |-> "unsaved"]

Save(n) ==
    /\ row[n] = "unsaved"
    /\ row' = [row EXCEPT ![n] = "CREATED"]

SetStatus(n, s) ==
    /\ Exists(n)
    /\ row' = [row EXCEPT ![n] = s]

\* one notification, or all those of a template
Remove(gone) ==
    /\ \A n \in gone : Exists(n)
    /\ row' = [n \in Ids |-> IF n \in gone THEN "deleted" ELSE row[n]]

Next ==
    \/ \E n \in Ids : Save(n) \/ \E s \in Statuses : SetStatus(n, s)
    \/ \E gone \in SUBSET Ids : Remove(gone)

Spec == Init /\ [][Next]_row
=============================================================================
