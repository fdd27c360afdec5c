-------------------------------- MODULE Lists --------------------------------
(***************************************************************************)
(* What a registry of distribution lists promises, whatever database is    *)
(* behind the interface DistributionRegistry of                            *)
(* service/internal/controllers/distribution_lists.go: a list is a set of  *)
(* recipients and their number, and a request changes one list in one      *)
(* step. Neither registry keeps the promise when requests for one list     *)
(* overlap or a call of several fails in the middle: such a list is loose, *)
(* and nothing is said of it any more.                                     *)
(*                                                                         *)
(* DistributionLists (PostgreSQL) and DynamoLists (DynamoDB) implement     *)
(* this specification.                                                     *)
(***************************************************************************)
EXTENDS Integers, FiniteSets

CONSTANTS
    Names,      \* names of lists
    Recipients  \* the recipients a request may name

VARIABLES
    lists,    \* the lists there are
    members,  \* members[n]: the recipients of n
    size,     \* size[n]: their stored number, 0 without a list
    loose     \* the lists nothing is promised about

vars == <<lists, members, size, loose>>

\* The promise
Sound(n) ==
    /\ n \in lists => size[n] = Cardinality(members[n])
    /\ n \notin lists => members[n] = {} /\ size[n] = 0

Init ==
    /\ lists \subseteq Names
    /\ members \in [Names -> SUBSET Recipients]
    /\ size \in [Names -> Int]
    /\ loose = {}
    /\ \A n \in Names : Sound(n)

\* List n has the recipients R and their number from now on
Set(n, R) ==
    /\ members' = [members EXCEPT ![n] = R]
    /\ size' = [size EXCEPT ![n] = Cardinality(R)]
    /\ UNCHANGED loose

Create(n, R) == n \notin lists /\ lists' = lists \cup {n} /\ Set(n, R)
Drop(n) == n \in lists /\ lists' = lists \ {n} /\ Set(n, {})
Add(n, R) == n \in lists /\ UNCHANGED lists /\ Set(n, members[n] \cup R)
Remove(n, R) == n \in lists /\ UNCHANGED lists /\ Set(n, members[n] \ R)

\* Anything may happen to the loose lists, and to no other
Disturb ==
    /\ loose \subseteq loose'
    /\ \A n \in Names \ loose' :
          /\ n \in lists' <=> n \in lists
          /\ members'[n] = members[n]
          /\ size'[n] = size[n]

Next ==
    \/ \E n \in Names \ loose :
          \/ Drop(n)
          \/ \E R \in SUBSET Recipients : Create(n, R) \/ Add(n, R) \/ Remove(n, R)
    \/ Disturb

Spec == Init /\ [][Next]_vars

=============================================================================
