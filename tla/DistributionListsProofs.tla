----------------------- MODULE DistributionListsProofs -----------------------
(***************************************************************************)
(* Theorems about DistributionLists, for any lists, recipients, handlers,  *)
(* pool and faults.                                                        *)
(***************************************************************************)
EXTENDS DistributionLists, FiniteSetTheorems, TLAPS

----------------------------------------------------------------------------
(* What the actions have in common *)

\* The handler of c ends without a trace in the tables: it answers, and its
\* transaction, if it has one, is rolled back or lost
Ended(c) ==
    /\ \E code \in {200, 201, 204, 400, 500} : Reply(c, code)
    /\ UNCHANGED <<tableVars, requestVars, raced>>
    /\ stuck' \in [Names -> SUBSET Recipients]
    /\ lost' \in Nat
    /\ calls' \in 0..MaxCalls /\ faults' \in 0..MaxFaults

\* The handler of c ends and its transaction is committed
Committed(c) ==
    /\ pc[c] = "commit"
    /\ Apply(c)
    /\ \E code \in {200, 201, 204, 400, 500} : Reply(c, code)
    /\ UNCHANGED <<requestVars, leakVars, raced>>
    /\ calls' \in 0..MaxCalls /\ faults' \in 0..MaxFaults

\* The handler of c goes on without touching a row
Moved(c) ==
    /\ \/ pc[c] = "check" /\ GoTo(c, "begin")
       \/ Begin(c)
    /\ UNCHANGED <<tableVars, requestVars, txVars, answer, leakVars, raced, calls, faults>>

\* Every step is of one of these kinds
Kinds(c) ==
    \/ Call(c) \/ Moved(c) \/ Ended(c) \/ Committed(c)
    \/ InsertList(c) \/ InsertRecipients(c) \/ DeleteRows(c) \/ DropList(c)
    \/ Cascade(c) \/ Summary(c) \/ UpdateCount(c)

LEMMA Cardinalities ==
    ASSUME NEW S \in SUBSET Recipients
    PROVE  Cardinality(S) \in 0..Cardinality(Recipients)
<1>1. IsFiniteSet(Recipients)
  BY ListsAssumption
<1>2. IsFiniteSet(S) /\ Cardinality(S) <= Cardinality(Recipients)
  BY <1>1, FS_Subset
<1>3. Cardinality(S) \in Nat /\ Cardinality(Recipients) \in Nat
  BY <1>1, <1>2, FS_CardinalityType
<1>4. QED
  BY <1>2, <1>3

LEMMA Views ==
    ASSUME TypeOK, NEW c \in Clients
    PROVE  View(c) \subseteq Recipients
  BY DEF TypeOK, View

LEMMA StepKinds == TypeOK /\ [Next]_vars => (\E c \in Clients : Kinds(c)) \/ UNCHANGED vars
<1> SUFFICES ASSUME TypeOK, NEW c \in Clients, Call(c) \/ Step(c) \/ Fails(c)
             PROVE  Kinds(c)
  BY DEF Next
<1> USE DEF Kinds
<1>1. CASE Check(c)
  <2>1. CASE Reply(c, 400)
    BY <1>1, <2>1 DEF Check, Ended, TypeOK, leakVars
  <2>2. CASE GoTo(c, "begin") /\ UNCHANGED <<answer, txVars>>
    BY <1>1, <2>2 DEF Check, Moved
  <2>3. QED
    BY <1>1, <2>1, <2>2 DEF Check
<1>2. CASE Begin(c)
  BY <1>2 DEF Begin, Moved
<1>3. CASE InsertListRefused(c) \/ InsertRecipientsRefused(c) \/ Abort(c)
  BY <1>3 DEF InsertListRefused, InsertRecipientsRefused, Abort, Refused, Error, Ended,
              TypeOK, leakVars
<1>4. CASE Panic(c)
  <2>1. stuck' \in [Names -> SUBSET Recipients] /\ lost' \in Nat
    BY <1>4 DEF Panic, TypeOK
  <2>2. QED
    BY <1>4, <2>1 DEF Panic, Ended, TypeOK
<1>5. CASE Commit(c)
  BY <1>5 DEF Commit, Committed, TypeOK
<1>6. CASE CommitUnheard(c)
  <2>1. faults' \in 0..MaxFaults
    BY <1>6, ListsAssumption DEF CommitUnheard, TypeOK
  <2>2. QED
    BY <1>6, <2>1 DEF CommitUnheard, Error, Committed, TypeOK
<1>7. CASE Fault(c)
  <2>1. faults' \in 0..MaxFaults
    BY <1>7, ListsAssumption DEF Fault, TypeOK
  <2>2. QED
    BY <1>7, <2>1 DEF Fault, Error, Ended, TypeOK, leakVars
<1>8. QED
  BY <1>1, <1>2, <1>3, <1>4, <1>5, <1>6, <1>7 DEF Step, Fails

----------------------------------------------------------------------------
(* Type correctness *)

LEMMA TypeInit == Init => TypeOK
<1> SUFFICES ASSUME Init PROVE TypeOK
  OBVIOUS
<1>1. count \in [Names -> 0..Cardinality(Recipients)]
  <2>1. \A n \in Names : Cardinality(members[n]) \in 0..Cardinality(Recipients)
    BY Cardinalities DEF Init
  <2>2. QED
    BY <2>1 DEF Init
<1>2. (CHOOSE n \in Names : TRUE) \in Names
  BY ListsAssumption
<1>3. 0 \in 0..Cardinality(Recipients)
  <2>1. {} \in SUBSET Recipients
    OBVIOUS
  <2>2. QED
    BY <2>1, Cardinalities, FS_EmptySet
<1>4. name \in [Clients -> Names]
  BY <1>2 DEF Init
<1>5. num \in [Clients -> 0..Cardinality(Recipients)]
  BY <1>3 DEF Init
<1>6. QED
  BY <1>1, <1>4, <1>5, ListsAssumption DEF Init, TypeOK, Operations

LEMMA TypeKinds ==
    ASSUME TypeOK, NEW c \in Clients, Kinds(c)
    PROVE  TypeOK'
<1> USE DEF TypeOK
<1>0. 0 \in 0..Cardinality(Recipients)
  <2>1. {} \in SUBSET Recipients
    OBVIOUS
  <2>2. QED
    BY <2>1, Cardinalities, FS_EmptySet
<1>1. CASE Call(c)
  <2>1. PICK o \in Operations, n \in Names, R \in SUBSET Recipients :
           /\ op' = [op EXCEPT ![c] = o]
           /\ name' = [name EXCEPT ![c] = n]
           /\ recs' = [recs EXCEPT ![c] = R]
           /\ GoTo(c, IF o = "drop" THEN "begin" ELSE "check")
    <3> HIDE DEF TypeOK
    <3> QED
      BY <1>1, Zenon DEF Call
  <2>2. calls' \in 0..MaxCalls
    BY <1>1, ListsAssumption DEF Call
  <2>3. QED
    BY <1>1, <2>1, <2>2 DEF Call, GoTo, tableVars, txVars, leakVars
<1>2. CASE Moved(c)
  BY <1>2 DEF Moved, Begin, GoTo, tableVars, requestVars, txVars, leakVars
<1>3. CASE Ended(c)
  BY <1>0, <1>3 DEF Ended, Reply, EndTransaction, GoTo, tableVars, requestVars
<1>4. CASE Committed(c)
  <2>1. Cardinality(recs[c]) \in 0..Cardinality(Recipients)
    BY Cardinalities
  <2>2. View(c) \subseteq Recipients
    BY Views
  <2>3. lists' \subseteq Names
    BY <1>4 DEF Committed, Apply
  <2>4. members' \in [Names -> SUBSET Recipients]
    BY <1>4, <2>2 DEF Committed, Apply
  <2>5. count' \in [Names -> 0..Cardinality(Recipients)]
    BY <1>0, <1>4, <2>1 DEF Committed, Apply
  <2>6. QED
    BY <1>0, <1>4, <2>3, <2>4, <2>5 DEF Committed, Reply, EndTransaction, GoTo, requestVars, leakVars
<1>5. CASE InsertList(c)
  BY <1>5 DEF InsertList, Written, GoTo, tableVars, requestVars, leakVars
<1>6. CASE InsertRecipients(c)
  BY <1>6 DEF InsertRecipients, Written, GoTo, tableVars, requestVars, leakVars
<1>7. CASE DeleteRows(c)
  BY <1>7 DEF DeleteRows, Written, GoTo, tableVars, requestVars, leakVars
<1>8. CASE DropList(c)
  BY <1>8 DEF DropList, Written, GoTo, tableVars, requestVars, leakVars
<1>9. CASE Cascade(c)
  BY <1>9 DEF Cascade, GoTo, tableVars, requestVars, leakVars
<1>10. CASE Summary(c)
  <2>1. View(c) \subseteq Recipients
    BY Views
  <2>2. Cardinality(View(c)) \in 0..Cardinality(Recipients)
    BY <2>1, Cardinalities
  <2>3. QED
    BY <1>10, <2>2 DEF Summary, GoTo, tableVars, requestVars, leakVars
<1>11. CASE UpdateCount(c)
  BY <1>11 DEF UpdateCount, GoTo, tableVars, requestVars, leakVars
<1>12. QED
  BY <1>1, <1>2, <1>3, <1>4, <1>5, <1>6, <1>7, <1>8, <1>9, <1>10, <1>11 DEF Kinds

LEMMA TypeNext == TypeOK /\ [Next]_vars => TypeOK'
<1>1. TypeOK /\ UNCHANGED vars => TypeOK'
  BY DEF TypeOK, vars, tableVars, requestVars, txVars, leakVars
<1>2. QED
  BY <1>1, StepKinds, TypeKinds

\* Every variable keeps its type: no handler leaves its sequence of statements, and a
\* count never exceeds the number of recipients there are.
THEOREM TypeCorrect == Spec => []TypeOK
  BY TypeInit, TypeNext, PTL DEF Spec

----------------------------------------------------------------------------
(* The locks keep a list as long as a transaction relies on it *)

\* What the locks of a transaction say about the tables
LockOK(c) ==
    /\ lock[c] \in {"share", "update", "drop"} => name[c] \in lists
    /\ lock[c] = "new" => name[c] \notin lists /\ pc[c] = "commit"
    /\ ins[c] # {} => lock[c] \in {"new", "share", "update"}
    /\ lock[c] = "drop" => /\ pc[c] \in {"cascade", "commit"}
                           /\ ins[c] = {}
                           /\ pc[c] = "commit" => members[name[c]] \subseteq del[c]
    /\ ~Wrote(c) => lock[c] = "none" /\ ins[c] = {} /\ del[c] = {}

\* The locks two transactions do not hold at once on one list
Exclusive ==
    \A c, d \in Clients :
        c # d /\ name[c] = name[d] =>
            /\ lock[c] = "drop" => lock[d] \notin {"share", "update", "drop"}
            /\ ~(lock[c] = "new" /\ lock[d] = "new")

LockInv == (\A c \in Clients : LockOK(c)) /\ Exclusive /\ NoOrphans

LEMMA LockKinds ==
    ASSUME TypeOK, TypeOK', LockInv, NEW c \in Clients, Kinds(c)
    PROVE  LockInv'
<1> USE DEF TypeOK
<1>1. CASE Call(c)
  <2>1. \A d \in Clients : LockOK(d)'
    BY <1>1 DEF Call, LockInv, LockOK, Wrote, GoTo, tableVars, txVars
  <2>2. Exclusive' /\ NoOrphans'
    BY <1>1 DEF Call, LockInv, LockOK, Wrote, Exclusive, NoOrphans, tableVars, txVars
  <2>3. QED
    BY <2>1, <2>2 DEF LockInv
<1>2. CASE Moved(c)
  BY <1>2 DEF Moved, Begin, LockInv, LockOK, Exclusive, NoOrphans, Wrote, GoTo, tableVars,
              requestVars, txVars
<1>3. CASE Ended(c)
  <2>1. \A d \in Clients : LockOK(d)'
    BY <1>3 DEF Ended, Reply, EndTransaction, LockInv, LockOK, Wrote, GoTo, tableVars, requestVars
  <2>2. Exclusive' /\ NoOrphans'
    BY <1>3 DEF Ended, Reply, EndTransaction, LockInv, Exclusive, NoOrphans, tableVars, requestVars
  <2>3. QED
    BY <2>1, <2>2 DEF LockInv
<1>4. CASE Committed(c)
  <2>1. LockOK(c)'
    BY <1>4 DEF Committed, Reply, EndTransaction, LockOK, Wrote, GoTo
  <2>2. NoOrphans'
    <3>1. CASE lock[c] = "drop"
      <4>1. View(c) = {}
        BY <1>4, <3>1 DEF Committed, LockInv, LockOK, View
      <4>2. QED
        BY <1>4, <3>1, <4>1 DEF Committed, Apply, LockInv, NoOrphans
    <3>2. CASE lock[c] # "drop"
      <4>1. lists \subseteq lists' /\ (View(c) # {} => name[c] \in lists')
        BY <1>4, <3>2 DEF Committed, Apply, LockInv, LockOK, NoOrphans, View
      <4>2. QED
        BY <1>4, <4>1 DEF Committed, Apply, LockInv, NoOrphans
    <3>3. QED
      BY <3>1, <3>2
  <2>3. ASSUME NEW d \in Clients, d # c PROVE LockOK(d)'
    <3>1. /\ lock'[d] = lock[d] /\ ins'[d] = ins[d] /\ del'[d] = del[d]
          /\ pc'[d] = pc[d] /\ name'[d] = name[d]
      BY <1>4, <2>3 DEF Committed, Reply, EndTransaction, GoTo, requestVars
    <3>2. lock[d] \in {"share", "update", "drop"} => name[d] \in lists'
      BY <1>4, <2>3 DEF Committed, Apply, LockInv, LockOK, Exclusive
    <3>3. lock[d] = "new" => name[d] \notin lists'
      BY <1>4, <2>3 DEF Committed, Apply, LockInv, LockOK, Exclusive
    <3>4. ASSUME lock[d] = "drop", pc[d] = "commit"
          PROVE  members'[name[d]] \subseteq del[d]
      <4>1. members[name[d]] \subseteq del[d]
        BY <3>4 DEF LockInv, LockOK
      <4>2. name[c] = name[d] => ins[c] = {}
        BY <2>3, <3>4 DEF LockInv, LockOK, Exclusive
      <4>3. QED
        BY <1>4, <4>1, <4>2 DEF Committed, Apply, View
    <3>5. QED
      BY <3>1, <3>2, <3>3, <3>4 DEF LockInv, LockOK, Wrote
  <2>4. Exclusive'
    BY <1>4 DEF Committed, Reply, EndTransaction, requestVars, LockInv, Exclusive
  <2>5. QED
    BY <2>1, <2>2, <2>3, <2>4 DEF LockInv
<1>5. CASE InsertList(c)
  <2>1. \A d \in Clients : LockOK(d)'
    BY <1>5 DEF InsertList, Written, LockInv, LockOK, Wrote, GoTo, tableVars, requestVars
  <2>2. Exclusive'
    BY <1>5 DEF InsertList, Written, Held, Others, LockInv, Exclusive, requestVars
  <2>3. QED
    BY <1>5, <2>1, <2>2 DEF InsertList, Written, LockInv, NoOrphans, tableVars
<1>6. CASE InsertRecipients(c)
  <2>1. \A d \in Clients : LockOK(d)'
    BY <1>6 DEF InsertRecipients, Written, LockInv, LockOK, Wrote, GoTo, tableVars, requestVars
  <2>2. Exclusive'
    BY <1>6 DEF InsertRecipients, Written, Held, Others, LockInv, Exclusive, requestVars
  <2>3. QED
    BY <1>6, <2>1, <2>2 DEF InsertRecipients, Written, LockInv, NoOrphans, tableVars
<1>7. CASE DeleteRows(c)
  BY <1>7 DEF DeleteRows, Written, LockInv, LockOK, Exclusive, NoOrphans, Wrote, GoTo, tableVars,
              requestVars
<1>8. CASE DropList(c)
  <2>1. \A d \in Clients : LockOK(d)'
    BY <1>8 DEF DropList, Written, LockInv, LockOK, Wrote, GoTo, tableVars, requestVars
  <2>2. Exclusive'
    BY <1>8 DEF DropList, Written, Held, Others, LockInv, LockOK, Exclusive, requestVars
  <2>3. QED
    BY <1>8, <2>1, <2>2 DEF DropList, Written, LockInv, NoOrphans, tableVars
<1>9. CASE Cascade(c)
  <2>1. \A d \in Clients : LockOK(d)'
    BY <1>9 DEF Cascade, LockInv, LockOK, Wrote, GoTo, tableVars, requestVars
  <2>2. QED
    BY <1>9, <2>1 DEF Cascade, LockInv, Exclusive, NoOrphans, tableVars, requestVars
<1>10. CASE Summary(c)
  <2>1. \A d \in Clients : LockOK(d)'
    BY <1>10 DEF Summary, LockInv, LockOK, Wrote, GoTo, tableVars, requestVars
  <2>2. QED
    BY <1>10, <2>1 DEF Summary, LockInv, Exclusive, NoOrphans, tableVars, requestVars
<1>11. CASE UpdateCount(c)
  <2>1. \A d \in Clients : LockOK(d)'
    BY <1>11 DEF UpdateCount, LockInv, LockOK, Wrote, GoTo, tableVars, requestVars
  <2>2. Exclusive'
    BY <1>11 DEF UpdateCount, Held, Others, LockInv, LockOK, Exclusive, requestVars
  <2>3. QED
    BY <1>11, <2>1, <2>2 DEF UpdateCount, LockInv, NoOrphans, tableVars
<1>12. QED
  BY <1>1, <1>2, <1>3, <1>4, <1>5, <1>6, <1>7, <1>8, <1>9, <1>10, <1>11 DEF Kinds

----------------------------------------------------------------------------
(* What a transaction did, as long as no other one changed its list *)

\* Two transactions that have written the same list are a race
Serial ==
    \A c, d \in Clients :
        c # d /\ name[c] = name[d] /\ Wrote(c) /\ Wrote(d) => name[c] \in raced

\* The statements of the operation of c so far, and the number it counted
Exact(c) ==
    Wrote(c) /\ name[c] \notin raced =>
        /\ op[c] = "create" => /\ pc[c] = "commit" /\ lock[c] = "new"
                               /\ ins[c] = recs[c] /\ del[c] = {}
        /\ op[c] = "add" => /\ pc[c] \in {"summary", "count", "commit"}
                            /\ ins[c] = recs[c] \ members[name[c]] /\ del[c] = {}
        /\ op[c] = "remove" => /\ pc[c] \in {"summary", "count", "commit"}
                               /\ ins[c] = {} /\ del[c] = recs[c] \cap members[name[c]]
        /\ op[c] = "drop" => /\ pc[c] \in {"cascade", "commit"} /\ ins[c] = {}
                             /\ lock[c] = "drop" \/ (lock[c] = "none" /\ del[c] = {} /\ pc[c] = "commit")
        /\ op[c] \in {"add", "remove"} /\ pc[c] \in {"count", "commit"} =>
               View(c) # {} /\ num[c] = Cardinality(View(c))
        /\ op[c] \in {"add", "remove"} /\ pc[c] = "commit" => lock[c] = "update"

ExactInv == Serial /\ (\A c \in Clients : Exact(c)) /\ CountIsTrue

\* What a commit without a race does to the list: the whole request
LEMMA WholeCommit ==
    ASSUME TypeOK, LockInv, ExactInv, NEW c \in Clients, pc[c] = "commit", Apply(c),
           name[c] \notin raced
    PROVE  /\ members'[name[c]] \in {members[name[c]], Asked(c, members[name[c]])}
           /\ name[c] \in lists' => count'[name[c]] = Cardinality(members'[name[c]])
<1> USE DEF TypeOK
<1>1. Exact(c) /\ LockOK(c) /\ Wrote(c)
  BY DEF ExactInv, LockInv, Wrote
<1>2. members'[name[c]] = View(c)
  BY DEF Apply
<1>3. CASE op[c] = "create"
  <2>1. members[name[c]] = {}
    BY <1>1, <1>3 DEF Exact, LockOK, LockInv, NoOrphans
  <2>2. View(c) = recs[c] /\ lock[c] = "new"
    BY <1>1, <1>3, <2>1 DEF Exact, View
  <2>3. QED
    BY <1>2, <1>3, <2>2 DEF Apply, Asked
<1>4. CASE op[c] \in {"add", "remove"}
  <2>1. lock[c] = "update" /\ num[c] = Cardinality(View(c))
    BY <1>1, <1>4 DEF Exact
  <2>2. View(c) = Asked(c, members[name[c]])
    BY <1>1, <1>4 DEF Exact, View, Asked
  <2>3. QED
    BY <1>2, <2>1, <2>2 DEF Apply
<1>5. CASE op[c] = "drop" /\ lock[c] = "drop"
  <2>1. View(c) = {}
    BY <1>1, <1>5 DEF LockOK, View
  <2>2. QED
    BY <1>2, <1>5, <2>1 DEF Apply, Asked
<1>6. CASE op[c] = "drop" /\ lock[c] = "none"
  <2>1. View(c) = members[name[c]]
    <3>1. lock[c] # "drop"
      BY <1>6
    <3>2. ins[c] = {} /\ (lock[c] = "drop" \/ del[c] = {})
      BY <1>1, <1>6 DEF Exact
    <3>3. ins[c] = {} /\ del[c] = {}
      BY <3>1, <3>2
    <3>4. QED
      BY <3>3 DEF View
  <2>2. lists' = lists /\ count' = count
    BY <1>6 DEF Apply
  <2>3. QED
    BY <1>2, <2>1, <2>2 DEF ExactInv, CountIsTrue
<1>7. QED
  <2>1. op[c] \in {"create", "add", "remove", "drop"}
    BY DEF Operations
  <2>2. QED
    BY <1>1, <1>3, <1>4, <1>5, <1>6, <2>1 DEF Exact

\* The handlers a step leaves alone, in tables it leaves alone
Alone(c) ==
    /\ UNCHANGED tableVars
    /\ raced \subseteq raced'
    /\ \A d \in Clients \ {c} :
          /\ pc'[d] = pc[d] /\ op'[d] = op[d] /\ name'[d] = name[d] /\ recs'[d] = recs[d]
          /\ lock'[d] = lock[d] /\ ins'[d] = ins[d] /\ del'[d] = del[d] /\ num'[d] = num[d]

\* A step of c that changes no table disturbs ExactInv only by what c has done, and by a
\* first write that is not counted as a race
LEMMA ExactMove ==
    ASSUME TypeOK, TypeOK', ExactInv, NEW c \in Clients, Alone(c), Exact(c)',
           Wrote(c)' => /\ name'[c] = name[c]
                        /\ Wrote(c) \/ \A d \in Others(c) : Wrote(d) => name[c] \in raced'
    PROVE  ExactInv'
<1> USE DEF TypeOK
<1>1. Serial'
  <2> SUFFICES ASSUME NEW a \in Clients, NEW b \in Clients, a # b, name'[a] = name'[b],
                      Wrote(a)', Wrote(b)'
               PROVE  name'[a] \in raced'
    BY DEF Serial
  <2>1. /\ a # c => Wrote(a) /\ name'[a] = name[a]
        /\ b # c => Wrote(b) /\ name'[b] = name[b]
    BY DEF Alone, Wrote
  <2>2. CASE Wrote(a) /\ Wrote(b) /\ name'[a] = name[a] /\ name'[b] = name[b]
    <3> HIDE DEF TypeOK
    <3>1. name[a] \in raced
      BY <2>2, Zenon DEF ExactInv, Serial
    <3>2. raced \subseteq raced'
      BY Zenon DEF Alone
    <3>3. QED
      BY <2>2, <3>1, <3>2
  <2>3. CASE a = c /\ ~Wrote(c)
    BY <2>1, <2>3 DEF Others
  <2>4. CASE b = c /\ ~Wrote(c)
    BY <2>1, <2>4 DEF Others
  <2>5. QED
    BY <2>1, <2>2, <2>3, <2>4
<1>2. ASSUME NEW d \in Clients, d # c PROVE Exact(d)'
  <2>1. /\ pc'[d] = pc[d] /\ ins'[d] = ins[d] /\ del'[d] = del[d] /\ lock'[d] = lock[d]
        /\ op'[d] = op[d] /\ name'[d] = name[d] /\ recs'[d] = recs[d] /\ num'[d] = num[d]
        /\ members' = members /\ raced \subseteq raced'
    BY <1>2 DEF Alone, tableVars
  <2>2. View(d)' = View(d)
    BY <2>1 DEF View
  <2>3. Exact(d)
    BY DEF ExactInv
  <2>4. QED
    BY <2>1, <2>2, <2>3 DEF Exact, Wrote
<1>3. CountIsTrue'
  BY DEF Alone, ExactInv, CountIsTrue, tableVars
<1>4. QED
  BY <1>1, <1>2, <1>3 DEF ExactInv

LEMMA ExactCommit ==
    ASSUME TypeOK, TypeOK', LockInv, ExactInv, NEW c \in Clients, Committed(c)
    PROVE  ExactInv'
<1> USE DEF TypeOK
<1>1. ~Wrote(c)' /\ raced' = raced /\ name' = name
  BY DEF Committed, Reply, GoTo, Wrote, requestVars
<1>2. ASSUME NEW d \in Clients, d # c
      PROVE  /\ pc'[d] = pc[d] /\ op'[d] = op[d] /\ name'[d] = name[d] /\ recs'[d] = recs[d]
             /\ lock'[d] = lock[d] /\ ins'[d] = ins[d] /\ del'[d] = del[d] /\ num'[d] = num[d]
  BY <1>2 DEF Committed, Reply, EndTransaction, GoTo, requestVars
<1>3. \A n \in Names : n # name[c] => /\ members'[n] = members[n] /\ count'[n] = count[n]
                                      /\ n \in lists' <=> n \in lists
  BY DEF Committed, Apply
<1>4. Serial'
  BY <1>1, <1>2 DEF ExactInv, Serial, Wrote
<1>5. ASSUME NEW d \in Clients PROVE Exact(d)'
  <2>1. CASE d = c
    BY <1>1, <2>1 DEF Exact
  <2>2. CASE d # c /\ name[d] = name[c]
    <3>1. Wrote(c)
      BY DEF Committed, Wrote
    <3>2. Wrote(d) => name[d] \in raced
      BY <2>2, <3>1 DEF ExactInv, Serial
    <3>3. QED
      BY <1>1, <1>2, <2>2, <3>2 DEF Exact, Wrote
  <2>3. CASE d # c /\ name[d] # name[c]
    <3>1. members'[name[d]] = members[name[d]]
      BY <1>3, <2>3
    <3>2. View(d)' = View(d)
      BY <1>2, <2>3, <3>1 DEF View
    <3>3. Exact(d)
      BY DEF ExactInv
    <3>4. QED
      BY <1>1, <1>2, <2>3, <3>1, <3>2, <3>3 DEF Exact, Wrote
  <2>4. QED
    BY <2>1, <2>2, <2>3
<1>6. ASSUME NEW n \in Names, n \in lists', n \notin raced'
      PROVE  count'[n] = Cardinality(members'[n])
  <2>1. CASE n = name[c]
    BY <1>1, <1>6, <2>1, WholeCommit DEF Committed
  <2>2. CASE n # name[c]
    BY <1>1, <1>3, <1>6, <2>2 DEF ExactInv, CountIsTrue
  <2>3. QED
    BY <2>1, <2>2
<1>7. QED
  BY <1>4, <1>5, <1>6 DEF ExactInv, CountIsTrue

\* A first write of c
LEMMA FirstWrite ==
    ASSUME TypeOK, NEW c \in Clients, NEW o \in Operations, Written(c, o),
           \A d \in Clients \ {c} : /\ pc'[d] = pc[d] /\ ins'[d] = ins[d]
                                    /\ del'[d] = del[d] /\ lock'[d] = lock[d]
    PROVE  /\ Alone(c)
           /\ name'[c] = name[c]
           /\ \A d \in Others(c) : Wrote(d) => name[c] \in raced'
  BY DEF TypeOK, Written, Alone, Others, requestVars

LEMMA ExactKinds ==
    ASSUME TypeOK, TypeOK', LockInv, ExactInv, NEW c \in Clients, Kinds(c)
    PROVE  ExactInv'
<1> USE DEF TypeOK
<1>0. Exact(c) /\ LockOK(c)
  BY DEF ExactInv, LockInv
<1>1. CASE Call(c)
  <2>1. Alone(c) /\ ~Wrote(c)'
    BY <1>1 DEF Call, GoTo, Alone, Wrote, txVars
  <2>2. QED
    BY <2>1, ExactMove DEF Exact
<1>2. CASE Moved(c)
  <2>1. Alone(c) /\ ~Wrote(c)'
    BY <1>2 DEF Moved, Begin, GoTo, Alone, Wrote, txVars, requestVars
  <2>2. QED
    BY <2>1, ExactMove DEF Exact
<1>3. CASE Ended(c)
  <2>1. Alone(c) /\ ~Wrote(c)'
    BY <1>3 DEF Ended, Reply, EndTransaction, GoTo, Alone, Wrote, requestVars
  <2>2. QED
    BY <2>1, ExactMove DEF Exact
<1>4. CASE Committed(c)
  BY <1>4, ExactCommit
<1>5. CASE InsertList(c)
  <2>1. Alone(c) /\ name'[c] = name[c] /\ \A d \in Others(c) : Wrote(d) => name[c] \in raced'
    BY <1>5, FirstWrite DEF InsertList, GoTo, Operations
  <2>2. Exact(c)'
    BY <1>0, <1>5 DEF InsertList, Written, GoTo, LockOK, Exact, Wrote, requestVars
  <2>3. QED
    BY <2>1, <2>2, ExactMove
<1>6. CASE InsertRecipients(c)
  <2>1. Alone(c) /\ name'[c] = name[c] /\ \A d \in Others(c) : Wrote(d) => name[c] \in raced'
    BY <1>6, FirstWrite DEF InsertRecipients, GoTo, Operations
  <2>2. Exact(c)'
    BY <1>0, <1>6 DEF InsertRecipients, Written, GoTo, LockOK, Exact, Wrote, requestVars, tableVars
  <2>3. QED
    BY <2>1, <2>2, ExactMove
<1>7. CASE DeleteRows(c)
  <2>1. Alone(c) /\ name'[c] = name[c] /\ \A d \in Others(c) : Wrote(d) => name[c] \in raced'
    BY <1>7, FirstWrite DEF DeleteRows, GoTo, Operations
  <2>2. Exact(c)'
    BY <1>0, <1>7 DEF DeleteRows, Written, GoTo, LockOK, Exact, Wrote, requestVars, tableVars
  <2>3. QED
    BY <2>1, <2>2, ExactMove
<1>8. CASE DropList(c)
  <2>1. Alone(c) /\ name'[c] = name[c] /\ \A d \in Others(c) : Wrote(d) => name[c] \in raced'
    BY <1>8, FirstWrite DEF DropList, GoTo, Operations
  <2>2. Exact(c)'
    BY <1>0, <1>8 DEF DropList, Written, GoTo, LockOK, Exact, Wrote, requestVars, tableVars
  <2>3. QED
    BY <2>1, <2>2, ExactMove
<1>9. CASE Cascade(c)
  <2>1. Alone(c) /\ name'[c] = name[c] /\ Wrote(c)
    BY <1>9 DEF Cascade, GoTo, Alone, Wrote, requestVars
  <2>2. name[c] \notin raced => op[c] = "drop" /\ lock[c] = "drop" /\ ins[c] = {}
    BY <1>0, <1>9, <2>1 DEF Cascade, Exact, Operations
  <2>3. Exact(c)'
    BY <1>9, <2>2 DEF Cascade, GoTo, Exact, requestVars
  <2>4. QED
    BY <2>1, <2>3, ExactMove
<1>10. CASE Summary(c)
  <2>1. Alone(c) /\ name'[c] = name[c] /\ Wrote(c)
    BY <1>10 DEF Summary, GoTo, Alone, Wrote, requestVars
  <2>2. name[c] \notin raced => op[c] \in {"add", "remove"}
    BY <1>0, <1>10, <2>1 DEF Summary, Exact, Operations
  <2>3. View(c)' = View(c)
    BY <1>10 DEF Summary, View, tableVars, requestVars
  <2>4. Exact(c)'
    BY <1>0, <1>10, <2>1, <2>2, <2>3 DEF Summary, GoTo, Exact, requestVars, tableVars
  <2>5. QED
    BY <2>1, <2>4, ExactMove
<1>11. CASE UpdateCount(c)
  <2>1. Alone(c) /\ name'[c] = name[c] /\ Wrote(c)
    BY <1>11 DEF UpdateCount, GoTo, Alone, Wrote, requestVars
  <2>2. name[c] \notin raced => op[c] \in {"add", "remove"}
    BY <1>0, <1>11, <2>1 DEF UpdateCount, Exact, Operations
  <2>3. View(c)' = View(c)
    BY <1>11 DEF UpdateCount, View, tableVars, requestVars
  <2>4. name[c] \notin raced => name[c] \in lists
    <3>1. name[c] \notin raced => View(c) # {}
      BY <1>0, <1>11, <2>1, <2>2 DEF UpdateCount, Exact
    <3>2. ins[c] # {} => name[c] \in lists
      BY <1>0, <1>11 DEF UpdateCount, LockOK
    <3>3. members[name[c]] # {} => name[c] \in lists
      BY DEF LockInv, NoOrphans
    <3>4. QED
      BY <3>1, <3>2, <3>3 DEF View
  <2>5. Exact(c)'
    BY <1>0, <1>11, <2>1, <2>2, <2>3, <2>4 DEF UpdateCount, GoTo, Exact, requestVars, tableVars
  <2>6. QED
    BY <2>1, <2>5, ExactMove
<1>12. QED
  BY <1>1, <1>2, <1>3, <1>4, <1>5, <1>6, <1>7, <1>8, <1>9, <1>10, <1>11 DEF Kinds

----------------------------------------------------------------------------
(* The theorems *)

\* The invariant: the locks, and what the transactions did so far.
IInv == TypeOK /\ LockInv /\ ExactInv

LEMMA IInvInit == Init => IInv
<1> SUFFICES ASSUME Init PROVE IInv
  OBVIOUS
<1>1. TypeOK
  BY TypeInit
<1>2. LockInv
  BY DEF Init, LockInv, LockOK, Exclusive, NoOrphans, Wrote
<1>3. Serial /\ \A c \in Clients : Exact(c)
  BY DEF Init, Serial, Exact, Wrote
<1>4. CountIsTrue
  BY DEF Init, CountIsTrue
<1>5. QED
  BY <1>1, <1>2, <1>3, <1>4 DEF IInv, ExactInv

LEMMA IInvNext == IInv /\ [Next]_vars => IInv'
<1>1. ASSUME IInv, UNCHANGED vars PROVE IInv'
  <2>1. TypeOK'
    BY <1>1, TypeNext DEF IInv
  <2>2. LockInv'
    BY <1>1 DEF IInv, LockInv, LockOK, Exclusive, NoOrphans, Wrote, vars, tableVars,
                requestVars, txVars
  <2>3. \A c \in Clients : View(c)' = View(c)
    BY <1>1 DEF View, vars, tableVars, requestVars, txVars
  <2>4. ExactInv'
    BY <1>1, <2>3 DEF IInv, ExactInv, Serial, Exact, CountIsTrue, Wrote, vars, tableVars,
                      requestVars, txVars
  <2>5. QED
    BY <2>1, <2>2, <2>4 DEF IInv
<1>2. ASSUME IInv, NEW c \in Clients, Kinds(c) PROVE IInv'
  BY <1>2, TypeKinds, LockKinds, ExactKinds DEF IInv
<1>3. QED
  BY <1>1, <1>2, StepKinds DEF IInv

\* IInv holds in every reachable state.
THEOREM Invariance == Spec => []IInv
  BY IInvInit, IInvNext, PTL DEF Spec

\* However adds, removals and drops interleave, no recipient row outlives its list: the
\* share lock of an insertion keeps the drop waiting, and the drop takes along every row
\* that was there when it got its own lock.
THEOREM Orphanless == Spec => []NoOrphans
<1>1. IInv => NoOrphans
  BY DEF IInv, LockInv
<1>2. QED
  BY <1>1, Invariance, PTL

\* The number stored with a list is the number of its recipients, for every list whose
\* recipients no two transactions changed at once.
THEOREM CountsAreTrue == Spec => []CountIsTrue
<1>1. IInv => CountIsTrue
  BY DEF IInv, ExactInv
<1>2. QED
  BY <1>1, Invariance, PTL

\* A request changes the recipients of a list as a whole or not at all, whatever
\* statement of it fails, unless another transaction changed the list at once.
THEOREM WholeRequests == Spec => AllOrNothing
<1> DEFINE Whole == \A n \in Names :
               members'[n] # members[n] =>
                  \/ n \in raced
                  \/ \E c \in Clients : /\ name[c] = n
                                        /\ pc[c] = "commit" /\ pc'[c] = "idle"
                                        /\ members'[n] = Asked(c, members[n])
<1>1. ASSUME IInv, NEW c \in Clients, Committed(c) PROVE Whole
  <2>1. pc[c] = "commit" /\ pc'[c] = "idle"
    BY <1>1 DEF Committed, Reply, GoTo, IInv, TypeOK
  <2>2. \A n \in Names : n # name[c] => members'[n] = members[n]
    BY <1>1 DEF Committed, Apply, IInv, TypeOK
  <2>3. name[c] \notin raced =>
            members'[name[c]] \in {members[name[c]], Asked(c, members[name[c]])}
    BY <1>1, <2>1, WholeCommit DEF Committed, IInv
  <2>4. QED
    BY <2>1, <2>2, <2>3
<1>2. ASSUME IInv, NEW c \in Clients, Kinds(c) PROVE Whole \/ members' = members
  <2>1. CASE Committed(c)
    BY <1>1, <1>2, <2>1
  <2>2. CASE ~Committed(c)
    BY <1>2, <2>2 DEF Kinds, Call, Moved, Ended, InsertList, InsertRecipients, DeleteRows,
                      DropList, Cascade, Summary, UpdateCount, Written, tableVars
  <2>3. QED
    BY <2>1, <2>2
<1>3. IInv /\ [Next]_vars => Whole \/ members' = members
  BY <1>2, StepKinds DEF IInv, vars, tableVars
<1>4. IInv /\ [Next]_vars =>
        [\A n \in Names :
            members'[n] # members[n] =>
               \/ n \in raced
               \/ \E c \in Clients : /\ name[c] = n
                                     /\ pc[c] = "commit" /\ pc'[c] = "idle"
                                     /\ members'[n] = Asked(c, members[n])]_vars
  BY <1>3 DEF Whole
<1> HIDE DEF Whole
<1>5. QED
  BY <1>4, Invariance, PTL DEF Spec, AllOrNothing

----------------------------------------------------------------------------
(* DistributionLists implements Lists *)

\* The two modules count alike
LEMMA SameCardinality == \A S : Promised!Cardinality(S) = Cardinality(S)
  BY DEF Promised!Cardinality, Cardinality

\* A commit without a race is one step of the abstract registry
LEMMA PromisedCommit ==
    ASSUME IInv, NEW c \in Clients, Committed(c), name[c] \notin raced
    PROVE  [Promised!Next]_(Promised!vars)
<1> DEFINE n == name[c]
<1> USE DEF IInv, TypeOK
<1>1. Exact(c) /\ LockOK(c) /\ Wrote(c) /\ pc[c] = "commit"
  BY DEF ExactInv, LockInv, Wrote, Committed
<1>2. members' = [members EXCEPT ![n] = View(c)] /\ raced' = raced
  BY DEF Committed, Apply
<1>3. n \in Names \ raced /\ View(c) \subseteq Recipients /\ recs[c] \subseteq Recipients
  BY Views
<1>4. CASE op[c] = "create"
  <2>1. members[n] = {}
    BY <1>1, <1>4 DEF Exact, LockOK, LockInv, NoOrphans
  <2>2. View(c) = recs[c] /\ lock[c] = "new" /\ n \notin lists
    BY <1>1, <1>4, <2>1 DEF Exact, View, LockOK
  <2>3. lists' = lists \cup {n} /\ count' = [count EXCEPT ![n] = Cardinality(recs[c])]
    BY <2>2 DEF Committed, Apply
  <2>4. Promised!Set(n, recs[c])
    BY <1>2, <2>2, <2>3, SameCardinality DEF Promised!Set
  <2>5. Promised!Create(n, recs[c])
    BY <2>2, <2>3, <2>4 DEF Promised!Create
  <2>6. QED
    BY <1>3, <2>5 DEF Promised!Next
<1>5. CASE op[c] \in {"add", "remove"}
  <2>1. lock[c] = "update" /\ num[c] = Cardinality(View(c)) /\ n \in lists
    BY <1>1, <1>5 DEF Exact, LockOK
  <2>2. lists' = lists /\ count' = [count EXCEPT ![n] = Cardinality(View(c))]
    BY <2>1 DEF Committed, Apply
  <2>3. CASE op[c] = "add"
    <3>1. View(c) = members[n] \cup recs[c]
      BY <1>1, <2>3 DEF Exact, View
    <3>2. Promised!Add(n, recs[c])
      BY <1>2, <2>1, <2>2, <3>1, SameCardinality DEF Promised!Add, Promised!Set
    <3>3. QED
      BY <1>3, <3>2 DEF Promised!Next
  <2>4. CASE op[c] = "remove"
    <3>1. View(c) = members[n] \ recs[c]
      BY <1>1, <2>4 DEF Exact, View
    <3>2. Promised!Remove(n, recs[c])
      BY <1>2, <2>1, <2>2, <3>1, SameCardinality DEF Promised!Remove, Promised!Set
    <3>3. QED
      BY <1>3, <3>2 DEF Promised!Next
  <2>5. QED
    BY <1>5, <2>3, <2>4
<1>6. CASE op[c] = "drop" /\ lock[c] = "drop"
  <2>1. View(c) = {} /\ n \in lists
    BY <1>1, <1>6 DEF LockOK, View
  <2>2. lists' = lists \ {n} /\ count' = [count EXCEPT ![n] = 0]
    BY <1>6 DEF Committed, Apply
  <2>3. Cardinality({}) = 0
    BY FS_EmptySet
  <2>4. Promised!Drop(n)
    BY <1>2, <2>1, <2>2, <2>3, SameCardinality DEF Promised!Drop, Promised!Set
  <2>5. QED
    BY <1>3, <2>4 DEF Promised!Next
<1>7. CASE op[c] = "drop" /\ lock[c] = "none"
  <2>1. lock[c] # "drop"
    BY <1>7
  <2>2. ins[c] = {} /\ (lock[c] = "drop" \/ del[c] = {})
    BY <1>1, <1>7 DEF Exact
  <2>3. View(c) = members[n]
    BY <2>1, <2>2 DEF View
  <2>4. lists' = lists /\ count' = count
    BY <1>7 DEF Committed, Apply
  <2>5. members' = members
    BY <1>2, <2>3
  <2>6. QED
    BY <1>2, <2>4, <2>5 DEF Promised!vars
<1>8. QED
  <2>1. op[c] \in {"create", "add", "remove", "drop"}
    BY DEF Operations
  <2>2. QED
    BY <1>1, <1>4, <1>5, <1>6, <1>7, <2>1 DEF Exact

\* The tables start as lists of the abstract registry
LEMMA PromisedInit == Init => Promised!Init
<1> SUFFICES ASSUME Init PROVE Promised!Init
  OBVIOUS
<1>1. TypeOK
  BY TypeInit
<1>2. \A n \in Names : count[n] = Cardinality(members[n])
  BY DEF Init
<1>3. \A n \in Names \ lists : members[n] = {} /\ count[n] = 0
  BY <1>2, FS_EmptySet DEF Init
<1>4. count \in [Names -> Int]
  <2>1. Cardinality(Recipients) \in Nat
    BY ListsAssumption, FS_CardinalityType
  <2>2. QED
    BY <1>1, <2>1 DEF TypeOK
<1>5. \A n \in Names : Promised!Sound(n)
  BY <1>2, <1>3, SameCardinality DEF Promised!Sound
<1>6. QED
  BY <1>1, <1>4, <1>5 DEF Init, TypeOK, Promised!Init

\* A step of the code is a step of the abstract registry, or none
LEMMA PromisedNext == IInv /\ [Next]_vars => [Promised!Next]_(Promised!vars)
<1>1. ASSUME IInv, NEW c \in Clients, Committed(c)
      PROVE  [Promised!Next]_(Promised!vars)
  <2>1. CASE name[c] \notin raced
    BY <1>1, <2>1, PromisedCommit
  <2>2. CASE name[c] \in raced
    <3>1. \A n \in Names \ raced :
             /\ n \in lists' <=> n \in lists
             /\ members'[n] = members[n]
             /\ count'[n] = count[n]
      BY <1>1, <2>2 DEF Committed, Apply, IInv, TypeOK
    <3>2. QED
      BY <1>1, <3>1 DEF Committed, Promised!Next, Promised!Disturb
  <2>3. QED
    BY <2>1, <2>2
<1>2. ASSUME IInv, NEW c \in Clients, Kinds(c), ~Committed(c)
      PROVE  [Promised!Next]_(Promised!vars)
  <2>1. UNCHANGED tableVars
    BY <1>2 DEF Kinds, Call, Moved, Ended, InsertList, InsertRecipients, DeleteRows,
                DropList, Cascade, Summary, UpdateCount, Written
  <2>2. raced \subseteq raced'
    BY <1>2 DEF Kinds, Call, Moved, Ended, InsertList, InsertRecipients, DeleteRows,
                DropList, Cascade, Summary, UpdateCount, Written
  <2>3. Promised!Disturb
    BY <2>1, <2>2 DEF tableVars, Promised!Disturb
  <2>4. QED
    BY <2>3 DEF Promised!Next
<1>3. ASSUME UNCHANGED vars PROVE [Promised!Next]_(Promised!vars)
  BY <1>3 DEF vars, tableVars, Promised!vars
<1>4. QED
  BY <1>1, <1>2, <1>3, StepKinds DEF IInv

\* The PostgreSQL registry is the registry its interface promises: whatever statement
\* fails and however the transactions interleave, a list that no two of them changed at
\* once changes by whole requests, its stored number with it.
THEOREM Implements == Spec => ListsHold
  BY Invariance, PromisedInit, PromisedNext, PTL DEF Spec, ListsHold, Promised!Spec

=============================================================================
