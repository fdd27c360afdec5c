----------------------- MODULE DynamoListsPagesProofs ------------------------
(***************************************************************************)
(* Theorems about DynamoLists, for any names, recipients, handlers, batch  *)
(* sizes, requests and faults; and what a walk over pages reads, of these  *)
(* lists or of anything else (Pages), for every number of owners, items    *)
(* and writes, every filter and size of the page and every query. The two  *)
(* specifications share nothing here but the module.                       *)
(***************************************************************************)
EXTENDS DynamoLists, Pages, FiniteSetTheorems, TLAPS

----------------------------------------------------------------------------
(* Counting *)

LEMMA Counted ==
    ASSUME NEW S \in SUBSET Recipients
    PROVE  IsFiniteSet(S) /\ Cardinality(S) \in Nat /\ (Cardinality(S) = 0 <=> S = {})
BY DynamoAssumption, FS_Subset, FS_CardinalityType, FS_EmptySet

\* New rows add to a number of rows, rows that were there take away from it
LEMMA CountedUnion ==
    ASSUME NEW S \in SUBSET Recipients, NEW T \in SUBSET Recipients, S \cap T = {}
    PROVE  Cardinality(S \cup T) = Cardinality(S) + Cardinality(T)
<1>1. IsFiniteSet(S) /\ IsFiniteSet(T)
  BY Counted
<1>2. Cardinality(S \cup T) = Cardinality(S) + Cardinality(T) - Cardinality(S \cap T)
  BY <1>1, FS_Union
<1>3. Cardinality(S) \in Nat /\ Cardinality(T) \in Nat /\ Cardinality(S \cap T) = 0
  BY Counted
<1>4. QED
  BY <1>2, <1>3

LEMMA CountedDifference ==
    ASSUME NEW S \in SUBSET Recipients, NEW T \in SUBSET S
    PROVE  Cardinality(S \ T) = Cardinality(S) - Cardinality(T)
<1>1. S \ T \in SUBSET Recipients /\ T \in SUBSET Recipients /\ (S \ T) \cap T = {}
  OBVIOUS
<1>2. Cardinality((S \ T) \cup T) = Cardinality(S \ T) + Cardinality(T)
  BY <1>1, CountedUnion
<1>3. (S \ T) \cup T = S
  OBVIOUS
<1>4. Cardinality(S \ T) \in Nat /\ Cardinality(T) \in Nat
  BY <1>1, Counted
<1>5. Cardinality(S) = Cardinality(S \ T) + Cardinality(T)
  BY <1>2, <1>3, Zenon
<1>6. QED
  BY <1>4, <1>5

----------------------------------------------------------------------------
(* Type correctness *)

Labels == {"idle", "exists", "put", "fill", "undo", "scan", "write", "count", "query", "clear",
           "erase"}

\* How a handler goes on or ends: what of it is typed whatever the call was
Typed(c) ==
    /\ pc' \in [Clients -> Labels]
    /\ batch' \in [Clients -> SUBSET Recipients]
    /\ answer' \in [Clients -> {0, 200, 201, 204, 400, 500}]
    /\ \A d \in Clients : pc'[d] \in {"fill", "write", "clear", "count"} => batch'[d] # {}

LEMMA RepliesTyped ==
    ASSUME TypeOK, NEW c \in Clients
    PROVE  /\ \A code \in {200, 201, 204, 400, 500} : Reply(c, code) => Typed(c)
           /\ Succeed(c) => Typed(c)
           /\ Error(c) => Typed(c)
<1>1. ASSUME NEW code \in {200, 201, 204, 400, 500}, Reply(c, code) PROVE Typed(c)
  <2>1. pc' = [pc EXCEPT ![c] = "idle"] /\ batch' = [batch EXCEPT ![c] = {}]
        /\ answer' = [answer EXCEPT ![c] = code]
    BY <1>1 DEF Reply, GoTo
  <2>2. QED
    BY <2>1 DEF Typed, TypeOK, Labels
<1>2. Succeed(c) => \E code \in {200, 201, 204} : Reply(c, code)
  <2>1. CASE op[c] = "create"
    BY <2>1 DEF Succeed
  <2>2. CASE op[c] = "drop"
    BY <2>2 DEF Succeed
  <2>3. CASE op[c] \notin {"create", "drop"}
    BY <2>3 DEF Succeed
  <2>4. QED
    BY <2>1, <2>2, <2>3
<1>3. Error(c) => \E code \in {201, 500} : Reply(c, code)
  BY DEF Error
<1>4. QED
  BY <1>1, <1>2, <1>3

LEMMA GoesTyped ==
    ASSUME TypeOK, NEW c \in Clients, NEW label \in Labels, NEW B \in SUBSET Recipients,
           label \in {"fill", "write", "clear", "count"} => B # {},
           batch' = [batch EXCEPT ![c] = B], GoTo(c, label), UNCHANGED answer
    PROVE  Typed(c)
<1>1. pc' = [pc EXCEPT ![c] = label]
  BY DEF GoTo
<1>2. QED
  BY <1>1 DEF Typed, TypeOK, Labels

LEMMA ContinuesTyped ==
    ASSUME TypeOK, NEW c \in Clients, NEW label \in Labels,
           label \in {"fill", "write", "clear", "count"} => batch[c] # {}, Continue(c, label)
    PROVE  Typed(c)
<1>1. pc' = [pc EXCEPT ![c] = label] /\ batch' = batch /\ answer' = answer
  BY DEF Continue, GoTo
<1>2. QED
  BY <1>1 DEF Typed, TypeOK, Labels

LEMMA LoosenTyped ==
    ASSUME TypeOK, NEW c \in Clients, NEW when, Loosen(c, when)
    PROVE  loose' \subseteq Names
BY DEF Loosen, TypeOK

LEMMA SpendTyped ==
    ASSUME TypeOK, NEW failing, Spend(failing)
    PROVE  faults' \in 0..MaxFaults
BY DynamoAssumption DEF Spend, TypeOK

\* The rest of the type invariant
ItemsTyped ==
    /\ lists' \subseteq Names
    /\ count' \in [Names -> Int]
    /\ members' \in [Names -> SUBSET Recipients]
    /\ flux' \subseteq Names
    /\ recent' \in [Names -> SUBSET Recipients]

LEMMA TypeFrom ==
    ASSUME TypeOK, NEW c \in Clients, Typed(c), ItemsTyped, UNCHANGED requestVars,
           loose' \subseteq Names, faults' \in 0..MaxFaults, calls' \in 0..MaxCalls
    PROVE  TypeOK'
BY DEF TypeOK, Typed, ItemsTyped, requestVars, Labels

LEMMA ReadsTyped ==
    ASSUME TypeOK, NEW c \in Clients, Exists(c) \/ Scan(c) \/ QueryRows(c) \/ ReadFails(c)
    PROVE  TypeOK'
<1>1. ItemsTyped /\ calls' \in 0..MaxCalls /\ UNCHANGED requestVars
  <2>1. UNCHANGED <<itemVars, readVars, requestVars, calls>>
    BY DEF Exists, Scan, QueryRows, ReadFails
  <2>2. QED
    BY <2>1 DEF ItemsTyped, itemVars, readVars, TypeOK
<1>2. name[c] \in Names /\ recs[c] \in SUBSET Recipients /\ members[name[c]] \in SUBSET Recipients
      /\ recent[name[c]] \in SUBSET Recipients /\ loose \subseteq Names /\ faults \in 0..MaxFaults
  BY DEF TypeOK
<1>3. CASE Exists(c)
  <2>1. loose' \subseteq Names /\ faults' \in 0..MaxFaults
    BY <1>2, <1>3 DEF Exists
  <2>2. Reply(c, 400) \/ \E label \in {"scan", "put"} : Continue(c, label)
    BY <1>3 DEF Exists
  <2>3. Typed(c)
    BY <2>2, RepliesTyped, ContinuesTyped DEF Labels
  <2>4. QED
    BY <1>1, <2>1, <2>3, TypeFrom
<1>4. CASE Scan(c)
  <2>1. loose' \subseteq Names /\ faults' \in 0..MaxFaults
    BY <1>2, <1>4 DEF Scan
  <2>2. \/ Succeed(c) \/ Error(c)
        \/ \E rows \in SUBSET Recipients :
              rows # {} /\ batch' = [batch EXCEPT ![c] = rows] /\ GoTo(c, "write") /\ UNCHANGED answer
    <3> DEFINE rows == IF op[c] = "add" THEN Missing(c) ELSE recs[c] \cap members[name[c]]
    <3>1. rows \in SUBSET Recipients
      BY <1>2 DEF Missing
    <3>2. \/ Succeed(c) \/ Error(c)
          \/ rows # {} /\ batch' = [batch EXCEPT ![c] = rows] /\ GoTo(c, "write") /\ UNCHANGED answer
      BY <1>4 DEF Scan
    <3>3. QED
      BY <3>1, <3>2
  <2>3. Typed(c)
    BY <2>2, RepliesTyped, GoesTyped DEF Labels
  <2>4. QED
    BY <1>1, <2>1, <2>3, TypeFrom
<1>5. CASE QueryRows(c)
  <2>1. loose' \subseteq Names /\ faults' \in 0..MaxFaults
    BY <1>2, <1>5, LoosenTyped DEF QueryRows
  <2>2. PICK rows \in SUBSET (members[name[c]] \cup recent[name[c]]) :
           /\ batch' = [batch EXCEPT ![c] = rows]
           /\ GoTo(c, IF Clears(rows) THEN "clear" ELSE "erase")
    BY <1>5 DEF QueryRows
  <2>3. UNCHANGED answer /\ rows \in SUBSET Recipients
    BY <1>2, <1>5 DEF QueryRows
  <2>4. CASE rows = {}
    BY <2>2, <2>3, <2>4, GoesTyped, <1>1, <2>1, TypeFrom DEF Labels, Clears
  <2>5. CASE rows # {}
    BY <2>2, <2>3, <2>5, GoesTyped, <1>1, <2>1, TypeFrom DEF Labels, Clears
  <2>6. QED
    BY <2>4, <2>5
<1>6. CASE ReadFails(c)
  <2>1. loose' \subseteq Names /\ faults' \in 0..MaxFaults
    BY <1>2, <1>6, SpendTyped DEF ReadFails
  <2>2. QED
    BY <1>1, <1>6, <2>1, RepliesTyped, TypeFrom DEF ReadFails
<1>7. QED
  BY <1>3, <1>4, <1>5, <1>6

LEMMA PutTyped == ASSUME TypeOK, NEW c \in Clients, Put(c) PROVE TypeOK'
<1>1. PICK times \in {0, 1}, ok \in BOOLEAN :
         /\ Spend(~ok)
         /\ IF times = 0 THEN UNCHANGED <<lists, count, flux>>
            ELSE /\ lists' = lists \cup {name[c]}
                 /\ count' = [count EXCEPT ![name[c]] = Cardinality(recs[c])]
                 /\ flux' = flux \cup {name[c]}
         /\ CASE ~ok                    -> Error(c)
              [] ok /\ recs[c] = {}     -> Succeed(c)
              [] ok /\ recs[c] # {}     -> /\ batch' = [batch EXCEPT ![c] = recs[c]]
                                           /\ GoTo(c, "fill")
                                           /\ UNCHANGED answer
         /\ Loosen(c, ~ok /\ times = 1)
         /\ UNCHANGED <<members, recent, requestVars, calls>>
  BY DEF Put
<1>2. name[c] \in Names /\ recs[c] \in SUBSET Recipients /\ calls \in 0..MaxCalls
  BY DEF TypeOK
<1>3. Cardinality(recs[c]) \in Int
  BY <1>2, Counted
<1>4. ItemsTyped
  BY <1>1, <1>2, <1>3 DEF ItemsTyped, TypeOK
<1>5. loose' \subseteq Names /\ faults' \in 0..MaxFaults /\ calls' \in 0..MaxCalls
      /\ UNCHANGED requestVars
  BY <1>1, <1>2, LoosenTyped, SpendTyped
<1>6. CASE ~ok
  BY <1>1, <1>4, <1>5, <1>6, RepliesTyped, TypeFrom
<1>7. CASE ok /\ recs[c] = {}
  BY <1>1, <1>4, <1>5, <1>7, RepliesTyped, TypeFrom
<1>8. CASE ok /\ recs[c] # {}
  <2>1. batch' = [batch EXCEPT ![c] = recs[c]] /\ GoTo(c, "fill") /\ UNCHANGED answer
    BY <1>1, <1>8
  <2>2. Typed(c)
    BY <1>2, <1>8, <2>1, GoesTyped DEF Labels
  <2>3. QED
    BY <1>4, <1>5, <2>2, TypeFrom
<1>9. QED
  BY <1>6, <1>7, <1>8

\* What a batch does, with its outcomes as alternatives
LEMMA BatchDoes ==
    ASSUME NEW c \in Clients, Batch(c)
    PROVE  \E rows \in SUBSET batch[c], ok \in BOOLEAN :
              /\ pc[c] \in {"fill", "write", "clear"}
              /\ Cardinality(batch[c]) > BatchMax => rows = {} /\ ~ok
              /\ Spend(~(Cardinality(batch[c]) > BatchMax) /\ ~(ok /\ rows = batch[c]))
              /\ members' = [members EXCEPT ![name[c]] = After(c, rows)]
              /\ recent' = [recent EXCEPT ![name[c]] = @ \cup rows]
              /\ \/ pc[c] = "fill"  /\ ok  /\ Succeed(c)
                 \/ pc[c] = "fill"  /\ ~ok /\ Continue(c, "undo")
                 \/ pc[c] = "write" /\ ok  /\ Continue(c, "count")
                 \/ pc[c] = "clear" /\ ok  /\ Continue(c, "erase")
                 \/ pc[c] # "fill"  /\ ~ok /\ Error(c)
              /\ Loosen(c, rows # (IF ok THEN batch[c] ELSE {}))
              /\ UNCHANGED <<lists, count, flux, requestVars, calls>>
<1>1. PICK rows \in SUBSET batch[c], ok \in BOOLEAN :
         /\ pc[c] \in {"fill", "write", "clear"}
         /\ Cardinality(batch[c]) > BatchMax => rows = {} /\ ~ok
         /\ Spend(~(Cardinality(batch[c]) > BatchMax) /\ ~(ok /\ rows = batch[c]))
         /\ members' = [members EXCEPT ![name[c]] = After(c, rows)]
         /\ recent' = [recent EXCEPT ![name[c]] = @ \cup rows]
         /\ CASE pc[c] = "fill"  /\ ok  -> Succeed(c)
              [] pc[c] = "fill"  /\ ~ok -> Continue(c, "undo")
              [] pc[c] = "write" /\ ok  -> Continue(c, "count")
              [] pc[c] = "clear" /\ ok  -> Continue(c, "erase")
              [] pc[c] # "fill"  /\ ~ok -> Error(c)
         /\ Loosen(c, rows # (IF ok THEN batch[c] ELSE {}))
         /\ UNCHANGED <<lists, count, flux, requestVars, calls>>
  BY Zenon DEF Batch
<1>2. \/ pc[c] = "fill"  /\ ok  /\ Succeed(c)
      \/ pc[c] = "fill"  /\ ~ok /\ Continue(c, "undo")
      \/ pc[c] = "write" /\ ok  /\ Continue(c, "count")
      \/ pc[c] = "clear" /\ ok  /\ Continue(c, "erase")
      \/ pc[c] # "fill"  /\ ~ok /\ Error(c)
  <2>1. CASE pc[c] = "fill"
    BY <1>1, <2>1
  <2>2. CASE pc[c] = "write"
    BY <1>1, <2>2
  <2>3. CASE pc[c] = "clear"
    BY <1>1, <2>3
  <2>4. QED
    BY <1>1, <2>1, <2>2, <2>3
<1>3. QED
  BY <1>1, <1>2, Zenon

LEMMA BatchTyped == ASSUME TypeOK, NEW c \in Clients, Batch(c) PROVE TypeOK'
<1>1. PICK rows \in SUBSET batch[c], ok \in BOOLEAN :
         /\ pc[c] \in {"fill", "write", "clear"}
         /\ Spend(~(Cardinality(batch[c]) > BatchMax) /\ ~(ok /\ rows = batch[c]))
         /\ members' = [members EXCEPT ![name[c]] = After(c, rows)]
         /\ recent' = [recent EXCEPT ![name[c]] = @ \cup rows]
         /\ \/ Succeed(c)
            \/ \E label \in {"undo", "count", "erase"} : Continue(c, label)
            \/ Error(c)
         /\ Loosen(c, rows # (IF ok THEN batch[c] ELSE {}))
         /\ UNCHANGED <<lists, count, flux, requestVars, calls>>
  BY BatchDoes
<1>2. name[c] \in Names /\ batch[c] \in SUBSET Recipients /\ members[name[c]] \in SUBSET Recipients
      /\ recent[name[c]] \in SUBSET Recipients /\ calls \in 0..MaxCalls
  BY DEF TypeOK
<1>3. batch[c] # {}
  BY <1>1 DEF TypeOK
<1>4. After(c, rows) \in SUBSET Recipients
  BY <1>2 DEF After
<1>5. ItemsTyped
  BY <1>1, <1>2, <1>4 DEF ItemsTyped, TypeOK
<1>6. loose' \subseteq Names /\ faults' \in 0..MaxFaults /\ calls' \in 0..MaxCalls
      /\ UNCHANGED requestVars
  BY <1>1, <1>2, LoosenTyped, SpendTyped
<1>7. Typed(c)
  BY <1>1, <1>3, RepliesTyped, ContinuesTyped DEF Labels
<1>8. QED
  BY <1>5, <1>6, <1>7, TypeFrom

LEMMA CountTyped == ASSUME TypeOK, NEW c \in Clients, UpdateCount(c) PROVE TypeOK'
<1>1. PICK times \in Repeats, ok \in BOOLEAN :
         /\ Spend(~(ok /\ times = 1))
         /\ count' = [count EXCEPT ![name[c]] = @ + times * Change(c)]
         /\ IF times > 0 /\ name[c] \notin lists
            THEN lists' = lists \cup {name[c]} /\ flux' = flux \cup {name[c]}
            ELSE UNCHANGED <<lists, flux>>
         /\ IF ok THEN Succeed(c) ELSE Error(c)
         /\ Loosen(c, times # 1)
         /\ UNCHANGED <<members, recent, requestVars, calls>>
  BY DEF UpdateCount
<1>2. name[c] \in Names /\ batch[c] \in SUBSET Recipients /\ calls \in 0..MaxCalls
      /\ count[name[c]] \in Int
  BY DEF TypeOK
<1>3. Cardinality(batch[c]) \in Nat
  BY <1>2, Counted
<1>4. Change(c) \in Int
  BY <1>3 DEF Change
<1>5. times \in Int /\ times * Change(c) \in Int
  BY <1>4 DEF Repeats
<1>6. count' \in [Names -> Int]
  BY <1>1, <1>2, <1>5 DEF TypeOK
<1>7. ItemsTyped
  BY <1>1, <1>2, <1>6 DEF ItemsTyped, TypeOK
<1>8. loose' \subseteq Names /\ faults' \in 0..MaxFaults /\ calls' \in 0..MaxCalls
      /\ UNCHANGED requestVars
  BY <1>1, <1>2, LoosenTyped, SpendTyped
<1>9. QED
  BY <1>1, <1>7, <1>8, RepliesTyped, TypeFrom

LEMMA DeleteTyped == ASSUME TypeOK, NEW c \in Clients, DeleteSummary(c) PROVE TypeOK'
<1>1. PICK times \in {0, 1}, ok \in BOOLEAN :
         /\ Spend(~ok)
         /\ IF times = 0 THEN UNCHANGED <<lists, count, flux>>
            ELSE /\ lists' = lists \ {name[c]}
                 /\ count' = [count EXCEPT ![name[c]] = 0]
                 /\ flux' = IF name[c] \in lists THEN flux \cup {name[c]} ELSE flux
         /\ IF ok /\ pc[c] = "erase" THEN Succeed(c) ELSE Error(c)
         /\ Loosen(c, times = 0)
         /\ UNCHANGED <<members, recent, requestVars, calls>>
  BY DEF DeleteSummary
<1>2. name[c] \in Names /\ calls \in 0..MaxCalls
  BY DEF TypeOK
<1>3. ItemsTyped
  BY <1>1, <1>2 DEF ItemsTyped, TypeOK
<1>4. loose' \subseteq Names /\ faults' \in 0..MaxFaults /\ calls' \in 0..MaxCalls
      /\ UNCHANGED requestVars
  BY <1>1, <1>2, LoosenTyped, SpendTyped
<1>5. QED
  BY <1>1, <1>3, <1>4, RepliesTyped, TypeFrom

LEMMA CallTyped == ASSUME TypeOK, NEW c \in Clients, Call(c) PROVE TypeOK'
<1>1. PICK o \in Operations, n \in Names, R \in SUBSET Recipients :
         /\ op' = [op EXCEPT ![c] = o]
         /\ name' = [name EXCEPT ![c] = n]
         /\ recs' = [recs EXCEPT ![c] = R]
         /\ GoTo(c, IF o = "drop" THEN "query" ELSE "exists")
  BY DEF Call
<1>2. PICK l \in {"query", "exists"} : pc' = [pc EXCEPT ![c] = l]
  BY <1>1 DEF GoTo
<1>3. calls' \in 0..MaxCalls
  BY DynamoAssumption DEF Call, TypeOK
<1>4. UNCHANGED <<itemVars, readVars, batch, answer, loose, faults>>
  BY DEF Call
<1>5. QED
  BY <1>1, <1>2, <1>3, <1>4 DEF TypeOK, itemVars, readVars

LEMMA TypesStart == Init => TypeOK
<1> SUFFICES ASSUME Init PROVE TypeOK
  OBVIOUS
<1>1. members \in [Names -> SUBSET Recipients] /\ count = [n \in Names |-> Cardinality(members[n])]
  BY DEF Init
<1>2. \A n \in Names : Cardinality(members[n]) \in Int
  BY <1>1, Counted
<1>3. (CHOOSE n \in Names : TRUE) \in Names
  BY DynamoAssumption
<1>4. QED
  BY <1>1, <1>2, <1>3, DynamoAssumption DEF Init, TypeOK, Operations

LEMMA TypesHold == TypeOK /\ [Next]_vars => TypeOK'
<1> SUFFICES ASSUME TypeOK, [Next]_vars PROVE TypeOK'
  OBVIOUS
<1>1. ASSUME NEW n \in Names, Converge(n) PROVE TypeOK'
  BY <1>1 DEF TypeOK, Converge, itemVars, requestVars
<1>2. CASE UNCHANGED vars
  BY <1>2 DEF TypeOK, vars, itemVars, readVars, requestVars
<1>3. QED
  BY <1>1, <1>2, CallTyped, ReadsTyped, PutTyped, BatchTyped, CountTyped, DeleteTyped
     DEF Next, Step

\* Every variable keeps its type, and no batch is ever written empty, which BatchWriteItem
\* would refuse: addRecipients and deleteRecipients call it with rows only.
THEOREM ListsTyped == Spec => []TypeOK
BY TypesStart, TypesHold, PTL DEF Spec

----------------------------------------------------------------------------
(* How a handler goes on, and what else its step leaves alone *)

\* The other handlers do nothing meanwhile
Others(c) == \A d \in Clients \ {c} : pc'[d] = pc[d] /\ batch'[d] = batch[d]

LEMMA Replies ==
    ASSUME TypeOK, NEW c \in Clients, NEW code, Reply(c, code)
    PROVE  Others(c) /\ pc'[c] = "idle" /\ answer'[c] = code
<1>1. pc' = [pc EXCEPT ![c] = "idle"] /\ batch' = [batch EXCEPT ![c] = {}]
      /\ answer' = [answer EXCEPT ![c] = code]
  BY DEF Reply, GoTo
<1>2. QED
  BY <1>1 DEF TypeOK, Others

LEMMA Successes ==
    ASSUME TypeOK, NEW c \in Clients, Succeed(c)
    PROVE  /\ Others(c) /\ pc'[c] = "idle"
           /\ answer'[c] = IF op[c] = "create" THEN 201 ELSE IF op[c] = "drop" THEN 204 ELSE 200
<1>1. CASE op[c] = "create"
  BY <1>1, Replies DEF Succeed
<1>2. CASE op[c] = "drop"
  BY <1>2, Replies DEF Succeed
<1>3. CASE op[c] \notin {"create", "drop"}
  BY <1>3, Replies DEF Succeed
<1>4. QED
  BY <1>1, <1>2, <1>3

LEMMA Errors ==
    ASSUME TypeOK, NEW c \in Clients, Error(c)
    PROVE  Others(c) /\ pc'[c] = "idle" /\ answer'[c] = IF op[c] = "create" THEN 201 ELSE 500
BY Replies DEF Error

LEMMA Goes ==
    ASSUME TypeOK, NEW c \in Clients, NEW label, NEW B, GoTo(c, label),
           batch' = [batch EXCEPT ![c] = B]
    PROVE  Others(c) /\ pc'[c] = label /\ batch'[c] = B
<1>1. pc' = [pc EXCEPT ![c] = label]
  BY DEF GoTo
<1>2. QED
  BY <1>1 DEF TypeOK, Others

LEMMA Continues ==
    ASSUME TypeOK, NEW c \in Clients, NEW label, Continue(c, label)
    PROVE  Others(c) /\ pc'[c] = label /\ batch'[c] = batch[c]
<1>1. pc' = [pc EXCEPT ![c] = label] /\ batch' = batch
  BY DEF Continue, GoTo
<1>2. QED
  BY <1>1 DEF TypeOK, Others

\* The item and the rows of list m are left alone
SameItems(m) == (m \in lists' <=> m \in lists) /\ count'[m] = count[m] /\ members'[m] = members[m]

\* A step of a handler touches its own list only; when that does not become loose, either
\* the step writes nothing or no other handler is in the middle of the list
Local(c) ==
    /\ Others(c)
    /\ UNCHANGED requestVars
    /\ \A m \in Names \ {name[c]} : SameItems(m)
    /\ name[c] \notin loose' => SameItems(name[c]) \/ ~Overlapped(c)
    /\ loose' \in {loose, loose \cup {name[c]}}
    /\ faults' \in Nat /\ faults' >= faults

LEMMA Loosens ==
    ASSUME TypeOK, NEW c \in Clients, NEW when, Loosen(c, when)
    PROVE  /\ loose' \in {loose, loose \cup {name[c]}}
           /\ name[c] \notin loose' => ~when /\ ~Overlapped(c)
BY DEF Loosen

LEMMA Spends ==
    ASSUME TypeOK, NEW failing \in BOOLEAN, Spend(failing)
    PROVE  faults' \in Nat /\ faults' >= faults /\ (failing => faults' > 0)
BY DynamoAssumption DEF Spend, TypeOK

----------------------------------------------------------------------------
(* What the steps of a handler do, as long as its list is not loose *)

LEMMA ExistsDoes ==
    ASSUME TypeOK, NEW c \in Clients, Exists(c)
    PROVE  /\ Local(c) /\ SameItems(name[c]) /\ pc[c] = "exists"
           /\ name[c] \notin loose' =>
                 \/ pc'[c] = "idle" /\ answer'[c] = 400
                 \/ pc'[c] = "put" /\ op[c] = "create" /\ name[c] \notin lists
                 \/ pc'[c] = "scan" /\ op[c] # "create" /\ name[c] \in lists
<1>1. PICK exists \in BOOLEAN :
         IF exists = (op[c] = "create")
         THEN Reply(c, 400) /\ UNCHANGED loose
         ELSE /\ Continue(c, IF exists THEN "scan" ELSE "put")
              /\ loose' = IF exists = (name[c] \in lists) THEN loose ELSE loose \cup {name[c]}
  BY DEF Exists
<1>2. pc[c] = "exists" /\ UNCHANGED <<itemVars, requestVars, faults>>
  BY DEF Exists
<1>3. loose' \in {loose, loose \cup {name[c]}} /\ faults' \in Nat /\ faults' >= faults
  BY <1>1, <1>2, DynamoAssumption DEF TypeOK
<1>4. \A m : SameItems(m)
  BY <1>2 DEF itemVars, SameItems
<1>5. CASE exists = (op[c] = "create")
  BY <1>1, <1>2, <1>3, <1>4, <1>5, Replies DEF Local
<1>6. CASE exists /\ op[c] # "create"
  <2>1. Continue(c, "scan") /\ (name[c] \notin loose' => name[c] \in lists)
    BY <1>1, <1>6
  <2>2. QED
    BY <1>2, <1>3, <1>4, <1>6, <2>1, Continues DEF Local
<1>7. CASE ~exists /\ op[c] = "create"
  <2>1. Continue(c, "put") /\ (name[c] \notin loose' => name[c] \notin lists)
    BY <1>1, <1>7
  <2>2. QED
    BY <1>2, <1>3, <1>4, <1>7, <2>1, Continues DEF Local
<1>8. QED
  BY <1>5, <1>6, <1>7

LEMMA ScanDoes ==
    ASSUME TypeOK, NEW c \in Clients, Scan(c)
    PROVE  LET rows == IF op[c] = "add" THEN recs[c] \ members[name[c]]
                                        ELSE recs[c] \cap members[name[c]]
           IN  /\ Local(c) /\ SameItems(name[c]) /\ pc[c] = "scan" /\ loose' = loose
               /\ \/ pc'[c] = "idle" /\ rows = {}
                  \/ pc'[c] = "idle" /\ answer'[c] = IF op[c] = "create" THEN 201 ELSE 500
                  \/ pc'[c] = "write" /\ batch'[c] = rows
<1> DEFINE rows == IF op[c] = "add" THEN recs[c] \ members[name[c]]
                                    ELSE recs[c] \cap members[name[c]]
<1>1. /\ pc[c] = "scan" /\ UNCHANGED <<itemVars, requestVars, loose, faults>>
      /\ \/ Error(c)
         \/ rows = {} /\ Succeed(c)
         \/ rows # {} /\ batch' = [batch EXCEPT ![c] = rows] /\ GoTo(c, "write")
  BY DEF Scan, Missing
<1>2. \A m : SameItems(m)
  BY <1>1 DEF itemVars, SameItems
<1>3. faults' \in Nat /\ faults' >= faults
  BY <1>1, DynamoAssumption DEF TypeOK
<1>4. CASE rows = {} /\ Succeed(c)
  BY <1>1, <1>2, <1>3, <1>4, Successes DEF Local
<1>5. CASE rows # {} /\ batch' = [batch EXCEPT ![c] = rows] /\ GoTo(c, "write")
  <2>1. Others(c) /\ pc'[c] = "write" /\ batch'[c] = rows
    BY <1>5, Goes
  <2>2. QED
    BY <1>1, <1>2, <1>3, <2>1 DEF Local
<1>6. CASE Error(c)
  BY <1>1, <1>2, <1>3, <1>6, Errors DEF Local
<1>7. QED
  BY <1>1, <1>4, <1>5, <1>6

LEMMA QueryDoes ==
    ASSUME TypeOK, NEW c \in Clients, QueryRows(c)
    PROVE  /\ Local(c) /\ SameItems(name[c]) /\ pc[c] = "query"
           /\ name[c] \notin loose' =>
                 /\ ~Overlapped(c) /\ members[name[c]] \subseteq batch'[c]
                 /\ pc'[c] \in {"clear", "erase"} /\ (pc'[c] = "erase" => batch'[c] = {})
<1>1. PICK rows \in SUBSET (members[name[c]] \cup recent[name[c]]) :
         /\ batch' = [batch EXCEPT ![c] = rows]
         /\ GoTo(c, IF Clears(rows) THEN "clear" ELSE "erase")
         /\ Loosen(c, ~(members[name[c]] \subseteq rows))
  BY DEF QueryRows
<1>2. pc[c] = "query" /\ UNCHANGED <<itemVars, requestVars, faults>>
  BY DEF QueryRows
<1>3. \A m : SameItems(m)
  BY <1>2 DEF itemVars, SameItems
<1>4. faults' \in Nat /\ faults' >= faults
  BY <1>2, DynamoAssumption DEF TypeOK
<1>5. Others(c) /\ batch'[c] = rows /\ pc'[c] = IF Clears(rows) THEN "clear" ELSE "erase"
  BY <1>1, Goes
<1>6. QED
  BY <1>1, <1>2, <1>3, <1>4, <1>5, Loosens DEF Local, Clears

LEMMA FailureDoes ==
    ASSUME TypeOK, NEW c \in Clients, ReadFails(c)
    PROVE  /\ Local(c) /\ SameItems(name[c]) /\ pc[c] \in {"exists", "scan", "query"}
           /\ loose' = loose /\ pc'[c] = "idle" /\ faults' > 0
           /\ answer'[c] = IF op[c] = "create" THEN 201 ELSE 500
<1>1. /\ pc[c] \in {"exists", "scan", "query"}
      /\ UNCHANGED <<itemVars, requestVars, loose>> /\ Spend(TRUE) /\ Error(c)
  BY DEF ReadFails
<1>2. \A m : SameItems(m)
  BY <1>1 DEF itemVars, SameItems
<1>3. faults' > 0 /\ faults' \in Nat /\ faults' >= faults
  BY <1>1, Spends
<1>4. QED
  BY <1>1, <1>2, <1>3, Errors DEF Local

LEMMA PutDoes ==
    ASSUME TypeOK, NEW c \in Clients, Put(c)
    PROVE  /\ Local(c) /\ pc[c] = "put"
           /\ name[c] \notin loose' =>
                 /\ ~Overlapped(c) /\ members'[name[c]] = members[name[c]]
                 /\ \/ SameItems(name[c]) /\ pc'[c] = "idle" /\ faults' > 0
                    \/ /\ name[c] \in lists' /\ count'[name[c]] = Cardinality(recs[c])
                       /\ \/ pc'[c] = "idle" /\ recs[c] = {}
                          \/ pc'[c] = "fill" /\ batch'[c] = recs[c]
<1>1. PICK times \in {0, 1}, ok \in BOOLEAN :
         /\ ok => times = 1
         /\ Spend(~ok)
         /\ IF times = 0 THEN UNCHANGED <<lists, count, flux>>
            ELSE /\ lists' = lists \cup {name[c]}
                 /\ count' = [count EXCEPT ![name[c]] = Cardinality(recs[c])]
                 /\ flux' = flux \cup {name[c]}
         /\ CASE ~ok                    -> Error(c)
              [] ok /\ recs[c] = {}     -> Succeed(c)
              [] ok /\ recs[c] # {}     -> /\ batch' = [batch EXCEPT ![c] = recs[c]]
                                           /\ GoTo(c, "fill")
                                           /\ UNCHANGED answer
         /\ Loosen(c, ~ok /\ times = 1)
         /\ UNCHANGED <<members, recent, requestVars, calls>>
  BY DEF Put
<1>2. pc[c] = "put" /\ name[c] \in Names
  BY DEF Put, TypeOK
<1>3. /\ loose' \in {loose, loose \cup {name[c]}}
      /\ name[c] \notin loose' => ~(~ok /\ times = 1) /\ ~Overlapped(c)
  BY <1>1, Loosens
<1>4. faults' \in Nat /\ faults' >= faults /\ (~ok => faults' > 0)
  BY <1>1, Spends
<1>5. \A m \in Names \ {name[c]} : SameItems(m)
  BY <1>1, <1>2 DEF SameItems, TypeOK
<1>6. times = 0 => SameItems(name[c])
  BY <1>1 DEF SameItems
<1>7. times = 1 => name[c] \in lists' /\ count'[name[c]] = Cardinality(recs[c])
  BY <1>1, <1>2 DEF TypeOK
<1>8. /\ Others(c)
      /\ ok => \/ pc'[c] = "idle" /\ recs[c] = {}
               \/ pc'[c] = "fill" /\ batch'[c] = recs[c]
      /\ ~ok => pc'[c] = "idle"
  <2>1. CASE ~ok
    <3>1. Error(c)
      BY <1>1, <2>1
    <3>2. QED
      BY <2>1, <3>1, Errors
  <2>2. CASE ok /\ recs[c] = {}
    <3>1. Succeed(c)
      BY <1>1, <2>2
    <3>2. QED
      BY <2>2, <3>1, Successes
  <2>3. CASE ok /\ recs[c] # {}
    <3>1. batch' = [batch EXCEPT ![c] = recs[c]] /\ GoTo(c, "fill")
      BY <1>1, <2>3
    <3>2. QED
      BY <2>3, <3>1, Goes
  <2>4. QED
    BY <2>1, <2>2, <2>3
<1>9. Local(c)
  BY <1>1, <1>3, <1>4, <1>5, <1>8 DEF Local
<1>10. members'[name[c]] = members[name[c]] /\ (times = 0 \/ times = 1) /\ (ok => times = 1)
  BY <1>1
<1>11. QED
  BY <1>2, <1>3, <1>4, <1>6, <1>7, <1>8, <1>9, <1>10

LEMMA BatchWrites ==
    ASSUME TypeOK, NEW c \in Clients, Batch(c)
    PROVE  /\ Local(c) /\ pc[c] \in {"fill", "write", "clear"}
           /\ name[c] \notin loose' =>
                 /\ ~Overlapped(c)
                 /\ (name[c] \in lists' <=> name[c] \in lists) /\ count'[name[c]] = count[name[c]]
                 /\ \/ /\ members'[name[c]] = After(c, batch[c])
                       /\ \/ pc[c] = "fill"  /\ pc'[c] = "idle"
                          \/ pc[c] = "write" /\ pc'[c] = "count" /\ batch'[c] = batch[c]
                          \/ pc[c] = "clear" /\ pc'[c] = "erase"
                    \/ /\ members'[name[c]] = members[name[c]]
                       /\ \/ /\ pc[c] = "fill" /\ pc'[c] = "undo"
                             /\ faults' > 0 \/ Cardinality(batch[c]) > BatchMax
                          \/ /\ pc[c] # "fill" /\ pc'[c] = "idle"
                             /\ answer'[c] = IF op[c] = "create" THEN 201 ELSE 500
<1>1. PICK rows \in SUBSET batch[c], ok \in BOOLEAN :
         /\ pc[c] \in {"fill", "write", "clear"}
         /\ Cardinality(batch[c]) > BatchMax => rows = {} /\ ~ok
         /\ Spend(~(Cardinality(batch[c]) > BatchMax) /\ ~(ok /\ rows = batch[c]))
         /\ members' = [members EXCEPT ![name[c]] = After(c, rows)]
         /\ \/ pc[c] = "fill"  /\ ok  /\ Succeed(c)
            \/ pc[c] = "fill"  /\ ~ok /\ Continue(c, "undo")
            \/ pc[c] = "write" /\ ok  /\ Continue(c, "count")
            \/ pc[c] = "clear" /\ ok  /\ Continue(c, "erase")
            \/ pc[c] # "fill"  /\ ~ok /\ Error(c)
         /\ Loosen(c, rows # (IF ok THEN batch[c] ELSE {}))
         /\ UNCHANGED <<lists, count, requestVars>>
  BY BatchDoes, Zenon
<1>2. /\ loose' \in {loose, loose \cup {name[c]}}
      /\ name[c] \notin loose' => rows = (IF ok THEN batch[c] ELSE {}) /\ ~Overlapped(c)
  <2>1. Loosen(c, rows # (IF ok THEN batch[c] ELSE {}))
    BY <1>1
  <2>2. QED
    BY <2>1, Loosens
<1>3. faults' \in Nat /\ faults' >= faults /\ (~ok => faults' > 0 \/ Cardinality(batch[c]) > BatchMax)
  <2>1. Spend(~(Cardinality(batch[c]) > BatchMax) /\ ~(ok /\ rows = batch[c]))
    BY <1>1
  <2>2. QED
    BY <2>1, Spends
<1>4. \A m \in Names \ {name[c]} : SameItems(m)
  BY <1>1 DEF SameItems, TypeOK
<1>5. /\ members'[name[c]] = After(c, rows)
      /\ name[c] \in lists' <=> name[c] \in lists
      /\ count'[name[c]] = count[name[c]]
  BY <1>1 DEF TypeOK
<1>6. After(c, {}) = members[name[c]]
  BY DEF After
<1>7. /\ Others(c) /\ pc[c] \in {"fill", "write", "clear"}
      /\ ok  => \/ pc[c] = "fill"  /\ pc'[c] = "idle"
                \/ pc[c] = "write" /\ pc'[c] = "count" /\ batch'[c] = batch[c]
                \/ pc[c] = "clear" /\ pc'[c] = "erase"
      /\ ~ok => \/ pc[c] = "fill" /\ pc'[c] = "undo"
                \/ /\ pc[c] # "fill" /\ pc'[c] = "idle"
                   /\ answer'[c] = IF op[c] = "create" THEN 201 ELSE 500
  <2>1. \/ pc[c] = "fill"  /\ ok  /\ Succeed(c)
        \/ pc[c] = "fill"  /\ ~ok /\ Continue(c, "undo")
        \/ pc[c] = "write" /\ ok  /\ Continue(c, "count")
        \/ pc[c] = "clear" /\ ok  /\ Continue(c, "erase")
        \/ pc[c] # "fill"  /\ ~ok /\ Error(c)
    BY <1>1
  <2>2. pc[c] \in {"fill", "write", "clear"}
    BY <1>1
  <2>3. QED
    BY <2>1, <2>2, Successes, Errors, Continues
<1>8. Local(c)
  <2>1. UNCHANGED requestVars
    BY <1>1
  <2>2. QED
    BY <1>2, <1>3, <1>4, <1>7, <2>1 DEF Local
<1>9. CASE ok
  BY <1>2, <1>5, <1>7, <1>8, <1>9
<1>10. CASE ~ok
  BY <1>2, <1>3, <1>5, <1>6, <1>7, <1>8, <1>10
<1>11. QED
  BY <1>9, <1>10

LEMMA CountDoes ==
    ASSUME TypeOK, NEW c \in Clients, UpdateCount(c)
    PROVE  /\ Local(c) /\ pc[c] = "count"
           /\ name[c] \notin loose' =>
                 /\ ~Overlapped(c) /\ pc'[c] = "idle" /\ name[c] \in lists'
                 /\ count'[name[c]] = count[name[c]] + Change(c)
                 /\ members'[name[c]] = members[name[c]]
<1>1. PICK times \in Repeats, ok \in BOOLEAN :
         /\ Spend(~(ok /\ times = 1))
         /\ count' = [count EXCEPT ![name[c]] = @ + times * Change(c)]
         /\ IF times > 0 /\ name[c] \notin lists
            THEN lists' = lists \cup {name[c]} /\ flux' = flux \cup {name[c]}
            ELSE UNCHANGED <<lists, flux>>
         /\ IF ok THEN Succeed(c) ELSE Error(c)
         /\ Loosen(c, times # 1)
         /\ UNCHANGED <<members, recent, requestVars, calls>>
  BY DEF UpdateCount
<1>2. /\ pc[c] = "count" /\ name[c] \in Names /\ batch[c] \in SUBSET Recipients
      /\ count[name[c]] \in Int
  BY DEF UpdateCount, TypeOK
<1>3. Change(c) \in Int
  <2>1. Cardinality(batch[c]) \in Nat
    BY <1>2, Counted
  <2>2. QED
    BY <2>1 DEF Change
<1>4. /\ loose' \in {loose, loose \cup {name[c]}}
      /\ name[c] \notin loose' => times = 1 /\ ~Overlapped(c)
  BY <1>1, Loosens
<1>5. faults' \in Nat /\ faults' >= faults
  BY <1>1, Spends
<1>6. Others(c) /\ pc'[c] = "idle"
  BY <1>1, Successes, Errors
<1>7. \A m \in Names \ {name[c]} : SameItems(m)
  BY <1>1, <1>2 DEF SameItems, TypeOK
<1>8. UNCHANGED requestVars /\ members'[name[c]] = members[name[c]]
  BY <1>1
<1>9. ASSUME times = 1
      PROVE  name[c] \in lists' /\ count'[name[c]] = count[name[c]] + Change(c)
  <2>1. count'[name[c]] = count[name[c]] + 1 * Change(c)
    BY <1>1, <1>2, <1>9 DEF TypeOK
  <2>2. name[c] \in lists'
    BY <1>1, <1>9
  <2>3. QED
    BY <1>2, <1>3, <2>1, <2>2
<1>10. Local(c)
  BY <1>4, <1>5, <1>6, <1>7, <1>8 DEF Local
<1>11. QED
  BY <1>2, <1>4, <1>6, <1>8, <1>9, <1>10

LEMMA DeleteDoes ==
    ASSUME TypeOK, NEW c \in Clients, DeleteSummary(c)
    PROVE  /\ Local(c) /\ pc[c] \in {"erase", "undo"}
           /\ name[c] \notin loose' =>
                 /\ ~Overlapped(c) /\ pc'[c] = "idle" /\ name[c] \notin lists'
                 /\ count'[name[c]] = 0 /\ members'[name[c]] = members[name[c]]
<1>1. PICK times \in {0, 1}, ok \in BOOLEAN :
         /\ Spend(~ok)
         /\ IF times = 0 THEN UNCHANGED <<lists, count, flux>>
            ELSE /\ lists' = lists \ {name[c]}
                 /\ count' = [count EXCEPT ![name[c]] = 0]
                 /\ flux' = IF name[c] \in lists THEN flux \cup {name[c]} ELSE flux
         /\ IF ok /\ pc[c] = "erase" THEN Succeed(c) ELSE Error(c)
         /\ Loosen(c, times = 0)
         /\ UNCHANGED <<members, recent, requestVars, calls>>
  BY DEF DeleteSummary
<1>2. pc[c] \in {"erase", "undo"} /\ name[c] \in Names
  BY DEF DeleteSummary, TypeOK
<1>3. /\ loose' \in {loose, loose \cup {name[c]}}
      /\ name[c] \notin loose' => times # 0 /\ ~Overlapped(c)
  BY <1>1, Loosens
<1>4. faults' \in Nat /\ faults' >= faults
  BY <1>1, Spends
<1>5. Others(c) /\ pc'[c] = "idle"
  BY <1>1, Successes, Errors
<1>6. \A m \in Names \ {name[c]} : SameItems(m)
  BY <1>1, <1>2 DEF SameItems, TypeOK
<1>7. UNCHANGED requestVars /\ members'[name[c]] = members[name[c]]
  BY <1>1
<1>8. times # 0 => name[c] \notin lists' /\ count'[name[c]] = 0
  BY <1>1, <1>2 DEF TypeOK
<1>9. Local(c)
  BY <1>3, <1>4, <1>5, <1>6, <1>7 DEF Local
<1>10. QED
  BY <1>2, <1>3, <1>5, <1>7, <1>8, <1>9

----------------------------------------------------------------------------
(* The inductive invariant. Of a list that is not loose, a handler in the middle of a *)
(* request knows more than its own next call                                           *)

\* The calls of a request are those of its operation
Kinds(c) ==
    /\ pc[c] \in {"put", "fill", "undo"} => op[c] = "create"
    /\ pc[c] \in {"scan", "write", "count"} => op[c] \in {"add", "remove"}
    /\ pc[c] \in {"query", "clear", "erase"} => op[c] = "drop"
    /\ pc[c] = "exists" => op[c] # "drop"

\* What a handler has read or written of its list still holds: whether the list is there,
\* the rows that are missing or left, by how much its number is off, and that a creation
\* cleans up only after a fault or a batch that was refused
Knows(c) ==
    LET n == name[c]
    IN  /\ pc[c] = "put" => n \notin lists
        /\ pc[c] \in {"scan", "write", "count", "fill", "undo"} => n \in lists
        /\ pc[c] = "write" =>
              batch[c] = IF op[c] = "add" THEN recs[c] \ members[n] ELSE recs[c] \cap members[n]
        /\ pc[c] = "count" =>
              /\ count[n] + Change(c) = Cardinality(members[n])
              /\ op[c] = "add" => recs[c] \subseteq members[n]
              /\ op[c] = "remove" => recs[c] \cap members[n] = {}
        /\ pc[c] \in {"fill", "undo"} => members[n] = {} /\ count[n] = Cardinality(recs[c])
        /\ pc[c] = "fill" => batch[c] = recs[c]
        /\ pc[c] = "undo" => faults > 0 \/ Cardinality(recs[c]) > BatchMax
        /\ pc[c] = "clear" => members[n] \subseteq batch[c]
        /\ pc[c] = "erase" => members[n] = {}

\* A list that no handler has left between two writes has its number; without a summary
\* there is nothing
Settled(n) ==
    /\ n \notin lists => members[n] = {} /\ count[n] = 0
    /\ n \in lists /\ ~At(n, {"fill", "undo", "count", "erase"}) =>
          count[n] = Cardinality(members[n])

LInv ==
    /\ TypeOK
    /\ \A c \in Clients : Kinds(c) /\ (name[c] \notin loose => Knows(c))
    /\ \A n \in Names \ loose : Settled(n)

\* The handlers of the other lists do not notice a step
LEMMA Elsewhere ==
    ASSUME NEW c \in Clients, Local(c), NEW m \in Names \ {name[c]}
    PROVE  \A labels : At(m, labels)' <=> At(m, labels)
BY DEF Local, Others, requestVars, At

\* Without another handler in the middle of the list, where it is is where c is
LEMMA Alone ==
    ASSUME NEW c \in Clients, NEW n, n = name[c], ~Overlapped(c), NEW labels,
           labels \cap {"idle", "exists", "query"} = {}
    PROVE  At(n, labels) <=> pc[c] \in labels
BY DEF Overlapped, At

LEMMA AloneNext ==
    ASSUME NEW c \in Clients, NEW n, n = name[c], ~Overlapped(c), Local(c), NEW labels,
           labels \cap {"idle", "exists", "query"} = {}
    PROVE  At(n, labels)' <=> pc'[c] \in labels
BY DEF Overlapped, Local, Others, requestVars, At

LEMMA OwnKept ==
    ASSUME LInv, NEW c \in Clients, Local(c), NEW d \in Clients \ {c}
    PROVE  Kinds(d)' /\ ((name[d] \notin loose)' => Knows(d)')
<1>1. /\ pc'[d] = pc[d] /\ batch'[d] = batch[d] /\ op' = op /\ name' = name /\ recs' = recs
      /\ Kinds(d) /\ (name[d] \notin loose => Knows(d)) /\ name[d] \in Names /\ faults \in Nat
  BY DynamoAssumption DEF Local, Others, requestVars, LInv, TypeOK
<1>2. Kinds(d)'
  BY <1>1 DEF Kinds
<1>3. ASSUME name[d] \notin loose' PROVE Knows(d)'
  <2>1. Knows(d) /\ faults' >= faults
    BY <1>1, <1>3 DEF Local
  <2>2. CASE SameItems(name[d])
    <3>1. /\ name'[d] = name[d] /\ op'[d] = op[d] /\ recs'[d] = recs[d]
          /\ name[d] \in lists' <=> name[d] \in lists
          /\ count'[name[d]] = count[name[d]] /\ members'[name[d]] = members[name[d]]
      BY <1>1, <2>2 DEF SameItems
    <3>2. Change(d)' = Change(d)
      BY <1>1, <3>1 DEF Change
    <3>3. faults > 0 => faults' > 0
      BY <1>1, <2>1 DEF Local
    <3>4. QED
      BY <1>1, <2>1, <3>1, <3>2, <3>3, Zenon DEF Knows
  <2>3. CASE ~SameItems(name[d])
    <3>1. name[d] = name[c] /\ ~Overlapped(c)
      BY <1>1, <1>3, <2>3 DEF Local
    <3>2. pc[d] \in {"idle", "exists", "query"}
      BY <3>1 DEF Overlapped
    <3>3. QED
      BY <1>1, <3>2 DEF Knows
  <2>4. QED
    BY <2>2, <2>3
<1>4. QED
  BY <1>1, <1>2, <1>3

LEMMA SettledElsewhere ==
    ASSUME LInv, NEW c \in Clients, Local(c), NEW m \in Names \ {name[c]}, m \notin loose'
    PROVE  Settled(m)'
<1>1. Settled(m) /\ SameItems(m)
  BY DEF LInv, Local
<1>2. At(m, {"fill", "undo", "count", "erase"})' <=> At(m, {"fill", "undo", "count", "erase"})
  BY Elsewhere
<1>3. QED
  BY <1>1, <1>2 DEF Settled, SameItems

\* What a step has to establish
Keeps(c) == /\ Kinds(c)'
            /\ name[c] \notin loose' => Knows(c)' /\ (\A n \in {name[c]} : Settled(n)')

LEMMA InvFrom ==
    ASSUME LInv, NEW c \in Clients, Local(c), Keeps(c), TypeOK'
    PROVE  LInv'
<1>1. name' = name /\ name \in [Clients -> Names]
  BY DEF Local, requestVars, LInv, TypeOK
<1>2. \A d \in Clients : Kinds(d)' /\ ((name[d] \notin loose)' => Knows(d)')
  <2>1. \A d \in Clients \ {c} : Kinds(d)' /\ ((name[d] \notin loose)' => Knows(d)')
    BY OwnKept
  <2>2. Kinds(c)' /\ ((name[c] \notin loose)' => Knows(c)')
    BY <1>1 DEF Keeps
  <2>3. QED
    BY <2>1, <2>2
<1>3. \A n \in Names \ loose' : Settled(n)'
  <2>1. \A n \in Names \ loose' : n # name[c] => Settled(n)'
    BY SettledElsewhere
  <2>2. QED
    BY <2>1 DEF Keeps
<1>4. QED
  BY <1>2, <1>3 DEF LInv

\* A step that writes nothing, between calls that leave nothing undone
LEMMA SettledHere ==
    ASSUME LInv, NEW c \in Clients, NEW n, n = name[c], Local(c), SameItems(n), n \notin loose',
           pc[c] \notin {"fill", "undo", "count", "erase"},
           pc'[c] \notin {"fill", "undo", "count", "erase"}
    PROVE  Settled(n)'
<1>1. Settled(n)
  BY DEF LInv, Local, TypeOK
<1>2. At(n, {"fill", "undo", "count", "erase"})' <=> At(n, {"fill", "undo", "count", "erase"})
  BY DEF Local, Others, requestVars, At
<1>3. QED
  BY <1>1, <1>2 DEF Settled, SameItems

\* Where a step begins and what of the request stays
LEMMA Begins ==
    ASSUME LInv, NEW c \in Clients, Local(c)
    PROVE  /\ Kinds(c)
           /\ op'[c] = op[c] /\ name'[c] = name[c] /\ recs'[c] = recs[c]
           /\ name[c] \in Names /\ op[c] \in Operations
           /\ recs[c] \in SUBSET Recipients /\ batch[c] \in SUBSET Recipients
           /\ members[name[c]] \in SUBSET Recipients /\ count[name[c]] \in Int
           /\ name[c] \notin loose' => loose' = loose /\ Knows(c) /\ Settled(name[c])
BY DEF LInv, TypeOK, Local, requestVars

LEMMA ExistsKeeps == ASSUME LInv, NEW c \in Clients, Exists(c) PROVE Local(c) /\ Keeps(c)
<1>1. TypeOK
  BY DEF LInv
<1>2. /\ Local(c) /\ SameItems(name[c]) /\ pc[c] = "exists"
      /\ name[c] \notin loose' =>
            \/ pc'[c] = "idle"
            \/ pc'[c] = "put" /\ name[c] \notin lists
            \/ pc'[c] = "scan" /\ name[c] \in lists
      /\ \/ pc'[c] = "idle"
         \/ pc'[c] = "put" /\ op[c] = "create"
         \/ pc'[c] = "scan" /\ op[c] # "create"
  <2>1. \E exists \in BOOLEAN :
           IF exists = (op[c] = "create") THEN Reply(c, 400)
           ELSE Continue(c, IF exists THEN "scan" ELSE "put")
    BY DEF Exists
  <2>2. \/ pc'[c] = "idle"
        \/ pc'[c] = "put" /\ op[c] = "create"
        \/ pc'[c] = "scan" /\ op[c] # "create"
    BY <1>1, <2>1, Replies, Continues
  <2>3. QED
    BY <1>1, <2>2, ExistsDoes
<1>3. Kinds(c) /\ op'[c] = op[c] /\ name'[c] = name[c] /\ recs'[c] = recs[c] /\ op[c] \in Operations
  BY <1>2, Begins
<1>4. Kinds(c)'
  BY <1>2, <1>3 DEF Kinds, Operations
<1>5. ASSUME name[c] \notin loose' PROVE Knows(c)' /\ (\A n \in {name[c]} : Settled(n)')
  <2>1. Knows(c)'
    BY <1>2, <1>3, <1>5 DEF Knows, SameItems
  <2>2. QED
    BY <1>2, <1>5, <2>1, SettledHere
<1>6. QED
  BY <1>2, <1>4, <1>5 DEF Keeps

LEMMA ScanKeeps == ASSUME LInv, NEW c \in Clients, Scan(c) PROVE Local(c) /\ Keeps(c)
<1>1. TypeOK
  BY DEF LInv
<1>2. /\ Local(c) /\ SameItems(name[c]) /\ pc[c] = "scan"
      /\ \/ pc'[c] = "idle"
         \/ /\ pc'[c] = "write"
            /\ batch'[c] = IF op[c] = "add" THEN recs[c] \ members[name[c]]
                                            ELSE recs[c] \cap members[name[c]]
  BY <1>1, ScanDoes
<1>3. /\ Kinds(c) /\ op'[c] = op[c] /\ name'[c] = name[c] /\ recs'[c] = recs[c]
      /\ name[c] \notin loose' => Knows(c)
  BY <1>2, Begins
<1>4. Kinds(c)'
  BY <1>2, <1>3 DEF Kinds
<1>5. ASSUME name[c] \notin loose' PROVE Knows(c)' /\ (\A n \in {name[c]} : Settled(n)')
  <2>1. Knows(c)'
    BY <1>2, <1>3, <1>5 DEF Knows, SameItems
  <2>2. QED
    BY <1>2, <1>5, <2>1, SettledHere
<1>6. QED
  BY <1>2, <1>4, <1>5 DEF Keeps

LEMMA QueryKeeps == ASSUME LInv, NEW c \in Clients, QueryRows(c) PROVE Local(c) /\ Keeps(c)
<1>1. TypeOK
  BY DEF LInv
<1>2. /\ Local(c) /\ SameItems(name[c]) /\ pc[c] = "query" /\ pc'[c] \in {"clear", "erase"}
      /\ name[c] \notin loose' =>
            /\ ~Overlapped(c) /\ members[name[c]] \subseteq batch'[c]
            /\ pc'[c] = "erase" => batch'[c] = {}
  <2>1. \E rows : /\ GoTo(c, IF Clears(rows) THEN "clear" ELSE "erase")
                  /\ batch' = [batch EXCEPT ![c] = rows]
    BY DEF QueryRows
  <2>2. pc'[c] \in {"clear", "erase"}
    BY <1>1, <2>1, Goes
  <2>3. QED
    BY <1>1, <2>2, QueryDoes
<1>3. /\ Kinds(c) /\ op'[c] = op[c] /\ name'[c] = name[c] /\ recs'[c] = recs[c]
      /\ name[c] \notin loose' => Settled(name[c])
  BY <1>2, Begins
<1>4. Kinds(c)'
  BY <1>2, <1>3 DEF Kinds
<1>5. ASSUME name[c] \notin loose' PROVE Knows(c)' /\ (\A n \in {name[c]} : Settled(n)')
  <2>1. members'[name[c]] = members[name[c]] /\ count'[name[c]] = count[name[c]]
        /\ (name[c] \in lists' <=> name[c] \in lists)
    BY <1>2 DEF SameItems
  <2>2. Knows(c)'
    BY <1>2, <1>3, <1>5, <2>1 DEF Knows
  <2>3. ASSUME NEW n \in {name[c]} PROVE Settled(n)'
    <3>1. ~At(n, {"fill", "undo", "count", "erase"})
      BY <1>2, <1>5, <2>3, Alone
    <3>2. QED
      BY <1>3, <1>5, <2>1, <2>3, <3>1 DEF Settled
  <2>4. QED
    BY <2>2, <2>3
<1>6. QED
  BY <1>2, <1>4, <1>5 DEF Keeps

LEMMA FailureKeeps == ASSUME LInv, NEW c \in Clients, ReadFails(c) PROVE Local(c) /\ Keeps(c)
<1>1. /\ Local(c) /\ SameItems(name[c]) /\ pc[c] \in {"exists", "scan", "query"} /\ pc'[c] = "idle"
  BY FailureDoes DEF LInv
<1>2. Kinds(c)' /\ Knows(c)'
  BY <1>1 DEF Kinds, Knows
<1>3. name[c] \notin loose' => \A n \in {name[c]} : Settled(n)'
  BY <1>1, SettledHere
<1>4. QED
  BY <1>1, <1>2, <1>3 DEF Keeps

\* A write that ends with the number right, or with the handler knowing what is missing
LEMMA SettledAlone ==
    ASSUME LInv, NEW c \in Clients, NEW n, n = name[c], Local(c), ~Overlapped(c),
           n \notin lists' => members'[n] = {} /\ count'[n] = 0,
           n \in lists' /\ pc'[c] \notin {"fill", "undo", "count", "erase"} =>
               count'[n] = Cardinality(members'[n])
    PROVE  Settled(n)'
<1>1. At(n, {"fill", "undo", "count", "erase"})' <=> pc'[c] \in {"fill", "undo", "count", "erase"}
  BY AloneNext
<1>2. QED
  BY <1>1 DEF Settled

LEMMA PutKeeps == ASSUME LInv, NEW c \in Clients, Put(c) PROVE Local(c) /\ Keeps(c)
<1>1. /\ TypeOK /\ Local(c) /\ pc[c] = "put"
  BY PutDoes DEF LInv
<1>2. /\ Kinds(c) /\ op'[c] = op[c] /\ name'[c] = name[c] /\ recs'[c] = recs[c]
      /\ recs[c] \in SUBSET Recipients
      /\ name[c] \notin loose' => Knows(c) /\ Settled(name[c])
  BY <1>1, Begins
<1>3. Kinds(c)'
  <2>1. Error(c) \/ Succeed(c) \/ (GoTo(c, "fill") /\ batch' = [batch EXCEPT ![c] = recs[c]])
    <3>1. \E ok \in BOOLEAN :
            CASE ~ok                -> Error(c)
              [] ok /\ recs[c] = {} -> Succeed(c)
              [] ok /\ recs[c] # {} -> /\ batch' = [batch EXCEPT ![c] = recs[c]]
                                       /\ GoTo(c, "fill")
                                       /\ UNCHANGED answer
      BY DEF Put
    <3>2. QED
      BY <3>1
  <2>2. pc'[c] \in {"idle", "fill"}
    <3>1. Error(c) \/ Succeed(c) => pc'[c] = "idle"
      BY <1>1, Errors, Successes
    <3>2. GoTo(c, "fill") /\ batch' = [batch EXCEPT ![c] = recs[c]] => pc'[c] = "fill"
      BY <1>1, Goes
    <3>3. QED
      BY <2>1, <3>1, <3>2
  <2>3. QED
    BY <1>1, <1>2, <2>2 DEF Kinds
<1>4. ASSUME name[c] \notin loose' PROVE Knows(c)' /\ (\A n \in {name[c]} : Settled(n)')
  <2>1. /\ ~Overlapped(c) /\ members'[name[c]] = members[name[c]]
        /\ \/ SameItems(name[c]) /\ pc'[c] = "idle"
           \/ /\ name[c] \in lists' /\ count'[name[c]] = Cardinality(recs[c])
              /\ \/ pc'[c] = "idle" /\ recs[c] = {}
                 \/ pc'[c] = "fill" /\ batch'[c] = recs[c]
    BY <1>1, <1>4, PutDoes
  <2>2. members[name[c]] = {} /\ count[name[c]] = 0 /\ name[c] \notin lists
    BY <1>1, <1>2, <1>4 DEF Knows, Settled
  <2>3. Knows(c)'
    BY <1>2, <2>1, <2>2 DEF Knows
  <2>4. Cardinality({}) = 0
    BY FS_EmptySet
  <2>5. QED
    BY <1>1, <2>1, <2>2, <2>3, <2>4, SettledAlone DEF SameItems
<1>5. QED
  BY <1>1, <1>3, <1>4 DEF Keeps

\* What a batch that is written as a whole makes of the rows
LEMMA Written ==
    ASSUME LInv, NEW c \in Clients, Knows(c), Kinds(c), pc[c] \in {"fill", "write", "clear"}
    PROVE  /\ pc[c] = "fill" => After(c, batch[c]) = recs[c]
           /\ pc[c] = "clear" => After(c, batch[c]) = {}
           /\ pc[c] = "write" /\ op[c] = "add" =>
                 /\ After(c, batch[c]) = members[name[c]] \cup recs[c]
                 /\ Cardinality(After(c, batch[c])) =
                       Cardinality(members[name[c]]) + Cardinality(batch[c])
           /\ pc[c] = "write" /\ op[c] = "remove" =>
                 /\ After(c, batch[c]) = members[name[c]] \ recs[c]
                 /\ Cardinality(After(c, batch[c])) =
                       Cardinality(members[name[c]]) - Cardinality(batch[c])
<1>1. members[name[c]] \in SUBSET Recipients /\ batch[c] \in SUBSET Recipients
  BY DEF LInv, TypeOK
<1>2. CASE pc[c] = "fill"
  BY <1>2 DEF Knows, Kinds, After
<1>3. CASE pc[c] = "clear"
  BY <1>3 DEF Knows, Kinds, After
<1>4. CASE pc[c] = "write" /\ op[c] = "add"
  <2>1. batch[c] = recs[c] \ members[name[c]] /\ After(c, batch[c]) = members[name[c]] \cup batch[c]
    BY <1>4 DEF Knows, After
  <2>2. Cardinality(members[name[c]] \cup batch[c]) = Cardinality(members[name[c]]) + Cardinality(batch[c])
    BY <1>1, <2>1, CountedUnion
  <2>3. members[name[c]] \cup batch[c] = members[name[c]] \cup recs[c]
    BY <2>1
  <2>4. QED
    BY <1>4, <2>1, <2>2, <2>3
<1>5. CASE pc[c] = "write" /\ op[c] = "remove"
  <2>1. batch[c] = recs[c] \cap members[name[c]] /\ After(c, batch[c]) = members[name[c]] \ batch[c]
    BY <1>5 DEF Knows, After
  <2>2. Cardinality(members[name[c]] \ batch[c]) = Cardinality(members[name[c]]) - Cardinality(batch[c])
    BY <1>1, <2>1, CountedDifference
  <2>3. members[name[c]] \ batch[c] = members[name[c]] \ recs[c]
    BY <2>1
  <2>4. QED
    BY <1>5, <2>1, <2>2, <2>3
<1>6. QED
  BY <1>2, <1>3, <1>4, <1>5

LEMMA BatchKeeps == ASSUME LInv, NEW c \in Clients, Batch(c) PROVE Local(c) /\ Keeps(c)
<1>1. /\ TypeOK /\ Local(c) /\ pc[c] \in {"fill", "write", "clear"}
  BY BatchWrites DEF LInv
<1>2. /\ Kinds(c) /\ op'[c] = op[c] /\ name'[c] = name[c] /\ recs'[c] = recs[c]
      /\ recs[c] \in SUBSET Recipients /\ batch[c] \in SUBSET Recipients
      /\ members[name[c]] \in SUBSET Recipients /\ count[name[c]] \in Int
      /\ name[c] \notin loose' => Knows(c) /\ Settled(name[c])
  BY <1>1, Begins
<1>3. Kinds(c)'
  <2>1. \/ Succeed(c) \/ Error(c)
        \/ pc[c] = "fill" /\ Continue(c, "undo")
        \/ pc[c] = "write" /\ Continue(c, "count")
        \/ pc[c] = "clear" /\ Continue(c, "erase")
    BY BatchDoes
  <2>2. \/ pc'[c] = "idle"
        \/ pc[c] = "fill" /\ pc'[c] = "undo"
        \/ pc[c] = "write" /\ pc'[c] = "count"
        \/ pc[c] = "clear" /\ pc'[c] = "erase"
    BY <1>1, <2>1, Errors, Successes, Continues
  <2>3. QED
    BY <1>2, <2>2 DEF Kinds
<1>4. ASSUME name[c] \notin loose' PROVE Knows(c)' /\ (\A n \in {name[c]} : Settled(n)')
  <2>1. /\ ~Overlapped(c) /\ Knows(c) /\ Settled(name[c])
        /\ name[c] \in lists' <=> name[c] \in lists
        /\ count'[name[c]] = count[name[c]]
    BY <1>1, <1>2, <1>4, BatchWrites
  <2>2. \/ /\ members'[name[c]] = After(c, batch[c])
           /\ \/ pc[c] = "fill"  /\ pc'[c] = "idle"
              \/ pc[c] = "write" /\ pc'[c] = "count" /\ batch'[c] = batch[c]
              \/ pc[c] = "clear" /\ pc'[c] = "erase"
        \/ /\ members'[name[c]] = members[name[c]]
           /\ \/ /\ pc[c] = "fill" /\ pc'[c] = "undo"
                 /\ faults' > 0 \/ Cardinality(batch[c]) > BatchMax
              \/ pc[c] # "fill" /\ pc'[c] = "idle"
    BY <1>1, <1>4, BatchWrites
  <2>3. Cardinality({}) = 0
    BY FS_EmptySet
  <2>4. pc[c] # "fill" /\ name[c] \in lists => count[name[c]] = Cardinality(members[name[c]])
    <3>1. ASSUME pc[c] # "fill" PROVE ~At(name[c], {"fill", "undo", "count", "erase"})
      BY <1>1, <2>1, <3>1, Alone
    <3>2. QED
      BY <2>1, <3>1 DEF Settled
  <2>5. CASE pc[c] = "fill" /\ pc'[c] = "idle"
    <3>1. members'[name[c]] = recs[c] /\ count'[name[c]] = Cardinality(recs[c]) /\ name[c] \in lists'
      BY <1>2, <2>1, <2>2, <2>5, Written DEF Knows
    <3>2. Knows(c)'
      BY <1>2, <2>5 DEF Knows
    <3>3. QED
      BY <1>1, <2>1, <3>1, <3>2, SettledAlone
  <2>6. CASE pc[c] = "write" /\ pc'[c] = "count"
    <3>1. members'[name[c]] = After(c, batch[c]) /\ batch'[c] = batch[c]
      BY <2>2, <2>6
    <3>2. count[name[c]] = Cardinality(members[name[c]]) /\ name[c] \in lists'
      BY <2>1, <2>4, <2>6 DEF Knows
    <3>3. Change(c)' = IF op[c] = "add" THEN Cardinality(batch[c]) ELSE - Cardinality(batch[c])
      BY <1>2, <3>1 DEF Change
    <3>4. Cardinality(batch[c]) \in Nat /\ Cardinality(members[name[c]]) \in Nat
      BY <1>2, Counted
    <3>5. /\ op[c] \in {"add", "remove"}
          /\ op[c] = "add" => /\ members'[name[c]] = members[name[c]] \cup recs[c]
                              /\ Cardinality(members'[name[c]]) =
                                    Cardinality(members[name[c]]) + Cardinality(batch[c])
          /\ op[c] = "remove" => /\ members'[name[c]] = members[name[c]] \ recs[c]
                                 /\ Cardinality(members'[name[c]]) =
                                       Cardinality(members[name[c]]) - Cardinality(batch[c])
      BY <1>2, <2>1, <2>6, <3>1, Written DEF Kinds
    <3>6. count'[name[c]] + Change(c)' = Cardinality(members'[name[c]])
      BY <2>1, <3>2, <3>3, <3>4, <3>5
    <3>7. Knows(c)'
      BY <1>2, <2>6, <3>2, <3>5, <3>6 DEF Knows
    <3>8. QED
      BY <1>1, <2>1, <2>6, <3>2, <3>7, SettledAlone
  <2>7. CASE pc[c] = "clear" /\ pc'[c] = "erase"
    <3>1. members'[name[c]] = {}
      BY <1>2, <2>1, <2>2, <2>7, Written
    <3>2. Knows(c)'
      BY <1>2, <2>7, <3>1 DEF Knows
    <3>3. name[c] \notin lists' => count'[name[c]] = 0
      BY <2>1 DEF Settled
    <3>4. QED
      BY <1>1, <2>1, <2>7, <3>1, <3>2, <3>3, SettledAlone
  <2>8. CASE pc[c] = "fill" /\ pc'[c] = "undo"
    <3>1. /\ members'[name[c]] = {} /\ count'[name[c]] = Cardinality(recs[c]) /\ name[c] \in lists'
          /\ faults' > 0 \/ Cardinality(recs[c]) > BatchMax
      BY <2>1, <2>2, <2>8 DEF Knows
    <3>2. Knows(c)'
      BY <1>2, <2>8, <3>1 DEF Knows
    <3>3. QED
      BY <1>1, <2>1, <2>8, <3>1, <3>2, SettledAlone
  <2>9. CASE pc[c] # "fill" /\ pc'[c] = "idle"
    <3>1. members'[name[c]] = members[name[c]]
      BY <2>2, <2>9
    <3>2. Knows(c)'
      BY <2>9 DEF Knows
    <3>3. /\ name[c] \notin lists' => members'[name[c]] = {} /\ count'[name[c]] = 0
          /\ name[c] \in lists' => count'[name[c]] = Cardinality(members'[name[c]])
      BY <2>1, <2>4, <2>9, <3>1 DEF Settled
    <3>4. QED
      BY <1>1, <2>1, <3>2, <3>3, SettledAlone
  <2>10. QED
    BY <2>2, <2>5, <2>6, <2>7, <2>8, <2>9
<1>5. QED
  BY <1>1, <1>3, <1>4 DEF Keeps

LEMMA CountKeeps == ASSUME LInv, NEW c \in Clients, UpdateCount(c) PROVE Local(c) /\ Keeps(c)
<1>1. /\ TypeOK /\ Local(c) /\ pc[c] = "count"
  BY CountDoes DEF LInv
<1>2. pc'[c] = "idle"
  <2>1. Succeed(c) \/ Error(c)
    BY DEF UpdateCount
  <2>2. QED
    BY <1>1, <2>1, Successes, Errors
<1>3. Kinds(c)' /\ Knows(c)'
  BY <1>2 DEF Kinds, Knows
<1>4. ASSUME name[c] \notin loose', NEW n \in {name[c]} PROVE Settled(n)'
  <2>1. /\ ~Overlapped(c) /\ n \in lists' /\ members'[n] = members[n]
        /\ count'[n] = count[n] + Change(c)
    BY <1>1, <1>4, CountDoes
  <2>2. count[n] + Change(c) = Cardinality(members[n])
    BY <1>1, <1>4, Begins DEF Knows
  <2>3. QED
    BY <1>1, <2>1, <2>2, SettledAlone
<1>5. QED
  BY <1>1, <1>3, <1>4 DEF Keeps

LEMMA DeleteKeeps == ASSUME LInv, NEW c \in Clients, DeleteSummary(c) PROVE Local(c) /\ Keeps(c)
<1>1. /\ TypeOK /\ Local(c) /\ pc[c] \in {"erase", "undo"}
  BY DeleteDoes DEF LInv
<1>2. pc'[c] = "idle"
  <2>1. Succeed(c) \/ Error(c)
    BY DEF DeleteSummary
  <2>2. QED
    BY <1>1, <2>1, Successes, Errors
<1>3. Kinds(c)' /\ Knows(c)'
  BY <1>2 DEF Kinds, Knows
<1>4. ASSUME name[c] \notin loose', NEW n \in {name[c]} PROVE Settled(n)'
  <2>1. /\ ~Overlapped(c) /\ n \notin lists' /\ members'[n] = members[n] /\ count'[n] = 0
    BY <1>1, <1>4, DeleteDoes
  <2>2. members[n] = {}
    BY <1>1, <1>4, Begins DEF Knows
  <2>3. QED
    BY <1>1, <2>1, <2>2, SettledAlone
<1>5. QED
  BY <1>1, <1>3, <1>4 DEF Keeps

\* A request that comes to a slot is in the middle of nothing
LEMMA CallDoes ==
    ASSUME TypeOK, NEW c \in Clients, Call(c)
    PROVE  /\ pc[c] = "idle" /\ pc'[c] \in {"exists", "query"}
           /\ pc'[c] = "query" <=> op'[c] = "drop"
           /\ UNCHANGED <<lists, count, members, batch, loose, faults>>
           /\ \A d \in Clients \ {c} : /\ pc'[d] = pc[d] /\ op'[d] = op[d]
                                       /\ name'[d] = name[d] /\ recs'[d] = recs[d]
<1>1. PICK o \in Operations, n \in Names, R \in SUBSET Recipients :
         /\ op' = [op EXCEPT ![c] = o]
         /\ name' = [name EXCEPT ![c] = n]
         /\ recs' = [recs EXCEPT ![c] = R]
         /\ GoTo(c, IF o = "drop" THEN "query" ELSE "exists")
  BY DEF Call
<1>2. pc' = [pc EXCEPT ![c] = IF o = "drop" THEN "query" ELSE "exists"]
  BY <1>1 DEF GoTo
<1>3. pc[c] = "idle" /\ UNCHANGED <<lists, count, members, batch, loose, faults>>
  BY DEF Call, itemVars
<1>4. QED
  BY <1>1, <1>2, <1>3 DEF TypeOK

\* Where the handlers in the middle of a list are stays as it is
LEMMA CallUnseen ==
    ASSUME TypeOK, NEW c \in Clients, Call(c), NEW m, NEW labels,
           labels \cap {"idle", "exists", "query"} = {}
    PROVE  At(m, labels)' <=> At(m, labels)
BY CallDoes DEF At

LEMMA CallKeeps == ASSUME LInv, NEW c \in Clients, Call(c), TypeOK' PROVE LInv'
<1>1. /\ pc[c] = "idle" /\ pc'[c] \in {"exists", "query"} /\ (pc'[c] = "query" <=> op'[c] = "drop")
      /\ UNCHANGED <<lists, count, members, batch, loose, faults>>
      /\ \A d \in Clients \ {c} : /\ pc'[d] = pc[d] /\ op'[d] = op[d]
                                  /\ name'[d] = name[d] /\ recs'[d] = recs[d]
  BY CallDoes DEF LInv
<1>2. Kinds(c)' /\ Knows(c)'
  BY <1>1 DEF Kinds, Knows
<1>3. ASSUME NEW d \in Clients \ {c} PROVE Kinds(d)' /\ ((name[d] \notin loose)' => Knows(d)')
  <2>1. Kinds(d) /\ (name[d] \notin loose => Knows(d))
    BY DEF LInv
  <2>2. Change(d)' = Change(d)
    BY <1>1 DEF Change
  <2>3. QED
    BY <1>1, <2>1, <2>2, Zenon DEF Kinds, Knows
<1>4. ASSUME NEW m \in Names \ loose' PROVE Settled(m)'
  <2>1. At(m, {"fill", "undo", "count", "erase"})' <=> At(m, {"fill", "undo", "count", "erase"})
    BY CallUnseen DEF LInv
  <2>2. Settled(m)
    BY <1>1 DEF LInv
  <2>3. QED
    BY <1>1, <2>1, <2>2 DEF Settled
<1>5. QED
  BY <1>2, <1>3, <1>4 DEF LInv

LEMMA LInvStart == Init => LInv
<1> SUFFICES ASSUME Init PROVE LInv
  OBVIOUS
<1>1. TypeOK
  BY TypesStart
<1>2. \A c \in Clients : pc[c] = "idle"
  BY DEF Init
<1>3. \A c \in Clients : Kinds(c) /\ Knows(c)
  BY <1>2 DEF Kinds, Knows
<1>4. \A n \in Names : count[n] = Cardinality(members[n]) /\ (n \notin lists => members[n] = {})
  BY DEF Init
<1>5. \A n \in Names : Settled(n)
  BY <1>4, FS_EmptySet DEF Settled
<1>6. QED
  BY <1>1, <1>3, <1>5 DEF LInv

LEMMA LInvNext == LInv /\ [Next]_vars => LInv'
<1> SUFFICES ASSUME LInv, [Next]_vars PROVE LInv'
  OBVIOUS
<1>1. TypeOK'
  BY TypesHold DEF LInv
<1>2. ASSUME NEW c \in Clients, Step(c) \/ ReadFails(c) PROVE LInv'
  <2>1. Local(c) /\ Keeps(c)
    BY <1>2, ExistsKeeps, ScanKeeps, QueryKeeps, PutKeeps, BatchKeeps, CountKeeps, DeleteKeeps,
       FailureKeeps DEF Step
  <2>2. QED
    BY <1>1, <2>1, InvFrom
<1>3. ASSUME NEW n \in Names, Converge(n) PROVE LInv'
  <2>1. UNCHANGED <<lists, count, members, pc, op, name, recs, batch, loose, faults>>
    BY <1>3 DEF Converge, itemVars, requestVars
  <2>2. QED
    BY <1>1, <2>1 DEF LInv, Kinds, Knows, Settled, At, Change
<1>4. CASE UNCHANGED vars
  <2>1. UNCHANGED <<lists, count, members, pc, op, name, recs, batch, loose, faults>>
    BY <1>4 DEF vars, itemVars, requestVars
  <2>2. QED
    BY <1>1, <2>1 DEF LInv, Kinds, Knows, Settled, At, Change
<1>5. QED
  BY <1>1, <1>2, <1>3, <1>4, CallKeeps DEF Next

\* The inductive invariant: of a list that is not loose every handler's view, taken calls
\* earlier, still holds, and what is stored falls short only by the calls it has left.
THEOREM LInvHolds == Spec => []LInv
BY LInvStart, LInvNext, PTL DEF Spec

\* Without transactions the two tables agree all the same: of a list that is not loose and
\* that no request has left between its writes, the number in the summary is that of the rows,
\* and there are no rows without a summary.
THEOREM TablesAgree ==
    Spec => [](\A n \in Names \ loose :
                  ~At(n, {"fill", "undo", "count", "erase"}) =>
                     count[n] = Cardinality(members[n]) /\ (n \notin lists => members[n] = {}))
<1> DEFINE Agree == \A n \in Names \ loose :
                       ~At(n, {"fill", "undo", "count", "erase"}) =>
                          count[n] = Cardinality(members[n]) /\ (n \notin lists => members[n] = {})
<1>1. LInv => Agree
  BY FS_EmptySet DEF LInv, Settled
<1>2. QED
  BY <1>1, LInvHolds, PTL

----------------------------------------------------------------------------
(* A success is the truth *)

\* What an answer says of the list
Told(c) ==
    LET n == name[c]
    IN  pc[c] # "idle" /\ pc'[c] = "idle" /\ n \notin loose' =>
          /\ op[c] = "add" /\ answer'[c] = 200 => recs[c] \subseteq members'[n]
          /\ op[c] = "remove" /\ answer'[c] = 200 => recs[c] \cap members'[n] = {}
          /\ op[c] = "drop" /\ answer'[c] = 204 => n \notin lists' /\ members'[n] = {}
          /\ /\ op[c] = "create" /\ answer'[c] = 201
             /\ faults' = 0 /\ Cardinality(recs[c]) <= BatchMax
             => n \in lists' /\ members'[n] = recs[c]

LEMMA ReadsTell ==
    ASSUME LInv, NEW c \in Clients, Exists(c) \/ Scan(c) \/ QueryRows(c) \/ ReadFails(c)
    PROVE  Told(c)
<1>1. TypeOK
  BY DEF LInv
<1>2. CASE Exists(c)
  <2>1. name[c] \notin loose' /\ pc'[c] = "idle" => answer'[c] = 400
    BY <1>1, <1>2, ExistsDoes
  <2>2. QED
    BY <2>1 DEF Told
<1>3. CASE Scan(c)
  <2>1. /\ SameItems(name[c]) /\ Local(c) /\ pc[c] = "scan"
        /\ \/ pc'[c] # "idle"
           \/ answer'[c] = IF op[c] = "create" THEN 201 ELSE 500
           \/ (IF op[c] = "add" THEN recs[c] \ members[name[c]]
                                ELSE recs[c] \cap members[name[c]]) = {}
    BY <1>1, <1>3, ScanDoes
  <2>2. op[c] \in {"add", "remove"}
    BY <2>1, Begins DEF Kinds
  <2>3. QED
    BY <2>1, <2>2 DEF Told, SameItems
<1>4. CASE QueryRows(c)
  <2>1. name[c] \notin loose' => pc'[c] # "idle"
    BY <1>1, <1>4, QueryDoes
  <2>2. QED
    BY <2>1 DEF Told
<1>5. CASE ReadFails(c)
  <2>1. faults' > 0 /\ faults' \in Nat /\ answer'[c] \in {201, 500}
    BY <1>1, <1>5, FailureDoes DEF Local
  <2>2. faults' # 0 /\ answer'[c] \notin {200, 204}
    BY <2>1
  <2>3. QED
    BY <2>2, Zenon DEF Told
<1>6. QED
  BY <1>2, <1>3, <1>4, <1>5

LEMMA WritesTell ==
    ASSUME LInv, NEW c \in Clients, Put(c) \/ Batch(c) \/ UpdateCount(c) \/ DeleteSummary(c)
    PROVE  Told(c)
<1> SUFFICES ASSUME name[c] \notin loose', pc'[c] = "idle" PROVE Told(c)
  BY DEF Told
<1>1. TypeOK
  BY DEF LInv
<1>2. CASE Put(c)
  <2>1. /\ Local(c) /\ pc[c] = "put" /\ members'[name[c]] = members[name[c]]
        /\ \/ faults' > 0
           \/ name[c] \in lists' /\ recs[c] = {}
    BY <1>1, <1>2, PutDoes
  <2>2. op[c] = "create" /\ members[name[c]] = {} /\ faults' \in Nat
    BY <2>1, Begins DEF Knows, Kinds, Settled, Local
  <2>3. QED
    BY <2>1, <2>2 DEF Told
<1>3. CASE Batch(c)
  <2>1. /\ Local(c) /\ (name[c] \in lists' <=> name[c] \in lists)
        /\ \/ members'[name[c]] = After(c, batch[c]) /\ pc[c] = "fill"
           \/ pc[c] \in {"write", "clear"} /\ answer'[c] = IF op[c] = "create" THEN 201 ELSE 500
    BY <1>1, <1>3, BatchWrites
  <2>2. Knows(c) /\ Kinds(c) /\ op[c] \in Operations
    BY <2>1, Begins
  <2>3. CASE members'[name[c]] = After(c, batch[c]) /\ pc[c] = "fill"
    <3>1. members'[name[c]] = recs[c] /\ name[c] \in lists' /\ op[c] = "create"
      BY <2>1, <2>2, <2>3, Written DEF Knows, Kinds
    <3>2. QED
      BY <3>1 DEF Told
  <2>4. CASE pc[c] \in {"write", "clear"} /\ answer'[c] = IF op[c] = "create" THEN 201 ELSE 500
    <3>1. op[c] # "create" /\ answer'[c] = 500
      BY <2>2, <2>4 DEF Kinds
    <3>2. QED
      BY <3>1 DEF Told
  <2>5. QED
    BY <2>1, <2>3, <2>4
<1>4. CASE UpdateCount(c)
  <2>1. Local(c) /\ pc[c] = "count" /\ members'[name[c]] = members[name[c]]
    BY <1>1, <1>4, CountDoes
  <2>2. Knows(c) /\ op[c] \in {"add", "remove"}
    BY <2>1, Begins DEF Kinds
  <2>3. QED
    BY <2>1, <2>2 DEF Told, Knows
<1>5. CASE DeleteSummary(c)
  <2>1. /\ Local(c) /\ pc[c] \in {"erase", "undo"} /\ name[c] \notin lists'
        /\ members'[name[c]] = members[name[c]] /\ faults' \in Nat /\ faults' >= faults
    BY <1>1, <1>5, DeleteDoes DEF Local
  <2>2. Knows(c) /\ Kinds(c) /\ faults \in Nat /\ recs[c] \in SUBSET Recipients
    BY <2>1, Begins, DynamoAssumption DEF LInv, TypeOK
  <2>3. CASE pc[c] = "erase"
    BY <2>1, <2>2, <2>3 DEF Told, Knows, Kinds
  <2>4. CASE pc[c] = "undo"
    <3>1. op[c] = "create" /\ (faults > 0 \/ Cardinality(recs[c]) > BatchMax)
      BY <2>2, <2>4 DEF Knows, Kinds
    <3>2. faults' # 0 \/ ~(Cardinality(recs[c]) <= BatchMax)
      BY <2>1, <2>2, <3>1, Counted, DynamoAssumption
    <3>3. QED
      BY <3>1, <3>2, Zenon DEF Told
  <2>5. QED
    BY <2>1, <2>3, <2>4
<1>6. QED
  BY <1>2, <1>3, <1>4, <1>5

LEMMA AllTold == LInv /\ [Next]_vars => [\A c \in Clients : Told(c)]_vars
<1> SUFFICES ASSUME LInv, Next, NEW c \in Clients, pc[c] # "idle", pc'[c] = "idle" PROVE Told(c)
  BY DEF Told
<1>1. CASE \E d \in Clients : Call(d)
  <2>1. PICK d \in Clients : Call(d)
    BY <1>1
  <2>2. FALSE
    BY <2>1, CallDoes DEF LInv
  <2>3. QED
    BY <2>2
<1>2. ASSUME NEW d \in Clients, Step(d) \/ ReadFails(d) PROVE Told(c)
  <2>1. CASE d = c
    BY <1>2, <2>1, ReadsTell, WritesTell DEF Step
  <2>2. CASE d # c
    <3>1. Local(d)
      BY <1>2, ExistsKeeps, ScanKeeps, QueryKeeps, PutKeeps, BatchKeeps, CountKeeps, DeleteKeeps,
         FailureKeeps DEF Step
    <3>2. pc'[c] = pc[c]
      BY <2>2, <3>1 DEF Local, Others
    <3>3. QED
      BY <3>2
  <2>3. QED
    BY <2>1, <2>2
<1>3. ASSUME NEW n \in Names, Converge(n) PROVE FALSE
  BY <1>3 DEF Converge
<1>4. QED
  BY <1>1, <1>2, <1>3 DEF Next

\* A success is the truth of a list that no overlapping request, stale read or failed
\* call has touched (CreateDistributionList, AddRecipients, RemoveRecipients and
\* DeleteDistributionList of dynamodb/distribution_list.go).
THEOREM SuccessesAreTrue == Spec => SuccessIsTrue
<1>1. LInv /\ [Next]_vars => [\A c \in Clients : Told(c)]_vars
  BY AllTold
<1>2. SuccessIsTrue <=> [][\A c \in Clients : Told(c)]_vars
  BY DEF SuccessIsTrue, Told
<1>3. QED
  BY <1>1, <1>2, LInvHolds, PTL DEF Spec

----------------------------------------------------------------------------
(* DynamoLists implements Lists *)

\* What Lists sees of list n: whether it is there, its recipients (Filled) and their number
Listed(n) == n \in lists /\ ~At(n, {"undo", "erase"})

Size(n) ==
    IF At(n, {"undo", "erase"}) THEN 0
    ELSE IF At(n, {"count"}) THEN Cardinality(members[n]) ELSE count[n]

LEMMA SameCardinality == \A S : Promised!Cardinality(S) = Cardinality(S)
BY DEF Promised!Cardinality, Cardinality

\* Lists sees no change of n
Unseen(n) == (Listed(n)' <=> Listed(n)) /\ Filled(n)' = Filled(n) /\ Size(n)' = Size(n)

\* Lists sees n become a list with the recipients R, or none
Seen(n, is, R) == (Listed(n)' <=> is) /\ Filled(n)' = R /\ Size(n)' = Cardinality(R)

\* What is left alone, and what a change of one list looks like, to Lists
LEMMA PromisedStutter ==
    ASSUME loose \subseteq loose', \A n \in Names \ loose' : Unseen(n)
    PROVE  Promised!Next
BY DEF Promised!Next, Promised!Disturb, Unseen, Listed, Size

LEMMA PromisedChange ==
    ASSUME NEW n \in Names \ loose, loose' = loose, lists \subseteq Names, lists' \subseteq Names,
           \A m \in Names \ {n} : Unseen(m)
    PROVE  /\ Listed(n) /\ Seen(n, FALSE, {}) => Promised!Next
           /\ \A R \in SUBSET Recipients :
                 /\ ~Listed(n) /\ Seen(n, TRUE, R) => Promised!Next
                 /\ Listed(n) /\ Seen(n, TRUE, Filled(n) \cup R) => Promised!Next
                 /\ Listed(n) /\ Seen(n, TRUE, Filled(n) \ R) => Promised!Next
<1> DEFINE L == {m \in lists : ~At(m, {"undo", "erase"})}
           F == [m \in Names |-> Filled(m)]
           Z == [m \in Names |-> Size(m)]
<1>1. /\ n \in L <=> Listed(n)
      /\ n \in L' <=> Listed(n)'
      /\ \A m \in Names \ {n} : m \in L' <=> m \in L
      /\ L \subseteq Names /\ L' \subseteq Names
  BY DEF Unseen, Listed
<1>2. F[n] = Filled(n)
  OBVIOUS
<1>3. ASSUME NEW R, Filled(n)' = R, Size(n)' = Cardinality(R)
      PROVE  F' = [F EXCEPT ![n] = R] /\ Z' = [Z EXCEPT ![n] = Promised!Cardinality(R)]
  BY <1>3, SameCardinality DEF Unseen
<1> HIDE DEF L, F, Z
<1>4. ASSUME Listed(n), Seen(n, FALSE, {}) PROVE Promised!Next
  <2>1. L' = L \ {n}
    BY <1>1, <1>4 DEF Seen
  <2>2. F' = [F EXCEPT ![n] = {}] /\ Z' = [Z EXCEPT ![n] = Promised!Cardinality({})]
    BY <1>3, <1>4 DEF Seen
  <2>3. Promised!Drop(n)
    BY <1>1, <1>4, <2>1, <2>2, Zenon DEF Promised!Drop, Promised!Set, L, F, Z, Size
  <2>4. QED
    BY <2>3 DEF Promised!Next
<1>5. ASSUME NEW R \in SUBSET Recipients, ~Listed(n), Seen(n, TRUE, R) PROVE Promised!Next
  <2>1. L' = L \cup {n}
    BY <1>1, <1>5 DEF Seen
  <2>2. F' = [F EXCEPT ![n] = R] /\ Z' = [Z EXCEPT ![n] = Promised!Cardinality(R)]
    BY <1>3, <1>5 DEF Seen
  <2>3. Promised!Create(n, R)
    BY <1>1, <1>5, <2>1, <2>2, Zenon DEF Promised!Create, Promised!Set, L, F, Z, Size
  <2>4. QED
    BY <2>3 DEF Promised!Next
<1>6. ASSUME NEW R \in SUBSET Recipients, Listed(n), Seen(n, TRUE, Filled(n) \cup R)
      PROVE  Promised!Next
  <2>1. L' = L
    BY <1>1, <1>6 DEF Seen
  <2>2. /\ F' = [F EXCEPT ![n] = F[n] \cup R]
        /\ Z' = [Z EXCEPT ![n] = Promised!Cardinality(F[n] \cup R)]
    BY <1>2, <1>3, <1>6 DEF Seen
  <2>3. Promised!Add(n, R)
    BY <1>1, <1>6, <2>1, <2>2, Zenon DEF Promised!Add, Promised!Set, L, F, Z, Size
  <2>4. QED
    BY <2>3 DEF Promised!Next
<1>7. ASSUME NEW R \in SUBSET Recipients, Listed(n), Seen(n, TRUE, Filled(n) \ R)
      PROVE  Promised!Next
  <2>1. L' = L
    BY <1>1, <1>7 DEF Seen
  <2>2. /\ F' = [F EXCEPT ![n] = F[n] \ R]
        /\ Z' = [Z EXCEPT ![n] = Promised!Cardinality(F[n] \ R)]
    BY <1>2, <1>3, <1>7 DEF Seen
  <2>3. Promised!Remove(n, R)
    BY <1>1, <1>7, <2>1, <2>2, Zenon DEF Promised!Remove, Promised!Set, L, F, Z, Size
  <2>4. QED
    BY <2>3 DEF Promised!Next
<1>8. QED
  BY <1>4, <1>5, <1>6, <1>7

LEMMA UnseenElsewhere ==
    ASSUME NEW c \in Clients, Local(c), NEW m \in Names \ {name[c]}
    PROVE  Unseen(m)
<1>1. /\ SameItems(m) /\ name' = name
      /\ \A d \in Clients : name[d] = m => pc'[d] = pc[d] /\ batch'[d] = batch[d]
  BY DEF Local, Others, requestVars
<1>2. \A labels : At(m, labels)' <=> At(m, labels)
  BY Elsewhere
<1>3. Listed(m)' <=> Listed(m)
  BY <1>1, <1>2 DEF Listed, SameItems
<1>4. Size(m)' = Size(m)
  BY <1>1, <1>2, Zenon DEF Size, SameItems
<1>5. Filled(m)' = Filled(m)
  BY <1>1 DEF Filled, SameItems
<1>6. QED
  BY <1>3, <1>4, <1>5 DEF Unseen

\* What Lists sees of a list that one handler only is in the middle of
LEMMA Appearance ==
    ASSUME NEW c \in Clients, NEW n, n = name[c], ~Overlapped(c)
    PROVE  /\ Listed(n) <=> n \in lists /\ pc[c] \notin {"undo", "erase"}
           /\ Filled(n) = IF pc[c] = "fill" THEN members[n] \cup batch[c] ELSE members[n]
           /\ pc[c] \in {"undo", "erase"} => Size(n) = 0
           /\ pc[c] = "count" => Size(n) = Cardinality(members[n])
           /\ pc[c] \notin {"undo", "erase", "count"} => Size(n) = count[n]
<1>1. /\ At(n, {"undo", "erase"}) <=> pc[c] \in {"undo", "erase"}
      /\ At(n, {"count"}) <=> pc[c] = "count"
  BY Alone
<1>2. {d \in Clients : name[d] = n /\ pc[d] = "fill"} = IF pc[c] = "fill" THEN {c} ELSE {}
  BY DEF Overlapped
<1>3. Filled(n) = IF pc[c] = "fill" THEN members[n] \cup batch[c] ELSE members[n]
  BY <1>2 DEF Filled
<1>4. QED
  BY <1>1, <1>3 DEF Listed, Size

LEMMA AppearanceNext ==
    ASSUME NEW c \in Clients, NEW n, n = name[c], ~Overlapped(c), Local(c)
    PROVE  /\ Listed(n)' <=> n \in lists' /\ pc'[c] \notin {"undo", "erase"}
           /\ Filled(n)' = IF pc'[c] = "fill" THEN members'[n] \cup batch'[c] ELSE members'[n]
           /\ pc'[c] \in {"undo", "erase"} => Size(n)' = 0
           /\ pc'[c] = "count" => Size(n)' = Cardinality(members'[n])
           /\ pc'[c] \notin {"undo", "erase", "count"} => Size(n)' = count'[n]
<1>1. /\ At(n, {"undo", "erase"})' <=> pc'[c] \in {"undo", "erase"}
      /\ At(n, {"count"})' <=> pc'[c] = "count"
  BY AloneNext
<1>2. /\ name' = name
      /\ \A d \in Clients \ {c} : name[d] = n => pc[d] # "fill" /\ pc'[d] # "fill"
  BY DEF Overlapped, Local, Others, requestVars
<1>3. {d \in Clients : name'[d] = n /\ pc'[d] = "fill"} = IF pc'[c] = "fill" THEN {c} ELSE {}
  BY <1>2
<1>4. Filled(n)' = IF pc'[c] = "fill" THEN members'[n] \cup batch'[c] ELSE members'[n]
  BY <1>3 DEF Filled
<1>5. QED
  BY <1>1, <1>4 DEF Listed, Size

\* A step that writes nothing and is not about a creation's rows or the end of a request
LEMMA UnseenHere ==
    ASSUME NEW c \in Clients, NEW n, n = name[c], Local(c), SameItems(n),
           pc[c] \notin {"fill", "undo", "erase", "count"},
           pc'[c] \notin {"fill", "undo", "erase", "count"}
    PROVE  Unseen(n)
<1>1. /\ name' = name /\ (n \in lists' <=> n \in lists)
      /\ count'[n] = count[n] /\ members'[n] = members[n]
      /\ \A d \in Clients \ {c} : pc'[d] = pc[d] /\ batch'[d] = batch[d]
  BY DEF Local, Others, requestVars, SameItems
<1>2. /\ At(n, {"undo", "erase"})' <=> At(n, {"undo", "erase"})
      /\ At(n, {"count"})' <=> At(n, {"count"})
  BY <1>1 DEF At
<1>3. {d \in Clients : name'[d] = n /\ pc'[d] = "fill"}
      = {d \in Clients : name[d] = n /\ pc[d] = "fill"}
  BY <1>1
<1>4. \A d \in {e \in Clients : name[e] = n /\ pc[e] = "fill"} : batch'[d] = batch[d]
  BY <1>1
<1>5. Filled(n)' = Filled(n)
  BY <1>1, <1>3, <1>4 DEF Filled
<1>6. QED
  BY <1>1, <1>2, <1>5 DEF Unseen, Listed, Size

\* The steps of Lists, and none
Shows(n) ==
    \/ Unseen(n)
    \/ Listed(n) /\ Seen(n, FALSE, {})
    \/ \E R \in SUBSET Recipients :
          \/ ~Listed(n) /\ Seen(n, TRUE, R)
          \/ Listed(n) /\ Seen(n, TRUE, Filled(n) \cup R)
          \/ Listed(n) /\ Seen(n, TRUE, Filled(n) \ R)

\* A step that leaves the list without a summary, without rows and without a number
LEMMA ShowsGone ==
    ASSUME NEW n, n \in lists \/ (Filled(n) = {} /\ Size(n) = 0), Listed(n) <=> n \in lists,
           ~Listed(n)', Filled(n)' = {}, Size(n)' = 0
    PROVE  Shows(n)
<1>1. Cardinality({}) = 0
  BY FS_EmptySet
<1>2. QED
  BY <1>1 DEF Shows, Unseen, Seen

LEMMA QueryShows ==
    ASSUME LInv, NEW c \in Clients, QueryRows(c), NEW n, n = name[c], n \notin loose'
    PROVE  Shows(n)
<1>1. /\ TypeOK /\ Local(c) /\ SameItems(n) /\ pc[c] = "query"
      /\ ~Overlapped(c) /\ members[n] \subseteq batch'[c]
      /\ pc'[c] \in {"clear", "erase"} /\ (pc'[c] = "erase" => batch'[c] = {})
  BY QueryDoes DEF LInv
<1>2. Settled(n)
  BY <1>1, Begins
<1>3. /\ Listed(n) <=> n \in lists
      /\ Filled(n) = members[n] /\ Size(n) = count[n]
  BY <1>1, Appearance
<1>4. CASE pc'[c] = "clear"
  BY <1>1, <1>4, UnseenHere DEF Shows
<1>5. CASE pc'[c] = "erase"
  <2>1. members'[n] = {} /\ ~Listed(n)' /\ Filled(n)' = members'[n] /\ Size(n)' = 0
    BY <1>1, <1>5, AppearanceNext DEF SameItems
  <2>2. QED
    BY <1>2, <1>3, <2>1, ShowsGone DEF Settled
<1>6. QED
  BY <1>1, <1>4, <1>5

LEMMA PutShows ==
    ASSUME LInv, NEW c \in Clients, Put(c), NEW n, n = name[c], n \notin loose'
    PROVE  Shows(n)
<1>1. /\ TypeOK /\ Local(c) /\ pc[c] = "put" /\ ~Overlapped(c) /\ members'[n] = members[n]
      /\ \/ SameItems(n) /\ pc'[c] = "idle"
         \/ /\ n \in lists' /\ count'[n] = Cardinality(recs[c])
            /\ \/ pc'[c] = "idle" /\ recs[c] = {}
               \/ pc'[c] = "fill" /\ batch'[c] = recs[c]
  BY PutDoes DEF LInv
<1>2. n \notin lists /\ members[n] = {} /\ recs[c] \in SUBSET Recipients
  BY <1>1, Begins DEF Knows, Settled
<1>3. CASE SameItems(n) /\ pc'[c] = "idle"
  BY <1>1, <1>3, UnseenHere DEF Shows
<1>4. CASE /\ n \in lists' /\ count'[n] = Cardinality(recs[c])
           /\ \/ pc'[c] = "idle" /\ recs[c] = {}
              \/ pc'[c] = "fill" /\ batch'[c] = recs[c]
  <2>1. ~Listed(n)
    BY <1>1, <1>2, Appearance
  <2>2. Listed(n)' /\ Filled(n)' = recs[c] /\ Size(n)' = Cardinality(recs[c])
    BY <1>1, <1>2, <1>4, AppearanceNext
  <2>3. QED
    BY <1>2, <2>1, <2>2 DEF Shows, Seen
<1>5. QED
  BY <1>1, <1>3, <1>4

LEMMA BatchShows ==
    ASSUME LInv, NEW c \in Clients, Batch(c), NEW n, n = name[c], n \notin loose'
    PROVE  Shows(n)
<1>1. /\ TypeOK /\ Local(c) /\ pc[c] \in {"fill", "write", "clear"} /\ ~Overlapped(c)
      /\ (n \in lists' <=> n \in lists) /\ count'[n] = count[n]
      /\ \/ /\ members'[n] = After(c, batch[c])
            /\ \/ pc[c] = "fill"  /\ pc'[c] = "idle"
               \/ pc[c] = "write" /\ pc'[c] = "count"
               \/ pc[c] = "clear" /\ pc'[c] = "erase"
         \/ /\ members'[n] = members[n]
            /\ \/ pc[c] = "fill" /\ pc'[c] = "undo"
               \/ pc[c] # "fill" /\ pc'[c] = "idle"
  BY BatchWrites DEF LInv
<1>2. Knows(c) /\ Kinds(c) /\ Settled(n) /\ recs[c] \in SUBSET Recipients
  BY <1>1, Begins
<1>3. /\ Listed(n) <=> n \in lists
      /\ Filled(n) = IF pc[c] = "fill" THEN members[n] \cup batch[c] ELSE members[n]
      /\ Size(n) = count[n]
  BY <1>1, Appearance
<1>4. CASE pc[c] = "fill" /\ pc'[c] = "idle"
  <2>1. members'[n] = recs[c] /\ Filled(n) = recs[c]
    BY <1>1, <1>2, <1>3, <1>4, Written DEF Knows
  <2>2. (Listed(n)' <=> n \in lists) /\ Filled(n)' = recs[c] /\ Size(n)' = count[n]
    BY <1>1, <1>4, <2>1, AppearanceNext
  <2>3. QED
    BY <1>3, <2>1, <2>2 DEF Shows, Unseen
<1>5. CASE pc[c] = "write" /\ pc'[c] = "count"
  <2>1. members'[n] = members[n] \cup recs[c] \/ members'[n] = members[n] \ recs[c]
    BY <1>1, <1>2, <1>5, Written DEF Kinds
  <2>2. n \in lists
    BY <1>2, <1>5 DEF Knows
  <2>3. Listed(n)' /\ Filled(n)' = members'[n] /\ Size(n)' = Cardinality(members'[n])
    BY <1>1, <1>5, <2>2, AppearanceNext
  <2>4. Filled(n) = members[n] /\ Listed(n)
    BY <1>3, <1>5, <2>2
  <2>5. QED
    BY <1>2, <2>1, <2>3, <2>4 DEF Shows, Seen
<1>6. CASE pc[c] = "clear" /\ pc'[c] = "erase"
  <2>1. members'[n] = {}
    BY <1>1, <1>2, <1>6, Written
  <2>2. ~Listed(n)' /\ Filled(n)' = {} /\ Size(n)' = 0
    BY <1>1, <1>6, <2>1, AppearanceNext
  <2>3. n \notin lists => Filled(n) = {} /\ Size(n) = 0
    BY <1>2, <1>3, <1>6 DEF Settled
  <2>4. QED
    BY <1>3, <2>2, <2>3, ShowsGone
<1>7. CASE pc[c] = "fill" /\ pc'[c] = "undo"
  <2>1. members'[n] = {} /\ n \in lists
    BY <1>1, <1>2, <1>7 DEF Knows
  <2>2. ~Listed(n)' /\ Filled(n)' = {} /\ Size(n)' = 0
    BY <1>1, <1>7, <2>1, AppearanceNext
  <2>3. QED
    BY <1>3, <2>1, <2>2, ShowsGone
<1>8. CASE pc[c] # "fill" /\ pc'[c] = "idle"
  <2>1. SameItems(n)
    BY <1>1, <1>8 DEF SameItems
  <2>2. QED
    BY <1>1, <1>8, <2>1, UnseenHere DEF Shows
<1>9. QED
  BY <1>1, <1>4, <1>5, <1>6, <1>7, <1>8

LEMMA CountShows ==
    ASSUME LInv, NEW c \in Clients, UpdateCount(c), NEW n, n = name[c], n \notin loose'
    PROVE  Shows(n)
<1>1. /\ TypeOK /\ Local(c) /\ pc[c] = "count" /\ ~Overlapped(c) /\ pc'[c] = "idle"
      /\ n \in lists' /\ count'[n] = count[n] + Change(c) /\ members'[n] = members[n]
  BY CountDoes DEF LInv
<1>2. n \in lists /\ count[n] + Change(c) = Cardinality(members[n])
  BY <1>1, Begins DEF Knows
<1>3. Listed(n) /\ Filled(n) = members[n] /\ Size(n) = Cardinality(members[n])
  BY <1>1, <1>2, Appearance
<1>4. Listed(n)' /\ Filled(n)' = members[n] /\ Size(n)' = Cardinality(members[n])
  BY <1>1, <1>2, AppearanceNext
<1>5. QED
  BY <1>3, <1>4 DEF Shows, Unseen

LEMMA DeleteShows ==
    ASSUME LInv, NEW c \in Clients, DeleteSummary(c), NEW n, n = name[c], n \notin loose'
    PROVE  Shows(n)
<1>1. /\ TypeOK /\ Local(c) /\ pc[c] \in {"erase", "undo"} /\ ~Overlapped(c) /\ pc'[c] = "idle"
      /\ n \notin lists' /\ count'[n] = 0 /\ members'[n] = members[n]
  BY DeleteDoes DEF LInv
<1>2. ~Listed(n) /\ Filled(n) = members[n] /\ Size(n) = 0
  BY <1>1, Appearance
<1>3. ~Listed(n)' /\ Filled(n)' = members[n] /\ Size(n)' = 0
  BY <1>1, AppearanceNext
<1>4. QED
  BY <1>2, <1>3 DEF Shows, Unseen

LEMMA OthersShow ==
    ASSUME LInv, NEW c \in Clients, Exists(c) \/ Scan(c) \/ ReadFails(c),
           NEW n, n = name[c], n \notin loose'
    PROVE  Shows(n)
<1>1. TypeOK
  BY DEF LInv
<1>2. /\ Local(c) /\ SameItems(n) /\ pc[c] \in {"exists", "scan", "query"}
      /\ pc'[c] \in {"idle", "put", "scan", "write"}
  <2>1. CASE Exists(c)
    BY <1>1, <2>1, ExistsDoes
  <2>2. CASE Scan(c)
    BY <1>1, <2>2, ScanDoes
  <2>3. CASE ReadFails(c)
    BY <1>1, <2>3, FailureDoes
  <2>4. QED
    BY <2>1, <2>2, <2>3
<1>3. Unseen(n)
  BY <1>2, UnseenHere
<1>4. QED
  BY <1>3 DEF Shows

LEMMA StepPromised ==
    ASSUME LInv, TypeOK', NEW c \in Clients, Step(c) \/ ReadFails(c)
    PROVE  Promised!Next
<1>1. Local(c)
  BY ExistsKeeps, ScanKeeps, QueryKeeps, PutKeeps, BatchKeeps, CountKeeps, DeleteKeeps,
     FailureKeeps DEF Step
<1>2. \A m \in Names \ {name[c]} : Unseen(m)
  BY <1>1, UnseenElsewhere
<1>3. name[c] \in Names /\ lists \subseteq Names /\ lists' \subseteq Names
  BY DEF LInv, TypeOK
<1>4. CASE name[c] \in loose'
  <2>1. loose \subseteq loose'
    BY <1>1 DEF Local
  <2>2. QED
    BY <1>2, <1>4, <2>1, PromisedStutter
<1>5. CASE name[c] \notin loose'
  <2>1. loose' = loose
    BY <1>1, <1>5, Begins
  <2>2. PICK n \in Names : n = name[c]
    BY <1>3
  <2>3. Shows(n)
    BY <1>5, <2>2, QueryShows, PutShows, BatchShows, CountShows, DeleteShows, OthersShow DEF Step
  <2>4. CASE Unseen(n)
    BY <1>2, <2>1, <2>2, <2>4, PromisedStutter
  <2>5. CASE ~Unseen(n)
    <3>1. n \in Names \ loose /\ (\A m \in Names \ {n} : Unseen(m))
      BY <1>2, <1>5, <2>1, <2>2
    <3>2. QED
      BY <1>3, <2>1, <2>3, <2>5, <3>1, PromisedChange DEF Shows
  <2>6. QED
    BY <2>4, <2>5
<1>6. QED
  BY <1>4, <1>5

LEMMA CallPromised == ASSUME TypeOK, NEW c \in Clients, Call(c) PROVE Promised!Next
<1>1. /\ pc[c] = "idle" /\ pc'[c] \in {"exists", "query"}
      /\ UNCHANGED <<lists, count, members, batch, loose>>
      /\ \A d \in Clients \ {c} : pc'[d] = pc[d] /\ name'[d] = name[d]
  BY CallDoes
<1>2. ASSUME NEW m \in Names \ loose' PROVE Unseen(m)
  <2>1. /\ At(m, {"undo", "erase"})' <=> At(m, {"undo", "erase"})
        /\ At(m, {"count"})' <=> At(m, {"count"})
    BY CallUnseen
  <2>2. {d \in Clients : name'[d] = m /\ pc'[d] = "fill"}
        = {d \in Clients : name[d] = m /\ pc[d] = "fill"}
    BY <1>1
  <2>3. Filled(m)' = Filled(m)
    BY <1>1, <2>2 DEF Filled
  <2>4. QED
    BY <1>1, <2>1, <2>3 DEF Unseen, Listed, Size
<1>3. QED
  BY <1>1, <1>2, PromisedStutter

LEMMA QuietPromised ==
    ASSUME UNCHANGED <<lists, count, members, pc, name, batch, loose>>
    PROVE  UNCHANGED Promised!vars
BY DEF Promised!vars, At, Filled

LEMMA PromisedStarts == Init => Promised!Init
<1> SUFFICES ASSUME Init PROVE Promised!Init
  OBVIOUS
<1>1. TypeOK /\ LInv
  BY TypesStart, LInvStart
<1>2. \A labels : "idle" \notin labels => \A n : ~At(n, labels)
  BY DEF Init, At
<1>3. \A n \in Names : Filled(n) = members[n]
  <2>1. \A n : {d \in Clients : name[d] = n /\ pc[d] = "fill"} = {}
    BY DEF Init
  <2>2. QED
    BY <2>1 DEF Filled
<1>4. \A n \in Names : Size(n) = count[n] /\ (Listed(n) <=> n \in lists)
  BY <1>2 DEF Size, Listed
<1>5. \A n \in Names : /\ n \in lists => count[n] = Cardinality(members[n])
                       /\ n \notin lists => members[n] = {} /\ count[n] = 0
  BY FS_EmptySet DEF Init
<1>6. \A n \in Names : Promised!Sound(n)
  BY <1>3, <1>4, <1>5, SameCardinality DEF Promised!Sound, Listed, Size
<1>7. loose = {} /\ lists \subseteq Names
  BY <1>1 DEF Init, TypeOK
<1>8. [n \in Names |-> Filled(n)] \in [Names -> SUBSET Recipients]
  BY <1>1, <1>3 DEF TypeOK
<1>9. [n \in Names |-> Size(n)] \in [Names -> Int]
  BY <1>1, <1>4 DEF TypeOK
<1>10. QED
  BY <1>6, <1>7, <1>8, <1>9 DEF Promised!Init, Size

LEMMA PromisedSteps == LInv /\ LInv' /\ [Next]_vars => [Promised!Next]_(Promised!vars)
<1> SUFFICES ASSUME LInv, LInv', [Next]_vars PROVE [Promised!Next]_(Promised!vars)
  OBVIOUS
<1>1. TypeOK /\ TypeOK'
  BY DEF LInv
<1>2. ASSUME NEW n \in Names, Converge(n) PROVE UNCHANGED Promised!vars
  <2>1. UNCHANGED <<lists, count, members, pc, name, batch, loose>>
    BY <1>2 DEF Converge, itemVars, requestVars
  <2>2. QED
    BY <2>1, QuietPromised
<1>3. CASE UNCHANGED vars
  <2>1. UNCHANGED <<lists, count, members, pc, name, batch, loose>>
    BY <1>3 DEF vars, itemVars, requestVars
  <2>2. QED
    BY <2>1, QuietPromised
<1>4. QED
  BY <1>1, <1>2, <1>3, CallPromised, StepPromised DEF Next

\* The registry on DynamoDB implements Lists: a request that overlaps no other, reads
\* nothing stale and has no call fail half way changes its list in one step, although it
\* takes up to four calls on two tables without a transaction, and the stored number is
\* the number of recipients (CreateDistributionList, AddRecipients, RemoveRecipients and
\* DeleteDistributionList of dynamodb/distribution_list.go).
THEOREM DynamoListsImplementLists == Spec => ListsHold
BY LInvHolds, PromisedStarts, PromisedSteps, PTL DEF Spec, ListsHold, Promised!Spec

----------------------------------------------------------------------------
(***************************************************************************)
(* Pages                                                                   *)
(***************************************************************************)

Walking == step \in {"check", "page"}

\* Up to the token nothing that stayed was skipped
Complete ==
    /\ Walking => always \subseteq held[owner]
    /\ token.set /\ Ordered => \A i \in always : i <= token.after => i \in got
    /\ DoneIsComplete

\* No later owner has rows
Lonely == alone /\ Walking => \A o \in Owners : o > owner => held[o] = {}

\* Without rows of later owners the pages go upwards through those of the owner
Upwards ==
    Own => /\ got \subseteq ever
           /\ Ordered => /\ Walking /\ token.set => \A i \in got : i <= token.after
                         /\ Walking /\ ~token.set => got = {}
                         /\ twice = {}

\* The items the walk can meet
Met == Walking => held[owner] \cap Shown \subseteq ever

WInv == WalkTypeOK /\ Complete /\ Lonely /\ Upwards /\ Met

----------------------------------------------------------------------------
(* The queries and their orders *)

\* The query whose order leaves that of some rows open has rows of its owner, and
\* no others than it wants
LEMMA Tied == ASSUME query \in Queries, query.ties PROVE query.owned /\ ~query.scans
<1>1. ~GetRecipients.ties /\ ~GetUserNotifications.ties /\ ~GetTemplatesByName.ties
  BY DEF Plain, GetRecipients, GetUserNotifications, GetTemplatesByName
<1>2. ~GetDistributionLists.ties /\ ~GetNotifications.ties /\ ~GetTemplates.ties
  BY DEF Plain, GetDistributionLists, GetNotifications, GetTemplates
<1>3. ~DynamoRecipients.ties /\ ~DynamoUserNotifications.ties /\ ~DynamoRecipientStatuses.ties
  BY DEF Plain, DynamoPage, DynamoRecipients, DynamoUserNotifications, DynamoRecipientStatuses
<1>4. ~DynamoDistributionLists.ties /\ ~DynamoNotifications.ties /\ ~DynamoTemplates.ties
  BY DEF Plain, DynamoPage, DynamoDistributionLists, DynamoNotifications, DynamoTemplates
<1>5. GetRecipientNotificationStatuses.owned /\ ~GetRecipientNotificationStatuses.scans
  BY DEF Plain, GetRecipientNotificationStatuses
<1>6. query = GetRecipientNotificationStatuses
  BY <1>1, <1>2, <1>3, <1>4 DEF Queries
<1>7. QED
  BY <1>5, <1>6

LEMMA RankMonotone ==
    ASSUME NEW i \in Items, NEW j \in Items, i <= j
    PROVE  Rank(i) <= Rank(j)
<1>1. i \in Nat /\ j \in Nat
  BY PagesAssumption
<1>2. i \div 2 <= j \div 2
  BY <1>1
<1>3. QED
  BY <1>2 DEF Rank

\* Where the order determines that of the rows, it is that of the tokens
LEMMA RankStrict ==
    ASSUME Ordered, NEW i \in Items, NEW j \in Items, Rank(i) <= Rank(j),
           query.ties => i \in ever /\ j \in ever
    PROVE  i <= j
<1>1. i \in Nat /\ j \in Nat
  BY PagesAssumption
<1>2. CASE ~query.ties
  BY <1>2 DEF Rank
<1>3. CASE query.ties
  <2>1. SUFFICES ASSUME j < i PROVE FALSE
    BY <1>1
  <2>2. Rank(j) <= Rank(i)
    BY <1>1, <2>1, RankMonotone
  <2>3. Rank(i) = Rank(j)
    <3>1. Rank(i) = i \div 2 /\ Rank(j) = j \div 2
      BY <1>3 DEF Rank
    <3>2. i \div 2 \in Nat /\ j \div 2 \in Nat
      BY <1>1
    <3>3. QED
      BY <3>1, <3>2, <2>2
  <2>4. i # j
    BY <1>1, <2>1
  <2>5. QED
    BY <1>3, <2>3, <2>4 DEF Ordered
<1>4. QED
  BY <1>2, <1>3

----------------------------------------------------------------------------
(* Pages *)

LEMMA RowsTyped ==
    ASSUME WalkTypeOK, NEW page \in SUBSET Selected
    PROVE  /\ page \subseteq Owners \X Items
           /\ Read(page) \subseteq Items
           /\ Shared(page) \subseteq Read(page)
<1>1. page \subseteq Owners \X Items
  BY DEF Selected, Rows
<1>2. Read(page) \subseteq Items
  BY <1>1 DEF Read
<1>3. Shared(page) \subseteq Read(page)
  BY DEF Shared, Read
<1>4. QED
  BY <1>1, <1>2, <1>3

\* The rows of a page of the owner's own
LEMMA OwnRows ==
    ASSUME WalkTypeOK, Lonely, Met, Walking, Own, NEW page \in SUBSET Selected, NEW row \in page
    PROVE  /\ row = <<owner, row[2]>>
           /\ row[2] \in held[owner]
           /\ token.set => row[2] > token.after
           /\ row[2] \in Shown => row[2] \in ever
<1>1. row \in Owners \X Items /\ row[2] \in held[row[1]] /\ row \in Selected
  BY DEF Selected, Rows
<1>2. row[1] = owner
  BY <1>1 DEF Own, Lonely, Selected
<1>3. token.set => row[2] > token.after
  <2>1. owner \in Nat
    BY PagesAssumption DEF WalkTypeOK
  <2>2. ~(row[1] > owner)
    BY <1>2, <2>1
  <2>3. QED
    BY <1>1, <2>2 DEF Selected
<1>4. QED
  BY <1>1, <1>2, <1>3 DEF Met

LEMMA TokenItem == ASSUME WalkTypeOK, token.set PROVE token.after \in Items
BY DEF WalkTypeOK, Tokens, NoToken

LEMMA WalkTypesStart == WalkInit => WalkTypeOK
<1> SUFFICES ASSUME WalkInit PROVE WalkTypeOK
  OBVIOUS
<1>1. token \in Tokens
  BY DEF WalkInit, Tokens
<1>2. alone \in BOOLEAN
  BY DEF WalkInit
<1>3. always \subseteq ever /\ ever \subseteq Shown
  BY DEF WalkInit
<1>4. step \in {"check", "page", "done", "failed"}
  BY DEF WalkInit
<1>5. writes \in 0..MaxWrites
  BY PagesAssumption DEF WalkInit
<1>6. QED
  BY <1>1, <1>2, <1>3, <1>4, <1>5 DEF WalkInit, WalkTypeOK

LEMMA WalkTypesHold == WalkTypeOK /\ [WalkNext]_pageVars => WalkTypeOK'
<1> SUFFICES ASSUME WalkTypeOK, [WalkNext]_pageVars PROVE WalkTypeOK'
  OBVIOUS
<1>1. CASE Check
  BY <1>1 DEF WalkTypeOK, Check, ghostVars, Shown
<1>2. CASE Fail
  BY <1>2 DEF WalkTypeOK, Fail, ghostVars, Shown
<1>3. CASE Page
  <2>1. PICK page \in SUBSET Selected :
           /\ got' = Data(page)
           /\ twice' = twice \cup (got \cap Read(page)) \cup Shared(page)
           /\ IF More(page)
              THEN \E last \in page :
                      /\ token' = [set |-> TRUE, after |-> last[2]]
                      /\ step' = IF query.check = "none" THEN "page" ELSE "check"
              ELSE step' = "done" /\ UNCHANGED token
    BY <1>3 DEF Page
  <2>2. page \subseteq Owners \X Items /\ Read(page) \subseteq Items /\ Shared(page) \subseteq Read(page)
    BY <2>1, RowsTyped
  <2>3. got' \subseteq Items /\ twice' \subseteq got'
    BY <2>1, <2>2 DEF WalkTypeOK, Data
  <2>4. token' \in Tokens /\ step' \in {"check", "page", "done", "failed"}
    BY <2>1, <2>2 DEF WalkTypeOK, Tokens
  <2>5. QED
    BY <1>3, <2>3, <2>4 DEF WalkTypeOK, Page, ghostVars, Shown
<1>4. ASSUME NEW o \in Owners, Write(o) PROVE WalkTypeOK'
  <2>1. held' \in [Owners -> SUBSET Items]
    BY <1>4 DEF Write, WalkTypeOK
  <2>2. always' \subseteq ever' /\ ever' \subseteq Shown'
    BY <1>4, <2>1 DEF Write, WalkTypeOK, walkVars, Shown
  <2>3. alone' \in BOOLEAN
    BY <1>4 DEF Write
  <2>4. writes' \in 0..MaxWrites
    BY <1>4, PagesAssumption DEF Write, WalkTypeOK
  <2>5. QED
    BY <1>4, <2>1, <2>2, <2>3, <2>4 DEF Write, WalkTypeOK, walkVars
<1>5. CASE UNCHANGED pageVars
  BY <1>5 DEF WalkTypeOK, pageVars, walkVars, ghostVars, Shown
<1>6. QED
  BY <1>1, <1>2, <1>3, <1>4, <1>5 DEF WalkNext

----------------------------------------------------------------------------
(* Steps *)

\* The order of the rows is fixed, and only its own rows are read, if ever, from the start
LEMMA OrderedBefore ==
    ASSUME [WalkNext]_pageVars PROVE (Ordered' => Ordered) /\ (Own' => Own)
<1>1. UNCHANGED query /\ ever \subseteq ever' /\ (alone' => alone)
  <2>1. CASE Check \/ Fail \/ Page \/ UNCHANGED pageVars
    BY <2>1 DEF Check, Fail, Page, pageVars, walkVars, ghostVars
  <2>2. ASSUME NEW o \in Owners, Write(o)
        PROVE  UNCHANGED query /\ ever \subseteq ever' /\ (alone' => alone)
    BY <2>2 DEF Write, walkVars
  <2>3. QED
    BY <2>1, <2>2 DEF WalkNext
<1>2. \A i : Rank(i)' = Rank(i)
  BY <1>1 DEF Rank
<1>3. QED
  BY <1>1, <1>2 DEF Ordered, Own

\* A page, full or not, leaves nothing behind the token that stayed
LEMMA CompleteStep == WalkTypeOK /\ Met /\ Complete /\ [WalkNext]_pageVars => Complete'
<1> SUFFICES ASSUME WalkTypeOK, Met, Complete, [WalkNext]_pageVars PROVE Complete'
  OBVIOUS
<1>0. Ordered' => Ordered
  BY OrderedBefore
<1>1. CASE Check \/ Fail
  <2>1. UNCHANGED <<always, held, owner, token, got>> /\ Walking /\ step' # "done"
    BY <1>1 DEF Check, Fail, ghostVars, Walking
  <2>2. QED
    BY <1>0, <2>1 DEF Complete, DoneIsComplete, Walking
<1>2. CASE Page
  <2>1. PICK page \in SUBSET Selected :
           /\ IsPage(page)
           /\ got' = Data(page)
           /\ IF More(page)
              THEN \E last \in page :
                      /\ \A row \in page : Rank(row[2]) <= Rank(last[2])
                      /\ token' = [set |-> TRUE, after |-> last[2]]
                      /\ step' = IF query.check = "none" THEN "page" ELSE "check"
              ELSE step' = "done" /\ UNCHANGED token
    BY <1>2 DEF Page
  <2>2. UNCHANGED <<always, held, owner>> /\ Walking
    BY <1>2 DEF Page, ghostVars, Walking
  <2>3. always \subseteq held[owner]
    BY <2>2 DEF Complete
  <2>4. got \subseteq got'
    BY <2>1 DEF Data
  <2>5. ASSUME Ordered, NEW i \in always PROVE i \in got' \/ <<owner, i>> \in Selected
    <3>1. <<owner, i>> \in Rows /\ i \in Shown /\ i \in Nat
      BY <2>3, PagesAssumption DEF Rows, WalkTypeOK
    <3>2. CASE token.set /\ i <= token.after
      BY <2>4, <2>5, <3>2 DEF Complete
    <3>3. CASE token.set /\ ~(i <= token.after)
      <4>1. token.after \in Nat
        BY <3>3, PagesAssumption DEF WalkTypeOK, Tokens, NoToken
      <4>2. i > token.after
        BY <3>1, <3>3, <4>1
      <4>3. QED
        BY <3>1, <3>3, <4>2 DEF Selected
    <3>4. CASE ~token.set
      BY <3>1, <3>4 DEF Selected
    <3>5. QED
      BY <3>2, <3>3, <3>4
  <2>6. ASSUME NEW i \in always, <<owner, i>> \in page PROVE i \in got'
    BY <2>1, <2>6 DEF Data, Read, WalkTypeOK
  <2>7. CASE More(page)
    <3>1. PICK last \in page :
             /\ token' = [set |-> TRUE, after |-> last[2]]
             /\ step' = IF query.check = "none" THEN "page" ELSE "check"
      BY <2>1, <2>7
    <3>2. last \in Owners \X Items /\ last \in Selected
      BY <2>1, RowsTyped
    <3>3. ASSUME Ordered, NEW i \in always, i <= last[2] PROVE i \in got'
      <4>1. CASE <<owner, i>> \in Selected \ page
        <5>1. Rank(last[2]) <= Rank(i)
          BY <4>1, <2>1 DEF IsPage
        <5>2. i \in Items /\ last[2] \in Items /\ i \in ever
          BY <3>2, <2>3 DEF WalkTypeOK
        <5>3. query.ties => last[2] \in ever
          <6> SUFFICES ASSUME query.ties PROVE last[2] \in ever
            OBVIOUS
          <6>1. query.owned /\ ~query.scans
            BY Tied DEF WalkTypeOK
          <6>2. last[1] = owner /\ last[2] \in held[owner] /\ last[2] \in Shown
            BY <3>2, <6>1 DEF Selected, Rows
          <6>3. QED
            BY <6>2, <2>2 DEF Met
        <5>4. last[2] <= i
          BY <3>3, <5>1, <5>2, <5>3, RankStrict
        <5>5. i = last[2]
          <6>1. i \in Nat /\ last[2] \in Nat
            BY <5>2, PagesAssumption
          <6>2. QED
            BY <3>3, <5>4, <6>1
        <5>6. QED
          <6>1. i \in Shown
            BY DEF WalkTypeOK
          <6>2. QED
            BY <5>5, <6>1, <2>1 DEF Data, Read
      <4>2. QED
        BY <4>1, <2>5, <2>6, <3>3
    <3>4. step' # "done" /\ token'.set /\ token'.after = last[2]
      BY <3>1
    <3>5. QED
      BY <1>0, <2>2, <2>3, <3>3, <3>4 DEF Complete, DoneIsComplete, Walking
  <2>8. CASE ~More(page)
    <3>1. page = Selected
      BY <2>8 DEF More
    <3>2. Ordered => always \subseteq got'
      BY <2>5, <2>6, <3>1
    <3>3. QED
      BY <1>0, <3>2, <2>1, <2>2, <2>3, <2>8 DEF Complete, DoneIsComplete, Walking
  <2>9. QED
    BY <2>7, <2>8
<1>3. ASSUME NEW o \in Owners, Write(o) PROVE Complete'
  <2>1. always' \subseteq always /\ always' \subseteq held'[owner']
    BY <1>3 DEF Write, walkVars
  <2>2. step' # "done" /\ UNCHANGED <<token, got>>
    BY <1>3 DEF Write, walkVars
  <2>3. QED
    BY <1>0, <2>1, <2>2 DEF Complete, DoneIsComplete
<1>4. CASE UNCHANGED pageVars
  BY <1>0, <1>4 DEF pageVars, walkVars, ghostVars, Complete, DoneIsComplete, Walking
<1>5. QED
  BY <1>1, <1>2, <1>3, <1>4 DEF WalkNext

\* The walk meets what there is, of one owner if no later one has rows
LEMMA MetStep == WalkTypeOK /\ Lonely /\ Met /\ [WalkNext]_pageVars => Lonely' /\ Met'
<1> SUFFICES ASSUME WalkTypeOK, Lonely, Met, [WalkNext]_pageVars PROVE Lonely' /\ Met'
  OBVIOUS
<1>1. CASE Check \/ Fail \/ Page \/ UNCHANGED pageVars
  <2>1. UNCHANGED <<ever, alone, held, owner, query>> /\ (Walking' => Walking)
    BY <1>1 DEF Check, Fail, Page, pageVars, walkVars, ghostVars, Walking
  <2>2. QED
    BY <2>1 DEF Lonely, Met, Shown
<1>2. ASSUME NEW o \in Owners, Write(o) PROVE Lonely' /\ Met'
  <2>1. UNCHANGED <<owner, query>> /\ held'[owner] \cap Shown \subseteq ever'
    BY <1>2 DEF Write, walkVars
  <2>2. alone' => \A p \in Owners : p > owner => held'[p] = {}
    BY <1>2 DEF Write
  <2>3. QED
    BY <2>1, <2>2 DEF Lonely, Met, Shown
<1>3. QED
  BY <1>1, <1>2 DEF WalkNext

\* While no later owner has rows a page holds rows of the owner behind the token, so
\* none of those read before
LEMMA UpwardsStep == WalkTypeOK /\ Lonely /\ Met /\ Upwards /\ [WalkNext]_pageVars => Upwards'
<1> SUFFICES ASSUME WalkTypeOK, Lonely, Met, Upwards, [WalkNext]_pageVars, Own' PROVE Upwards'
  BY DEF Upwards
<1>0. Own /\ (Ordered' => Ordered)
  BY OrderedBefore
<1>1. CASE Check \/ Fail \/ UNCHANGED pageVars
  <2>1. UNCHANGED <<got, ever, token, twice>> /\ (Walking' => Walking)
    BY <1>1 DEF Check, Fail, pageVars, walkVars, ghostVars, Walking
  <2>2. QED
    BY <1>0, <2>1 DEF Upwards
<1>2. CASE Page
  <2>1. PICK page \in SUBSET Selected :
           /\ got' = Data(page)
           /\ twice' = twice \cup (got \cap Read(page)) \cup Shared(page)
           /\ IF More(page)
              THEN \E last \in page :
                      /\ \A row \in page : Rank(row[2]) <= Rank(last[2])
                      /\ token' = [set |-> TRUE, after |-> last[2]]
                      /\ step' = IF query.check = "none" THEN "page" ELSE "check"
              ELSE step' = "done" /\ UNCHANGED token
    BY <1>2 DEF Page
  <2>2. UNCHANGED ever /\ Walking
    BY <1>2 DEF Page, ghostVars, Walking
  <2>3. \A row \in page : /\ row = <<owner, row[2]>>
                          /\ row[2] \in Items
                          /\ token.set => row[2] > token.after
                          /\ row[2] \in Shown => row[2] \in ever
    BY <1>0, <2>1, <2>2, OwnRows, RowsTyped
  <2>4. got \subseteq ever
    BY <1>0 DEF Upwards
  <2>5. got' \subseteq ever'
    BY <2>1, <2>2, <2>3, <2>4 DEF Data, Read
  <2>6. ASSUME Ordered PROVE twice' = {}
    <3>1. ASSUME NEW i \in got, i \in Read(page) PROVE FALSE
      <4>1. token.set /\ i <= token.after
        BY <1>0, <2>2, <2>6, <3>1 DEF Upwards
      <4>2. i > token.after
        BY <2>3, <3>1, <4>1 DEF Read
      <4>3. i \in Nat /\ token.after \in Nat
        <5>1. i \in Items /\ token.after \in Items
          BY <3>1, <4>1, TokenItem DEF WalkTypeOK
        <5>2. QED
          BY <5>1, PagesAssumption
      <4>4. QED
        BY <4>1, <4>2, <4>3
    <3>2. Shared(page) = {}
      <4>1. ASSUME NEW a \in page, NEW b \in page, a[2] = b[2] PROVE a = b
        <5>1. a = <<owner, a[2]>> /\ b = <<owner, b[2]>>
          BY <2>3
        <5>2. QED
          BY <4>1, <5>1
      <4>2. QED
        BY <4>1 DEF Shared
    <3>3. QED
      BY <1>0, <2>1, <2>6, <3>1, <3>2 DEF Upwards
  <2>7. ASSUME Ordered, step' # "done" PROVE token'.set /\ \A i \in got' : i <= token'.after
    <3>1. PICK last \in page :
             /\ \A row \in page : Rank(row[2]) <= Rank(last[2])
             /\ token' = [set |-> TRUE, after |-> last[2]]
      BY <2>1, <2>7
    <3>2. ASSUME NEW i \in got PROVE i <= last[2]
      <4>1. token.set /\ i <= token.after
        BY <1>0, <2>2, <2>7, <3>2 DEF Upwards
      <4>2. last[2] > token.after /\ last[2] \in Items
        BY <2>3, <4>1
      <4>3. i \in Nat /\ token.after \in Nat /\ last[2] \in Nat
        <5>1. i \in Items /\ token.after \in Items
          BY <3>2, <4>1, TokenItem DEF WalkTypeOK
        <5>2. QED
          BY <4>2, <5>1, PagesAssumption
      <4>4. QED
        BY <4>1, <4>2, <4>3
    <3>3. ASSUME NEW i \in Read(page) PROVE i <= last[2]
      <4>1. PICK row \in page : row[2] = i
        BY <3>3 DEF Read
      <4>2. i \in Shown /\ i \in ever /\ i \in Items /\ last[2] \in Items
        BY <2>3, <3>3, <4>1 DEF Read
      <4>3. query.ties => last[2] \in ever
        <5> SUFFICES ASSUME query.ties PROVE last[2] \in ever
          OBVIOUS
        <5>1. ~query.scans
          BY Tied DEF WalkTypeOK
        <5>2. last[2] \in Shown
          BY <5>1, <3>1 DEF Selected
        <5>3. QED
          BY <5>2, <2>3
      <4>4. Rank(i) <= Rank(last[2])
        BY <3>1, <4>1
      <4>5. QED
        BY <2>7, <4>2, <4>3, <4>4, RankStrict
    <3>4. QED
      BY <3>1, <3>2, <3>3, <2>1 DEF Data
  <2>8. QED
    BY <1>0, <2>5, <2>6, <2>7 DEF Upwards, Walking
<1>3. ASSUME NEW o \in Owners, Write(o) PROVE Upwards'
  <2>1. UNCHANGED <<step, token, got, twice>> /\ ever \subseteq ever'
    BY <1>3 DEF Write, walkVars
  <2>2. QED
    BY <1>0, <2>1 DEF Upwards, Walking
<1>4. QED
  BY <1>1, <1>2, <1>3 DEF WalkNext

----------------------------------------------------------------------------

\* Every state of a walk has its type.
THEOREM WalksTyped == WalkSpec => []WalkTypeOK
<1>1. QED
  BY WalkTypesStart, WalkTypesHold, PTL DEF WalkSpec

\* The inductive invariant: up to its token a walk skips nothing, and over rows of its
\* owner it only goes upwards.
THEOREM WInvHolds == WalkSpec => []WInv
<1>1. WalkInit => WInv
  <2>1. WalkInit => Complete
    BY DEF WalkInit, Complete, DoneIsComplete, NoToken
  <2>2. WalkInit => Lonely /\ Upwards /\ Met
    BY DEF WalkInit, Lonely, Upwards, Met, NoToken
  <2>3. QED
    BY <2>1, <2>2, WalkTypesStart DEF WInv
<1>2. WInv /\ [WalkNext]_pageVars => WInv'
  BY WalkTypesHold, CompleteStep, MetStep, UpwardsStep DEF WInv
<1>3. QED
  BY <1>1, <1>2, PTL DEF WalkSpec

\* A walk that ends has read everything it wants and that was there all the time,
\* whatever the requests changed between its pages (the queries with a next token of
\* both registries, consumePaginatedApi).
THEOREM NothingMissed == WalkSpec => []DoneIsComplete
<1>1. WInv => DoneIsComplete
  BY DEF WInv, Complete
<1>2. QED
  BY <1>1, WInvHolds, PTL

\* Over rows of its owner a walk reads nothing twice.
THEOREM ReadOnce == WalkSpec => []NothingTwice
<1>1. WInv => NothingTwice
  BY DEF WInv, Upwards, NothingTwice
<1>2. QED
  BY <1>1, WInvHolds, PTL

\* Every query but two reads items of its owner only, and those two while no later
\* owner has rows (postgres/distribution_list.go:340-361, postgres/user_notification.go:117-138).
THEOREM OwnItems == WalkSpec => [](Own => OnlyItsItems)
<1>1. WInv => (Own => OnlyItsItems)
  BY DEF WInv, Upwards, OnlyItsItems
<1>2. QED
  BY <1>1, WInvHolds, PTL

=============================================================================
