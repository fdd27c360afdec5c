-------------------------- MODULE DistributionLists --------------------------
(***************************************************************************)
(* The distribution lists of the service on PostgreSQL: the handlers of    *)
(* service/internal/controllers/distribution_lists.go over                 *)
(* service/internal/registry/postgres/distribution_list.go. A list is a    *)
(* row with the number of its recipients, and one row per recipient.       *)
(*                                                                         *)
(* One action per statement, so that transactions interleave as PostgreSQL *)
(* lets them at its default level, READ COMMITTED: a statement sees the    *)
(* rows committed when it runs and its transaction's own, and waits for    *)
(* the locks of the others. A transaction holds a connection of the pool   *)
(* from Begin to its end. Failing statements are FAULTS, bounded by        *)
(* MaxFaults.                                                              *)
(***************************************************************************)
EXTENDS Naturals, FiniteSets

CONSTANTS
    Names,       \* names of lists
    Recipients,  \* the recipients a request may name
    Clients,     \* slots for handlers: how many run at a time
    PoolSize,    \* connections of the pool
    MaxCalls,    \* bound on the requests of a behaviour
    MaxFaults    \* bound on the failing statements of a behaviour

Operations == {"create", "drop", "add", "remove"}

ASSUME ListsAssumption ==
    /\ Names # {} /\ IsFiniteSet(Names) /\ IsFiniteSet(Recipients) /\ IsFiniteSet(Clients)
    /\ PoolSize \in Nat \ {0} /\ MaxCalls \in Nat /\ MaxFaults \in Nat

VARIABLES
    lists,    \* the names with a row in distribution_lists
    count,    \* count[n]: num_recipients in that row, 0 without one
    members,  \* members[n]: its rows in distribution_list_recipients
    pc,       \* pc[c]: the next statement of the handler in slot c
    op,       \* op[c]: its operation
    name,     \* name[c]: the list it is about
    recs,     \* recs[c]: the recipients it names
    lock,     \* lock[c]: what its transaction holds on the row of the list
    ins,      \* ins[c]: the recipient rows it inserted, not committed
    del,      \* del[c]: the recipient rows it deleted, not committed
    num,      \* num[c]: the number of recipients it counted
    answer,   \* answer[c]: the status code of its last answer, 0 before
    stuck,    \* stuck[n]: rows deleted by transactions nobody will end
    lost,     \* how many connections such transactions keep
    raced,    \* the lists whose recipients two open transactions changed
    calls,    \* how many requests came
    faults    \* how many statements failed

tableVars == <<lists, count, members>>
requestVars == <<op, name, recs>>
txVars == <<lock, ins, del, num>>
leakVars == <<stuck, lost>>
vars == <<tableVars, pc, requestVars, txVars, answer, leakVars, raced, calls, faults>>

TypeOK ==
    /\ lists \subseteq Names
    /\ count \in [Names -> 0..Cardinality(Recipients)]
    /\ members \in [Names -> SUBSET Recipients]
    /\ pc \in [Clients -> {"idle", "check", "begin", "write", "cascade",
                           "summary", "count", "commit"}]
    /\ op \in [Clients -> Operations]
    /\ name \in [Clients -> Names]
    /\ recs \in [Clients -> SUBSET Recipients]
    /\ lock \in [Clients -> {"none", "new", "share", "update", "drop"}]
    /\ ins \in [Clients -> SUBSET Recipients]
    /\ del \in [Clients -> SUBSET Recipients]
    /\ num \in [Clients -> 0..Cardinality(Recipients)]
    /\ answer \in [Clients -> {0, 200, 201, 204, 400, 500}]
    /\ stuck \in [Names -> SUBSET Recipients]
    /\ lost \in Nat
    /\ raced \subseteq Names
    /\ calls \in 0..MaxCalls
    /\ faults \in 0..MaxFaults

----------------------------------------------------------------------------
(* Transactions and locks *)

InTransaction(c) == pc[c] \in {"write", "cascade", "summary", "count", "commit"}

\* Past its first write: its changes to the list's recipients are not committed
Wrote(c) == pc[c] \in {"cascade", "summary", "count", "commit"}

\* A connection of the pool is free
Free == lost + Cardinality({c \in Clients : InTransaction(c)}) < PoolSize

Others(c) == {d \in Clients : d # c /\ name[d] = name[c]}

\* Another transaction holds a lock of these kinds on the row of the list
Held(c, kinds) == \E d \in Others(c) : lock[d] \in kinds

\* The recipient rows of its list that other transactions have written
Locked(c) ==
    stuck[name[c]] \cup UNION {ins[d] \cup del[d] : d \in Others(c)}

\* The recipients of the list as the transaction of c sees them
View(c) == (members[name[c]] \ del[c]) \cup ins[c]

GoTo(c, label) == pc' = [pc EXCEPT ![c] = label]

\* Rollback, or the end of a transaction that was committed
EndTransaction(c) ==
    /\ lock' = [lock EXCEPT ![c] = "none"]
    /\ ins' = [ins EXCEPT ![c] = {}]
    /\ del' = [del EXCEPT ![c] = {}]
    /\ num' = [num EXCEPT ![c] = 0]

\* The handler answers; its slot can take another request
Reply(c, code) ==
    /\ answer' = [answer EXCEPT ![c] = code]
    /\ GoTo(c, "idle")
    /\ EndTransaction(c)

\* Mutant of Error: the error is returned without tx.Rollback
ErrorWithoutRollback(c) ==
    /\ answer' = [answer EXCEPT ![c] = IF op[c] = "create" THEN 201 ELSE 500]
    /\ GoTo(c, "idle")
    /\ UNCHANGED txVars

\* The registry returns an error after rolling back. CreateDistributionList
\* sets 500, does not return, and sets 201
Error(c) == Reply(c, IF op[c] = "create" THEN 201 ELSE 500)

\* A statement fails
Fault(c) ==
    /\ faults < MaxFaults
    /\ faults' = faults + 1
    /\ Error(c)
    /\ UNCHANGED <<tableVars, requestVars, leakVars, raced, calls>>

----------------------------------------------------------------------------
(* Requests and the statements before the transaction *)

\* A request comes. CreateDistributionList takes an empty list of
\* recipients, the other two do not
Call(c) ==
    /\ pc[c] = "idle"
    /\ calls < MaxCalls
    /\ \E o \in Operations, n \in Names, R \in SUBSET Recipients :
          /\ o = "drop" => R = {}
          /\ o \in {"add", "remove"} => R # {}
          /\ op' = [op EXCEPT ![c] = o]
          /\ name' = [name EXCEPT ![c] = n]
          /\ recs' = [recs EXCEPT ![c] = R]
          /\ GoTo(c, IF o = "drop" THEN "begin" ELSE "check")
    /\ calls' = calls + 1
    /\ UNCHANGED <<tableVars, txVars, answer, leakVars, raced, faults>>

\* getDistributionListSummary counts the rows of recipients: for it a list
\* without recipients does not exist
Check(c) ==
    /\ pc[c] = "check"
    /\ Free
    /\ LET exists == members[name[c]] # {}
       IN  IF exists = (op[c] = "create")
           THEN Reply(c, 400)
           ELSE GoTo(c, "begin") /\ UNCHANGED <<answer, txVars>>
    /\ UNCHANGED <<tableVars, requestVars, leakVars, raced, calls, faults>>

Begin(c) ==
    /\ pc[c] = "begin"
    /\ Free
    /\ GoTo(c, "write")
    /\ UNCHANGED <<tableVars, requestVars, txVars, answer, leakVars, raced, calls, faults>>

----------------------------------------------------------------------------
(* The statements of the transactions *)

\* What every first write does besides: whether another transaction has
\* changed the list and is still open
Written(c, o) ==
    /\ pc[c] = "write" /\ op[c] = o
    /\ raced' = IF \E d \in Others(c) : Wrote(d) THEN raced \cup {name[c]} ELSE raced
    /\ UNCHANGED <<tableVars, requestVars, leakVars, num, calls, faults>>

\* A statement refused by a constraint: the registry rolls back
Refused(c) == Error(c)

\* The row of the list and those of its recipients
InsertList(c) ==
    /\ Written(c, "create")
    /\ ~Held(c, {"new", "drop"})
    /\ name[c] \notin lists
    /\ GoTo(c, "commit")
    /\ lock' = [lock EXCEPT ![c] = "new"]
    /\ ins' = [ins EXCEPT ![c] = recs[c]]
    /\ UNCHANGED <<del, answer>>

\* The primary key of distribution_lists
InsertListRefused(c) ==
    /\ pc[c] = "write" /\ op[c] = "create"
    /\ ~Held(c, {"new", "drop"})
    /\ name[c] \in lists
    /\ Refused(c)
    /\ UNCHANGED <<tableVars, requestVars, leakVars, raced, calls, faults>>

\* Mutant of InsertRecipients: the share lock on the row of the list is not
\* taken, as with a foreign key that is not there
InsertRecipientsUnlocked(c) ==
    LET missing == recs[c] \ members[name[c]]
    IN  /\ Written(c, "add")
        /\ recs[c] \cap Locked(c) = {}
        /\ missing # {} => name[c] \in lists
        /\ GoTo(c, "summary")
        /\ ins' = [ins EXCEPT ![c] = missing]
        /\ UNCHANGED <<lock, del, answer>>

\* ON CONFLICT DO NOTHING: only the missing rows are inserted, and each
\* takes a share lock on the row of the list
InsertRecipients(c) ==
    LET missing == recs[c] \ members[name[c]]
    IN  /\ Written(c, "add")
        /\ recs[c] \cap Locked(c) = {}
        /\ missing # {} => name[c] \in lists /\ ~Held(c, {"drop"})
        /\ GoTo(c, "summary")
        /\ ins' = [ins EXCEPT ![c] = missing]
        /\ lock' = [lock EXCEPT ![c] = IF missing = {} THEN "none" ELSE "share"]
        /\ UNCHANGED <<del, answer>>

\* The foreign key to a list that was dropped after the check
InsertRecipientsRefused(c) ==
    /\ pc[c] = "write" /\ op[c] = "add"
    /\ recs[c] \cap Locked(c) = {}
    /\ name[c] \notin lists
    /\ Refused(c)
    /\ UNCHANGED <<tableVars, requestVars, leakVars, raced, calls, faults>>

\* Mutant of DeleteRows: the statement deletes one recipient of the request
DeleteOneRow(c) ==
    LET found == recs[c] \cap members[name[c]]
    IN  /\ Written(c, "remove")
        /\ found \cap Locked(c) = {}
        /\ GoTo(c, "summary")
        /\ \/ found = {} /\ UNCHANGED del
           \/ \E r \in found : del' = [del EXCEPT ![c] = {r}]
        /\ UNCHANGED <<ins, lock, answer>>

DeleteRows(c) ==
    LET found == recs[c] \cap members[name[c]]
    IN  /\ Written(c, "remove")
        /\ found \cap Locked(c) = {}
        /\ GoTo(c, "summary")
        /\ del' = [del EXCEPT ![c] = found]
        /\ UNCHANGED <<ins, lock, answer>>

\* DELETE FROM distribution_lists: no row, nothing to do
DropList(c) ==
    /\ Written(c, "drop")
    /\ IF name[c] \in lists
       THEN /\ ~Held(c, {"share", "update", "drop"})
            /\ lock' = [lock EXCEPT ![c] = "drop"]
            /\ GoTo(c, "cascade")
       ELSE /\ GoTo(c, "commit")
            /\ UNCHANGED lock
    /\ UNCHANGED <<ins, del, answer>>

\* ON DELETE CASCADE waits for the rows others have deleted
Cascade(c) ==
    /\ pc[c] = "cascade"
    /\ members[name[c]] \cap Locked(c) = {}
    /\ GoTo(c, "commit")
    /\ del' = [del EXCEPT ![c] = members[name[c]]]
    /\ UNCHANGED <<tableVars, requestVars, lock, ins, num, answer, leakVars, raced,
                   calls, faults>>

\* Mutants of Summary: the recipients of the request are added to the count, or
\* the count is taken through the pool and not in the transaction
SummaryOfRequest(c) ==
    /\ pc[c] = "summary"
    /\ View(c) # {}
    /\ num' = [num EXCEPT ![c] = Cardinality(members[name[c]]) + Cardinality(recs[c])]
    /\ GoTo(c, "count")
    /\ UNCHANGED <<tableVars, requestVars, lock, ins, del, answer, leakVars, raced,
                   calls, faults>>

SummaryOutside(c) ==
    /\ pc[c] = "summary"
    /\ View(c) # {}
    /\ num' = [num EXCEPT ![c] = Cardinality(members[name[c]])]
    /\ GoTo(c, "count")
    /\ UNCHANGED <<tableVars, requestVars, lock, ins, del, answer, leakVars, raced,
                   calls, faults>>

\* The number of recipients, in the transaction
Summary(c) ==
    /\ pc[c] = "summary"
    /\ View(c) # {}
    /\ num' = [num EXCEPT ![c] = Cardinality(View(c))]
    /\ GoTo(c, "count")
    /\ UNCHANGED <<tableVars, requestVars, lock, ins, del, answer, leakVars, raced,
                   calls, faults>>

\* No recipients, no summary: the handler panics on the nil pointer and gin
\* answers 500, but nobody ends the transaction nor returns its connection
Panic(c) ==
    /\ pc[c] = "summary"
    /\ View(c) = {}
    /\ stuck' = [stuck EXCEPT ![name[c]] = @ \cup del[c]]
    /\ lost' = lost + 1
    /\ Reply(c, 500)
    /\ UNCHANGED <<tableVars, requestVars, raced, calls, faults>>

\* UPDATE distribution_lists, which changes nothing when the row is gone
UpdateCount(c) ==
    /\ pc[c] = "count"
    /\ ~Held(c, {"update", "drop"})
    /\ lock' = [lock EXCEPT ![c] = IF name[c] \in lists THEN "update" ELSE @]
    /\ GoTo(c, "commit")
    /\ UNCHANGED <<tableVars, requestVars, ins, del, num, answer, leakVars, raced,
                   calls, faults>>

\* What the transaction of c leaves in the tables
Apply(c) ==
    LET n == name[c]
    IN  /\ lists' = CASE lock[c] = "new"  -> lists \cup {n}
                      [] lock[c] = "drop" -> lists \ {n}
                      [] OTHER            -> lists
        /\ members' = [members EXCEPT ![n] = View(c)]
        /\ count' = CASE lock[c] = "new"    -> [count EXCEPT ![n] = Cardinality(recs[c])]
                      [] lock[c] = "update" -> [count EXCEPT ![n] = num[c]]
                      [] lock[c] = "drop"   -> [count EXCEPT ![n] = 0]
                      [] OTHER              -> count

Commit(c) ==
    /\ pc[c] = "commit"
    /\ Apply(c)
    /\ Reply(c, CASE op[c] = "create" -> 201 [] op[c] = "drop" -> 204 [] OTHER -> 200)
    /\ UNCHANGED <<requestVars, leakVars, raced, calls, faults>>

\* The connection breaks after the server committed
CommitUnheard(c) ==
    /\ pc[c] = "commit"
    /\ faults < MaxFaults
    /\ faults' = faults + 1
    /\ Apply(c)
    /\ Error(c)
    /\ UNCHANGED <<requestVars, leakVars, raced, calls>>

----------------------------------------------------------------------------
(* PostgreSQL ends a cycle of waits by aborting one of its transactions: a *)
(* handler that deleted recipients waits at UpdateCount for the row of the *)
(* list, whose holder waits at Cascade for the rows of the recipients.     *)
Deadlocked(c, d) ==
    /\ d \in Others(c)
    /\ pc[c] = "count" /\ pc[d] = "cascade"
    /\ del[c] # {}

Abort(c) ==
    /\ \E d \in Clients : Deadlocked(c, d) \/ Deadlocked(d, c)
    /\ Error(c)
    /\ UNCHANGED <<tableVars, requestVars, leakVars, raced, calls, faults>>

\* The service starts over the tables an earlier run of it has left
Init ==
    /\ lists \in SUBSET Names
    /\ members \in [Names -> SUBSET Recipients]
    /\ \A n \in Names \ lists : members[n] = {}
    /\ count = [n \in Names |-> Cardinality(members[n])]
    /\ pc = [c \in Clients |-> "idle"]
    /\ op = [c \in Clients |-> "drop"]
    /\ name = [c \in Clients |-> CHOOSE n \in Names : TRUE]
    /\ recs = [c \in Clients |-> {}]
    /\ lock = [c \in Clients |-> "none"]
    /\ ins = [c \in Clients |-> {}]
    /\ del = [c \in Clients |-> {}]
    /\ num = [c \in Clients |-> 0]
    /\ answer = [c \in Clients |-> 0]
    /\ stuck = [n \in Names |-> {}]
    /\ lost = 0
    /\ raced = {}
    /\ calls = 0
    /\ faults = 0

Step(c) ==
    \/ Check(c) \/ Begin(c)
    \/ InsertList(c) \/ InsertListRefused(c)
    \/ InsertRecipients(c) \/ InsertRecipientsRefused(c)
    \/ DeleteRows(c) \/ DropList(c) \/ Cascade(c)
    \/ Summary(c) \/ Panic(c) \/ UpdateCount(c) \/ Commit(c)
    \/ Abort(c)

\* A statement fails, or the answer to the commit is lost
Fails(c) == (pc[c] # "idle" /\ Fault(c)) \/ CommitUnheard(c)

Next == \E c \in Clients : Call(c) \/ Step(c) \/ Fails(c)

Spec == Init /\ [][Next]_vars
FairSpec == Spec /\ \A c \in Clients : WF_vars(Step(c))

----------------------------------------------------------------------------
(* Properties *)

\* A recipient row has a list: a list that is dropped while a request adds to
\* it takes the new recipients with it or makes the request fail.
NoOrphans == \A n \in Names : members[n] # {} => n \in lists

\* num_recipients, written from a count of an earlier statement, is the number
\* of recipient rows of every list that two transactions never changed at once.
CountIsTrue ==
    \A n \in lists \ raced : count[n] = Cardinality(members[n])

\* What the request of c asks of a list with recipients S
Asked(c, S) ==
    CASE op[c] = "create" -> recs[c]
      [] op[c] = "add"    -> S \cup recs[c]
      [] op[c] = "remove" -> S \ recs[c]
      [] op[c] = "drop"   -> {}

\* The recipients of a list change by a whole request or not at all, however the
\* statements of the request fail, unless two transactions changed it at once.
AllOrNothing ==
    [][\A n \in Names :
          members'[n] # members[n] =>
             \/ n \in raced
             \/ \E c \in Clients : /\ name[c] = n
                                   /\ pc[c] = "commit" /\ pc'[c] = "idle"
                                   /\ members'[n] = Asked(c, members[n])]_vars

\* DistributionLists implements Lists: every request that overlaps no other on its
\* list changes it in one step, the commit, and the stored number of recipients with
\* it, whatever statement fails.
Promised == INSTANCE Lists WITH size <- count, loose <- raced
ListsHold == Promised!Spec

\* Every request is answered, whatever locks its transaction waits for, as long as
\* no handler lost its transaction to the panic of a list left without recipients.
Answered == \A c \in Clients : pc[c] # "idle" ~> (pc[c] = "idle" \/ lost > 0)

=============================================================================
