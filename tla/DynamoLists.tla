----------------------------- MODULE DynamoLists -----------------------------
(***************************************************************************)
(* The distribution lists of the service on DynamoDB: the handlers of      *)
(* service/internal/controllers/distribution_lists.go over                 *)
(* service/internal/registry/dynamodb/distribution_list.go. A list is an   *)
(* item with the number of its recipients (the summary) and one item per   *)
(* recipient (a row), in two tables and without transactions: one action   *)
(* per call. GetItem and Query are eventually consistent, a batch writes   *)
(* up to BatchMax items and may write a part of them without an error, and *)
(* the SDK repeats a call whose answer was lost. Such calls are FAULTS,    *)
(* bounded by MaxFaults.                                                   *)
(***************************************************************************)
EXTENDS Integers, FiniteSets

CONSTANTS
    Names,       \* names of lists
    Recipients,  \* the recipients a request may name
    Clients,     \* slots for handlers: how many run at a time
    BatchMax,    \* items BatchWriteItem takes: 25
    InMax,       \* values the IN of a filter takes: 100
    MaxCalls,    \* bound on the requests of a behaviour
    MaxFaults    \* bound on the failing calls of a behaviour

Operations == {"create", "drop", "add", "remove"}

ASSUME DynamoAssumption ==
    /\ Names # {} /\ IsFiniteSet(Recipients)
    /\ BatchMax \in Nat \ {0} /\ InMax \in Nat \ {0}
    /\ MaxCalls \in Nat /\ MaxFaults \in Nat

VARIABLES
    lists,    \* the names with a summary
    count,    \* count[n]: numOfRecipients of the summary, 0 without one
    members,  \* members[n]: its rows
    flux,     \* the names whose summary came or went so recently that a
              \* GetItem may not tell
    recent,   \* recent[n]: the rows written so recently that a Query may miss
              \* them, or answer them still
    pc,       \* pc[c]: the next call of the handler in slot c
    op,       \* op[c]: its operation
    name,     \* name[c]: the list it is about
    recs,     \* recs[c]: the recipients it names
    batch,    \* batch[c]: the rows it is to put or to delete
    answer,   \* answer[c]: the status code of its last answer, 0 before
    loose,    \* the lists that overlapping requests, stale reads or calls that
              \* failed half way have touched
    calls,    \* how many requests came
    faults    \* how many calls failed

itemVars == <<lists, count, members>>
readVars == <<flux, recent>>
requestVars == <<op, name, recs>>
vars == <<itemVars, readVars, pc, requestVars, batch, answer, loose, calls, faults>>

TypeOK ==
    /\ lists \subseteq Names
    /\ count \in [Names -> Int]
    /\ members \in [Names -> SUBSET Recipients]
    /\ flux \subseteq Names
    /\ recent \in [Names -> SUBSET Recipients]
    /\ pc \in [Clients -> {"idle", "exists", "put", "fill", "undo", "scan", "write",
                           "count", "query", "clear", "erase"}]
    /\ op \in [Clients -> Operations]
    /\ name \in [Clients -> Names]
    /\ recs \in [Clients -> SUBSET Recipients]
    /\ batch \in [Clients -> SUBSET Recipients]
    /\ answer \in [Clients -> {0, 200, 201, 204, 400, 500}]
    /\ loose \subseteq Names
    /\ calls \in 0..MaxCalls
    /\ faults \in 0..MaxFaults
    \* BatchWriteItem refuses an empty batch
    /\ \A c \in Clients : pc[c] \in {"fill", "write", "clear", "count"} => batch[c] # {}

----------------------------------------------------------------------------
(* Requests *)

GoTo(c, label) == pc' = [pc EXCEPT ![c] = label]

\* The handler answers; its slot can take another request
Reply(c, code) ==
    /\ answer' = [answer EXCEPT ![c] = code]
    /\ batch' = [batch EXCEPT ![c] = {}]
    /\ GoTo(c, "idle")

\* The registry returns without an error
Succeed(c) ==
    Reply(c, CASE op[c] = "create" -> 201 [] op[c] = "drop" -> 204 [] OTHER -> 200)

\* Mutant of Error: no handler returns after setting 500
ErrorGoesOn(c) == Succeed(c)

\* The registry returns an error. CreateDistributionList sets 500, does not
\* return, and sets 201
Error(c) == Reply(c, IF op[c] = "create" THEN 201 ELSE 500)

\* The handler goes on to another call
Continue(c, label) == GoTo(c, label) /\ UNCHANGED <<answer, batch>>

\* Another handler has read something about the list and is not done with it
Overlapped(c) ==
    \E d \in Clients \ {c} :
        name[d] = name[c] /\ pc[d] \notin {"idle", "exists", "query"}

\* The list becomes loose under these conditions
Loosen(c, when) ==
    loose' = IF when \/ Overlapped(c) THEN loose \cup {name[c]} ELSE loose

\* A call that fails uses up one of the faults
Spend(failing) ==
    /\ failing => faults < MaxFaults
    /\ faults' = IF failing THEN faults + 1 ELSE faults

\* A request comes. CreateDistributionList takes an empty list of
\* recipients, the other two do not
Call(c) ==
    /\ pc[c] = "idle"
    /\ calls < MaxCalls
    /\ \E o \in Operations, n \in Names, R \in SUBSET Recipients :
          /\ o = "drop" => R = {}
          /\ o \in {"add", "remove"} => R # {}
          /\ op' = [op EXCEPT ![c] = o]
          /\ name' = [name EXCEPT ![c] = n]
          /\ recs' = [recs EXCEPT ![c] = R]
          /\ GoTo(c, IF o = "drop" THEN "query" ELSE "exists")
    /\ calls' = calls + 1
    /\ UNCHANGED <<itemVars, readVars, batch, answer, loose, faults>>

----------------------------------------------------------------------------
(* Reads *)

\* distListExists, by an eventually consistent GetItem of the summary
Exists(c) ==
    LET n == name[c]
    IN  /\ pc[c] = "exists"
        /\ \E exists \in (IF n \in flux THEN BOOLEAN ELSE {n \in lists}) :
              IF exists = (op[c] = "create")
              THEN Reply(c, 400) /\ UNCHANGED loose
              ELSE /\ Continue(c, IF exists THEN "scan" ELSE "put")
                   /\ loose' = IF exists = (n \in lists) THEN loose ELSE loose \cup {n}
        /\ UNCHANGED <<itemVars, readVars, requestVars, calls, faults>>

\* Mutant of Missing: what is in the list is not looked up
MissingAll(c) == recs[c]

\* getNewRecipients
Missing(c) == recs[c] \ members[name[c]]

\* getRecipientsInDL, a consistent scan: the rows the request adds or deletes. Its
\* filter names every recipient of the request: too many are refused. Without any
\* rows the summary is read and answered
Scan(c) ==
    LET rows == IF op[c] = "add" THEN Missing(c) ELSE recs[c] \cap members[name[c]]
        refused == Cardinality(recs[c]) > InMax
    IN  /\ pc[c] = "scan"
        /\ CASE refused               -> Error(c)
             [] ~refused /\ rows = {} -> Succeed(c)
             [] ~refused /\ rows # {} -> /\ batch' = [batch EXCEPT ![c] = rows]
                                         /\ GoTo(c, "write")
                                         /\ UNCHANGED answer
        /\ UNCHANGED <<itemVars, readVars, requestVars, loose, calls, faults>>

\* Mutant of Clears: a list without rows is cleared too
ClearsAlways(rows) == TRUE

\* DeleteDistributionList deletes the rows it found, if there are any
Clears(rows) == rows # {}

\* The query of DeleteDistributionList is eventually consistent. Its page holds
\* all the rows: one megabyte has room for more than a batch takes
QueryRows(c) ==
    LET n == name[c]
    IN  /\ pc[c] = "query"
        /\ \E rows \in SUBSET (members[n] \cup recent[n]) :
              /\ members[n] \ recent[n] \subseteq rows
              /\ batch' = [batch EXCEPT ![c] = rows]
              /\ GoTo(c, IF Clears(rows) THEN "clear" ELSE "erase")
              /\ Loosen(c, ~(members[n] \subseteq rows))
        /\ UNCHANGED <<itemVars, readVars, requestVars, answer, calls, faults>>

\* The replicas catch up
Converge(n) ==
    /\ n \in flux \/ recent[n] # {}
    /\ flux' = flux \ {n}
    /\ recent' = [recent EXCEPT ![n] = {}]
    /\ UNCHANGED <<itemVars, pc, requestVars, batch, answer, loose, calls, faults>>

\* A read fails
ReadFails(c) ==
    /\ pc[c] \in {"exists", "scan", "query"}
    /\ Spend(TRUE)
    /\ Error(c)
    /\ UNCHANGED <<itemVars, readVars, requestVars, loose, calls>>

----------------------------------------------------------------------------
(* Writes. A call writes more or less than it was asked to, and answers or *)
(* returns an error: all of it and an answer is the rule, the rest faults  *)

\* The item of a list is written as often as the call was repeated
Repeats == 0..2

\* PutItem of the summary
Put(c) ==
    LET n == name[c]
    IN  \E times \in {0, 1}, ok \in BOOLEAN :
          /\ pc[c] = "put"
          /\ ok => times = 1
          /\ Spend(~ok)
          /\ IF times = 0 THEN UNCHANGED <<lists, count, flux>>
             ELSE /\ lists' = lists \cup {n}
                  /\ count' = [count EXCEPT ![n] = Cardinality(recs[c])]
                  /\ flux' = flux \cup {n}
          /\ CASE ~ok                    -> Error(c)
               [] ok /\ recs[c] = {}     -> Succeed(c)
               [] ok /\ recs[c] # {}     -> /\ batch' = [batch EXCEPT ![c] = recs[c]]
                                            /\ GoTo(c, "fill")
                                            /\ UNCHANGED answer
          /\ Loosen(c, ~ok /\ times = 1)
          /\ UNCHANGED <<members, recent, requestVars, calls>>

\* The rows of the list when addRecipients or deleteRecipients has written some
After(c, rows) ==
    IF op[c] \in {"create", "add"} THEN members[name[c]] \cup rows ELSE members[name[c]] \ rows

\* BatchWriteItem of all the rows: too many are refused, and some may be left
\* unprocessed, which nobody looks at
Batch(c) ==
    LET n == name[c]
        refused == Cardinality(batch[c]) > BatchMax
    IN  \E rows \in SUBSET batch[c], ok \in BOOLEAN :
          /\ pc[c] \in {"fill", "write", "clear"}
          /\ refused => rows = {} /\ ~ok
          /\ Spend(~refused /\ ~(ok /\ rows = batch[c]))
          /\ members' = [members EXCEPT ![n] = After(c, rows)]
          /\ recent' = [recent EXCEPT ![n] = @ \cup rows]
          /\ CASE pc[c] = "fill"  /\ ok  -> Succeed(c)
               [] pc[c] = "fill"  /\ ~ok -> Continue(c, "undo")
               [] pc[c] = "write" /\ ok  -> Continue(c, "count")
               [] pc[c] = "clear" /\ ok  -> Continue(c, "erase")
               [] pc[c] # "fill"  /\ ~ok -> Error(c)
          /\ Loosen(c, rows # (IF ok THEN batch[c] ELSE {}))
          /\ UNCHANGED <<lists, count, flux, requestVars, calls>>

\* By how much updateRecipientCount changes the count
Change(c) ==
    IF op[c] = "add" THEN Cardinality(batch[c]) ELSE - Cardinality(batch[c])

\* updateRecipientCount: ADD, which makes the item if there is none
UpdateCount(c) ==
    LET n == name[c]
    IN  \E times \in Repeats, ok \in BOOLEAN :
          /\ pc[c] = "count"
          /\ ok => times > 0
          /\ Spend(~(ok /\ times = 1))
          /\ count' = [count EXCEPT ![n] = @ + times * Change(c)]
          /\ IF times > 0 /\ n \notin lists
             THEN lists' = lists \cup {n} /\ flux' = flux \cup {n}
             ELSE UNCHANGED <<lists, flux>>
          /\ IF ok THEN Succeed(c) ELSE Error(c)
          /\ Loosen(c, times # 1)
          /\ UNCHANGED <<members, recent, requestVars, calls>>

\* deleteSummary: the end of a drop, or the clean-up of a failed creation, which
\* is an error whatever it does
DeleteSummary(c) ==
    LET n == name[c]
    IN  \E times \in {0, 1}, ok \in BOOLEAN :
          /\ pc[c] \in {"erase", "undo"}
          /\ ok => times = 1
          /\ Spend(~ok)
          /\ IF times = 0 THEN UNCHANGED <<lists, count, flux>>
             ELSE /\ lists' = lists \ {n}
                  /\ count' = [count EXCEPT ![n] = 0]
                  /\ flux' = IF n \in lists THEN flux \cup {n} ELSE flux
          /\ IF ok /\ pc[c] = "erase" THEN Succeed(c) ELSE Error(c)
          /\ Loosen(c, times = 0)
          /\ UNCHANGED <<members, recent, requestVars, calls>>

----------------------------------------------------------------------------

\* The service starts over the tables an earlier run of it has left
Init ==
    /\ lists \in SUBSET Names
    /\ members \in [Names -> SUBSET Recipients]
    /\ \A n \in Names \ lists : members[n] = {}
    /\ count = [n \in Names |-> Cardinality(members[n])]
    /\ flux = {} /\ recent = [n \in Names |-> {}]
    /\ pc = [c \in Clients |-> "idle"]
    /\ op = [c \in Clients |-> "drop"]
    /\ name = [c \in Clients |-> CHOOSE n \in Names : TRUE]
    /\ recs = [c \in Clients |-> {}]
    /\ batch = [c \in Clients |-> {}]
    /\ answer = [c \in Clients |-> 0]
    /\ loose = {}
    /\ calls = 0 /\ faults = 0

Step(c) ==
    \/ Exists(c) \/ Scan(c) \/ QueryRows(c)
    \/ Put(c) \/ Batch(c) \/ UpdateCount(c) \/ DeleteSummary(c)

Next ==
    \/ \E c \in Clients : Call(c) \/ Step(c) \/ ReadFails(c)
    \/ \E n \in Names : Converge(n)

Spec == Init /\ [][Next]_vars

----------------------------------------------------------------------------
(* Properties *)

\* The handlers in the middle of a list that is not loose, by their next call
At(n, labels) == \E c \in Clients : name[c] = n /\ pc[c] \in labels

\* What the rows of n will be when the creation in progress has filled it
Filled(n) ==
    members[n] \cup UNION {batch[c] : c \in {d \in Clients : name[d] = n /\ pc[d] = "fill"}}

\* A list that is not loose, between two calls of a request, is already what the
\* request makes of it: a creation counts from its summary, an addition or removal
\* and a drop from the batch of rows.
Promised == INSTANCE Lists WITH
    lists <- {n \in lists : ~At(n, {"undo", "erase"})},
    members <- [n \in Names |-> Filled(n)],
    size <- [n \in Names |->
                IF At(n, {"undo", "erase"}) THEN 0
                ELSE IF At(n, {"count"}) THEN Cardinality(members[n]) ELSE count[n]]

\* DynamoLists implements Lists: a request that overlaps no other, reads nothing
\* stale and has no call fail half way changes its list in one step, with a stored
\* number that is the number of its recipients; a creation whose batch is refused
\* leaves nothing, thanks to its clean-up.
ListsHold == Promised!Spec

\* A success is the truth: the recipients asked for are in the list, or out of it,
\* and a dropped list is gone. A creation is answered 201 even if it failed, so its
\* answer is worth something only without faults and when the batch is accepted.
SuccessIsTrue ==
    [][\A c \in Clients :
          LET n == name[c]
          IN  pc[c] # "idle" /\ pc'[c] = "idle" /\ n \notin loose' =>
                /\ op[c] = "add" /\ answer'[c] = 200 => recs[c] \subseteq members'[n]
                /\ op[c] = "remove" /\ answer'[c] = 200 => recs[c] \cap members'[n] = {}
                /\ op[c] = "drop" /\ answer'[c] = 204 => n \notin lists' /\ members'[n] = {}
                /\ /\ op[c] = "create" /\ answer'[c] = 201
                   /\ faults' = 0 /\ Cardinality(recs[c]) <= BatchMax
                   => n \in lists' /\ members'[n] = recs[c]]_vars

=============================================================================
