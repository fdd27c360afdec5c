------------------------- MODULE DynamoNotifications -------------------------
(***************************************************************************)
(* The notifications of the service on DynamoDB:                           *)
(* service/internal/registry/dynamodb/notification.go and templates.go, as *)
(* the handlers of controllers/notifications.go and templates.go and the   *)
(* publisher call them. A notification is an item in one table, its        *)
(* statuses are items of a log, what became of its recipients is in two    *)
(* more tables, its template in another: one action per call. GetItem is   *)
(* eventually consistent. The cache of statuses is in Notifications.       *)
(*                                                                         *)
(* Calls that fail, with or without an effect, or write a part of a batch, *)
(* are FAULTS, bounded by MaxFaults.                                       *)
(***************************************************************************)
EXTENDS Naturals, FiniteSets

CONSTANTS
    Ids,         \* the notifications
    Templated,   \* those that use the template
    Recipients,  \* the recipients a report may name
    Clients,     \* slots for handlers: how many run at a time
    BatchMax,    \* items BatchWriteItem takes: 25
    MaxCalls,    \* bound on the requests of a behaviour
    MaxFaults    \* bound on the failing calls of a behaviour

Statuses == {"CREATED", "QUEUED", "SENDING", "SENT", "FAILED", "CANCELED"}
Results == {"SENT", "FAILED"}
Operations == {"save", "update", "cancel", "delete", "get", "details", "report"}

ASSUME DynamoNotificationsAssumption ==
    /\ Ids # {} /\ Templated \subseteq Ids /\ IsFiniteSet(Recipients)
    /\ BatchMax \in Nat \ {0} /\ MaxCalls \in Nat /\ MaxFaults \in Nat

VARIABLES
    row,       \* row[n]: the status of its item, "unsaved" or "deleted"
    former,    \* former[n]: what a GetItem may answer instead, a while longer
    log,       \* log[n]: the statuses in its log
    results,   \* results[n][u]: the status of u in the log of recipients
    latest,    \* latest[n][u]: its latest status, which is what pages are made of
    template,  \* "unsaved", "saved" or "deleted"
    stale,     \* what a GetItem may answer of it instead, a while longer
    pc,        \* pc[c]: the next call of the handler in slot c
    op,        \* op[c]: its operation
    id,        \* id[c]: the notification it is about
    status,    \* status[c]: the status it writes
    report,    \* report[c]: the results it reports, "none" of the others
    answer,    \* answer[c]: the status code of its last answer, 0 before
    accepted,  \* the notifications whose POST was answered 204
    told,      \* told[n]: the recipients whose SENT was answered 204
    failing,   \* failing[n]: the recipients some report says FAILED
    calls,     \* how many requests came
    faults     \* how many calls failed

itemVars == <<row, former, log>>
resultVars == <<results, latest>>
templateVars == <<template, stale>>
requestVars == <<op, id, status, report>>
ghostVars == <<accepted, told, failing>>
vars == <<itemVars, resultVars, templateVars, pc, requestVars, answer, ghostVars, calls, faults>>

Exists(n) == row[n] \in Statuses

Init ==
    /\ row = [n \in Ids |-> "unsaved"]
    /\ former = [n \in Ids |-> {}]
    /\ log = [n \in Ids |-> {}]
    /\ results = [n \in Ids |-> [u \in Recipients |-> "none"]]
    /\ latest = results
    /\ template = "unsaved" /\ stale = {}
    /\ pc = [c \in Clients |-> "idle"]
    /\ op = [c \in Clients |-> "get"]
    /\ id \in [Clients -> Ids]
    /\ status = [c \in Clients |-> "CREATED"]
    /\ report = [c \in Clients |-> [u \in Recipients |-> "none"]]
    /\ answer = [c \in Clients |-> 0]
    /\ accepted = {}
    /\ told = [n \in Ids |-> {}]
    /\ failing = told
    /\ calls = 0 /\ faults = 0

-----------------------------------------------------------------------------
(* Requests *)

GoTo(c, label) == pc' = [pc EXCEPT ![c] = label] /\ UNCHANGED answer

Reply(c, code) ==
    /\ pc' = [pc EXCEPT ![c] = "idle"]
    /\ answer' = [answer EXCEPT ![c] = code]

\* A call that fails uses up one of the faults
Spend(failed) ==
    /\ failed => faults < MaxFaults
    /\ faults' = IF failed THEN faults + 1 ELSE faults

Reported(c) == {u \in Recipients : report[c][u] # "none"}

FirstCall(o, n) ==
    CASE o = "save"                  -> IF n \in Templated THEN "variables" ELSE "put"
      [] o \in {"delete", "cancel"}  -> "status"
      [] o = "get"                   -> "item"
      [] o = "details"               -> "details"
      [] o \in {"update", "report"}  -> "exists"

\* The statuses a request may write
Written(o) ==
    CASE o = "update" -> {"QUEUED", "SENDING", "SENT", "FAILED"}
      [] o = "cancel" -> {"CANCELED"}
      [] OTHER        -> {"CREATED"}

\* A request arrives. Notifications are posted once; the publisher and the worker
\* write the status of those whose POST succeeded, and the worker reports what became
\* of their recipients; a client cancels, deletes or reads any that the list shows
Call(c) ==
    /\ pc[c] = "idle" /\ calls < MaxCalls
    /\ \E o \in Operations, n \in Ids :
          /\ o = "save" => row[n] = "unsaved" /\ \A d \in Clients : pc[d] # "idle" => id[d] # n
          /\ o # "save" => row[n] # "unsaved"
          /\ o \in {"update", "report"} => n \in accepted
          /\ op' = [op EXCEPT ![c] = o]
          /\ id' = [id EXCEPT ![c] = n]
          /\ GoTo(c, FirstCall(o, n))
          /\ \E s \in Written(o) : status' = [status EXCEPT ![c] = s]
          /\ IF o # "report"
             THEN UNCHANGED <<report, failing>>
             ELSE \E r \in [Recipients -> Results \cup {"none"}] :
                    /\ report' = [report EXCEPT ![c] = r]
                    /\ failing' = [failing EXCEPT
                                     ![n] = @ \cup {u \in Recipients : r[u] = "FAILED"}]
    /\ calls' = calls + 1
    /\ UNCHANGED <<itemVars, resultVars, templateVars, accepted, told, faults>>

\* The registry returns without an error
Succeed(c) ==
    /\ Reply(c, IF op[c] \in {"get", "details"} THEN 200 ELSE 204)
    /\ accepted' = IF op[c] = "save" THEN accepted \cup {id[c]} ELSE accepted
    /\ told' = IF op[c] = "report"
               THEN [told EXCEPT ![id[c]] = @ \cup {u \in Recipients : report[c][u] = "SENT"}]
               ELSE told
    /\ UNCHANGED failing

Refuse(c, code) == Reply(c, code) /\ UNCHANGED ghostVars
Continue(c, label) == GoTo(c, label) /\ UNCHANGED ghostVars

-----------------------------------------------------------------------------
(* Reads. A GetItem may answer what was there before the last writes *)

\* What it may find in the row, and whether it may find the template, or miss it
Found(n) == {row[n]} \cup former[n]
TemplateFound == {t = "saved" : t \in {template} \cup stale}

\* GetTemplateVariables: without a template, or with variables the request lacks, POST
\* answers 400
CheckVariables(c) ==
    /\ pc[c] = "variables"
    /\ \/ TRUE \in TemplateFound /\ Continue(c, "put")
       \/ Refuse(c, 400)
    /\ UNCHANGED <<itemVars, resultVars, templateVars, requestVars, calls, faults>>

\* Nothing is done for a report of no recipients. The new row of a POST may not be
\* found: its status stays without a log, and nobody learns its id
CheckExists(c) ==
    /\ pc[c] = "exists"
    /\ \E s \in Found(id[c]) :
          IF s \in Statuses
          THEN CASE op[c] # "report"                    -> Continue(c, "write")
                 [] op[c] = "report" /\ Reported(c) = {} -> Succeed(c)
                 [] op[c] = "report" /\ Reported(c) # {} -> Continue(c, "log")
          ELSE \* POST and CancelDelivery do not tell a missing row from a failure
               Refuse(c, IF op[c] \in {"save", "cancel"} THEN 500 ELSE 404)
    /\ UNCHANGED <<itemVars, resultVars, templateVars, requestVars, calls, faults>>

\* GetNotificationStatus, for DeleteNotification and for CancelDelivery without a cached
\* status
ReadStatus(c) ==
    /\ pc[c] = "status"
    /\ \E s \in Found(id[c]) :
          \/ op[c] = "delete" /\ s \in {"SENT", "FAILED", "CREATED"} /\ Continue(c, "remove")
          \/ op[c] = "delete" /\ s \in {"QUEUED", "SENDING", "CANCELED"} /\ Refuse(c, 500)
          \/ op[c] = "delete" /\ s \notin Statuses /\ Succeed(c)
          \/ op[c] = "cancel" /\ s \in {"SENDING", "SENT"} /\ Refuse(c, 400)
          \/ op[c] = "cancel" /\ s \in Statuses \ {"SENDING", "SENT"} /\ Continue(c, "exists")
          \/ op[c] = "cancel" /\ s \notin Statuses /\ Refuse(c, 404)
    /\ UNCHANGED <<itemVars, resultVars, templateVars, requestVars, calls, faults>>

\* GetNotification
ReadItem(c) ==
    /\ pc[c] = "item"
    /\ \E s \in Found(id[c]) : IF s \in Statuses THEN Succeed(c) ELSE Refuse(c, 404)
    /\ UNCHANGED <<itemVars, resultVars, templateVars, requestVars, calls, faults>>

\* GetTemplateDetails
ReadDetails(c) ==
    /\ pc[c] = "details"
    /\ \E there \in TemplateFound : IF there THEN Succeed(c) ELSE Refuse(c, 404)
    /\ UNCHANGED <<itemVars, resultVars, templateVars, requestVars, calls, faults>>

\* A read fails. GetTemplateDetails answers 200, with nothing, after its 500
ReadFails(c) ==
    /\ pc[c] \in {"variables", "exists", "status", "item", "details"}
    /\ Spend(TRUE)
    /\ IF pc[c] = "details" THEN Succeed(c) ELSE Refuse(c, 500)
    /\ UNCHANGED <<itemVars, resultVars, templateVars, requestVars, calls>>

\* The replicas catch up
Converge ==
    /\ \/ \E n \in Ids : former[n] # {} /\ former' = [former EXCEPT ![n] = {}]
                                        /\ UNCHANGED stale
       \/ stale # {} /\ stale' = {} /\ UNCHANGED former
    /\ UNCHANGED <<row, log, template, resultVars, pc, requestVars, answer, ghostVars, calls, faults>>

-----------------------------------------------------------------------------
(* Writes *)

SetRow(n, s) ==
    /\ row' = [row EXCEPT ![n] = s]
    /\ former' = [former EXCEPT ![n] = @ \cup {row[n]}]

\* PutItem of SaveNotification, with the SDK's own retries of it
Put(c) ==
    /\ pc[c] = "put"
    /\ \E done, ok \in BOOLEAN :
          /\ ok => done
          /\ Spend(~ok)
          /\ IF done THEN SetRow(id[c], "CREATED") ELSE UNCHANGED <<row, former>>
          /\ IF ok THEN Continue(c, "exists") ELSE Refuse(c, 500)
    /\ UNCHANGED <<log, resultVars, templateVars, requestVars, calls>>

\* Mutant of WriteStatus: the transaction has no condition
WriteStatusAnyway(c) ==
    LET n == id[c]
    IN  /\ pc[c] = "write"
        /\ SetRow(n, status[c])
        /\ log' = [log EXCEPT ![n] = @ \cup {status[c]}]
        /\ Succeed(c)
        /\ UNCHANGED <<resultVars, templateVars, requestVars, calls, faults>>

\* Mutant of WriteStatus: the row is written first, and then the log
WriteStatusInTwo(c) ==
    LET n == id[c]
    IN  /\ pc[c] = "write"
        /\ \E done, ok \in BOOLEAN :
              /\ Exists(n)
              /\ ok => done
              /\ Spend(~ok)
              /\ SetRow(n, status[c])
              /\ log' = IF done THEN [log EXCEPT ![n] = @ \cup {status[c]}] ELSE log
              /\ IF ok THEN Succeed(c) ELSE Refuse(c, 500)
        /\ UNCHANGED <<resultVars, templateVars, requestVars, calls>>

\* TransactWriteItems of UpdateNotificationStatus: the log and the status, on condition
\* that the item is there. An update of what was deleted meanwhile is an error, not a 404
WriteStatus(c) ==
    LET n == id[c]
    IN  /\ pc[c] = "write"
        /\ \E done, ok \in BOOLEAN :
              /\ done => Exists(n)
              /\ ok => done
              /\ Spend(~ok /\ Exists(n))
              /\ IF done
                 THEN SetRow(n, status[c]) /\ log' = [log EXCEPT ![n] = @ \cup {status[c]}]
                 ELSE UNCHANGED itemVars
              /\ IF ok THEN Succeed(c) ELSE Refuse(c, 500)
        /\ UNCHANGED <<resultVars, templateVars, requestVars, calls>>

\* DeleteItem, whatever its status is by now: the logs stay
RemoveItem(c) ==
    /\ pc[c] = "remove"
    /\ \E done, ok \in BOOLEAN :
          /\ ok => done
          /\ Spend(~ok)
          /\ IF done /\ Exists(id[c]) THEN SetRow(id[c], "deleted") ELSE UNCHANGED <<row, former>>
          /\ IF ok THEN Succeed(c) ELSE Refuse(c, 500)
    /\ UNCHANGED <<log, resultVars, templateVars, requestVars, calls>>

\* What a table says when these results of the report are put
With(table, c, who) ==
    [table EXCEPT ![id[c]] = [u \in Recipients |-> IF u \in who THEN report[c][u] ELSE @[u]]]

\* BatchWriteItem of all the results: too many are refused, and some may be left
\* unprocessed, which nobody looks at
LogResults(c) ==
    LET refused == Cardinality(Reported(c)) > BatchMax
    IN  /\ pc[c] = "log"
        /\ \E who \in SUBSET Reported(c), ok \in BOOLEAN :
              /\ refused => who = {} /\ ~ok
              /\ Spend(~refused /\ ~(ok /\ who = Reported(c)))
              /\ results' = With(results, c, who)
              /\ IF ok THEN Continue(c, "latest") ELSE Refuse(c, 500)
        /\ UNCHANGED <<itemVars, latest, templateVars, requestVars, calls>>

\* Mutant of PutLatest: another batch instead of a transaction
PutLatestInBatch(c) ==
    /\ pc[c] = "latest"
    /\ \E who \in SUBSET Reported(c) :
          /\ Spend(who # Reported(c))
          /\ latest' = With(latest, c, who)
    /\ Succeed(c)
    /\ UNCHANGED <<itemVars, results, templateVars, requestVars, calls>>

\* TransactWriteItems: all of them or none
PutLatest(c) ==
    /\ pc[c] = "latest"
    /\ \E done, ok \in BOOLEAN :
          /\ ok => done
          /\ Spend(~ok)
          /\ latest' = IF done THEN With(latest, c, Reported(c)) ELSE latest
          /\ IF ok THEN Succeed(c) ELSE Refuse(c, 500)
    /\ UNCHANGED <<itemVars, results, templateVars, requestVars, calls>>

\* A call that changes the template, and its answer does not matter here
WriteTemplate(before, after) ==
    /\ template = before
    /\ \E done \in BOOLEAN :
          /\ Spend(~done)
          /\ IF done
             THEN template' = after /\ stale' = stale \cup {template}
             ELSE UNCHANGED templateVars
    /\ UNCHANGED <<itemVars, resultVars, pc, requestVars, answer, ghostVars, calls>>

\* PutItem
SaveTemplate == WriteTemplate("unsaved", "saved")

\* DeleteItem. Unlike PostgreSQL's, the notifications of a deleted template stay, whatever
\* their status
DeleteTemplate == WriteTemplate("saved", "deleted")

Step(c) ==
    \/ CheckVariables(c) \/ CheckExists(c) \/ ReadStatus(c) \/ ReadItem(c) \/ ReadDetails(c)
    \/ Put(c) \/ WriteStatus(c) \/ RemoveItem(c) \/ LogResults(c) \/ PutLatest(c)

Next ==
    \/ \E c \in Clients : Call(c) \/ Step(c) \/ ReadFails(c)
    \/ SaveTemplate \/ DeleteTemplate
    \/ Converge

Spec == Init /\ [][Next]_vars

-----------------------------------------------------------------------------
(* Properties *)

TypeOK ==
    /\ row \in [Ids -> Statuses \cup {"unsaved", "deleted"}]
    /\ former \in [Ids -> SUBSET (Statuses \cup {"unsaved", "deleted"})]
    /\ log \in [Ids -> SUBSET Statuses]
    /\ {results, latest} \subseteq [Ids -> [Recipients -> Results \cup {"none"}]]
    /\ template \in {"unsaved", "saved", "deleted"}
    /\ stale \subseteq {"unsaved", "saved"}
    /\ pc \in [Clients -> {"idle", "variables", "put", "exists", "write", "status", "remove",
                           "item", "details", "log", "latest"}]
    /\ op \in [Clients -> Operations]
    /\ id \in [Clients -> Ids]
    /\ status \in [Clients -> Statuses]
    /\ report \in [Clients -> [Recipients -> Results \cup {"none"}]]
    /\ answer \in [Clients -> {0, 200, 204, 400, 404, 500}]
    /\ accepted \subseteq Ids
    /\ {told, failing} \subseteq [Ids -> SUBSET Recipients]
    /\ calls \in 0..MaxCalls
    /\ faults \in 0..MaxFaults

Promised == INSTANCE NotificationRegistry

\* DynamoNotifications implements NotificationRegistry: although it looks a row up by a
\* GetItem that may be stale, and deletes on the word of another, no write of a status
\* brings a deleted notification back (dynamodb/notification.go:255-318).
RegistryHolds == Promised!Spec

\* A status the row has is in the log, unless it is the CREATED of a POST that did not
\* succeed (notification.go:197-218: the item and its log are not one transaction, the
\* later statuses and theirs are).
LogTellsStatus ==
    \A n \in Ids : Exists(n) => \/ row[n] \in log[n]
                                \/ row[n] = "CREATED" /\ n \notin accepted

\* A recipient reported SENT by a report answered 204 is SENT in the pages the worker
\* skips recipients by, whatever failed, overlapped or was deleted in between, unless
\* another report says it failed (notification.go:566-639).
ToldIsLatest ==
    \A n \in Ids : \A u \in told[n] \ failing[n] : latest[n][u] = "SENT"
=============================================================================
