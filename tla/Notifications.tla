---------------------------- MODULE Notifications ----------------------------
(***************************************************************************)
(* The notifications of the service: the handlers of                       *)
(* service/internal/controllers/notifications.go and the publisher of      *)
(* service/internal/publish/priority.go, which share the registry (one row *)
(* per notification) and the Redis cache (one status per notification, and *)
(* the hash key that detects repeated requests). One action per call to    *)
(* the registry, the cache or the queue, so that handlers interleave.      *)
(*                                                                         *)
(* A request is its own notification: SaveNotification makes a fresh id.   *)
(* The handlers of an id that exists run in the slots Calls.               *)
(*                                                                         *)
(* As in Worker, a call answers, fails, or takes effect and still fails;   *)
(* failing calls, crashes and expired cache keys are FAULTS, bounded by    *)
(* MaxFaults.                                                              *)
(***************************************************************************)
EXTENDS Naturals, FiniteSets

CONSTANTS
    Requests,       \* the POST /notifications requests
    Queue,          \* Queue[n]: the queue of request n's priority
    Templated,      \* the requests with TemplateContents
    Template,       \* Template[n]: the template they name
    Calls,          \* slots for the other handlers: how many run at a time
    Operations,     \* the operations the slots run
    PatchStatuses,  \* the statuses a PATCH writes, which the worker sends as a PUT
    MaxFaults       \* bound on the faults of a behaviour

Statuses == {"CREATED", "QUEUED", "SENDING", "SENT", "FAILED", "CANCELED"}

ASSUME NotificationsAssumption ==
    /\ IsFiniteSet(Requests) /\ IsFiniteSet(Calls)
    /\ Templated \subseteq Requests
    /\ Operations \subseteq {"cancel", "delete", "update", "get"}
    /\ PatchStatuses # {} /\ PatchStatuses \subseteq {"SENDING", "SENT", "FAILED"}
    /\ MaxFaults \in Nat

VARIABLES
    row,        \* row[n]: the status in the registry, "unsaved" or "deleted"
    cached,     \* cached[n]: the status in the cache, "none" without a key
    hashKey,    \* the hash key in the cache: "none" or "set"
    configured, \* the queues there are (it never changes)
    fifo,       \* TRUE: FIFO queues of SQS, FALSE: queues of RabbitMQ (it never changes)
    window,     \* the FIFO queues that got a message within the deduplication interval
    templates,  \* the templates that are there
    published,  \* the requests whose message is in its queue, or was
    step,       \* step[n]: the next call of request n's handler or goroutine
    outcome,    \* outcome[n]: the status the publisher reports, QUEUED or FAILED
    erred,      \* the requests whose Publish returns an error
    reply,      \* reply[n]: what POST /notifications answered
    pc,         \* pc[k]: the next call of the handler in slot k
    op,         \* op[k]: its operation, "none" before the first
    id,         \* id[k]: the notification it is about
    new,        \* new[k]: the status it writes
    answer,     \* answer[k]: what it answered last
    answered,   \* answered[n]: the requests replied 204 when n was posted
    patched,    \* the notifications a PATCH reported SENDING or SENT for
    raced,      \* the notifications with two writers of the status at once
    faults      \* how many faults happened

queueVars == <<published, window, fifo, configured, templates>>
storeVars == <<row, cached, hashKey, queueVars>>
postVars == <<step, outcome, erred, reply>>
callVars == <<pc, op, id, new, answer>>
ghostVars == <<answered, patched, raced>>
vars == <<row, cached, hashKey, published, window, fifo, configured, templates, step,
          outcome, erred, reply, pc, op, id, new, answer, answered, patched, raced, faults>>

Saved(n) == row[n] # "unsaved"
Exists(n) == row[n] \notin {"unsaved", "deleted"}
HasQueue(n) == Queue[n] \in configured
HasTemplate(n) == n \in Templated => Template[n] \in templates
Running(k) == pc[k] # "idle"

Init ==
    /\ row = [n \in Requests |-> "unsaved"]
    /\ cached = [n \in Requests |-> "none"]
    /\ hashKey = "none"
    /\ published = {}
    /\ window = {}
    /\ fifo \in BOOLEAN
    /\ configured \in SUBSET {Queue[n] : n \in Requests}
    /\ templates = {Template[n] : n \in Templated}
    /\ step = [n \in Requests |-> "new"]
    /\ outcome = [n \in Requests |-> "QUEUED"]
    /\ erred = {}
    /\ reply = [n \in Requests |-> "none"]
    /\ pc = [k \in Calls |-> "idle"]
    /\ op = [k \in Calls |-> "none"]
    /\ id \in [Calls -> Requests]
    /\ new = [k \in Calls |-> "CANCELED"]
    /\ answer = [k \in Calls |-> "none"]
    /\ answered = [n \in Requests |-> {}]
    /\ patched = {}
    /\ raced = {}
    /\ faults = 0

-----------------------------------------------------------------------------
(* Outcomes of calls *)

NoFault == faults' = faults

Fault ==
    /\ faults < MaxFaults
    /\ faults' = faults + 1

\* the request goes on with the call `next`
GoOn(n, next) == step' = [step EXCEPT ![n] = next]

\* POST answers `code` and leaves no goroutine behind
Refuse(n, code) ==
    /\ GoOn(n, "done")
    /\ reply' = [reply EXCEPT ![n] = code]

\* the handler in slot k goes on with the call `next`
GoTo(k, next) ==
    /\ pc' = [pc EXCEPT ![k] = next]
    /\ UNCHANGED answer

\* the handler in slot k answers
Answer(k, code) ==
    /\ pc' = [pc EXCEPT ![k] = "idle"]
    /\ answer' = [answer EXCEPT ![k] = code]

\* writes to the cache and to the row of a notification that is there
CacheStatus(n, s) == cached' = [cached EXCEPT ![n] = s]
StoreStatus(n, s) == row' = [row EXCEPT ![n] = s]

-----------------------------------------------------------------------------
(* Seeded defects: variants of the definitions below that a run must tell apart *)

\* the hash key is set as soon as it was found missing
CheckHashSets(n) ==
    /\ step[n] = "checkHash"
    /\ \/ NoFault /\ hashKey = "set" /\ Refuse(n, "204") /\ UNCHANGED hashKey
       \/ NoFault /\ hashKey = "none" /\ hashKey' = "set" /\ GoOn(n, "save") /\ UNCHANGED reply
       \/ Fault /\ Refuse(n, "500") /\ UNCHANGED hashKey
    /\ UNCHANGED <<row, cached, queueVars, outcome, erred, callVars, ghostVars>>

\* the hash key is never set
SetHashNot(n) ==
    /\ step[n] = "setHash"
    /\ \/ NoFault /\ UNCHANGED hashKey
       \/ Fault /\ hashKey' \in {hashKey, "set"}
    /\ GoOn(n, "publish")
    /\ reply' = [reply EXCEPT ![n] = "204"]
    /\ UNCHANGED <<row, cached, queueVars, outcome, erred, callVars, ghostVars>>

\* the goroutine is never started
SetHashOnly(n) ==
    /\ step[n] = "setHash"
    /\ \/ NoFault /\ hashKey' = "set"
       \/ Fault /\ hashKey' \in {hashKey, "set"}
    /\ GoOn(n, "done")
    /\ reply' = [reply EXCEPT ![n] = "204"]
    /\ UNCHANGED <<row, cached, queueVars, outcome, erred, callVars, ghostVars>>

\* a publication that failed is reported like the others
PublishStatusQueued(failed) == IF failed THEN "QUEUED" ELSE "QUEUED"

\* the outcome is stored without looking whether the row is there
StoreOutcomeUpsert(n) ==
    /\ step[n] = "storeOutcome"
    /\ \/ /\ NoFault
          /\ StoreStatus(n, outcome[n])
          /\ GoOn(n, IF n \in erred THEN "dropHash" ELSE "done")
          /\ UNCHANGED erred
       \/ /\ IF Exists(n) THEN Fault /\ (StoreStatus(n, outcome[n]) \/ UNCHANGED row)
                          ELSE NoFault /\ UNCHANGED row
          /\ GoOn(n, "dropHash")
          /\ erred' = erred \cup {n}
    /\ UNCHANGED <<cached, hashKey, queueVars, outcome, reply, callVars, ghostVars>>

\* QUEUED is refused like SENDING
DecideRefusesQueued(k, s) ==
    \/ op[k] = "get" /\ Answer(k, "200")
    \/ op[k] = "cancel" /\ s \in {"QUEUED", "SENDING", "SENT"} /\ Answer(k, "400")
    \/ op[k] = "cancel" /\ s \notin {"QUEUED", "SENDING", "SENT"} /\ GoTo(k, "writeCache")
    \/ op[k] = "delete" /\ s \in {"SENT", "FAILED", "CREATED"} /\ GoTo(k, "remove")
    \/ op[k] = "delete" /\ s \notin {"SENT", "FAILED", "CREATED"} /\ Answer(k, "500")

\* UpdateStatus leaves the cache alone
WriteRowOnly(k) ==
    /\ pc[k] = "writeRow"
    /\ \/ /\ NoFault /\ Exists(id[k])
          /\ StoreStatus(id[k], new[k])
          /\ Answer(k, "204")
       \/ NoFault /\ ~Exists(id[k]) /\ UNCHANGED row /\ Answer(k, "500")
       \/ /\ Fault /\ Exists(id[k])
          /\ StoreStatus(id[k], new[k]) \/ UNCHANGED row
          /\ Answer(k, "500")
    /\ UNCHANGED <<cached, hashKey, queueVars, postVars, op, id, new, ghostVars>>

-----------------------------------------------------------------------------
(* CreateNotification *)

Post(n) ==
    /\ step[n] = "new"
    /\ GoOn(n, "checkHash")
    /\ answered' = [answered EXCEPT ![n] = {m \in Requests : reply[m] = "204"}]
    /\ UNCHANGED <<storeVars, outcome, erred, reply, callVars, patched, raced, faults>>

\* The hash is that of the body ShouldBindJSON has already drained: every request has the
\* same one.
CheckHash(n) ==
    /\ step[n] = "checkHash"
    /\ \/ NoFault /\ hashKey = "set" /\ Refuse(n, "204")
       \/ NoFault /\ hashKey = "none" /\ GoOn(n, "save") /\ UNCHANGED reply
       \/ Fault /\ Refuse(n, "500")
    /\ UNCHANGED <<storeVars, outcome, erred, callVars, ghostVars>>

\* The request lacks variables of its template, or the row is saved in a transaction. The
\* variables of an unknown template are none, and the foreign key then refuses the row.
Save(n) ==
    /\ step[n] = "save"
    /\ \/ NoFault /\ n \in Templated /\ Refuse(n, "400") /\ UNCHANGED row
       \/ NoFault /\ ~HasTemplate(n) /\ Refuse(n, "500") /\ UNCHANGED row
       \/ /\ NoFault /\ HasTemplate(n)
          /\ StoreStatus(n, "CREATED") /\ GoOn(n, "cacheCreated") /\ UNCHANGED reply
       \/ /\ Fault
          /\ (HasTemplate(n) /\ StoreStatus(n, "CREATED")) \/ UNCHANGED row
          /\ Refuse(n, "500")
    /\ UNCHANGED <<cached, hashKey, queueVars, outcome, erred, callVars, ghostVars>>

\* an error is only logged
CacheCreated(n) ==
    /\ step[n] = "cacheCreated"
    /\ \/ NoFault /\ CacheStatus(n, "CREATED")
       \/ Fault /\ (CacheStatus(n, "CREATED") \/ UNCHANGED cached)
    /\ GoOn(n, "setHash")
    /\ UNCHANGED <<row, hashKey, queueVars, outcome, erred, reply, callVars, ghostVars>>

\* the handler replies and leaves the publishing to a goroutine
SetHash(n) ==
    /\ step[n] = "setHash"
    /\ \/ NoFault /\ hashKey' = "set"
       \/ Fault /\ hashKey' \in {hashKey, "set"}
    /\ GoOn(n, "publish")
    /\ reply' = [reply EXCEPT ![n] = "204"]
    /\ UNCHANGED <<row, cached, queueVars, outcome, erred, callVars, ghostVars>>

-----------------------------------------------------------------------------
(* Priority.Publish, in the goroutine *)

\* the status Publish reports
PublishStatus(failed) == IF failed THEN "FAILED" ELSE "QUEUED"

\* The queue gets the message of n. A FIFO queue of SQS discards it, without an error, while
\* it remembers another with the same deduplication id, and that is the request's hash.
Discarded(n) == fifo /\ Queue[n] \in window

Enqueue(n) ==
    \/ Discarded(n) /\ UNCHANGED <<published, window>>
    \/ /\ ~Discarded(n)
       /\ published' = published \cup {n}
       /\ window' = IF fifo THEN window \cup {Queue[n]} ELSE window

\* without a queue for the priority Publish returns an error and writes no status
Publish(n) ==
    /\ step[n] = "publish"
    /\ IF ~HasQueue(n)
       THEN /\ NoFault
            /\ GoOn(n, "dropHash")
            /\ erred' = erred \cup {n}
            /\ UNCHANGED <<published, window, outcome>>
       ELSE /\ GoOn(n, "cacheOutcome")
            /\ \/ /\ NoFault
                  /\ Enqueue(n)
                  /\ outcome' = [outcome EXCEPT ![n] = PublishStatus(FALSE)]
                  /\ UNCHANGED erred
               \/ /\ Fault
                  /\ Enqueue(n) \/ UNCHANGED <<published, window>>
                  /\ outcome' = [outcome EXCEPT ![n] = PublishStatus(TRUE)]
                  /\ erred' = erred \cup {n}
    /\ UNCHANGED <<row, cached, hashKey, fifo, configured, templates, reply, callVars,
                   ghostVars>>

CacheOutcome(n) ==
    /\ step[n] = "cacheOutcome"
    /\ \/ NoFault /\ CacheStatus(n, outcome[n]) /\ UNCHANGED erred
       \/ /\ Fault
          /\ CacheStatus(n, outcome[n]) \/ UNCHANGED cached
          /\ erred' = erred \cup {n}
    /\ GoOn(n, "checkRow")
    /\ UNCHANGED <<row, hashKey, queueVars, outcome, reply, callVars, ghostVars>>

\* the registry looks the notification up before it opens the transaction ...
CheckRow(n) ==
    /\ step[n] = "checkRow"
    /\ \/ NoFault /\ Exists(n) /\ GoOn(n, "storeOutcome") /\ UNCHANGED erred
       \/ /\ IF Exists(n) THEN Fault ELSE NoFault
          /\ GoOn(n, "dropHash")
          /\ erred' = erred \cup {n}
    /\ UNCHANGED <<storeVars, outcome, reply, callVars, ghostVars>>

\* ... which fails if the notification is gone by then
StoreOutcome(n) ==
    /\ step[n] = "storeOutcome"
    /\ \/ /\ NoFault /\ Exists(n)
          /\ StoreStatus(n, outcome[n])
          /\ GoOn(n, IF n \in erred THEN "dropHash" ELSE "done")
          /\ UNCHANGED erred
       \/ /\ IF Exists(n) THEN Fault /\ (StoreStatus(n, outcome[n]) \/ UNCHANGED row)
                          ELSE NoFault /\ UNCHANGED row
          /\ GoOn(n, "dropHash")
          /\ erred' = erred \cup {n}
    /\ UNCHANGED <<cached, hashKey, queueVars, outcome, reply, callVars, ghostVars>>

\* Publish returned an error: deleteNotificationHash
DropHash(n) ==
    /\ step[n] = "dropHash"
    /\ \/ NoFault /\ hashKey' = "none"
       \/ Fault /\ hashKey' \in {hashKey, "none"}
    /\ GoOn(n, "done")
    /\ UNCHANGED <<row, cached, queueVars, outcome, erred, reply, callVars, ghostVars>>

-----------------------------------------------------------------------------
(* CancelDelivery, DeleteNotification, UpdateStatus and GetStatus *)

\* the processes about to write the status of n
Writers(n) ==
    {k \in Calls : Running(k) /\ id[k] = n /\ op[k] \in {"cancel", "update"}}
Publishing(n) ==
    step[n] \in {"cacheCreated", "setHash", "publish", "cacheOutcome", "checkRow",
                 "storeOutcome"}

FirstCall(o) ==
    CASE o \in {"cancel", "get"} -> "readCache"
      [] o = "delete" -> "readRow"
      [] o = "update" -> "checkRow"

\* a request about a notification that was saved arrives
Begin(k) ==
    /\ ~Running(k)
    /\ \E o \in Operations, n \in {m \in Requests : Saved(m)}, s \in PatchStatuses :
          /\ pc' = [pc EXCEPT ![k] = FirstCall(o)]
          /\ op' = [op EXCEPT ![k] = o]
          /\ id' = [id EXCEPT ![k] = n]
          /\ new' = [new EXCEPT ![k] = IF o = "update" THEN s ELSE "CANCELED"]
          /\ answer' = [answer EXCEPT ![k] = "none"]
          /\ patched' = IF o = "update" /\ s \in {"SENDING", "SENT"} THEN patched \cup {n}
                                                                   ELSE patched
          /\ raced' = IF /\ o \in {"cancel", "update"}
                         /\ Writers(n) # {} \/ Publishing(n)
                      THEN raced \cup {n} ELSE raced
    /\ UNCHANGED <<storeVars, postVars, answered, faults>>

\* what a handler does with the status s it found
Decide(k, s) ==
    \/ op[k] = "get" /\ Answer(k, "200")
    \/ op[k] = "cancel" /\ s \in {"SENDING", "SENT"} /\ Answer(k, "400")
    \/ op[k] = "cancel" /\ s \notin {"SENDING", "SENT"} /\ GoTo(k, "writeCache")
    \/ op[k] = "delete" /\ s \in {"SENT", "FAILED", "CREATED"} /\ GoTo(k, "remove")
    \/ op[k] = "delete" /\ s \notin {"SENT", "FAILED", "CREATED"} /\ Answer(k, "500")

\* seeded defect: a status that is not cached is not looked up
ReadCacheOnly(k) ==
    /\ pc[k] = "readCache"
    /\ \/ NoFault /\ cached[id[k]] # "none" /\ Decide(k, cached[id[k]])
       \/ NoFault /\ cached[id[k]] = "none" /\ Answer(k, "404")
       \/ Fault /\ Answer(k, "500")
    /\ UNCHANGED <<storeVars, postVars, op, id, new, ghostVars>>

\* getNotificationStatus asks the cache first
ReadCache(k) ==
    /\ pc[k] = "readCache"
    /\ \/ NoFault /\ cached[id[k]] # "none" /\ Decide(k, cached[id[k]])
       \/ NoFault /\ cached[id[k]] = "none" /\ GoTo(k, "readRow")
       \/ Fault /\ Answer(k, "500")
    /\ UNCHANGED <<storeVars, postVars, op, id, new, ghostVars>>

\* a DELETE of what is not there succeeds
ReadRow(k) ==
    /\ pc[k] = "readRow"
    /\ \/ NoFault /\ Exists(id[k]) /\ Decide(k, row[id[k]])
       \/ NoFault /\ ~Exists(id[k]) /\ Answer(k, IF op[k] = "delete" THEN "204" ELSE "404")
       \/ Fault /\ Answer(k, "500")
    /\ UNCHANGED <<storeVars, postVars, op, id, new, ghostVars>>

\* CancelDelivery writes the cache before the registry, UpdateStatus after it
WriteCache(k) ==
    /\ pc[k] = "writeCache"
    /\ \/ /\ NoFault
          /\ CacheStatus(id[k], new[k])
          /\ IF op[k] = "cancel" THEN GoTo(k, "checkRow") ELSE Answer(k, "204")
       \/ /\ Fault
          /\ CacheStatus(id[k], new[k]) \/ UNCHANGED cached
          /\ Answer(k, "500")
    /\ UNCHANGED <<row, hashKey, queueVars, postVars, op, id, new, ghostVars>>

\* Registry.UpdateNotificationStatus: CancelDelivery does not tell a missing row apart
CheckCallRow(k) ==
    /\ pc[k] = "checkRow"
    /\ \/ NoFault /\ Exists(id[k]) /\ GoTo(k, "writeRow")
       \/ NoFault /\ ~Exists(id[k]) /\ Answer(k, IF op[k] = "update" THEN "404" ELSE "500")
       \/ Fault /\ Answer(k, "500")
    /\ UNCHANGED <<storeVars, postVars, op, id, new, ghostVars>>

WriteRow(k) ==
    /\ pc[k] = "writeRow"
    /\ \/ /\ NoFault /\ Exists(id[k])
          /\ StoreStatus(id[k], new[k])
          /\ IF op[k] = "update" THEN GoTo(k, "writeCache") ELSE Answer(k, "204")
       \/ NoFault /\ ~Exists(id[k]) /\ UNCHANGED row /\ Answer(k, "500")
       \/ /\ Fault /\ Exists(id[k])
          /\ StoreStatus(id[k], new[k]) \/ UNCHANGED row
          /\ Answer(k, "500")
    /\ UNCHANGED <<cached, hashKey, queueVars, postVars, op, id, new, ghostVars>>

\* the row goes, whatever its status is by now; its cached status stays
Remove(k) ==
    /\ pc[k] = "remove"
    /\ \/ NoFault /\ StoreStatus(id[k], "deleted") /\ Answer(k, "204")
       \/ /\ Fault
          /\ StoreStatus(id[k], "deleted") \/ UNCHANGED row
          /\ Answer(k, "500")
    /\ UNCHANGED <<cached, hashKey, queueVars, postVars, op, id, new, ghostVars>>

-----------------------------------------------------------------------------
(* The templates, the service process and the cache *)

\* DeleteTemplate: ON DELETE CASCADE takes the template's notifications along, whatever
\* their status
DeleteTemplate(n) ==
    /\ n \in Templated /\ HasTemplate(n)
    /\ templates' = templates \ {Template[n]}
    /\ row' = [m \in Requests |->
                  IF m \in Templated /\ Template[m] = Template[n] /\ Exists(m)
                  THEN "deleted" ELSE row[m]]
    /\ UNCHANGED <<cached, hashKey, published, window, fifo, configured, postVars, callVars,
                   ghostVars, faults>>

\* the service restarts: handlers and goroutines are gone, their requests unanswered
Restart ==
    /\ Fault
    /\ step' = [n \in Requests |-> IF step[n] = "new" THEN "new" ELSE "done"]
    /\ pc' = [k \in Calls |-> "idle"]
    /\ answer' = [k \in Calls |-> IF Running(k) THEN "none" ELSE answer[k]]
    /\ UNCHANGED <<storeVars, outcome, erred, reply, op, id, new, ghostVars>>

\* NotificationStatusTTL, NotificationHashTTL or the deduplication interval is over
Forget ==
    /\ Fault
    /\ \/ \E n \in Requests : /\ cached[n] # "none"
                              /\ CacheStatus(n, "none")
                              /\ UNCHANGED <<hashKey, window>>
       \/ hashKey = "set" /\ hashKey' = "none" /\ UNCHANGED <<cached, window>>
       \/ \E q \in window : window' = window \ {q} /\ UNCHANGED <<cached, hashKey>>
    /\ UNCHANGED <<row, published, fifo, configured, templates, postVars, callVars, ghostVars>>

PostStep(n) ==
    \/ CheckHash(n) \/ Save(n) \/ CacheCreated(n) \/ SetHash(n)
    \/ Publish(n) \/ CacheOutcome(n) \/ CheckRow(n) \/ StoreOutcome(n) \/ DropHash(n)

CallStep(k) ==
    \/ ReadCache(k) \/ ReadRow(k) \/ WriteCache(k) \/ CheckCallRow(k) \/ WriteRow(k)
    \/ Remove(k)

Next ==
    \/ \E n \in Requests : Post(n) \/ PostStep(n) \/ DeleteTemplate(n)
    \/ \E k \in Calls : Begin(k) \/ CallStep(k)
    \/ Restart
    \/ Forget

Spec == Init /\ [][Next]_vars

\* the calls of a handler and of the goroutine return at last
FairSpec == Spec /\ \A n \in Requests : WF_vars(PostStep(n))

-----------------------------------------------------------------------------
(* Properties *)

TypeOK ==
    /\ row \in [Requests -> Statuses \cup {"unsaved", "deleted"}]
    /\ cached \in [Requests -> Statuses \cup {"none"}]
    /\ hashKey \in {"none", "set"}
    /\ published \in SUBSET Requests
    /\ window \in SUBSET {Queue[n] : n \in Requests}
    /\ fifo \in BOOLEAN
    /\ configured \in SUBSET {Queue[n] : n \in Requests}
    /\ templates \in SUBSET {Template[n] : n \in Templated}
    /\ step \in [Requests -> {"new", "checkHash", "save", "cacheCreated", "setHash",
                              "publish", "cacheOutcome", "checkRow", "storeOutcome",
                              "dropHash", "done"}]
    /\ outcome \in [Requests -> {"QUEUED", "FAILED"}]
    /\ erred \in SUBSET Requests
    /\ reply \in [Requests -> {"none", "204", "400", "500"}]
    /\ pc \in [Calls -> {"idle", "readCache", "readRow", "writeCache", "checkRow",
                         "writeRow", "remove"}]
    /\ op \in [Calls -> {"none", "cancel", "delete", "update", "get"}]
    /\ id \in [Calls -> Requests]
    /\ new \in [Calls -> PatchStatuses \cup {"CANCELED"}]
    /\ answer \in [Calls -> {"none", "200", "204", "400", "404", "500"}]
    /\ answered \in [Requests -> SUBSET Requests]
    /\ patched \in SUBSET Requests
    /\ raced \in SUBSET Requests
    /\ faults \in 0..MaxFaults

Promised == INSTANCE NotificationRegistry WITH Ids <- Requests

\* Notifications implements NotificationRegistry: a row is saved once, and neither a
\* status write that looked the notification up before it was deleted nor the end of a
\* POST brings it back (postgres/notification.go:258-305 and its foreign key).
RegistryHolds == Promised!Spec

\* A handler that answered 404 was right, and stays right (notifications.go:245-247,
\* 397-399, 426-428).
NotFoundIsFinal ==
    \A k \in Calls : answer[k] = "404" => row[id[k]] = "deleted"

\* A cancellation is refused only if a PATCH did report SENDING or SENT for this very
\* notification (notifications.go:239-262).
RefusalIsTrue ==
    \A k \in Calls : answer[k] = "400" => id[k] \in patched

\* The message of n is in its queue or was, or a FIFO queue discarded it in favour of the
\* message of another request.
Taken(n) ==
    \/ n \in published
    \/ fifo /\ \E m \in published \ {n} : Queue[m] = Queue[n]

\* QUEUED is never claimed, in the cache or in the registry, for a message the queue did not
\* get. On SQS it may be claimed for one the queue got and discarded, of whatever content,
\* but then another request's message is in the same queue (priority.go:75-106, sqs.go:29).
QueuedIsPublished ==
    \A n \in Requests : "QUEUED" \in {row[n], cached[n]} => Taken(n)

\* When the writers of a notification's status took turns and nothing failed, the cache
\* agrees with the registry once they are done (notifications.go:264-275, 396-410).
CacheAgrees ==
    \A n \in Requests :
        (/\ Exists(n) /\ cached[n] # "none"
         /\ Writers(n) = {} /\ ~Publishing(n) /\ n \notin raced
         /\ faults = 0)
        => cached[n] = row[n]

\* A request repeated after its 204 is not queued a second time, as long as no publication
\* returned an error and no key expired (notifications.go:126-133, 182-208).
RepeatsDetected ==
    faults = 0 /\ erred = {} =>
        \A n \in published : published \cap answered[n] \subseteq {n}

\* A 204 stands for a notification that was saved, if not for the request's own: without one
\* it was taken for the repetition of a request that was saved and answered 204. Repetitions
\* are not told from different requests, so no more is promised (notifications.go:111-133).
AcceptedOrRepeated ==
    \A n \in Requests :
        reply[n] = "204" => \/ Saved(n)
                            \/ \E m \in Requests \ {n} : reply[m] = "204" /\ Saved(m)

\* The message of a request that was saved and answered 204 gets to the queue at last, if
\* nothing fails and the priority has a queue; on SQS to be discarded, if another request's
\* message is there (openapi.yaml:65; the goroutine of notifications.go:188-208).
SavedIsQueued ==
    \A n \in Requests :
        (reply[n] = "204" /\ Saved(n) /\ HasQueue(n)) ~> (Taken(n) \/ faults > 0)
=============================================================================
