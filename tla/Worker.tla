------------------------------- MODULE Worker -------------------------------
(***************************************************************************)
(* The delivery of ONE notification by the workers that consume its queue  *)
(* message: ProcessNotification of worker/internal/worker/worker.go, one   *)
(* action per call it makes, and the queue as the two consumers see it.    *)
(*                                                                         *)
(* A call over the network returns an answer, fails before it took effect, *)
(* or takes effect and still returns an error (the connection breaks, or   *)
(* the client rejects the answer). Failing calls, crashes and visibility   *)
(* timeouts that expire under a running attempt are the FAULTS of a        *)
(* behaviour; MaxFaults bounds them.                                       *)
(***************************************************************************)
EXTENDS Naturals, FiniteSets

CONSTANTS
    Workers,            \* the worker processes
    Direct,             \* Payload.Recipients
    Members,            \* the recipients of Payload.DistributionList
    UsesTemplate,       \* Payload.TemplateContents != nil
    ServiceStatuses,    \* the statuses the service's own handlers may write meanwhile
    MaxFaults,          \* bound on the faults of a behaviour
    MaxCount            \* the delivery counters saturate here

Channels == {"in-app", "e-mail"}
Recipients == Direct \cup Members
Statuses == {"CREATED", "QUEUED", "SENDING", "SENT", "FAILED", "CANCELED"}
\* "none": no entry in the recipients' status log
Entries == {"none", "SENT", "FAILED"}

ASSUME WorkerAssumption ==
    /\ Workers # {}
    /\ IsFiniteSet(Direct) /\ IsFiniteSet(Members)
    /\ UsesTemplate \in BOOLEAN
    /\ ServiceStatuses \subseteq Statuses \ {"SENDING", "SENT"}
    /\ MaxFaults \in Nat
    /\ MaxCount \in Nat /\ MaxCount >= 2

VARIABLES
    status,     \* what the service answers to GetNotificationStatus
    log,        \* log[r][c]: latest entry of recipient r on channel c
    queue,      \* "visible", "hidden" (delivered, not acknowledged), or how it was
                \* removed: "processed" or "canceled"
    timeout,    \* TRUE: SQS, which hides a delivered message for its visibility timeout;
                \* FALSE: RabbitMQ, until the channel closes (it never changes)
    holder,     \* the worker the message was last delivered to (at most one)
    pc,         \* pc[w]: the next call of worker w
    batch,      \* batch[w]: recipientsToSend
    infos,      \* infos[w]: the members of batch[w] whose UserInfo was found
    failed,     \* failed[w]: the channels whose SendNotifications returned an error
    delivered,  \* delivered[r][c]: how often r really received the notification on c
    skipped,    \* recipients without UserInfo in the attempt that removed the message
    dropped,    \* the workers that decided to skip the message as canceled
    faults      \* how many faults happened

serviceVars == <<status, log>>
queueVars == <<queue, timeout, holder>>
localVars == <<pc, batch, infos, failed>>
ghostVars == <<delivered, skipped, dropped>>
vars == <<status, log, queue, timeout, holder, pc, batch, infos, failed, delivered, skipped,
          dropped, faults>>

Removed == queue \in {"processed", "canceled"}
Busy(w) == pc[w] # "idle"

Init ==
    /\ status \in {"CREATED", "QUEUED"}
    /\ log = [r \in Recipients |-> [c \in Channels |-> "none"]]
    /\ queue = "visible"
    /\ timeout \in BOOLEAN
    /\ holder = {}
    /\ pc = [w \in Workers |-> "idle"]
    /\ batch = [w \in Workers |-> {}]
    /\ infos = [w \in Workers |-> {}]
    /\ failed = [w \in Workers |-> {}]
    /\ delivered = [r \in Recipients |-> [c \in Channels |-> 0]]
    /\ skipped = {}
    /\ dropped = {}
    /\ faults = 0

-----------------------------------------------------------------------------
(* Outcomes of calls *)

NoFault == faults' = faults

Fault ==
    /\ faults < MaxFaults
    /\ faults' = faults + 1

\* worker w goes on with the call `next`
GoTo(w, next) == pc' = [pc EXCEPT ![w] = next]

\* ProcessNotification returns: the locals are gone
Return(w) ==
    /\ GoTo(w, "idle")
    /\ batch' = [batch EXCEPT ![w] = {}]
    /\ infos' = [infos EXCEPT ![w] = {}]
    /\ failed' = [failed EXCEPT ![w] = {}]

\* w calls UpdateNotificationStatus(s); an error leads to failProcess
WriteStatus(w, s, next) ==
    \/ NoFault /\ status' = s /\ GoTo(w, next)
    \/ Fault /\ status' \in {status, s} /\ GoTo(w, "failProcess")

\* w calls Ack. Once the message was delivered to another worker the receipt of w may
\* be expired, so the call may fail without any fault.
Acknowledge(w, how) ==
    \/ /\ NoFault
       /\ queue' = IF Removed THEN queue ELSE how
       /\ skipped' = IF Removed THEN skipped ELSE batch[w] \ infos[w]
       /\ Return(w)
    \/ /\ Fault \/ (w \notin holder /\ NoFault)
       /\ \/ UNCHANGED <<queue, skipped>>
          \/ /\ ~Removed
             /\ queue' = how
             /\ skipped' = batch[w] \ infos[w]
       /\ GoTo(w, "failProcess")
       /\ UNCHANGED <<batch, infos, failed>>

\* a recipient named directly and by the list is in the batch twice
Occurrences(r) == IF r \in Direct \cap Members THEN 2 ELSE 1
Saturated(n) == IF n > MaxCount THEN MaxCount ELSE n

\* the recipients of S receive the notification on channel c
Deliver(S, c) ==
    delivered' = [r \in Recipients |-> [k \in Channels |->
        IF r \in S /\ k = c THEN Saturated(delivered[r][k] + Occurrences(r))
                            ELSE delivered[r][k]]]

\* GetRecipientNotificationStatuses answers with an entry of r. The worker asks for the
\* SENT entries of the requested channels; the service binds neither filter and answers
\* with every entry, FAILED ones too.
Answers(r) == \E c \in Channels : log[r][c] # "none"

\* SendNotifications for the whole batch; an error may come after part of it was sent
Send(w, c, next) ==
    /\ \/ NoFault /\ Deliver(infos[w], c) /\ UNCHANGED failed
       \/ /\ Fault
          /\ \E reached \in SUBSET infos[w] : Deliver(reached, c)
          /\ failed' = [failed EXCEPT ![w] = @ \cup {c}]
    /\ GoTo(w, next)
    /\ UNCHANGED <<serviceVars, queueVars, batch, infos, skipped, dropped>>

-----------------------------------------------------------------------------
(* Seeded defects: variants of the definitions below that a run must tell apart *)

\* the list's recipients are forgotten
GetRecipientsDirectOnly(w) ==
    /\ pc[w] = "getRecipients"
    /\ NoFault
    /\ batch' = [batch EXCEPT ![w] = {r \in Direct : ~Answers(r)}]
    /\ GoTo(w, IF batch'[w] = {} THEN "markAllSent" ELSE "getUserInfo")
    /\ UNCHANGED <<serviceVars, queueVars, infos, failed, ghostVars>>

\* the recipients that were already sent to are not filtered out
GetRecipientsUnfiltered(w) ==
    /\ pc[w] = "getRecipients"
    /\ NoFault
    /\ batch' = [batch EXCEPT ![w] = Recipients]
    /\ GoTo(w, IF batch'[w] = {} THEN "markAllSent" ELSE "getUserInfo")
    /\ UNCHANGED <<serviceVars, queueVars, infos, failed, ghostVars>>

\* with nobody left to send to, ProcessNotification returns without acknowledging
MarkAllSentOnly(w) ==
    /\ pc[w] = "markAllSent"
    /\ WriteStatus(w, "SENT", "idle")
    /\ UNCHANGED <<log, queueVars, batch, infos, failed, ghostVars>>

\* the e-mails are handed to the in-app sender
SendEmailInApp(w) ==
    /\ pc[w] = "sendEmail"
    /\ Send(w, "in-app", "markOutcome")

\* SENT is reported whatever failed
MarkOutcomeSent(w) ==
    /\ pc[w] = "markOutcome"
    /\ WriteStatus(w, "SENT", "record")
    /\ UNCHANGED <<log, queueVars, batch, infos, failed, ghostVars>>

\* every entry is SENT, also on the channels that failed
RecordedAllSent(w) ==
    [r \in Recipients |-> [c \in Channels |->
        IF r \in infos[w] THEN "SENT" ELSE log[r][c]]]

\* the message is acknowledged before its recipients are recorded
MarkOutcomeThenAck(w) ==
    /\ pc[w] = "markOutcome"
    /\ WriteStatus(w, IF "in-app" \in failed[w] THEN "FAILED" ELSE "SENT", "ack")
    /\ UNCHANGED <<log, queueVars, batch, infos, failed, ghostVars>>

-----------------------------------------------------------------------------
(* ProcessNotification *)

\* Start takes the next message from its channel
Receive(w) ==
    /\ pc[w] = "idle"
    /\ queue = "visible"
    /\ queue' = "hidden"
    /\ holder' = {w}
    /\ GoTo(w, "getStatus")
    /\ UNCHANGED <<serviceVars, timeout, batch, infos, failed, ghostVars, faults>>

GetStatus(w) ==
    /\ pc[w] = "getStatus"
    /\ \/ /\ NoFault
          /\ IF status = "CANCELED"
             THEN GoTo(w, "ackCanceled") /\ dropped' = dropped \cup {w}
             ELSE GoTo(w, "markSending") /\ UNCHANGED dropped
       \/ Fault /\ GoTo(w, "failProcess") /\ UNCHANGED dropped
    /\ UNCHANGED <<serviceVars, queueVars, batch, infos, failed, delivered, skipped>>

AckCanceled(w) ==
    /\ pc[w] = "ackCanceled"
    /\ Acknowledge(w, "canceled")
    /\ UNCHANGED <<serviceVars, timeout, holder, delivered, dropped>>

MarkSending(w) ==
    /\ pc[w] = "markSending"
    /\ WriteStatus(w, "SENDING", "getRecipients")
    /\ UNCHANGED <<log, queueVars, batch, infos, failed, ghostVars>>

\* the recipients that have no answered entry yet; with nobody left, SENT is written
GetRecipients(w) ==
    /\ pc[w] = "getRecipients"
    /\ \/ /\ NoFault
          /\ batch' = [batch EXCEPT ![w] = {r \in Recipients : ~Answers(r)}]
          /\ GoTo(w, IF batch'[w] = {} THEN "markAllSent" ELSE "getUserInfo")
       \/ Fault /\ GoTo(w, "failProcess") /\ UNCHANGED batch
    /\ UNCHANGED <<serviceVars, queueVars, infos, failed, ghostVars>>

MarkAllSent(w) ==
    /\ pc[w] = "markAllSent"
    /\ WriteStatus(w, "SENT", "ack")
    /\ UNCHANGED <<log, queueVars, batch, infos, failed, ghostVars>>

\* one GetUserInfo per recipient: those that fail are dropped from this attempt, and
\* the flag that remembers it is overwritten at line 374
GetUserInfo(w) ==
    /\ pc[w] = "getUserInfo"
    /\ \E found \in SUBSET batch[w] :
          /\ IF found = batch[w] THEN NoFault ELSE Fault
          /\ infos' = [infos EXCEPT ![w] = found]
    /\ GoTo(w, IF UsesTemplate THEN "getTemplate" ELSE "sendInApp")
    /\ UNCHANGED <<serviceVars, queueVars, batch, failed, ghostVars>>

GetTemplate(w) ==
    /\ pc[w] = "getTemplate"
    /\ \/ NoFault /\ GoTo(w, "sendInApp")
       \/ Fault /\ GoTo(w, "failProcess")
    /\ UNCHANGED <<serviceVars, queueVars, batch, infos, failed, ghostVars>>

SendInApp(w) ==
    /\ pc[w] = "sendInApp"
    /\ Send(w, "in-app", "sendEmail")

SendEmail(w) ==
    /\ pc[w] = "sendEmail"
    /\ Send(w, "e-mail", "markOutcome")

\* only the in-app channel decides between SENT and FAILED
MarkOutcome(w) ==
    /\ pc[w] = "markOutcome"
    /\ WriteStatus(w, IF "in-app" \in failed[w] THEN "FAILED" ELSE "SENT", "record")
    /\ UNCHANGED <<log, queueVars, batch, infos, failed, ghostVars>>

\* One entry per recipient found and channel. Both registries refuse a request that
\* holds the same recipient and channel twice.
Rejected(w) == infos[w] \cap Direct \cap Members # {}

Recorded(w) ==
    [r \in Recipients |-> [c \in Channels |->
        IF r \in infos[w] THEN (IF c \in failed[w] THEN "FAILED" ELSE "SENT")
                          ELSE log[r][c]]]

\* UpdateRecipientNotificationStatus, then the attempt is acknowledged if no channel failed
Record(w) ==
    /\ pc[w] = "record"
    /\ \/ /\ ~Rejected(w)
          /\ NoFault
          /\ log' = Recorded(w)
          /\ IF failed[w] = {} THEN GoTo(w, "ack") /\ UNCHANGED <<batch, infos, failed>>
                               ELSE Return(w)
       \/ /\ IF Rejected(w) THEN NoFault /\ UNCHANGED log
                            ELSE Fault /\ log' \in {log, Recorded(w)}
          /\ GoTo(w, "failProcess")
          /\ UNCHANGED <<batch, infos, failed>>
    /\ UNCHANGED <<status, queueVars, ghostVars>>

Ack(w) ==
    /\ pc[w] = "ack"
    /\ Acknowledge(w, "processed")
    /\ UNCHANGED <<serviceVars, timeout, holder, delivered, dropped>>

\* the error of this last write is only logged
FailProcess(w) ==
    /\ pc[w] = "failProcess"
    /\ \/ NoFault /\ status' = "FAILED"
       \/ Fault /\ status' \in {status, "FAILED"}
    /\ Return(w)
    /\ UNCHANGED <<log, queueVars, ghostVars>>

-----------------------------------------------------------------------------
(* The queue, the processes and the service around an attempt *)

\* SQS: the visibility timeout expires. It is a fault if the last receiver still works.
Expire ==
    /\ timeout
    /\ queue = "hidden"
    /\ queue' = "visible"
    /\ IF \E w \in holder : Busy(w) THEN Fault ELSE NoFault
    /\ UNCHANGED <<serviceVars, timeout, holder, localVars, ghostVars>>

\* a worker process dies and restarts; RabbitMQ then requeues what it held
Restart(w) ==
    /\ Busy(w) \/ (~timeout /\ queue = "hidden" /\ w \in holder)
    /\ IF Busy(w) THEN Fault ELSE NoFault
    /\ Return(w)
    /\ queue' = IF ~timeout /\ queue = "hidden" /\ w \in holder
                THEN "visible" ELSE queue
    /\ UNCHANGED <<serviceVars, timeout, holder, ghostVars>>

\* a handler of the service writes the status: a client cancels, or the publisher's
\* goroutine reports QUEUED or FAILED late
ServiceWrites ==
    /\ status' \in ServiceStatuses \ {status}
    /\ UNCHANGED <<log, queueVars, localVars, ghostVars, faults>>

\* the call worker w is about to make
Step(w) ==
    \/ GetStatus(w) \/ AckCanceled(w) \/ MarkSending(w) \/ GetRecipients(w)
    \/ MarkAllSent(w) \/ GetUserInfo(w) \/ GetTemplate(w) \/ SendInApp(w)
    \/ SendEmail(w) \/ MarkOutcome(w) \/ Record(w) \/ Ack(w) \/ FailProcess(w)

Next ==
    \/ \E w \in Workers : Receive(w) \/ Step(w) \/ Restart(w)
    \/ Expire
    \/ ServiceWrites

Spec == Init /\ [][Next]_vars

\* A worker that is up takes a visible message and goes on with its calls, each of which
\* returns at last; the visibility timeout of SQS expires at last.
FairSpec ==
    /\ Spec
    /\ \A w \in Workers : WF_vars(Step(w)) /\ WF_vars(Receive(w))
    /\ WF_vars(Expire)

-----------------------------------------------------------------------------
(* Properties *)

TypeOK ==
    /\ status \in Statuses
    /\ log \in [Recipients -> [Channels -> Entries]]
    /\ queue \in {"visible", "hidden", "processed", "canceled"}
    /\ timeout \in BOOLEAN
    /\ holder \in SUBSET Workers
    /\ pc \in [Workers -> {"idle", "getStatus", "ackCanceled", "markSending",
                           "getRecipients", "markAllSent", "getUserInfo", "getTemplate",
                           "sendInApp", "sendEmail", "markOutcome", "record", "ack",
                           "failProcess"}]
    /\ batch \in [Workers -> SUBSET Recipients]
    /\ infos \in [Workers -> SUBSET Recipients]
    /\ failed \in [Workers -> SUBSET Channels]
    /\ delivered \in [Recipients -> [Channels -> Nat]]
    /\ skipped \in SUBSET Recipients
    /\ dropped \in SUBSET Workers
    /\ faults \in 0..MaxFaults

Logged(r) == \E c \in Channels : log[r][c] # "none"
Reached(r) == \E c \in Channels : delivered[r][c] > 0

\* A message leaves the queue as processed only when every recipient has an entry in the
\* status log, or was dropped because its user information was missing: no interleaving
\* of attempts, crashes and lost answers loses a recipient (worker.go:396-404).
AckMeansLogged ==
    queue = "processed" => \A r \in Recipients : Logged(r) \/ r \in skipped

\* ... and whom it did not reach on any channel the service knows of: the log calls the
\* recipient FAILED on both, or its user information was missing (worker.go:188-212).
UnreachedIsTold ==
    queue = "processed" =>
        \A r \in Recipients :
            Reached(r) \/ r \in skipped \/ \A c \in Channels : log[r][c] = "FAILED"

\* What the worker asks the statuses query for: the recipients to leave out are those that
\* were SENT to (worker.go:152-176), so a processed message has reached everybody.
AckMeansReached ==
    queue = "processed" => \A r \in Recipients : Reached(r) \/ r \in skipped

\* A SENT entry is never a lie: the recipient received the notification on that channel
\* (worker.go:188-200, whatever attempt wrote the entry).
SentEntryIsTrue ==
    \A r \in Recipients, c \in Channels : log[r][c] = "SENT" => delivered[r][c] > 0

\* A worker reports SENT only when each recipient received the notification in-app, has
\* an entry of an earlier attempt, or was dropped by this attempt (worker.go:314, 365-382).
SentReportAccountsForAll ==
    [][\A w \in Workers :
          (Step(w) /\ status' = "SENT" /\ status # "SENT") =>
              \A r \in Recipients :
                  Logged(r) \/ delivered[r]["in-app"] > 0 \/ r \in batch[w] \ infos[w]]_vars

\* On a queue that hands a message to one worker at a time (RabbitMQ), a recipient with an
\* answered entry is never sent to again, whatever fails or restarts (worker.go:164-176).
RecordedNeverResent ==
    [][\A r \in Recipients : ~timeout /\ Answers(r) => delivered'[r] = delivered[r]]_vars

\* Every repetition is paid for by a fault: without overlap between the list and the
\* direct recipients, nobody receives more than one copy plus one per fault.
DuplicatesNeedFaults ==
    \A r \in Recipients, c \in Channels : delivered[r][c] <= 1 + faults

\* Once a worker has skipped the message as canceled (worker.go:282), nothing is sent
\* any more.
SkippedStaysUnsent ==
    [][dropped # {} => delivered' = delivered]_vars

\* On SQS the message is removed at last: retries stop (worker.go:396-404, sqs.go:81-92).
EventuallyRemoved == timeout => <>Removed
=============================================================================
