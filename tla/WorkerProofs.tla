---------------------------- MODULE WorkerProofs ----------------------------
(***************************************************************************)
(* Theorems about Worker, for any sets of workers and recipients, any      *)
(* number of faults and both kinds of queue.                               *)
(***************************************************************************)
EXTENDS Worker, FiniteSetTheorems, TLAPS

\* the attempt of w has fixed its batch
HasBatch(w) ==
    pc[w] \in {"markAllSent", "getUserInfo", "getTemplate", "sendInApp", "sendEmail",
               "markOutcome", "record", "ack"}

\* the attempt of w has called SendNotifications of channel c
HasSent(w, c) ==
    \/ pc[w] \in {"markOutcome", "record"}
    \/ pc[w] = "sendEmail" /\ c = "in-app"

\* the recipients whose user information was found are in the batch, which is empty
\* until the recipients were read
BatchOK(w) ==
    /\ infos[w] \subseteq batch[w]
    /\ pc[w] \in {"idle", "getStatus", "ackCanceled", "markSending", "getRecipients",
                  "markAllSent"} => batch[w] = {}

\* whoever is not in the batch has an entry
OthersLogged(w) == HasBatch(w) => \A r \in Recipients \ batch[w] : Logged(r)

\* at the acknowledgement the batch is recorded too
BatchLogged(w) == pc[w] = "ack" => \A r \in infos[w] : Logged(r)

\* a channel that did not fail reached everyone it was called for
SentIsDelivered(w) ==
    \A c \in Channels :
        HasSent(w, c) /\ c \notin failed[w] => \A r \in infos[w] : delivered[r][c] > 0

AttemptInv(w) ==
    /\ BatchOK(w)
    /\ OthersLogged(w)
    /\ BatchLogged(w)
    /\ SentIsDelivered(w)

\* The inductive invariant: AckMeansLogged needs to know what each attempt has
\* established at its acknowledgement, SentEntryIsTrue what it has at its recording.
IInv ==
    /\ TypeOK
    /\ \A w \in Workers : AttemptInv(w)
    /\ AckMeansLogged
    /\ SentEntryIsTrue

-----------------------------------------------------------------------------
(* Type correctness *)

LEMMA TypeInit == Init => TypeOK
  BY WorkerAssumption DEF Init, TypeOK, Statuses, Entries, Channels

LEMMA TypeStep ==
    ASSUME TypeOK, NEW w \in Workers, Receive(w) \/ Step(w) \/ Restart(w)
    PROVE  TypeOK'
<1> USE WorkerAssumption DEF TypeOK
<1>1. CASE Receive(w)
  BY <1>1 DEF Receive, GoTo, serviceVars, ghostVars
<1>2. CASE GetStatus(w)
  BY <1>2 DEF GetStatus, GoTo, NoFault, Fault, serviceVars, queueVars, ghostVars
<1>3. CASE AckCanceled(w)
  <2>1. PICK how \in {"processed", "canceled"} : Acknowledge(w, how)
    BY <1>3 DEF AckCanceled
  <2>2. /\ queue' \in {"visible", "hidden", "processed", "canceled"}
        /\ skipped' \in SUBSET Recipients
    BY <2>1 DEF Acknowledge
  <2>3. faults' \in 0..MaxFaults
    BY <2>1 DEF Acknowledge, NoFault, Fault
  <2>4. Return(w) \/ (GoTo(w, "failProcess") /\ UNCHANGED <<batch, infos, failed>>)
    BY <2>1 DEF Acknowledge
  <2>5. QED
    BY <1>3, <2>2, <2>3, <2>4 DEF AckCanceled, Return, GoTo, serviceVars
<1>4. CASE MarkSending(w)
  BY <1>4 DEF MarkSending, WriteStatus, GoTo, NoFault, Fault, Statuses, queueVars, ghostVars
<1>5. CASE GetRecipients(w)
  <2>1. \/ batch' = [batch EXCEPT ![w] = {r \in Recipients : ~Answers(r)}]
        \/ UNCHANGED batch
    BY <1>5 DEF GetRecipients
  <2>2. batch' \in [Workers -> SUBSET Recipients]
    BY <2>1
  <2>3. PICK l \in {"markAllSent", "getUserInfo", "failProcess"} : GoTo(w, l)
    BY <1>5 DEF GetRecipients
  <2>4. faults' \in 0..MaxFaults
    BY <1>5 DEF GetRecipients, NoFault, Fault
  <2>5. QED
    BY <1>5, <2>2, <2>3, <2>4 DEF GetRecipients, GoTo, serviceVars, queueVars, ghostVars
<1>6. CASE MarkAllSent(w)
  BY <1>6 DEF MarkAllSent, WriteStatus, GoTo, NoFault, Fault, Statuses, queueVars, ghostVars
<1>7. CASE GetUserInfo(w)
  BY <1>7 DEF GetUserInfo, GoTo, NoFault, Fault, serviceVars, queueVars, ghostVars
<1>8. CASE GetTemplate(w)
  BY <1>8 DEF GetTemplate, GoTo, NoFault, Fault, serviceVars, queueVars, ghostVars
<1>9. ASSUME NEW c \in Channels, NEW next \in {"sendEmail", "markOutcome"}, Send(w, c, next)
      PROVE  TypeOK'
  <2>1. \A S : Deliver(S, c) => delivered' \in [Recipients -> [Channels -> Nat]]
    BY DEF Deliver, Saturated, Occurrences
  <2>2. delivered' \in [Recipients -> [Channels -> Nat]]
    BY <1>9, <2>1 DEF Send
  <2>3. QED
    BY <1>9, <2>2 DEF Send, GoTo, NoFault, Fault, serviceVars, queueVars
<1>10. CASE SendInApp(w)
  BY <1>9, <1>10 DEF SendInApp, Channels
<1>11. CASE SendEmail(w)
  BY <1>9, <1>11 DEF SendEmail, Channels
<1>12. CASE MarkOutcome(w)
  BY <1>12 DEF MarkOutcome, WriteStatus, GoTo, NoFault, Fault, Statuses, queueVars, ghostVars
<1>13. CASE Record(w)
  <2>1. Recorded(w) \in [Recipients -> [Channels -> Entries]]
    BY DEF Recorded, Entries
  <2>2. log' \in [Recipients -> [Channels -> Entries]]
    BY <1>13, <2>1 DEF Record
  <2>3. faults' \in 0..MaxFaults
    BY <1>13 DEF Record, NoFault, Fault
  <2>4. \/ GoTo(w, "ack") /\ UNCHANGED <<batch, infos, failed>>
        \/ GoTo(w, "failProcess") /\ UNCHANGED <<batch, infos, failed>>
        \/ Return(w)
    BY <1>13 DEF Record
  <2>5. QED
    BY <1>13, <2>2, <2>3, <2>4 DEF Record, Return, GoTo, queueVars, ghostVars
<1>14. CASE Ack(w)
  <2>1. PICK how \in {"processed", "canceled"} : Acknowledge(w, how)
    BY <1>14 DEF Ack
  <2>2. /\ queue' \in {"visible", "hidden", "processed", "canceled"}
        /\ skipped' \in SUBSET Recipients
    BY <2>1 DEF Acknowledge
  <2>3. faults' \in 0..MaxFaults
    BY <2>1 DEF Acknowledge, NoFault, Fault
  <2>4. Return(w) \/ (GoTo(w, "failProcess") /\ UNCHANGED <<batch, infos, failed>>)
    BY <2>1 DEF Acknowledge
  <2>5. QED
    BY <1>14, <2>2, <2>3, <2>4 DEF Ack, Return, GoTo, serviceVars
<1>15. CASE FailProcess(w)
  BY <1>15 DEF FailProcess, Return, GoTo, NoFault, Fault, Statuses, queueVars, ghostVars
<1>16. CASE Restart(w)
  BY <1>16 DEF Restart, Return, GoTo, NoFault, Fault, serviceVars, ghostVars
<1>17. QED
  BY <1>1, <1>2, <1>3, <1>4, <1>5, <1>6, <1>7, <1>8, <1>10, <1>11, <1>12, <1>13, <1>14,
     <1>15, <1>16 DEF Step

LEMMA TypeNext == TypeOK /\ [Next]_vars => TypeOK'
<1> SUFFICES ASSUME TypeOK, [Next]_vars PROVE TypeOK'
  OBVIOUS
<1>1. ASSUME NEW w \in Workers, Receive(w) \/ Step(w) \/ Restart(w) PROVE TypeOK'
  BY <1>1, TypeStep
<1>2. CASE Expire
  BY <1>2, WorkerAssumption
     DEF TypeOK, Expire, NoFault, Fault, serviceVars, localVars, ghostVars
<1>3. CASE ServiceWrites
  BY <1>3, WorkerAssumption
     DEF TypeOK, ServiceWrites, queueVars, localVars, ghostVars
<1>4. CASE UNCHANGED vars
  BY <1>4 DEF TypeOK, vars
<1>5. QED
  BY <1>1, <1>2, <1>3, <1>4 DEF Next

\* Every variable keeps its type: in particular the status log never holds anything but
\* SENT and FAILED entries, and the faults stay within their bound.
THEOREM TypeCorrect == Spec => []TypeOK
  BY TypeInit, TypeNext, PTL DEF Spec

-----------------------------------------------------------------------------
(* What a step leaves alone *)

\* the steps of one worker do not touch the locals of another
LEMMA OtherLocals ==
    ASSUME TypeOK, NEW w \in Workers, NEW v \in Workers, v # w,
           Receive(w) \/ Step(w) \/ Restart(w)
    PROVE  /\ pc'[v] = pc[v]
           /\ batch'[v] = batch[v]
           /\ infos'[v] = infos[v]
           /\ failed'[v] = failed[v]
<1> USE DEF TypeOK, GoTo, Return
<1>1. CASE Receive(w) \/ Restart(w) \/ FailProcess(w)
  BY <1>1 DEF Receive, Restart, FailProcess
<1>2. CASE AckCanceled(w) \/ Ack(w)
  BY <1>2 DEF AckCanceled, Ack, Acknowledge
<1>3. CASE MarkSending(w) \/ MarkAllSent(w) \/ MarkOutcome(w)
  BY <1>3 DEF MarkSending, MarkAllSent, MarkOutcome, WriteStatus
<1>4. CASE GetStatus(w) \/ GetRecipients(w) \/ GetUserInfo(w) \/ GetTemplate(w)
  BY <1>4 DEF GetStatus, GetRecipients, GetUserInfo, GetTemplate
<1>5. CASE SendInApp(w) \/ SendEmail(w)
  BY <1>5 DEF SendInApp, SendEmail, Send
<1>6. CASE Record(w)
  BY <1>6 DEF Record
<1>7. QED
  BY <1>1, <1>2, <1>3, <1>4, <1>5, <1>6 DEF Step

\* an entry of the log is overwritten, never removed
LEMMA LoggedStays ==
    ASSUME TypeOK, [Next]_vars, NEW r \in Recipients, Logged(r)
    PROVE  Logged(r)'
<1>1. CASE log' = log
  BY <1>1 DEF Logged
<1>2. ASSUME NEW w \in Workers, log' = Recorded(w)
      PROVE  Logged(r)'
  BY <1>2 DEF Logged, Recorded, Channels
<1>3. log' = log \/ \E w \in Workers : log' = Recorded(w)
  BY DEF Next, vars, serviceVars, Receive, Step, Restart, Expire, ServiceWrites, GetStatus,
         AckCanceled, MarkSending, GetRecipients, MarkAllSent, GetUserInfo, GetTemplate,
         SendInApp, SendEmail, Send, MarkOutcome, Record, Ack, FailProcess
<1>4. QED
  BY <1>1, <1>2, <1>3

\* what was received stays received
LEMMA DeliveredGrows ==
    ASSUME TypeOK, [Next]_vars, NEW r \in Recipients, NEW c \in Channels,
           delivered[r][c] > 0
    PROVE  delivered'[r][c] > 0
<1>1. CASE delivered' = delivered
  BY <1>1
<1>2. ASSUME NEW S, NEW k, Deliver(S, k)
      PROVE  delivered'[r][c] > 0
  BY <1>2, WorkerAssumption DEF Deliver, Saturated, Occurrences, TypeOK
<1>3. delivered' = delivered \/ \E S \in SUBSET Recipients, k \in Channels : Deliver(S, k)
  BY DEF TypeOK, Channels, Next, vars, ghostVars, Receive, Step, Restart, Expire, ServiceWrites,
         GetStatus, AckCanceled, MarkSending, GetRecipients, MarkAllSent, GetUserInfo,
         GetTemplate, SendInApp, SendEmail, Send, MarkOutcome, Record, Ack, FailProcess
<1>4. QED
  BY <1>1, <1>2, <1>3

-----------------------------------------------------------------------------
(* The inductive invariant *)

LEMMA InitIInv == Init => IInv
<1> SUFFICES ASSUME Init PROVE IInv
  OBVIOUS
<1>1. TypeOK
  BY TypeInit
<1>2. AckMeansLogged /\ SentEntryIsTrue
  BY DEF Init, AckMeansLogged, SentEntryIsTrue
<1>3. \A w \in Workers : AttemptInv(w)
  BY DEF Init, AttemptInv, BatchOK, OthersLogged, HasBatch, BatchLogged, SentIsDelivered,
         HasSent
<1>4. QED
  BY <1>1, <1>2, <1>3 DEF IInv

\* the steps of the other workers and of the environment preserve what w relies on
LEMMA AttemptUndisturbed ==
    ASSUME TypeOK, [Next]_vars, NEW w \in Workers, AttemptInv(w),
           pc'[w] = pc[w], batch'[w] = batch[w], infos'[w] = infos[w],
           failed'[w] = failed[w]
    PROVE  AttemptInv(w)'
<1>1. BatchOK(w)'
  BY DEF AttemptInv, BatchOK
<1>2. OthersLogged(w)'
  BY LoggedStays DEF AttemptInv, OthersLogged, HasBatch
<1>3. BatchLogged(w)'
  BY LoggedStays DEF AttemptInv, BatchOK, BatchLogged, TypeOK
<1>4. SentIsDelivered(w)'
  BY DeliveredGrows DEF AttemptInv, BatchOK, SentIsDelivered, HasSent, TypeOK
<1>5. QED
  BY <1>1, <1>2, <1>3, <1>4 DEF AttemptInv

\* an attempt preserves its own invariant
LEMMA AttemptAdvances ==
    ASSUME TypeOK, TypeOK', [Next]_vars, NEW w \in Workers, AttemptInv(w),
           Receive(w) \/ Step(w) \/ Restart(w)
    PROVE  AttemptInv(w)'
<1> USE DEF AttemptInv, GoTo
<1>1. CASE Return(w)
  BY <1>1 DEF Return, TypeOK, BatchOK, OthersLogged, HasBatch, BatchLogged,
              SentIsDelivered, HasSent
<1>2. ASSUME GoTo(w, "failProcess") \/ GoTo(w, "getStatus") \/ GoTo(w, "ackCanceled")
                \/ GoTo(w, "markSending") \/ GoTo(w, "getRecipients"),
             UNCHANGED <<batch, infos, failed>>,
             batch[w] = {} \/ GoTo(w, "failProcess")
      PROVE  AttemptInv(w)'
  BY <1>2 DEF TypeOK, BatchOK, OthersLogged, HasBatch, BatchLogged, SentIsDelivered, HasSent
<1>3. CASE Receive(w) \/ GetStatus(w) \/ MarkSending(w)
  <2>1. batch[w] = {} /\ UNCHANGED <<batch, infos, failed>>
    BY <1>3 DEF Receive, GetStatus, MarkSending, BatchOK
  <2>2. GoTo(w, "failProcess") \/ GoTo(w, "getStatus") \/ GoTo(w, "ackCanceled")
           \/ GoTo(w, "markSending") \/ GoTo(w, "getRecipients")
    BY <1>3 DEF Receive, GetStatus, MarkSending, WriteStatus
  <2>3. QED
    BY <1>2, <2>1, <2>2
<1>4. CASE AckCanceled(w) \/ Ack(w) \/ FailProcess(w) \/ Restart(w)
  BY <1>1, <1>2, <1>4 DEF AckCanceled, Ack, Acknowledge, FailProcess, Restart
<1>5. CASE GetRecipients(w)
  <2>1. CASE GoTo(w, "failProcess")
    BY <1>2, <1>5, <2>1 DEF GetRecipients, TypeOK
  <2>2. CASE /\ batch' = [batch EXCEPT ![w] = {r \in Recipients : ~Answers(r)}]
             /\ GoTo(w, IF batch'[w] = {} THEN "markAllSent" ELSE "getUserInfo")
    <3>1. \A r \in Recipients : Answers(r) => Logged(r)'
      BY <1>5 DEF Answers, Logged, GetRecipients, serviceVars
    <3>2. /\ pc'[w] \in {"markAllSent", "getUserInfo"}
          /\ pc'[w] = "markAllSent" => batch'[w] = {}
          /\ batch'[w] = {r \in Recipients : ~Answers(r)}
          /\ infos'[w] = {}
      BY <1>5, <2>2 DEF GetRecipients, TypeOK, BatchOK
    <3>3. QED
      BY <3>1, <3>2 DEF BatchOK, OthersLogged, BatchLogged, SentIsDelivered, HasSent
  <2>3. QED
    BY <1>5, <2>1, <2>2 DEF GetRecipients
<1>6. CASE MarkAllSent(w)
  <2>1. CASE GoTo(w, "failProcess")
    BY <1>2, <1>6, <2>1 DEF MarkAllSent
  <2>2. CASE GoTo(w, "ack")
    <3>1. /\ pc'[w] = "ack" /\ batch'[w] = {} /\ infos'[w] = {}
          /\ pc[w] = "markAllSent" /\ batch[w] = {}
      BY <1>6, <2>2 DEF MarkAllSent, TypeOK, BatchOK
    <3>2. QED
      BY <3>1, LoggedStays
         DEF BatchOK, OthersLogged, HasBatch, BatchLogged, SentIsDelivered, HasSent
  <2>3. QED
    BY <1>6, <2>1, <2>2 DEF MarkAllSent, WriteStatus
<1>7. CASE GetUserInfo(w)
  <2>1. /\ pc[w] = "getUserInfo" /\ pc'[w] \in {"getTemplate", "sendInApp"}
        /\ batch'[w] = batch[w] /\ infos'[w] \subseteq batch[w]
    BY <1>7 DEF GetUserInfo, TypeOK
  <2>2. QED
    BY <2>1, LoggedStays
       DEF BatchOK, OthersLogged, HasBatch, BatchLogged, SentIsDelivered, HasSent
<1>8. CASE GetTemplate(w)
  <2>1. CASE GoTo(w, "failProcess")
    BY <1>2, <1>8, <2>1 DEF GetTemplate
  <2>2. CASE GoTo(w, "sendInApp")
    <3>1. /\ pc[w] = "getTemplate" /\ pc'[w] = "sendInApp"
          /\ batch'[w] = batch[w] /\ infos'[w] = infos[w]
      BY <1>8, <2>2 DEF GetTemplate, TypeOK
    <3>2. QED
      BY <3>1, LoggedStays
         DEF BatchOK, OthersLogged, HasBatch, BatchLogged, SentIsDelivered, HasSent
  <2>3. QED
    BY <1>8, <2>1, <2>2 DEF GetTemplate
<1>9. ASSUME NEW c \in Channels, NEW next \in {"sendEmail", "markOutcome"},
             Send(w, c, next),
             \A k \in Channels : HasSent(w, k)' => HasSent(w, k) \/ k = c,
             pc[w] \in {"sendInApp", "sendEmail"}
      PROVE  AttemptInv(w)'
  <2>1. /\ pc'[w] = next /\ batch'[w] = batch[w] /\ infos'[w] = infos[w]
        /\ failed[w] \subseteq failed'[w]
        /\ UNCHANGED log
    BY <1>9 DEF Send, TypeOK, serviceVars
  <2>2. BatchOK(w)' /\ OthersLogged(w)' /\ BatchLogged(w)'
    BY <1>9, <2>1 DEF BatchOK, OthersLogged, HasBatch, BatchLogged, Logged
  <2>3. c \in failed'[w] \/ Deliver(infos[w], c)
    BY <1>9 DEF Send, TypeOK
  <2>4. Deliver(infos[w], c) => \A r \in infos[w] : delivered'[r][c] > 0
    BY WorkerAssumption DEF Deliver, Saturated, Occurrences, TypeOK
  <2>5. SentIsDelivered(w)'
    <3> SUFFICES ASSUME NEW k \in Channels, HasSent(w, k)', k \notin failed'[w],
                        NEW r \in infos'[w]
                 PROVE  delivered'[r][k] > 0
      BY DEF SentIsDelivered
    <3>1. CASE k = c
      BY <2>1, <2>3, <2>4, <3>1
    <3>2. CASE k # c
      <4>1. HasSent(w, k) /\ k \notin failed[w] /\ r \in infos[w] /\ r \in Recipients
        BY <1>9, <2>1, <3>2 DEF TypeOK
      <4>2. delivered[r][k] > 0
        BY <4>1 DEF SentIsDelivered
      <4>3. QED
        BY <4>1, <4>2, DeliveredGrows
    <3>3. QED
      BY <3>1, <3>2
  <2>6. QED
    BY <2>2, <2>5
<1>10. CASE SendInApp(w)
  <2>1. \A k \in Channels : HasSent(w, k)' => HasSent(w, k) \/ k = "in-app"
    BY <1>10 DEF SendInApp, Send, HasSent, TypeOK
  <2>2. QED
    BY <1>9, <1>10, <2>1 DEF SendInApp, Channels
<1>11. CASE SendEmail(w)
  <2>1. \A k \in Channels : HasSent(w, k)' => HasSent(w, k) \/ k = "e-mail"
    BY <1>11 DEF SendEmail, Send, HasSent, TypeOK, Channels
  <2>2. QED
    BY <1>9, <1>11, <2>1 DEF SendEmail, Channels
<1>12. CASE MarkOutcome(w)
  <2>1. CASE GoTo(w, "failProcess")
    BY <1>2, <1>12, <2>1 DEF MarkOutcome
  <2>2. CASE GoTo(w, "record")
    <3>1. /\ pc[w] = "markOutcome" /\ pc'[w] = "record"
          /\ batch'[w] = batch[w] /\ infos'[w] = infos[w] /\ failed'[w] = failed[w]
          /\ UNCHANGED <<log, delivered>>
      BY <1>12, <2>2 DEF MarkOutcome, TypeOK, ghostVars
    <3>2. QED
      BY <3>1 DEF BatchOK, OthersLogged, HasBatch, BatchLogged, SentIsDelivered, HasSent,
                  Logged
  <2>3. QED
    BY <1>12, <2>1, <2>2 DEF MarkOutcome, WriteStatus
<1>13. CASE Record(w)
  <2>1. CASE GoTo(w, "failProcess") /\ UNCHANGED <<batch, infos, failed>>
    BY <1>2, <2>1
  <2>2. CASE log' = Recorded(w) /\ GoTo(w, "ack") /\ UNCHANGED <<batch, infos, failed>>
    <3>1. /\ pc[w] = "record" /\ pc'[w] = "ack"
          /\ batch'[w] = batch[w] /\ infos'[w] = infos[w]
          /\ infos[w] \subseteq Recipients
      BY <1>13, <2>2 DEF Record, TypeOK
    <3>2. \A r \in infos[w] : Logged(r)'
      BY <2>2, <3>1 DEF Recorded, Logged, Channels
    <3>3. QED
      BY <3>1, <3>2, LoggedStays
         DEF BatchOK, OthersLogged, HasBatch, BatchLogged, SentIsDelivered, HasSent
  <2>3. QED
    BY <1>1, <1>13, <2>1, <2>2 DEF Record
<1>14. QED
  BY <1>3, <1>4, <1>5, <1>6, <1>7, <1>8, <1>10, <1>11, <1>12, <1>13 DEF Step

LEMMA AttemptNext ==
    ASSUME TypeOK, TypeOK', [Next]_vars, NEW w \in Workers, AttemptInv(w)
    PROVE  AttemptInv(w)'
<1>1. ASSUME NEW v \in Workers, Receive(v) \/ Step(v) \/ Restart(v)
      PROVE  AttemptInv(w)'
  <2>1. CASE v = w
    BY <1>1, <2>1, AttemptAdvances
  <2>2. CASE v # w
    BY <1>1, <2>2, OtherLocals, AttemptUndisturbed
  <2>3. QED
    BY <2>1, <2>2
<1>2. CASE Expire \/ ServiceWrites \/ UNCHANGED vars
  BY <1>2, AttemptUndisturbed DEF Expire, ServiceWrites, localVars, vars
<1>3. QED
  BY <1>1, <1>2 DEF Next

-----------------------------------------------------------------------------
(* The safety invariants *)

\* only the acknowledgement of a processed message moves the queue to "processed", and
\* then the recipients skipped are those of the attempt that acknowledges
LEMMA ProcessedByAck ==
    ASSUME TypeOK, [Next]_vars, queue' = "processed"
    PROVE  \/ queue = "processed" /\ UNCHANGED skipped
           \/ \E w \in Workers : /\ pc[w] = "ack"
                                 /\ skipped' = batch[w] \ infos[w]
<1> USE DEF TypeOK, Removed
<1>1. ASSUME NEW w \in Workers, Ack(w)
      PROVE  \/ queue = "processed" /\ UNCHANGED skipped
             \/ pc[w] = "ack" /\ skipped' = batch[w] \ infos[w]
  BY <1>1 DEF Ack, Acknowledge
<1>2. ASSUME NEW w \in Workers, AckCanceled(w)
      PROVE  queue = "processed" /\ UNCHANGED skipped
  BY <1>2 DEF AckCanceled, Acknowledge
<1>3. ASSUME NEW w \in Workers, Receive(w) \/ Step(w) \/ Restart(w), ~Ack(w), ~AckCanceled(w)
      PROVE  queue = "processed" /\ UNCHANGED skipped
  BY <1>3 DEF queueVars, ghostVars, Receive, Step, Restart, GetStatus, MarkSending,
              GetRecipients, MarkAllSent, GetUserInfo, GetTemplate, SendInApp, SendEmail, Send,
              MarkOutcome, Record, FailProcess
<1>4. CASE Expire \/ ServiceWrites \/ UNCHANGED vars
  BY <1>4 DEF Expire, ServiceWrites, queueVars, ghostVars, vars
<1>5. QED
  BY <1>1, <1>2, <1>3, <1>4 DEF Next

LEMMA AckMeansLoggedNext ==
    ASSUME IInv, [Next]_vars
    PROVE  AckMeansLogged'
<1> SUFFICES ASSUME queue' = "processed", NEW r \in Recipients
             PROVE  Logged(r)' \/ r \in skipped'
  BY DEF AckMeansLogged
<1>1. CASE queue = "processed" /\ UNCHANGED skipped
  BY <1>1, LoggedStays DEF IInv, AckMeansLogged
<1>2. ASSUME NEW w \in Workers, pc[w] = "ack", skipped' = batch[w] \ infos[w]
      PROVE  Logged(r)' \/ r \in skipped'
  <2>1. Logged(r) \/ r \in batch[w] \ infos[w]
    BY <1>2 DEF IInv, AttemptInv, OthersLogged, HasBatch, BatchLogged
  <2>2. QED
    BY <1>2, <2>1, LoggedStays DEF IInv
<1>3. QED
  BY <1>1, <1>2, ProcessedByAck DEF IInv

LEMMA SentEntryIsTrueNext ==
    ASSUME IInv, [Next]_vars
    PROVE  SentEntryIsTrue'
<1> SUFFICES ASSUME NEW r \in Recipients, NEW c \in Channels, log'[r][c] = "SENT"
             PROVE  delivered'[r][c] > 0
  BY DEF SentEntryIsTrue
<1>1. CASE log' = log
  BY <1>1, DeliveredGrows DEF IInv, SentEntryIsTrue
<1>2. ASSUME NEW w \in Workers, Record(w), log' = Recorded(w)
      PROVE  delivered'[r][c] > 0
  <2>1. CASE r \in infos[w]
    <3>1. pc[w] = "record" /\ c \notin failed[w]
      BY <1>2, <2>1 DEF Record, Recorded
    <3>2. delivered[r][c] > 0
      BY <2>1, <3>1 DEF IInv, AttemptInv, SentIsDelivered, HasSent
    <3>3. QED
      BY <3>2, DeliveredGrows DEF IInv
  <2>2. CASE r \notin infos[w]
    <3>1. log[r][c] = "SENT"
      BY <1>2, <2>2 DEF Recorded
    <3>2. QED
      BY <3>1, DeliveredGrows DEF IInv, SentEntryIsTrue
  <2>3. QED
    BY <2>1, <2>2
<1>3. log' = log \/ \E w \in Workers : Record(w) /\ log' = Recorded(w)
  BY DEF Next, vars, serviceVars, Receive, Step, Restart, Expire, ServiceWrites, GetStatus,
         AckCanceled, MarkSending, GetRecipients, MarkAllSent, GetUserInfo, GetTemplate,
         SendInApp, SendEmail, Send, MarkOutcome, Record, Ack, FailProcess
<1>4. QED
  BY <1>1, <1>2, <1>3

LEMMA NextIInv == IInv /\ [Next]_vars => IInv'
  BY TypeNext, AttemptNext, AckMeansLoggedNext, SentEntryIsTrueNext DEF IInv

\* What every attempt of every worker has established at each of its calls.
THEOREM Invariance == Spec => []IInv
  BY InitIInv, NextIInv, PTL DEF Spec

\* No recipient is lost: whatever fails, crashes or is delivered twice, a message leaves
\* the queue as processed only if everyone has an entry in the status log or was skipped
\* for missing user information (worker.go:338-344, 389-404).
THEOREM NobodyLost == Spec => []AckMeansLogged
  BY Invariance, PTL DEF IInv

\* The status log never claims a delivery that did not happen (worker.go:188-200).
THEOREM LogIsTrue == Spec => []SentEntryIsTrue
  BY Invariance, PTL DEF IInv

-----------------------------------------------------------------------------
(* What a SENT report says *)

\* the step of SentReportAccountsForAll
AccountsForAll ==
    \A w \in Workers :
        (Step(w) /\ status' = "SENT" /\ status # "SENT") =>
            \A r \in Recipients :
                Logged(r) \/ delivered[r]["in-app"] > 0 \/ r \in batch[w] \ infos[w]

LEMMA SentReportStep ==
    ASSUME IInv, [Next]_vars
    PROVE  [AccountsForAll]_vars
<1> SUFFICES ASSUME NEW w \in Workers, Step(w), status' = "SENT", status # "SENT",
                    NEW r \in Recipients
             PROVE  Logged(r) \/ delivered[r]["in-app"] > 0 \/ r \in batch[w] \ infos[w]
  BY DEF AccountsForAll
<1>1. MarkAllSent(w) \/ MarkOutcome(w)
  BY DEF Step, serviceVars, GetStatus, AckCanceled, MarkSending, WriteStatus, GetRecipients,
         GetUserInfo, GetTemplate, SendInApp, SendEmail, Send, Record, Ack, FailProcess
<1>2. AttemptInv(w)
  BY DEF IInv
<1>3. CASE MarkAllSent(w)
  BY <1>2, <1>3 DEF MarkAllSent, AttemptInv, BatchOK, OthersLogged, HasBatch
<1>4. CASE MarkOutcome(w)
  <2>1. pc[w] = "markOutcome"
    BY <1>4 DEF MarkOutcome
  <2>2. "in-app" \notin failed[w]
    BY <1>4 DEF MarkOutcome, WriteStatus
  <2>3. \A q \in infos[w] : delivered[q]["in-app"] > 0
    BY <1>2, <2>1, <2>2 DEF AttemptInv, SentIsDelivered, HasSent, Channels
  <2>4. QED
    BY <1>2, <2>1, <2>3 DEF AttemptInv, OthersLogged, HasBatch
<1>5. QED
  BY <1>1, <1>3, <1>4

\* A worker that reports SENT for the notification has accounted for each recipient: an
\* entry of an earlier attempt, an in-app delivery, or missing user information.
THEOREM SentReport == Spec => SentReportAccountsForAll
  BY Invariance, SentReportStep, PTL DEF Spec, SentReportAccountsForAll, AccountsForAll

-----------------------------------------------------------------------------
(* Whom a processed message did not reach *)

\* a record writes the entries of both channels at once
BothLogged == \A r \in Recipients : log[r]["in-app"] = "none" <=> log[r]["e-mail"] = "none"

LEMMA InitBothLogged == Init => BothLogged
  BY DEF Init, BothLogged, Channels

LEMMA NextBothLogged == BothLogged /\ [Next]_vars => BothLogged'
<1> SUFFICES ASSUME BothLogged, [Next]_vars PROVE BothLogged'
  OBVIOUS
<1>1. CASE log' = log
  BY <1>1 DEF BothLogged
<1>2. ASSUME NEW w \in Workers, log' = Recorded(w)
      PROVE  BothLogged'
  BY <1>2 DEF BothLogged, Recorded, Channels
<1>3. log' = log \/ \E w \in Workers : log' = Recorded(w)
  BY DEF Next, vars, serviceVars, Receive, Step, Restart, Expire, ServiceWrites, GetStatus,
         AckCanceled, MarkSending, GetRecipients, MarkAllSent, GetUserInfo, GetTemplate,
         SendInApp, SendEmail, Send, MarkOutcome, Record, Ack, FailProcess
<1>4. QED
  BY <1>1, <1>2, <1>3

\* an entry that is not SENT on a channel, for somebody who was not reached, is FAILED
LEMMA UnreachedFollows ==
    ASSUME IInv, BothLogged
    PROVE  UnreachedIsTold
<1> SUFFICES ASSUME queue = "processed", NEW r \in Recipients, ~Reached(r), r \notin skipped,
                    NEW c \in Channels
             PROVE  log[r][c] = "FAILED"
  BY DEF UnreachedIsTold
<1>1. log[r][c] # "SENT"
  BY DEF IInv, SentEntryIsTrue, Reached
<1>2. log[r][c] # "none"
  <2>1. Logged(r)
    BY DEF IInv, AckMeansLogged
  <2>2. QED
    BY <2>1 DEF BothLogged, Logged, Channels
<1>3. log[r][c] \in Entries
  BY DEF IInv, TypeOK
<1>4. QED
  BY <1>1, <1>2, <1>3 DEF Entries

\* Whoever a processed message did not reach has FAILED entries on both channels or was
\* skipped for missing user information, so the service knows. That nobody is left out of
\* the log is not enough for it: an entry must not say SENT of a delivery that failed, and
\* no channel may be without its entry (worker.go:188-212).
THEOREM UnreachedTold == Spec => []UnreachedIsTold
  BY Invariance, InitBothLogged, NextBothLogged, UnreachedFollows, PTL DEF Spec

-----------------------------------------------------------------------------
(* Nobody is sent to again, when the message goes to one worker at a time *)

\* a worker that is busy is the only holder of the message, which is not in the queue
OneHolder == \A w \in Workers : Busy(w) => queue # "visible" /\ holder = {w}

\* the attempt of w sends, or is about to
Sending(w) == pc[w] \in {"getUserInfo", "getTemplate", "sendInApp", "sendEmail"}

\* until it has sent, an attempt's batch holds nobody with an answered entry
BatchUnanswered(w) == Sending(w) => \A r \in batch[w] : ~Answers(r)

XInv == ~timeout => OneHolder /\ \A w \in Workers : BatchUnanswered(w)

LEMMA InitXInv == Init => XInv
  BY DEF Init, XInv, OneHolder, Busy, BatchUnanswered, Sending

\* the kind of queue is chosen once
LEMMA TimeoutStays == [Next]_vars => timeout' = timeout
  BY DEF Next, vars, queueVars, Receive, Step, Restart, Expire, ServiceWrites, GetStatus,
         AckCanceled, MarkSending, GetRecipients, MarkAllSent, GetUserInfo, GetTemplate,
         SendInApp, SendEmail, Send, MarkOutcome, Record, Ack, FailProcess

\* a step of a worker keeps the message where it is, takes it, or gives it back
LEMMA HolderStep ==
    ASSUME TypeOK, ~timeout, NEW w \in Workers, Receive(w) \/ Step(w) \/ Restart(w)
    PROVE  \/ Receive(w)
           \/ UNCHANGED holder /\ Busy(w) /\ (queue' = "visible" => queue = "visible")
           \/ UNCHANGED holder /\ ~Busy(w)' /\ w \in holder
           \/ UNCHANGED holder /\ Busy(w) /\ ~Busy(w)' /\ UNCHANGED queue
<1> USE DEF Busy
<1>1. CASE AckCanceled(w) \/ Ack(w)
  BY <1>1 DEF AckCanceled, Ack, Acknowledge, Removed
<1>2. CASE GetStatus(w) \/ MarkSending(w) \/ GetRecipients(w) \/ MarkAllSent(w)
              \/ GetUserInfo(w) \/ GetTemplate(w)
  BY <1>2 DEF GetStatus, MarkSending, GetRecipients, MarkAllSent, GetUserInfo, GetTemplate,
              queueVars
<1>3. CASE SendInApp(w) \/ SendEmail(w)
  BY <1>3 DEF SendInApp, SendEmail, Send, queueVars
<1>4. CASE MarkOutcome(w) \/ Record(w) \/ FailProcess(w)
  BY <1>4 DEF MarkOutcome, Record, FailProcess, queueVars
<1>5. CASE Restart(w)
  BY <1>5 DEF Restart, Return, GoTo, TypeOK
<1>6. QED
  BY <1>1, <1>2, <1>3, <1>4, <1>5 DEF Step

LEMMA OneHolderNext ==
    ASSUME TypeOK, ~timeout, OneHolder, [Next]_vars
    PROVE  OneHolder'
<1>1. ASSUME NEW w \in Workers, Receive(w) \/ Step(w) \/ Restart(w),
             NEW v \in Workers, Busy(v)'
      PROVE  (queue # "visible" /\ holder = {v})'
  <2>1. v # w => Busy(v)
    BY <1>1, OtherLocals DEF Busy
  <2>2. CASE Receive(w)
    BY <1>1, <2>1, <2>2 DEF OneHolder, Receive
  <2>3. CASE ~Receive(w)
    BY <1>1, <2>1, <2>3, HolderStep DEF OneHolder
  <2>4. QED
    BY <2>2, <2>3
<1>2. CASE ServiceWrites \/ UNCHANGED vars
  BY <1>2 DEF ServiceWrites, OneHolder, Busy, queueVars, localVars, vars
<1>3. QED
  BY <1>1, <1>2 DEF Next, Expire, OneHolder

\* the answers change only when a busy worker records
LEMMA AnswersChange ==
    ASSUME [Next]_vars
    PROVE  log' = log \/ \E w \in Workers : Record(w)
  BY DEF Next, vars, serviceVars, Receive, Step, Restart, Expire, ServiceWrites, GetStatus,
         AckCanceled, MarkSending, GetRecipients, MarkAllSent, GetUserInfo, GetTemplate,
         SendInApp, SendEmail, Send, MarkOutcome, Ack, FailProcess

\* an attempt comes to its sending from the statuses it just read
LEMMA SendingFrom ==
    ASSUME TypeOK, NEW w \in Workers, Receive(w) \/ Step(w) \/ Restart(w), Sending(w)'
    PROVE  /\ UNCHANGED log
           /\ \/ Sending(w) /\ batch'[w] = batch[w]
              \/ batch'[w] = {r \in Recipients : ~Answers(r)}
<1> USE DEF TypeOK, GoTo, Return, Sending
<1>1. CASE Receive(w) \/ GetStatus(w) \/ MarkSending(w) \/ FailProcess(w) \/ Restart(w)
  BY <1>1 DEF Receive, GetStatus, MarkSending, WriteStatus, FailProcess, Restart
<1>2. CASE AckCanceled(w) \/ Ack(w)
  BY <1>2 DEF AckCanceled, Ack, Acknowledge
<1>3. CASE GetRecipients(w)
  BY <1>3 DEF GetRecipients, serviceVars
<1>4. CASE GetUserInfo(w) \/ GetTemplate(w)
  BY <1>4 DEF GetUserInfo, GetTemplate, serviceVars
<1>5. CASE SendInApp(w) \/ SendEmail(w)
  BY <1>5 DEF SendInApp, SendEmail, Send, serviceVars
<1>6. CASE MarkAllSent(w) \/ MarkOutcome(w) \/ Record(w)
  BY <1>6 DEF MarkAllSent, MarkOutcome, WriteStatus, Record
<1>7. QED
  BY <1>1, <1>2, <1>3, <1>4, <1>5, <1>6 DEF Step

LEMMA UnansweredNext ==
    ASSUME TypeOK, ~timeout, XInv, [Next]_vars, NEW w \in Workers
    PROVE  BatchUnanswered(w)'
<1> SUFFICES ASSUME Sending(w)' PROVE \A r \in batch'[w] : ~Answers(r)'
  BY DEF BatchUnanswered
<1>1. BatchUnanswered(w)
  BY DEF XInv
<1>2. CASE Receive(w) \/ Step(w) \/ Restart(w)
  BY <1>1, <1>2, SendingFrom DEF BatchUnanswered, Answers
<1>3. CASE ~(Receive(w) \/ Step(w) \/ Restart(w))
  <2>1. UNCHANGED <<pc, batch>> \/ (pc'[w] = pc[w] /\ batch'[w] = batch[w])
    BY <1>3, OtherLocals DEF Next, Expire, ServiceWrites, localVars, vars
  <2>2. Sending(w) /\ batch'[w] = batch[w]
    BY <2>1 DEF Sending
  <2>3. ASSUME NEW v \in Workers, Record(v)
        PROVE  v = w
    BY <2>2, <2>3 DEF XInv, OneHolder, Busy, Record, Sending
  <2>4. UNCHANGED log
    BY <1>3, <2>3, AnswersChange DEF Step
  <2>5. QED
    BY <1>1, <2>2, <2>4 DEF BatchUnanswered, Answers
<1>4. QED
  BY <1>2, <1>3

\* the step of RecordedNeverResent
AnsweredIsLeftAlone ==
    \A r \in Recipients : ~timeout /\ Answers(r) => delivered'[r] = delivered[r]

LEMMA NeverResentStep ==
    ASSUME IInv, XInv, [Next]_vars
    PROVE  [AnsweredIsLeftAlone]_vars
<1> SUFFICES ASSUME NEW r \in Recipients, ~timeout, Answers(r)
             PROVE  delivered'[r] = delivered[r]
  BY DEF AnsweredIsLeftAlone
<1>1. ASSUME NEW w \in Workers, SendInApp(w) \/ SendEmail(w)
      PROVE  delivered'[r] = delivered[r]
  <2>1. r \notin infos[w]
    BY <1>1 DEF IInv, AttemptInv, BatchOK, XInv, BatchUnanswered, Sending, SendInApp, SendEmail
  <2>2. PICK S \in SUBSET infos[w], c \in Channels : Deliver(S, c)
    BY <1>1 DEF SendInApp, SendEmail, Send, Channels
  <2>3. delivered'[r] = [k \in Channels |-> delivered[r][k]]
    BY <2>1, <2>2 DEF Deliver
  <2>4. delivered[r] \in [Channels -> Nat]
    BY DEF IInv, TypeOK
  <2>5. QED
    BY <2>3, <2>4
<1>2. delivered' = delivered \/ \E w \in Workers : SendInApp(w) \/ SendEmail(w)
  BY DEF Next, vars, ghostVars, Receive, Step, Restart, Expire, ServiceWrites, GetStatus,
         AckCanceled, MarkSending, GetRecipients, MarkAllSent, GetUserInfo, GetTemplate,
         MarkOutcome, Record, Ack, FailProcess
<1>3. QED
  BY <1>1, <1>2

\* On a queue that gives the message to one worker at a time, as RabbitMQ does, nobody with
\* an answered entry is sent to again, whatever fails or restarts: the recipients an attempt
\* read as unanswered stay so until it records them itself (worker.go:164-176).
THEOREM NeverResent == Spec => RecordedNeverResent
<1>1. IInv /\ XInv /\ [Next]_vars => XInv'
  <2> SUFFICES ASSUME IInv, XInv, [Next]_vars, ~timeout'
               PROVE  (OneHolder /\ \A w \in Workers : BatchUnanswered(w))'
    BY DEF XInv
  <2>1. TypeOK /\ ~timeout
    BY TimeoutStays DEF IInv
  <2>2. OneHolder'
    BY <2>1, OneHolderNext DEF XInv
  <2>3. \A w \in Workers : BatchUnanswered(w)'
    BY <2>1, UnansweredNext
  <2>4. QED
    BY <2>2, <2>3
<1>2. IInv /\ XInv /\ [Next]_vars => [AnsweredIsLeftAlone]_vars
  BY NeverResentStep
<1>3. QED
  BY InitXInv, Invariance, <1>1, <1>2, PTL DEF Spec, RecordedNeverResent, AnsweredIsLeftAlone

-----------------------------------------------------------------------------
(* Every repetition is paid for by a fault *)

\* the attempt of w may still call SendNotifications of channel c
MayStillSend(w, c) ==
    \/ pc[w] \in {"getStatus", "markSending", "getRecipients", "getUserInfo", "getTemplate",
                  "sendInApp"}
    \/ pc[w] = "sendEmail" /\ c = "e-mail"

Pending(c) == {w \in Workers : MayStillSend(w, c)}

\* the attempt of w will acknowledge the message, unless a fault comes in between
Clean(w) == Busy(w) /\ pc[w] # "failProcess" /\ failed[w] = {}

\* the message will be delivered once more, without any further fault
Returns == queue = "visible" \/ (queue = "hidden" /\ ~\E w \in holder : Clean(w))
Again == IF Returns THEN 1 ELSE 0

\* what r received on c, may receive from the attempts there are, and may receive from
\* the next one, is paid for
Budget(r, c) == delivered[r][c] + Cardinality(Pending(c)) + Again <= 1 + faults

LastReceiver == queue = "hidden" => \E w \in Workers : holder = {w}
IdleIsFresh == \A w \in Workers : pc[w] = "idle" => failed[w] = {}

\* The inductive invariant behind DuplicatesNeedFaults
DInv ==
    /\ LastReceiver
    /\ IdleIsFresh
    /\ \A c \in Channels : IsFiniteSet(Pending(c))
    /\ \A r \in Recipients, c \in Channels : Budget(r, c)

LEMMA InitDInv == Init => DInv
<1> SUFFICES ASSUME Init PROVE DInv
  OBVIOUS
<1>1. LastReceiver /\ IdleIsFresh
  BY DEF Init, LastReceiver, IdleIsFresh
<1>2. ASSUME NEW c \in Channels PROVE Pending(c) = {}
  BY DEF Init, Pending, MayStillSend
<1>3. \A c \in Channels : IsFiniteSet(Pending(c)) /\ Cardinality(Pending(c)) = 0
  BY <1>2, FS_EmptySet
<1>4. ASSUME NEW r \in Recipients, NEW c \in Channels PROVE Budget(r, c)
  <2>1. delivered[r][c] = 0 /\ faults = 0 /\ queue = "visible"
    BY DEF Init
  <2>2. QED
    BY <1>3, <2>1 DEF Budget, Again, Returns
<1>5. QED
  BY <1>1, <1>3, <1>4 DEF DInv

\* a worker that has sent on a channel does not come back to it in the same attempt
LEMMA PendingShrinks ==
    ASSUME TypeOK, NEW w \in Workers, Step(w) \/ Restart(w), NEW c \in Channels
    PROVE  Pending(c)' \subseteq Pending(c)
<1>1. MayStillSend(w, c)' => MayStillSend(w, c)
  <2> USE DEF TypeOK, GoTo, Return, MayStillSend
  <2>1. CASE GetStatus(w) \/ GetUserInfo(w) \/ GetTemplate(w)
    BY <2>1 DEF GetStatus, GetUserInfo, GetTemplate
  <2>2. CASE MarkSending(w) \/ MarkAllSent(w) \/ MarkOutcome(w)
    BY <2>2 DEF MarkSending, MarkAllSent, MarkOutcome, WriteStatus
  <2>3. CASE GetRecipients(w)
    BY <2>3 DEF GetRecipients
  <2>4. CASE SendInApp(w) \/ SendEmail(w)
    BY <2>4 DEF SendInApp, SendEmail, Send
  <2>5. CASE Record(w) \/ FailProcess(w) \/ Restart(w)
    BY <2>5 DEF Record, FailProcess, Restart
  <2>6. CASE AckCanceled(w) \/ Ack(w)
    BY <2>6 DEF AckCanceled, Ack, Acknowledge
  <2>7. QED
    BY <2>1, <2>2, <2>3, <2>4, <2>5, <2>6 DEF Step
<1>2. \A v \in Workers : v # w => pc'[v] = pc[v]
  BY OtherLocals
<1>3. QED
  BY <1>1, <1>2 DEF Pending, MayStillSend

\* a call of SendNotifications adds one copy, on its channel, and is made once per attempt
LEMMA SendCounts ==
    ASSUME TypeOK, Direct \cap Members = {}, NEW w \in Workers, NEW k \in Channels, NEW next,
           Send(w, k, next), NEW r \in Recipients, NEW c \in Channels
    PROVE  delivered'[r][c] <= delivered[r][c] + (IF c = k THEN 1 ELSE 0)
<1>1. PICK S \in SUBSET infos[w] : Deliver(S, k)
  BY DEF Send
<1>2. Occurrences(r) = 1
  BY DEF Occurrences
<1>3. delivered[r][c] \in Nat
  BY DEF TypeOK
<1>4. delivered'[r][c] = IF r \in S /\ c = k THEN Saturated(delivered[r][c] + 1)
                                             ELSE delivered[r][c]
  BY <1>1, <1>2 DEF Deliver
<1>5. Saturated(delivered[r][c] + 1) <= delivered[r][c] + 1
  BY <1>3, WorkerAssumption DEF Saturated
<1>6. QED
  BY <1>3, <1>4, <1>5

LEMMA StepDelivers ==
    ASSUME TypeOK, Direct \cap Members = {}, NEW w \in Workers, Step(w) \/ Restart(w),
           NEW r \in Recipients, NEW c \in Channels
    PROVE  \/ delivered'[r][c] <= delivered[r][c]
           \/ /\ w \in Pending(c) /\ w \notin Pending(c)'
              /\ delivered'[r][c] <= delivered[r][c] + 1
<1>0. delivered[r][c] \in Nat
  BY DEF TypeOK
<1>1. CASE delivered' = delivered
  BY <1>0, <1>1
<1>2. CASE SendInApp(w)
  <2>1. delivered'[r][c] <= delivered[r][c] + (IF c = "in-app" THEN 1 ELSE 0)
    BY <1>2, SendCounts DEF SendInApp, Channels
  <2>2. pc[w] = "sendInApp" /\ pc'[w] = "sendEmail"
    BY <1>2 DEF SendInApp, Send, GoTo, TypeOK
  <2>3. w \in Pending(c) /\ (c = "in-app" => w \notin Pending(c)')
    BY <2>2 DEF Pending, MayStillSend
  <2>4. QED
    BY <1>0, <2>1, <2>3
<1>3. CASE SendEmail(w)
  <2>1. delivered'[r][c] <= delivered[r][c] + (IF c = "e-mail" THEN 1 ELSE 0)
    BY <1>3, SendCounts DEF SendEmail, Channels
  <2>2. pc[w] = "sendEmail" /\ pc'[w] = "markOutcome"
    BY <1>3 DEF SendEmail, Send, GoTo, TypeOK
  <2>3. c = "e-mail" => w \in Pending(c) /\ w \notin Pending(c)'
    BY <2>2 DEF Pending, MayStillSend
  <2>4. QED
    BY <1>0, <2>1, <2>3
<1>4. delivered' = delivered \/ SendInApp(w) \/ SendEmail(w)
  BY DEF ghostVars, Step, Restart, GetStatus, AckCanceled, MarkSending, GetRecipients,
         MarkAllSent, GetUserInfo, GetTemplate, MarkOutcome, Record, Ack, FailProcess
<1>5. QED
  BY <1>1, <1>2, <1>3, <1>4

\* the copies there are and those to come do not grow
LEMMA CopiesBounded ==
    ASSUME TypeOK, TypeOK', Direct \cap Members = {}, NEW w \in Workers, Step(w) \/ Restart(w),
           NEW r \in Recipients, NEW c \in Channels, IsFiniteSet(Pending(c))
    PROVE  /\ IsFiniteSet(Pending(c)')
           /\ delivered'[r][c] + Cardinality(Pending(c)')
                <= delivered[r][c] + Cardinality(Pending(c))
<1>1. Pending(c)' \in SUBSET Pending(c)
  BY PendingShrinks
<1>2. IsFiniteSet(Pending(c)') /\ Cardinality(Pending(c)') <= Cardinality(Pending(c))
  BY <1>1, FS_Subset
<1>3. Cardinality(Pending(c)) \in Nat /\ Cardinality(Pending(c)') \in Nat
  BY <1>2, FS_CardinalityType
<1>4. delivered[r][c] \in Nat /\ delivered'[r][c] \in Nat
  BY DEF TypeOK
<1>5. CASE delivered'[r][c] <= delivered[r][c]
  BY <1>2, <1>3, <1>4, <1>5
<1>6. CASE /\ w \in Pending(c) /\ w \notin Pending(c)'
           /\ delivered'[r][c] <= delivered[r][c] + 1
  <2>1. Pending(c)' \in SUBSET (Pending(c) \ {w})
    BY <1>1, <1>6
  <2>2. /\ IsFiniteSet(Pending(c) \ {w})
        /\ Cardinality(Pending(c) \ {w}) = Cardinality(Pending(c)) - 1
    BY <1>6, FS_RemoveElement
  <2>3. Cardinality(Pending(c)') <= Cardinality(Pending(c)) - 1
    BY <2>1, <2>2, FS_Subset
  <2>4. QED
    BY <1>2, <1>3, <1>4, <1>6, <2>3
<1>7. QED
  BY <1>5, <1>6, StepDelivers

\* without a fault the attempt of the last receiver stays on its way to the acknowledgement
LEMMA CleanStays ==
    ASSUME TypeOK, Direct \cap Members = {}, NEW w \in Workers, Step(w), faults' = faults,
           Clean(w), w \in holder
    PROVE  Clean(w)' \/ Removed'
<1> USE DEF TypeOK, Clean, Busy, GoTo, NoFault, Fault
<1>0. faults' # faults + 1
  OBVIOUS
<1>1. CASE GetStatus(w) \/ GetUserInfo(w) \/ GetTemplate(w)
  BY <1>0, <1>1 DEF GetStatus, GetUserInfo, GetTemplate
<1>2. CASE MarkSending(w) \/ MarkAllSent(w) \/ MarkOutcome(w)
  BY <1>0, <1>2 DEF MarkSending, MarkAllSent, MarkOutcome, WriteStatus
<1>3. CASE GetRecipients(w)
  BY <1>0, <1>3 DEF GetRecipients
<1>4. CASE SendInApp(w) \/ SendEmail(w)
  BY <1>0, <1>4 DEF SendInApp, SendEmail, Send
<1>5. CASE Record(w)
  <2>1. ~Rejected(w)
    BY DEF Rejected
  <2>2. GoTo(w, "ack") /\ failed' = failed
    BY <1>0, <1>5, <2>1 DEF Record
  <2>3. QED
    BY <2>2
<1>6. CASE AckCanceled(w) \/ Ack(w)
  BY <1>0, <1>6 DEF AckCanceled, Ack, Acknowledge, Removed
<1>7. QED
  BY <1>1, <1>2, <1>3, <1>4, <1>5, <1>6 DEF Step, FailProcess

LEMMA QueueStep ==
    ASSUME TypeOK, NEW w \in Workers, Step(w)
    PROVE  UNCHANGED holder /\ (queue' = queue \/ Removed')
<1>1. CASE AckCanceled(w) \/ Ack(w)
  BY <1>1 DEF AckCanceled, Ack, Acknowledge, Removed
<1>2. CASE SendInApp(w) \/ SendEmail(w)
  BY <1>2 DEF SendInApp, SendEmail, Send, queueVars
<1>3. CASE ~(AckCanceled(w) \/ Ack(w) \/ SendInApp(w) \/ SendEmail(w))
  BY <1>3 DEF Step, GetStatus, MarkSending, GetRecipients, MarkAllSent, GetUserInfo,
              GetTemplate, MarkOutcome, Record, FailProcess, queueVars
<1>4. QED
  BY <1>1, <1>2, <1>3

LEMMA FaultsStep ==
    ASSUME TypeOK, NEW w \in Workers, Step(w) \/ Restart(w)
    PROVE  faults' = faults \/ faults' = faults + 1
<1> USE DEF NoFault, Fault
<1>1. CASE AckCanceled(w) \/ Ack(w)
  BY <1>1 DEF AckCanceled, Ack, Acknowledge
<1>2. CASE SendInApp(w) \/ SendEmail(w)
  BY <1>2 DEF SendInApp, SendEmail, Send
<1>3. CASE MarkSending(w) \/ MarkAllSent(w) \/ MarkOutcome(w)
  BY <1>3 DEF MarkSending, MarkAllSent, MarkOutcome, WriteStatus
<1>4. CASE GetStatus(w) \/ GetRecipients(w) \/ GetUserInfo(w) \/ GetTemplate(w)
  BY <1>4 DEF GetStatus, GetRecipients, GetUserInfo, GetTemplate
<1>5. CASE Record(w)
  BY <1>5 DEF Record
<1>6. CASE FailProcess(w) \/ Restart(w)
  BY <1>6 DEF FailProcess, Restart
<1>7. QED
  BY <1>1, <1>2, <1>3, <1>4, <1>5, <1>6 DEF Step

\* only a fault makes the message come back
LEMMA ReturnsByFault ==
    ASSUME TypeOK, LastReceiver, Direct \cap Members = {}, NEW w \in Workers,
           Step(w) \/ Restart(w), faults' = faults, Returns'
    PROVE  Returns
<1>1. CASE Restart(w)
  <2>1. ~Busy(w) /\ queue = "hidden" /\ w \in holder
    BY <1>1 DEF Restart, NoFault, Fault, TypeOK
  <2>2. holder = {w}
    BY <2>1 DEF LastReceiver
  <2>3. QED
    BY <2>1, <2>2 DEF Returns, Clean
<1>2. CASE Step(w)
  <2>1. UNCHANGED holder /\ queue' = queue
    BY <1>2, QueueStep DEF Returns, Removed
  <2>2. ASSUME NEW v \in holder, queue = "hidden", Clean(v) PROVE FALSE
    <3>1. ~Clean(v)' /\ ~Removed'
      BY <2>1, <2>2 DEF Returns, Removed
    <3>2. v \in Workers
      BY DEF TypeOK
    <3>3. v # w => Clean(v)'
      BY <1>2, <2>2, <3>2, OtherLocals DEF Clean, Busy
    <3>4. v = w => Clean(v)' \/ Removed'
      BY <1>2, <2>2, CleanStays
    <3>5. QED
      BY <3>1, <3>3, <3>4
  <2>3. QED
    BY <2>1, <2>2 DEF Returns
<1>3. QED
  BY <1>1, <1>2

LEMMA BudgetStep ==
    ASSUME TypeOK, TypeOK', DInv, Direct \cap Members = {}, NEW w \in Workers,
           Step(w) \/ Restart(w), NEW r \in Recipients, NEW c \in Channels
    PROVE  IsFiniteSet(Pending(c)') /\ Budget(r, c)'
<1>1. IsFiniteSet(Pending(c)) /\ Budget(r, c) /\ LastReceiver
  BY DEF DInv
<1>2. /\ IsFiniteSet(Pending(c)')
      /\ delivered'[r][c] + Cardinality(Pending(c)')
           <= delivered[r][c] + Cardinality(Pending(c))
  BY <1>1, CopiesBounded
<1>3. Cardinality(Pending(c)) \in Nat /\ Cardinality(Pending(c)') \in Nat
  BY <1>1, <1>2, FS_CardinalityType
<1>4. delivered[r][c] \in Nat /\ delivered'[r][c] \in Nat /\ faults \in Nat
  BY WorkerAssumption DEF TypeOK
<1>5. Again \in {0, 1} /\ Again' \in {0, 1}
  BY DEF Again
<1>6. faults' = faults => Again' <= Again
  BY <1>1, ReturnsByFault DEF Again
<1>7. QED
  BY <1>1, <1>2, <1>3, <1>4, <1>5, <1>6, FaultsStep DEF Budget

\* a new attempt is the one that was paid for
LEMMA BudgetReceive ==
    ASSUME TypeOK, TypeOK', DInv, NEW w \in Workers, Receive(w),
           NEW r \in Recipients, NEW c \in Channels
    PROVE  IsFiniteSet(Pending(c)') /\ Budget(r, c)'
<1>1. IsFiniteSet(Pending(c)) /\ Budget(r, c) /\ IdleIsFresh
  BY DEF DInv
<1>2. Pending(c)' = Pending(c) \cup {w}
  BY OtherLocals DEF Pending, MayStillSend, Receive, GoTo, TypeOK
<1>3. w \notin Pending(c)
  BY DEF Pending, MayStillSend, Receive
<1>4. IsFiniteSet(Pending(c)') /\ Cardinality(Pending(c)') = Cardinality(Pending(c)) + 1
  BY <1>1, <1>2, <1>3, FS_AddElement
<1>5. Again = 1
  BY DEF Again, Returns, Receive
<1>6. Again' = 0
  <2>1. holder' = {w} /\ queue' = "hidden" /\ pc'[w] = "getStatus" /\ failed'[w] = {}
    BY <1>1 DEF IdleIsFresh, Receive, GoTo, TypeOK
  <2>2. QED
    BY <2>1 DEF Again, Returns, Clean, Busy
<1>7. Cardinality(Pending(c)) \in Nat /\ delivered[r][c] \in Nat /\ faults \in Nat
  BY <1>1, FS_CardinalityType, WorkerAssumption DEF TypeOK
<1>8. delivered' = delivered /\ faults' = faults
  BY DEF Receive, ghostVars
<1>9. QED
  BY <1>1, <1>4, <1>5, <1>6, <1>7, <1>8 DEF Budget

\* a timeout under an attempt that might still acknowledge is a fault
LEMMA BudgetElse ==
    ASSUME TypeOK, DInv, Expire \/ ServiceWrites \/ UNCHANGED vars,
           NEW r \in Recipients, NEW c \in Channels
    PROVE  IsFiniteSet(Pending(c)') /\ Budget(r, c)'
<1>1. IsFiniteSet(Pending(c)) /\ Budget(r, c)
  BY DEF DInv
<1>2. UNCHANGED <<pc, failed, delivered, holder>>
  BY DEF Expire, ServiceWrites, vars, localVars, ghostVars, queueVars
<1>3. Pending(c)' = Pending(c)
  BY <1>2 DEF Pending, MayStillSend
<1>4. Cardinality(Pending(c)) \in Nat /\ delivered[r][c] \in Nat /\ faults \in Nat
  BY <1>1, FS_CardinalityType, WorkerAssumption DEF TypeOK
<1>5. Again \in {0, 1} /\ Again' \in {0, 1}
  BY DEF Again
<1>6. faults' = faults + 1 \/ (faults' = faults /\ Again' <= Again)
  <2>1. CASE Expire
    <3>1. CASE \E w \in holder : Busy(w)
      BY <2>1, <3>1 DEF Expire, Fault
    <3>2. CASE ~\E w \in holder : Busy(w)
      <4>1. faults' = faults /\ queue = "hidden"
        BY <2>1, <3>2 DEF Expire, NoFault
      <4>2. Again = 1
        BY <3>2, <4>1 DEF Again, Returns, Clean
      <4>3. QED
        BY <1>5, <4>1, <4>2
    <3>3. QED
      BY <3>1, <3>2
  <2>2. CASE ServiceWrites \/ UNCHANGED vars
    <3>1. faults' = faults /\ queue' = queue
      BY <2>2 DEF ServiceWrites, vars, queueVars
    <3>2. Again' = Again
      BY <1>2, <3>1 DEF Again, Returns, Clean, Busy
    <3>3. QED
      BY <1>5, <3>1, <3>2
  <2>3. QED
    BY <2>1, <2>2
<1>7. QED
  BY <1>1, <1>2, <1>3, <1>4, <1>5, <1>6 DEF Budget

LEMMA LastReceiverNext == TypeOK /\ LastReceiver /\ [Next]_vars => LastReceiver'
<1> SUFFICES ASSUME TypeOK, LastReceiver, [Next]_vars, queue' = "hidden"
             PROVE  \E w \in Workers : holder' = {w}
  BY DEF LastReceiver
<1>1. ASSUME NEW w \in Workers, Receive(w) PROVE holder' = {w}
  BY <1>1 DEF Receive
<1>2. ASSUME NEW w \in Workers, Step(w) PROVE UNCHANGED <<queue, holder>>
  BY <1>2, QueueStep DEF Removed
<1>3. ASSUME NEW w \in Workers, Restart(w) PROVE UNCHANGED <<queue, holder>>
  BY <1>3 DEF Restart
<1>4. CASE Expire \/ ServiceWrites \/ UNCHANGED vars
  BY <1>4 DEF Expire, ServiceWrites, queueVars, vars, LastReceiver
<1>5. QED
  BY <1>1, <1>2, <1>3, <1>4 DEF Next, LastReceiver

\* an attempt that ends forgets what failed
LEMMA IdleIsFreshNext == TypeOK /\ IdleIsFresh /\ [Next]_vars => IdleIsFresh'
<1> SUFFICES ASSUME TypeOK, IdleIsFresh, [Next]_vars, NEW v \in Workers, pc'[v] = "idle"
             PROVE  failed'[v] = {}
  BY DEF IdleIsFresh
<1>1. ASSUME Receive(v) \/ Step(v) \/ Restart(v) PROVE failed'[v] = {}
  <2> USE DEF TypeOK, GoTo
  <2>1. CASE Return(v)
    BY <2>1 DEF Return
  <2>2. CASE Receive(v) \/ GetStatus(v) \/ GetUserInfo(v) \/ GetTemplate(v)
    BY <2>2 DEF Receive, GetStatus, GetUserInfo, GetTemplate
  <2>3. CASE MarkSending(v) \/ MarkAllSent(v) \/ MarkOutcome(v)
    BY <2>3 DEF MarkSending, MarkAllSent, MarkOutcome, WriteStatus
  <2>4. CASE GetRecipients(v)
    BY <2>4 DEF GetRecipients
  <2>5. CASE SendInApp(v) \/ SendEmail(v)
    BY <2>5 DEF SendInApp, SendEmail, Send
  <2>6. CASE AckCanceled(v) \/ Ack(v)
    BY <2>1, <2>6 DEF AckCanceled, Ack, Acknowledge
  <2>7. CASE Record(v)
    BY <2>1, <2>7 DEF Record
  <2>8. CASE FailProcess(v) \/ Restart(v)
    BY <2>1, <2>8 DEF FailProcess, Restart
  <2>9. QED
    BY <1>1, <2>2, <2>3, <2>4, <2>5, <2>6, <2>7, <2>8 DEF Step
<1>2. ASSUME NEW w \in Workers, w # v, Receive(w) \/ Step(w) \/ Restart(w)
      PROVE  failed'[v] = {}
  BY <1>2, OtherLocals DEF IdleIsFresh
<1>3. CASE Expire \/ ServiceWrites \/ UNCHANGED vars
  BY <1>3 DEF Expire, ServiceWrites, localVars, vars, IdleIsFresh
<1>4. QED
  BY <1>1, <1>2, <1>3 DEF Next

LEMMA NextDInv ==
    ASSUME Direct \cap Members = {}, TypeOK, TypeOK', DInv, [Next]_vars
    PROVE  DInv'
<1>1. LastReceiver' /\ IdleIsFresh'
  BY LastReceiverNext, IdleIsFreshNext DEF DInv
<1>2. ASSUME NEW r \in Recipients, NEW c \in Channels
      PROVE  IsFiniteSet(Pending(c)') /\ Budget(r, c)'
  BY BudgetStep, BudgetReceive, BudgetElse DEF Next
<1>3. ASSUME NEW c \in Channels PROVE IsFiniteSet(Pending(c)')
  <2>1. IsFiniteSet(Pending(c))
    BY DEF DInv
  <2>2. ASSUME NEW w \in Workers, Receive(w) PROVE IsFiniteSet(Pending(c)')
    <3>1. Pending(c)' = Pending(c) \cup {w}
      BY <2>2, OtherLocals DEF Pending, MayStillSend, Receive, GoTo, TypeOK
    <3>2. QED
      BY <2>1, <3>1, FS_AddElement
  <2>3. ASSUME NEW w \in Workers, Step(w) \/ Restart(w) PROVE IsFiniteSet(Pending(c)')
    <3>1. Pending(c)' \in SUBSET Pending(c)
      BY <2>3, PendingShrinks
    <3>2. QED
      BY <2>1, <3>1, FS_Subset
  <2>4. CASE Expire \/ ServiceWrites \/ UNCHANGED vars
    BY <2>1, <2>4 DEF Pending, MayStillSend, Expire, ServiceWrites, vars, localVars
  <2>5. QED
    BY <2>2, <2>3, <2>4 DEF Next
<1>4. QED
  BY <1>1, <1>2, <1>3 DEF DInv

LEMMA DInvBounds ==
    ASSUME TypeOK, DInv
    PROVE  DuplicatesNeedFaults
<1> SUFFICES ASSUME NEW r \in Recipients, NEW c \in Channels
             PROVE  delivered[r][c] <= 1 + faults
  BY DEF DuplicatesNeedFaults
<1>1. IsFiniteSet(Pending(c)) /\ Budget(r, c)
  BY DEF DInv
<1>2. Cardinality(Pending(c)) \in Nat /\ Again \in {0, 1}
  BY <1>1, FS_CardinalityType DEF Again
<1>3. delivered[r][c] \in Nat /\ faults \in Nat
  BY WorkerAssumption DEF TypeOK
<1>4. QED
  BY <1>1, <1>2, <1>3 DEF Budget

\* Every repetition is paid for by a fault: when nobody is named both directly and by the
\* list, whatever the workers, the queue and the service do, a recipient receives at most
\* one copy on a channel plus one for each call that failed, process that died and
\* visibility timeout that expired under a running attempt (worker.go:338-404).
THEOREM DuplicatesPaidFor == Direct \cap Members = {} => (Spec => []DuplicatesNeedFaults)
<1> SUFFICES ASSUME Direct \cap Members = {} PROVE Spec => []DuplicatesNeedFaults
  OBVIOUS
<1>1. TypeOK /\ TypeOK' /\ DInv /\ [Next]_vars => DInv'
  BY NextDInv
<1>2. TypeOK /\ DInv => DuplicatesNeedFaults
  BY DInvBounds
<1>3. QED
  BY InitDInv, TypeCorrect, <1>1, <1>2, PTL DEF Spec
=============================================================================
