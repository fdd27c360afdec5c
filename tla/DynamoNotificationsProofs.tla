---------------------- MODULE DynamoNotificationsProofs ----------------------
(***************************************************************************)
(* The notifications on DynamoDB keep the promise of both registries, for  *)
(* any notifications, recipients, handlers, batches and failing calls.     *)
(***************************************************************************)
EXTENDS DynamoNotifications, TLAPS

\* The operations a call is made for
Consistent ==
    \A c \in Clients :
        /\ pc[c] \in {"variables", "put"} => op[c] = "save"
        /\ pc[c] = "exists" => op[c] \in {"save", "update", "cancel", "report"}
        /\ pc[c] = "write"  => op[c] \in {"save", "update", "cancel"}
        /\ pc[c] = "status" => op[c] \in {"delete", "cancel"}
        /\ pc[c] = "remove" => op[c] = "delete"
        /\ pc[c] \in {"item", "details"} => op[c] \in {"get", "details"}
        /\ pc[c] \in {"log", "latest"} => op[c] = "report"
        /\ op[c] = "save" => status[c] = "CREATED"

\* Until its item is put a POST has its notification for itself
Posting ==
    \A c \in Clients : pc[c] \in {"variables", "put"} =>
        /\ row[id[c]] = "unsaved"
        /\ \A d \in Clients : d # c /\ pc[d] # "idle" => id[d] # id[c]

Posted == \A n \in accepted : row[n] # "unsaved"

\* Who is reported FAILED is known from the request on
Reporting ==
    \A c \in Clients : pc[c] \in {"exists", "log", "latest"} /\ op[c] = "report" =>
        \A u \in Recipients : report[c][u] = "FAILED" => u \in failing[id[c]]

----------------------------------------------------------------------------
(* Type correctness *)

Labels == {"idle", "variables", "put", "exists", "write", "status", "remove",
           "item", "details", "log", "latest"}

LEMMA TypeInit == Init => TypeOK
BY DynamoNotificationsAssumption DEF Init, TypeOK, Statuses, Operations

\* Where a handler goes
LEMMA Control ==
    ASSUME TypeOK, NEW c \in Clients
    PROVE  /\ \A code \in {200, 204, 400, 404, 500} : Reply(c, code) =>
                 pc' \in [Clients -> Labels] /\ answer' \in [Clients -> {0, 200, 204, 400, 404, 500}]
           /\ \A label \in Labels : GoTo(c, label) =>
                 pc' \in [Clients -> Labels] /\ answer' \in [Clients -> {0, 200, 204, 400, 404, 500}]
           /\ Succeed(c) =>
                 /\ pc' \in [Clients -> Labels] /\ answer' \in [Clients -> {0, 200, 204, 400, 404, 500}]
                 /\ accepted' \in SUBSET Ids /\ told' \in [Ids -> SUBSET Recipients]
                 /\ failing' = failing
<1>1. \A code \in {200, 204, 400, 404, 500} : Reply(c, code) =>
         pc' \in [Clients -> Labels] /\ answer' \in [Clients -> {0, 200, 204, 400, 404, 500}]
  BY DEF Reply, TypeOK, Labels
<1>2. \A label \in Labels : GoTo(c, label) =>
         pc' \in [Clients -> Labels] /\ answer' \in [Clients -> {0, 200, 204, 400, 404, 500}]
  BY DEF GoTo, TypeOK, Labels
<1>3. ASSUME Succeed(c)
      PROVE  /\ pc' \in [Clients -> Labels] /\ answer' \in [Clients -> {0, 200, 204, 400, 404, 500}]
             /\ accepted' \in SUBSET Ids /\ told' \in [Ids -> SUBSET Recipients]
             /\ failing' = failing
  <2>1. pc' \in [Clients -> Labels] /\ answer' \in [Clients -> {0, 200, 204, 400, 404, 500}]
    BY <1>1, <1>3 DEF Succeed
  <2>2. accepted' \in SUBSET Ids /\ failing' = failing
    BY <1>3 DEF Succeed, TypeOK
  <2>3. told' \in [Ids -> SUBSET Recipients]
    BY <1>3 DEF Succeed, TypeOK
  <2>4. QED
    BY <2>1, <2>2, <2>3
<1>4. QED
  BY <1>1, <1>2, <1>3

\* How a call ends, whichever it is
Ends(c) ==
    \/ Succeed(c)
    \/ \E code \in {400, 404, 500} : Refuse(c, code)
    \/ \E label \in Labels \ {"idle"} : Continue(c, label)

GhostsTyped ==
    /\ pc' \in [Clients -> Labels] /\ answer' \in [Clients -> {0, 200, 204, 400, 404, 500}]
    /\ accepted' \in SUBSET Ids
    /\ told' \in [Ids -> SUBSET Recipients] /\ failing' \in [Ids -> SUBSET Recipients]

LEMMA EndsTyped == ASSUME TypeOK, NEW c \in Clients, Ends(c) PROVE GhostsTyped
<1>1. CASE Succeed(c)
  BY <1>1, Control DEF TypeOK, GhostsTyped
<1>2. ASSUME NEW code \in {400, 404, 500}, Refuse(c, code) PROVE GhostsTyped
  BY <1>2, Control DEF TypeOK, GhostsTyped, Refuse, ghostVars
<1>3. ASSUME NEW label \in Labels \ {"idle"}, Continue(c, label) PROVE GhostsTyped
  BY <1>3, Control DEF TypeOK, GhostsTyped, Continue, ghostVars
<1>4. QED
  BY <1>1, <1>2, <1>3 DEF Ends

\* What the existence check leads to, and that it leads nowhere else
LEMMA CheckExistsDoes ==
    ASSUME NEW c \in Clients, CheckExists(c)
    PROVE  \/ \E code \in {404, 500} : Refuse(c, code)
           \/ op[c] # "report" /\ Continue(c, "write")
           \/ op[c] = "report" /\ Reported(c) = {} /\ Succeed(c)
           \/ op[c] = "report" /\ Reported(c) # {} /\ Continue(c, "log")
<1>1. PICK s \in Found(id[c]) :
         IF s \in Statuses
         THEN CASE op[c] # "report"                    -> Continue(c, "write")
                [] op[c] = "report" /\ Reported(c) = {} -> Succeed(c)
                [] op[c] = "report" /\ Reported(c) # {} -> Continue(c, "log")
         ELSE Refuse(c, IF op[c] \in {"save", "cancel"} THEN 500 ELSE 404)
  BY Zenon DEF CheckExists
<1>2. CASE s \notin Statuses
  <2>1. Refuse(c, IF op[c] \in {"save", "cancel"} THEN 500 ELSE 404)
    BY <1>1, <1>2
  <2>2. CASE op[c] \in {"save", "cancel"}
    BY <2>1, <2>2
  <2>3. CASE op[c] \notin {"save", "cancel"}
    BY <2>1, <2>3
  <2>4. QED
    BY <2>2, <2>3
<1>3. CASE s \in Statuses
  <2>1. CASE op[c] = "report"
    <3>1. CASE Reported(c) = {}
      BY <1>1, <1>3, <2>1, <3>1
    <3>2. CASE Reported(c) # {}
      BY <1>1, <1>3, <2>1, <3>2
    <3>3. QED
      BY <3>1, <3>2
  <2>2. CASE op[c] # "report"
    BY <1>1, <1>3, <2>2
  <2>3. QED
    BY <2>1, <2>2
<1>4. QED
  BY <1>2, <1>3

\* The calls that only read
Reads(c) == CheckVariables(c) \/ CheckExists(c) \/ ReadStatus(c) \/ ReadItem(c) \/ ReadDetails(c)

LEMMA ReadsEnd == ASSUME NEW c \in Clients, Reads(c) \/ ReadFails(c) PROVE Ends(c)
<1>1. CASE CheckVariables(c)
  <2>1. Continue(c, "put") \/ Refuse(c, 400)
    BY <1>1, Zenon DEF CheckVariables
  <2>2. "put" \in Labels \ {"idle"} /\ 400 \in {400, 404, 500}
    BY DEF Labels
  <2>3. QED
    BY <2>1, <2>2, Zenon DEF Ends
<1>2. CASE CheckExists(c)
  <2>1. "write" \in Labels \ {"idle"} /\ "log" \in Labels \ {"idle"}
    BY DEF Labels
  <2>2. QED
    BY <1>2, <2>1, CheckExistsDoes DEF Ends
<1>3. CASE ReadStatus(c)
  BY <1>3 DEF ReadStatus, Ends, Labels
<1>4. CASE ReadItem(c)
  BY <1>4 DEF ReadItem, Ends, Labels
<1>5. CASE ReadDetails(c)
  BY <1>5 DEF ReadDetails, Ends, Labels
<1>6. CASE ReadFails(c)
  BY <1>6 DEF ReadFails, Ends, Labels
<1>7. QED
  BY <1>1, <1>2, <1>3, <1>4, <1>5, <1>6 DEF Reads

\* and those that write
LEMMA WritesEnd ==
    ASSUME NEW c \in Clients,
           Put(c) \/ WriteStatus(c) \/ RemoveItem(c) \/ LogResults(c) \/ PutLatest(c)
    PROVE  Ends(c)
<1>1. CASE Put(c)
  BY <1>1 DEF Put, Ends, Labels
<1>2. CASE WriteStatus(c)
  BY <1>2 DEF WriteStatus, Ends, Labels
<1>3. CASE RemoveItem(c)
  BY <1>3 DEF RemoveItem, Ends, Labels
<1>4. CASE LogResults(c)
  BY <1>4 DEF LogResults, Ends, Labels
<1>5. CASE PutLatest(c)
  BY <1>5 DEF PutLatest, Ends, Labels
<1>6. QED
  BY <1>1, <1>2, <1>3, <1>4, <1>5

LEMMA SpendTyped == ASSUME TypeOK, NEW failed \in BOOLEAN, Spend(failed) PROVE faults' \in 0..MaxFaults
BY DynamoNotificationsAssumption DEF Spend, TypeOK

LEMMA SetRowTyped ==
    ASSUME TypeOK, NEW n \in Ids, NEW s \in Statuses \cup {"unsaved", "deleted"}, SetRow(n, s)
    PROVE  /\ row' \in [Ids -> Statuses \cup {"unsaved", "deleted"}]
           /\ former' \in [Ids -> SUBSET (Statuses \cup {"unsaved", "deleted"})]
BY DEF SetRow, TypeOK

LEMMA WithTyped ==
    ASSUME TypeOK, NEW c \in Clients, NEW who \in SUBSET Recipients,
           NEW table \in [Ids -> [Recipients -> Results \cup {"none"}]]
    PROVE  With(table, c, who) \in [Ids -> [Recipients -> Results \cup {"none"}]]
BY DEF With, TypeOK

LEMMA CallTyped == ASSUME TypeOK, NEW c \in Clients, Call(c) PROVE TypeOK'
<1>1. PICK o \in Operations, n \in Ids :
         /\ op' = [op EXCEPT ![c] = o]
         /\ id' = [id EXCEPT ![c] = n]
         /\ GoTo(c, FirstCall(o, n))
         /\ \E s \in Written(o) : status' = [status EXCEPT ![c] = s]
         /\ IF o # "report"
            THEN UNCHANGED <<report, failing>>
            ELSE \E r \in [Recipients -> Results \cup {"none"}] :
                   /\ report' = [report EXCEPT ![c] = r]
                   /\ failing' = [failing EXCEPT
                                    ![n] = @ \cup {u \in Recipients : r[u] = "FAILED"}]
  BY DEF Call
<1>2. FirstCall(o, n) \in Labels
  BY DEF FirstCall, Operations, Labels
<1>3. pc' \in [Clients -> Labels] /\ answer' \in [Clients -> {0, 200, 204, 400, 404, 500}]
  BY <1>1, <1>2, Control
<1>4. Written(o) \subseteq Statuses
  BY DEF Written, Statuses
<1>5. status' \in [Clients -> Statuses]
  BY <1>1, <1>4 DEF TypeOK
<1>6. /\ report' \in [Clients -> [Recipients -> Results \cup {"none"}]]
      /\ failing' \in [Ids -> SUBSET Recipients]
  <2>1. CASE o # "report"
    BY <1>1, <2>1 DEF TypeOK
  <2>2. CASE o = "report"
    <3>1. PICK r \in [Recipients -> Results \cup {"none"}] :
             /\ report' = [report EXCEPT ![c] = r]
             /\ failing' = [failing EXCEPT ![n] = @ \cup {u \in Recipients : r[u] = "FAILED"}]
      BY <1>1, <2>2
    <3>2. report' \in [Clients -> [Recipients -> Results \cup {"none"}]]
      BY <3>1 DEF TypeOK
    <3>3. {u \in Recipients : r[u] = "FAILED"} \in SUBSET Recipients
      OBVIOUS
    <3>4. failing' \in [Ids -> SUBSET Recipients]
      BY <3>1, <3>3 DEF TypeOK
    <3>5. QED
      BY <3>2, <3>4
  <2>3. QED
    BY <2>1, <2>2
<1>7. op' \in [Clients -> Operations] /\ id' \in [Clients -> Ids]
  BY <1>1 DEF TypeOK
<1>8. calls' \in 0..MaxCalls
  BY DynamoNotificationsAssumption DEF Call, TypeOK
<1>9. UNCHANGED <<itemVars, resultVars, templateVars, accepted, told, faults>>
  BY DEF Call
<1>10. QED
  BY <1>3, <1>5, <1>6, <1>7, <1>8, <1>9 DEF TypeOK, Labels, itemVars, resultVars, templateVars

LEMMA TypeNext == TypeOK /\ [Next]_vars => TypeOK'
<1> SUFFICES ASSUME TypeOK, [Next]_vars PROVE TypeOK'
  OBVIOUS
<1>1. ASSUME NEW c \in Clients, Call(c) PROVE TypeOK'
  BY <1>1, CallTyped
<1>2. ASSUME NEW c \in Clients, Reads(c) \/ ReadFails(c) PROVE TypeOK'
  <2>1. GhostsTyped
    BY <1>2, ReadsEnd, EndsTyped
  <2>2. UNCHANGED <<itemVars, resultVars, templateVars, requestVars, calls>>
    BY <1>2 DEF Reads, ReadFails, CheckVariables, CheckExists, ReadStatus, ReadItem, ReadDetails
  <2>3. faults' \in 0..MaxFaults
    <3>1. CASE Reads(c)
      BY <3>1 DEF Reads, CheckVariables, CheckExists, ReadStatus, ReadItem, ReadDetails, TypeOK
    <3>2. CASE ReadFails(c)
      BY <3>2, SpendTyped DEF ReadFails
    <3>3. QED
      BY <1>2, <3>1, <3>2
  <2>4. QED
    BY <2>1, <2>2, <2>3 DEF TypeOK, GhostsTyped, Labels, itemVars, resultVars, templateVars, requestVars
<1>3. ASSUME NEW c \in Clients, Put(c) \/ WriteStatus(c) \/ RemoveItem(c) PROVE TypeOK'
  <2>1. GhostsTyped
    BY <1>3, WritesEnd, EndsTyped
  <2>2. UNCHANGED <<resultVars, templateVars, requestVars, calls>>
    BY <1>3 DEF Put, WriteStatus, RemoveItem
  <2>3. faults' \in 0..MaxFaults
    <3>1. CASE Put(c)
      BY <3>1, SpendTyped DEF Put
    <3>2. CASE RemoveItem(c)
      BY <3>2, SpendTyped DEF RemoveItem
    <3>3. CASE WriteStatus(c)
      <4>1. PICK ok \in BOOLEAN : Spend(~ok /\ Exists(id[c]))
        BY <3>3 DEF WriteStatus
      <4>2. (~ok /\ Exists(id[c])) \in BOOLEAN
        BY DEF Exists
      <4>3. QED
        BY <4>1, <4>2, SpendTyped
    <3>4. QED
      BY <1>3, <3>1, <3>2, <3>3
  <2>4. /\ row' \in [Ids -> Statuses \cup {"unsaved", "deleted"}]
        /\ former' \in [Ids -> SUBSET (Statuses \cup {"unsaved", "deleted"})]
        /\ log' \in [Ids -> SUBSET Statuses]
    <3>1. id[c] \in Ids /\ status[c] \in Statuses /\ "CREATED" \in Statuses
      BY DEF TypeOK, Statuses
    <3>2. CASE Put(c)
      BY <3>1, <3>2, SetRowTyped DEF Put, TypeOK
    <3>3. CASE RemoveItem(c)
      BY <3>1, <3>3, SetRowTyped DEF RemoveItem, TypeOK
    <3>4. CASE WriteStatus(c)
      <4>1. CASE UNCHANGED itemVars
        BY <4>1 DEF TypeOK, itemVars
      <4>2. CASE SetRow(id[c], status[c]) /\ log' = [log EXCEPT ![id[c]] = @ \cup {status[c]}]
        BY <3>1, <4>2, SetRowTyped DEF TypeOK
      <4>3. QED
        BY <3>4, <4>1, <4>2 DEF WriteStatus
    <3>5. QED
      BY <1>3, <3>2, <3>3, <3>4
  <2>5. QED
    BY <2>1, <2>2, <2>3, <2>4 DEF TypeOK, GhostsTyped, Labels, resultVars, templateVars, requestVars
<1>4. ASSUME NEW c \in Clients, LogResults(c) \/ PutLatest(c) PROVE TypeOK'
  <2>1. GhostsTyped
    BY <1>4, WritesEnd, EndsTyped
  <2>2. UNCHANGED <<itemVars, templateVars, requestVars, calls>>
    BY <1>4 DEF LogResults, PutLatest
  <2>3. Reported(c) \subseteq Recipients
    BY DEF Reported
  <2>4. CASE LogResults(c)
    <3>1. PICK who \in SUBSET Reported(c), ok \in BOOLEAN :
             /\ Spend(~(Cardinality(Reported(c)) > BatchMax) /\ ~(ok /\ who = Reported(c)))
             /\ results' = With(results, c, who)
      BY <2>4 DEF LogResults
    <3>2. (~(Cardinality(Reported(c)) > BatchMax) /\ ~(ok /\ who = Reported(c))) \in BOOLEAN
      OBVIOUS
    <3>3. faults' \in 0..MaxFaults
      BY <3>1, <3>2, SpendTyped
    <3>4. results' \in [Ids -> [Recipients -> Results \cup {"none"}]] /\ latest' = latest
      BY <2>3, <2>4, <3>1, WithTyped DEF TypeOK, LogResults
    <3>5. QED
      BY <2>1, <2>2, <3>3, <3>4 DEF TypeOK, GhostsTyped, Labels, itemVars, templateVars, requestVars
  <2>5. CASE PutLatest(c)
    <3>1. PICK done \in BOOLEAN, ok \in BOOLEAN :
             /\ Spend(~ok)
             /\ latest' = IF done THEN With(latest, c, Reported(c)) ELSE latest
      BY <2>5 DEF PutLatest
    <3>2. faults' \in 0..MaxFaults
      BY <3>1, SpendTyped
    <3>3. latest' \in [Ids -> [Recipients -> Results \cup {"none"}]] /\ results' = results
      BY <2>3, <2>5, <3>1, WithTyped DEF TypeOK, PutLatest
    <3>4. QED
      BY <2>1, <2>2, <3>2, <3>3 DEF TypeOK, GhostsTyped, Labels, itemVars, templateVars, requestVars
  <2>6. QED
    BY <1>4, <2>4, <2>5
<1>5. CASE SaveTemplate \/ DeleteTemplate
  <2>1. PICK before \in {"unsaved", "saved"}, after \in {"saved", "deleted"} : WriteTemplate(before, after)
    BY <1>5 DEF SaveTemplate, DeleteTemplate
  <2>2. faults' \in 0..MaxFaults
    BY <2>1, SpendTyped DEF WriteTemplate
  <2>3. template' \in {"unsaved", "saved", "deleted"} /\ stale' \subseteq {"unsaved", "saved"}
    <3>1. template = before
      BY <2>1 DEF WriteTemplate
    <3>2. \/ template' = after /\ stale' = stale \cup {template}
          \/ UNCHANGED templateVars
      BY <2>1 DEF WriteTemplate
    <3>3. CASE template' = after /\ stale' = stale \cup {template}
      BY <3>1, <3>3 DEF TypeOK
    <3>4. CASE UNCHANGED templateVars
      BY <3>4 DEF TypeOK, templateVars
    <3>5. QED
      BY <3>2, <3>3, <3>4
  <2>4. QED
    BY <2>1, <2>2, <2>3 DEF WriteTemplate, TypeOK, itemVars, resultVars, requestVars, ghostVars
<1>6. CASE Converge
  <2>1. UNCHANGED <<row, log, template, resultVars, pc, requestVars, answer, ghostVars, calls, faults>>
    BY <1>6 DEF Converge
  <2>2. CASE stale' = {} /\ UNCHANGED former
    BY <2>1, <2>2 DEF TypeOK, resultVars, requestVars, ghostVars
  <2>3. ASSUME NEW n \in Ids, former' = [former EXCEPT ![n] = {}], UNCHANGED stale
        PROVE  TypeOK'
    BY <2>1, <2>3 DEF TypeOK, resultVars, requestVars, ghostVars
  <2>4. QED
    BY <1>6, <2>2, <2>3 DEF Converge
<1>7. CASE UNCHANGED vars
  BY <1>7 DEF vars, TypeOK, itemVars, resultVars, templateVars, requestVars, ghostVars
<1>8. QED
  BY <1>1, <1>2, <1>3, <1>4, <1>5, <1>6, <1>7 DEF Next, Step, Reads

----------------------------------------------------------------------------
(* The invariants *)

\* The way of a handler through its calls
Moved(c) ==
    /\ pc[c] # "idle"
    /\ \A d \in Clients \ {c} : pc'[d] = pc[d]
    /\ UNCHANGED requestVars
    /\ \/ pc'[c] = "idle"
       \/ pc[c] = "variables" /\ pc'[c] = "put"
       \/ pc[c] = "put" /\ pc'[c] = "exists"
       \/ pc[c] = "exists" /\ op[c] # "report" /\ pc'[c] = "write"
       \/ pc[c] = "exists" /\ op[c] = "report" /\ pc'[c] = "log"
       \/ pc[c] = "status" /\ op[c] = "delete" /\ pc'[c] = "remove"
       \/ pc[c] = "status" /\ op[c] = "cancel" /\ pc'[c] = "exists"
       \/ pc[c] = "log" /\ pc'[c] = "latest"

LEMMA Targets ==
    ASSUME TypeOK, NEW c \in Clients
    PROVE  /\ \A code : Refuse(c, code) => pc'[c] = "idle" /\ \A d \in Clients \ {c} : pc'[d] = pc[d]
           /\ Succeed(c) => pc'[c] = "idle" /\ \A d \in Clients \ {c} : pc'[d] = pc[d]
           /\ \A label : Continue(c, label) =>
                 pc'[c] = label /\ \A d \in Clients \ {c} : pc'[d] = pc[d]
BY DEF Refuse, Succeed, Continue, Reply, GoTo, TypeOK

LEMMA StepsMove ==
    ASSUME TypeOK, NEW c \in Clients, Step(c) \/ ReadFails(c)
    PROVE  Moved(c)
<1>1. CASE CheckVariables(c)
  BY <1>1, Targets DEF CheckVariables, Moved
<1>2. CASE CheckExists(c)
  <2>1. pc[c] = "exists" /\ UNCHANGED requestVars
    BY <1>2, Zenon DEF CheckExists
  <2>2. \A d \in Clients \ {c} : pc'[d] = pc[d]
    BY <1>2, CheckExistsDoes, Targets
  <2>3. \/ pc'[c] = "idle"
        \/ op[c] # "report" /\ pc'[c] = "write"
        \/ op[c] = "report" /\ pc'[c] = "log"
    BY <1>2, CheckExistsDoes, Targets
  <2>4. QED
    BY <2>1, <2>2, <2>3 DEF Moved
<1>3. CASE ReadStatus(c)
  BY <1>3, Targets DEF ReadStatus, Moved
<1>4. CASE ReadItem(c)
  BY <1>4, Targets DEF ReadItem, Moved
<1>5. CASE ReadDetails(c)
  BY <1>5, Targets DEF ReadDetails, Moved
<1>6. CASE ReadFails(c)
  BY <1>6, Targets DEF ReadFails, Moved
<1>7. CASE Put(c)
  BY <1>7, Targets DEF Put, Moved
<1>8. CASE WriteStatus(c)
  BY <1>8, Targets DEF WriteStatus, Moved
<1>9. CASE RemoveItem(c)
  BY <1>9, Targets DEF RemoveItem, Moved
<1>10. CASE LogResults(c)
  BY <1>10, Targets DEF LogResults, Moved
<1>11. CASE PutLatest(c)
  BY <1>11, Targets DEF PutLatest, Moved
<1>12. QED
  BY <1>1, <1>2, <1>3, <1>4, <1>5, <1>6, <1>7, <1>8, <1>9, <1>10, <1>11 DEF Step

LEMMA ConsistentMoved ==
    ASSUME TypeOK, Consistent, NEW c \in Clients, Moved(c)
    PROVE  Consistent'
<1>1. UNCHANGED <<op, status>>
  BY DEF Moved, requestVars
<1>2. SUFFICES ASSUME NEW d \in Clients
               PROVE  /\ pc'[d] \in {"variables", "put"} => op[d] = "save"
                      /\ pc'[d] = "exists" => op[d] \in {"save", "update", "cancel", "report"}
                      /\ pc'[d] = "write"  => op[d] \in {"save", "update", "cancel"}
                      /\ pc'[d] = "status" => op[d] \in {"delete", "cancel"}
                      /\ pc'[d] = "remove" => op[d] = "delete"
                      /\ pc'[d] \in {"item", "details"} => op[d] \in {"get", "details"}
                      /\ pc'[d] \in {"log", "latest"} => op[d] = "report"
                      /\ op[d] = "save" => status[d] = "CREATED"
  BY <1>1 DEF Consistent
<1>3. CASE d = c
  BY <1>3 DEF Moved, Consistent
<1>4. CASE d # c
  BY <1>4 DEF Moved, Consistent
<1>5. QED
  BY <1>3, <1>4

\* Reports move within exists, log and latest; a POST gets to its item from the request
LEMMA ReportingMoved ==
    ASSUME TypeOK, Consistent, Reporting, NEW c \in Clients, Moved(c), failing' = failing
    PROVE  Reporting'
<1>1. UNCHANGED <<op, id, report>>
  BY DEF Moved, requestVars
<1>2. SUFFICES ASSUME NEW d \in Clients, pc'[d] \in {"exists", "log", "latest"}, op[d] = "report"
               PROVE  \A u \in Recipients : report[d][u] = "FAILED" => u \in failing[id[d]]
  BY <1>1 DEF Reporting
<1>3. pc[d] \in {"exists", "log", "latest"}
  <2>1. CASE d = c
    BY <1>2, <2>1 DEF Moved, Consistent
  <2>2. CASE d # c
    BY <1>2, <2>2 DEF Moved
  <2>3. QED
    BY <2>1, <2>2
<1>4. QED
  BY <1>2, <1>3 DEF Reporting

\* Only the step of a POST itself touches what it will put
LEMMA PostingMoved ==
    ASSUME TypeOK, Consistent, Posting, NEW c \in Clients, Moved(c),
           \A n \in Ids : row'[n] # row[n] => n = id[c] /\ pc[c] # "variables"
    PROVE  Posting'
<1>1. UNCHANGED id
  BY DEF Moved, requestVars
<1>2. SUFFICES ASSUME NEW d \in Clients, pc'[d] \in {"variables", "put"}
               PROVE  /\ row'[id[d]] = "unsaved"
                      /\ \A e \in Clients : e # d /\ pc'[e] # "idle" => id[e] # id[d]
  BY <1>1 DEF Posting
<1>3. pc[d] \in {"variables", "put"} /\ (d = c => pc[d] = "variables")
  <2>1. CASE d = c
    BY <1>2, <2>1 DEF Moved
  <2>2. CASE d # c
    BY <1>2, <2>2 DEF Moved
  <2>3. QED
    BY <2>1, <2>2
<1>4. row[id[d]] = "unsaved" /\ \A e \in Clients : e # d /\ pc[e] # "idle" => id[e] # id[d]
  BY <1>3 DEF Posting
<1>5. row'[id[d]] = "unsaved"
  <2>1. id[d] \in Ids
    BY DEF TypeOK
  <2>2. CASE d = c
    BY <1>3, <1>4, <2>1, <2>2
  <2>3. CASE d # c
    BY <1>4, <2>1, <2>3 DEF Moved
  <2>4. QED
    BY <2>2, <2>3
<1>6. ASSUME NEW e \in Clients, e # d, pc'[e] # "idle" PROVE id[e] # id[d]
  <2>1. pc[e] # "idle"
    BY <1>6 DEF Moved
  <2>2. QED
    BY <1>4, <1>6, <2>1
<1>7. QED
  BY <1>5, <1>6

\* What the steps that neither write a status nor the latest one leave as it is
LEMMA Quiet ==
    ASSUME TypeOK, Consistent, NEW c \in Clients,
           Reads(c) \/ ReadFails(c) \/ Put(c) \/ RemoveItem(c) \/ LogResults(c)
    PROVE  accepted' = accepted /\ told' = told /\ failing' = failing
<1>1. ASSUME Succeed(c), op[c] \notin {"save", "report"}
      PROVE  accepted' = accepted /\ told' = told /\ failing' = failing
  BY <1>1 DEF Succeed
<1>2. ASSUME NEW code, Refuse(c, code)
      PROVE  accepted' = accepted /\ told' = told /\ failing' = failing
  BY <1>2 DEF Refuse, ghostVars
<1>3. ASSUME NEW label, Continue(c, label)
      PROVE  accepted' = accepted /\ told' = told /\ failing' = failing
  BY <1>3 DEF Continue, ghostVars
<1>4. CASE CheckVariables(c)
  BY <1>2, <1>3, <1>4 DEF CheckVariables
<1>5. CASE CheckExists(c)
  <2>1. ASSUME op[c] = "report", Reported(c) = {}, Succeed(c)
        PROVE  accepted' = accepted /\ told' = told /\ failing' = failing
    <3>1. {u \in Recipients : report[c][u] = "SENT"} = {}
      BY <2>1 DEF Reported
    <3>2. told' = [told EXCEPT ![id[c]] = @ \cup {}]
      BY <2>1, <3>1 DEF Succeed
    <3>3. told' = told
      BY <3>2 DEF TypeOK
    <3>4. QED
      BY <2>1, <3>3 DEF Succeed
  <2>2. QED
    BY <1>2, <1>3, <1>5, <2>1, CheckExistsDoes
<1>6. CASE ReadStatus(c)
  BY <1>1, <1>2, <1>3, <1>6 DEF ReadStatus
<1>7. CASE ReadItem(c)
  BY <1>1, <1>2, <1>3, <1>7 DEF ReadItem, Consistent
<1>8. CASE ReadDetails(c)
  BY <1>1, <1>2, <1>3, <1>8 DEF ReadDetails, Consistent
<1>9. CASE ReadFails(c)
  BY <1>1, <1>2, <1>3, <1>9 DEF ReadFails, Consistent
<1>10. CASE Put(c)
  BY <1>2, <1>3, <1>10 DEF Put
<1>11. CASE RemoveItem(c)
  BY <1>1, <1>2, <1>3, <1>11 DEF RemoveItem, Consistent
<1>12. CASE LogResults(c)
  BY <1>2, <1>3, <1>12 DEF LogResults
<1>13. QED
  BY <1>4, <1>5, <1>6, <1>7, <1>8, <1>9, <1>10, <1>11, <1>12 DEF Reads

\* The invariants but for type correctness
Rest == Consistent /\ Posting /\ Posted /\ LogTellsStatus /\ Reporting /\ ToldIsLatest

LEMMA RestInit == Init => Rest
<1> SUFFICES ASSUME Init PROVE Rest
  OBVIOUS
<1>1. Consistent /\ Posting /\ Posted /\ Reporting
  BY DEF Init, Consistent, Posting, Posted, Reporting
<1>2. LogTellsStatus
  BY DEF Init, LogTellsStatus, Exists, Statuses
<1>3. ToldIsLatest
  BY DEF Init, ToldIsLatest
<1>4. QED
  BY <1>1, <1>2, <1>3 DEF Rest

LEMMA RestCall == ASSUME TypeOK, Rest, NEW c \in Clients, Call(c) PROVE Rest'
<1>1. PICK o \in Operations, n \in Ids :
         /\ o = "save" => row[n] = "unsaved" /\ \A d \in Clients : pc[d] # "idle" => id[d] # n
         /\ o # "save" => row[n] # "unsaved"
         /\ op' = [op EXCEPT ![c] = o]
         /\ id' = [id EXCEPT ![c] = n]
         /\ pc' = [pc EXCEPT ![c] = FirstCall(o, n)]
         /\ \E s \in Written(o) : status' = [status EXCEPT ![c] = s]
         /\ IF o # "report"
            THEN UNCHANGED <<report, failing>>
            ELSE \E r \in [Recipients -> Results \cup {"none"}] :
                   /\ report' = [report EXCEPT ![c] = r]
                   /\ failing' = [failing EXCEPT
                                    ![n] = @ \cup {u \in Recipients : r[u] = "FAILED"}]
  BY DEF Call, GoTo
<1>1b. PICK s \in Written(o) : status' = [status EXCEPT ![c] = s]
  BY <1>1
<1>2. UNCHANGED <<row, log, latest, accepted, told>> /\ pc[c] = "idle"
  BY DEF Call, itemVars, resultVars
<1>3. \A d \in Clients : d # c => /\ pc'[d] = pc[d] /\ op'[d] = op[d] /\ id'[d] = id[d]
                                  /\ status'[d] = status[d]
  BY <1>1, <1>1b DEF TypeOK
<1>4. /\ pc'[c] = FirstCall(o, n) /\ op'[c] = o /\ id'[c] = n /\ status'[c] = s
  BY <1>1, <1>1b DEF TypeOK
<1>5. Consistent'
  <2>1. /\ FirstCall(o, n) \in {"variables", "put"} => o = "save"
        /\ FirstCall(o, n) = "exists" => o \in {"update", "report"}
        /\ FirstCall(o, n) = "status" => o \in {"delete", "cancel"}
        /\ FirstCall(o, n) \in {"item", "details"} => o \in {"get", "details"}
        /\ FirstCall(o, n) \notin {"write", "remove", "log", "latest"}
    BY DEF FirstCall, Operations
  <2>2. o = "save" => s = "CREATED"
    BY DEF Written
  <2>3. QED
    BY <1>3, <1>4, <2>1, <2>2 DEF Consistent, Rest
<1>6. Posting'
  <2>1. SUFFICES ASSUME NEW d \in Clients, pc'[d] \in {"variables", "put"}
                 PROVE  /\ row[id'[d]] = "unsaved"
                        /\ \A e \in Clients : e # d /\ pc'[e] # "idle" => id'[e] # id'[d]
    BY <1>2 DEF Posting
  <2>2. CASE d = c
    <3>1. o = "save"
      BY <1>4, <2>1, <2>2 DEF FirstCall, Operations
    <3>2. QED
      BY <1>1, <1>3, <1>4, <2>2, <3>1
  <2>3. CASE d # c
    <3>1. /\ row[id[d]] = "unsaved"
          /\ \A e \in Clients : e # d /\ pc[e] # "idle" => id[e] # id[d]
          /\ pc[d] # "idle"
      BY <1>3, <2>1, <2>3 DEF Posting, Rest
    <3>2. n # id[d]
      BY <1>1, <2>3, <3>1
    <3>3. QED
      BY <1>3, <1>4, <2>3, <3>1, <3>2
  <2>4. QED
    BY <2>2, <2>3
<1>7. Posted' /\ LogTellsStatus'
  BY <1>2 DEF Posted, LogTellsStatus, Exists, Rest
<1>8. \A m \in Ids : failing[m] \subseteq failing'[m]
  <2>1. CASE o # "report"
    BY <1>1, <2>1
  <2>2. CASE o = "report"
    <3>1. PICK r \in [Recipients -> Results \cup {"none"}] :
             failing' = [failing EXCEPT ![n] = @ \cup {u \in Recipients : r[u] = "FAILED"}]
      BY <1>1, <2>2
    <3>2. QED
      BY <3>1 DEF TypeOK
  <2>3. QED
    BY <2>1, <2>2
<1>9. Reporting'
  <2>1. SUFFICES ASSUME NEW d \in Clients, pc'[d] \in {"exists", "log", "latest"}, op'[d] = "report",
                        NEW u \in Recipients, report'[d][u] = "FAILED"
                 PROVE  u \in failing'[id'[d]]
    BY DEF Reporting
  <2>2. CASE d = c
    <3>1. o = "report"
      BY <1>4, <2>1, <2>2
    <3>2. PICK r \in [Recipients -> Results \cup {"none"}] :
             /\ report' = [report EXCEPT ![c] = r]
             /\ failing' = [failing EXCEPT ![n] = @ \cup {v \in Recipients : r[v] = "FAILED"}]
      BY <1>1, <3>1
    <3>3. report'[c] = r /\ failing'[n] = failing[n] \cup {v \in Recipients : r[v] = "FAILED"}
      BY <3>2 DEF TypeOK
    <3>4. QED
      BY <1>4, <2>1, <2>2, <3>3
  <2>3. CASE d # c
    <3>1. report'[d] = report[d]
      <4>1. CASE o # "report"
        BY <1>1, <4>1
      <4>2. CASE o = "report"
        BY <1>1, <2>3, <4>2 DEF TypeOK
      <4>3. QED
        BY <4>1, <4>2
    <3>2. u \in failing[id[d]] /\ id[d] \in Ids
      BY <1>3, <2>1, <2>3, <3>1 DEF Reporting, Rest, TypeOK
    <3>3. QED
      BY <1>3, <1>8, <2>3, <3>2
  <2>4. QED
    BY <2>2, <2>3
<1>10. ToldIsLatest'
  BY <1>2, <1>8 DEF ToldIsLatest, Rest
<1>11. QED
  BY <1>5, <1>6, <1>7, <1>9, <1>10 DEF Rest

\* A step of a handler that leaves the items and the latest results as they are
LEMMA RestStill ==
    ASSUME TypeOK, Rest, NEW c \in Clients, Moved(c),
           UNCHANGED <<row, log, latest, accepted, told, failing>>
    PROVE  Rest'
<1>1. Consistent' /\ Reporting' /\ Posting'
  BY ConsistentMoved, ReportingMoved, PostingMoved DEF Rest
<1>2. Posted' /\ LogTellsStatus' /\ ToldIsLatest'
  BY DEF Posted, LogTellsStatus, ToldIsLatest, Exists, Rest
<1>3. QED
  BY <1>1, <1>2 DEF Rest

LEMMA SetRowSets ==
    ASSUME TypeOK, NEW n \in Ids, NEW s, SetRow(n, s)
    PROVE  row'[n] = s /\ \A m \in Ids \ {n} : row'[m] = row[m]
BY DEF SetRow, TypeOK

LEMMA RestPut == ASSUME TypeOK, Rest, NEW c \in Clients, Put(c) PROVE Rest'
<1>1. Moved(c)
  BY StepsMove DEF Step
<1>2. UNCHANGED <<accepted, told, failing, log, latest>>
  BY Quiet DEF Rest, Put, resultVars
<1>3. id[c] \in Ids /\ row[id[c]] = "unsaved" /\ id[c] \notin accepted /\ pc[c] = "put"
  BY DEF Put, Posting, Posted, Rest, TypeOK
<1>4. CASE UNCHANGED row
  BY <1>1, <1>2, <1>4, RestStill
<1>5. CASE SetRow(id[c], "CREATED")
  <2>1. row'[id[c]] = "CREATED" /\ \A m \in Ids \ {id[c]} : row'[m] = row[m]
    BY <1>3, <1>5, SetRowSets
  <2>2. Consistent' /\ Reporting'
    BY <1>1, <1>2, ConsistentMoved, ReportingMoved DEF Rest
  <2>3. Posting'
    <3>1. pc'[c] \notin {"variables", "put"}
      BY <1>1, <1>3 DEF Moved
    <3>2. UNCHANGED id /\ \A d \in Clients \ {c} : pc'[d] = pc[d]
      BY <1>1 DEF Moved, requestVars
    <3>3. SUFFICES ASSUME NEW d \in Clients, pc'[d] \in {"variables", "put"}
                   PROVE  /\ row'[id[d]] = "unsaved"
                          /\ \A e \in Clients : e # d /\ pc'[e] # "idle" => id[e] # id[d]
      BY <3>2 DEF Posting
    <3>4. d # c /\ pc[d] \in {"variables", "put"}
      BY <3>1, <3>2, <3>3
    <3>5. /\ row[id[d]] = "unsaved" /\ id[d] \in Ids
          /\ \A e \in Clients : e # d /\ pc[e] # "idle" => id[e] # id[d]
      BY <3>4 DEF Posting, Rest, TypeOK
    <3>6. id[c] # id[d]
      BY <1>3, <3>4, <3>5
    <3>7. QED
      BY <2>1, <3>2, <3>5, <3>6
  <2>4. Posted'
    BY <1>2, <1>3, <2>1 DEF Posted, Rest, TypeOK
  <2>5. LogTellsStatus'
    BY <1>2, <1>3, <2>1 DEF LogTellsStatus, Exists, Rest
  <2>6. ToldIsLatest'
    BY <1>2 DEF ToldIsLatest, Rest
  <2>7. QED
    BY <2>2, <2>3, <2>4, <2>5, <2>6 DEF Rest
<1>6. QED
  BY <1>4, <1>5 DEF Put

LEMMA RestRemove == ASSUME TypeOK, Rest, NEW c \in Clients, RemoveItem(c) PROVE Rest'
<1>1. Moved(c)
  BY StepsMove DEF Step
<1>2. UNCHANGED <<accepted, told, failing, log, latest>>
  BY Quiet DEF Rest, RemoveItem, resultVars
<1>3. id[c] \in Ids /\ pc[c] = "remove"
  BY DEF RemoveItem, TypeOK
<1>4. CASE UNCHANGED row
  BY <1>1, <1>2, <1>4, RestStill
<1>5. CASE SetRow(id[c], "deleted")
  <2>1. row'[id[c]] = "deleted" /\ \A m \in Ids \ {id[c]} : row'[m] = row[m]
    BY <1>3, <1>5, SetRowSets
  <2>2. Consistent' /\ Reporting'
    BY <1>1, <1>2, ConsistentMoved, ReportingMoved DEF Rest
  <2>3. Posting'
    <3>1. \A n \in Ids : row'[n] # row[n] => n = id[c]
      BY <2>1
    <3>2. QED
      BY <1>1, <1>3, <3>1, PostingMoved DEF Rest
  <2>5. Posted'
    BY <1>2, <2>1 DEF Posted, Rest, TypeOK
  <2>6. LogTellsStatus'
    BY <1>2, <2>1 DEF LogTellsStatus, Exists, Rest, Statuses
  <2>7. ToldIsLatest'
    BY <1>2 DEF ToldIsLatest, Rest
  <2>8. QED
    BY <2>2, <2>3, <2>5, <2>6, <2>7 DEF Rest
<1>6. QED
  BY <1>4, <1>5 DEF RemoveItem

LEMMA RestWrite == ASSUME TypeOK, Rest, NEW c \in Clients, WriteStatus(c) PROVE Rest'
<1>1. Moved(c)
  BY StepsMove DEF Step
<1>2. /\ id[c] \in Ids /\ status[c] \in Statuses /\ pc[c] = "write"
      /\ op[c] \in {"save", "update", "cancel"} /\ UNCHANGED latest
  BY DEF WriteStatus, TypeOK, Consistent, Rest, resultVars
<1>3. PICK done \in BOOLEAN, ok \in BOOLEAN :
         /\ done => Exists(id[c])
         /\ ok => done
         /\ IF done
            THEN SetRow(id[c], status[c]) /\ log' = [log EXCEPT ![id[c]] = @ \cup {status[c]}]
            ELSE UNCHANGED itemVars
         /\ IF ok THEN Succeed(c) ELSE Refuse(c, 500)
  BY DEF WriteStatus
<1>4. told' = told /\ failing' = failing /\ accepted' \in {accepted, accepted \cup {id[c]}}
      /\ (~ok => accepted' = accepted)
  <2>1. CASE ok
    BY <1>2, <1>3, <2>1 DEF Succeed
  <2>2. CASE ~ok
    BY <1>3, <2>2 DEF Refuse, ghostVars
  <2>3. QED
    BY <2>1, <2>2
<1>5. CASE ~done
  <2>1. UNCHANGED <<row, log, accepted>>
    BY <1>3, <1>4, <1>5 DEF itemVars
  <2>2. QED
    BY <1>1, <1>2, <1>4, <2>1, RestStill
<1>6. CASE done
  <2>1. /\ row'[id[c]] = status[c] /\ \A m \in Ids \ {id[c]} : row'[m] = row[m]
        /\ row[id[c]] \in Statuses
    BY <1>2, <1>3, <1>6, SetRowSets DEF Exists
  <2>2. /\ status[c] \in log'[id[c]]
        /\ \A m \in Ids \ {id[c]} : log'[m] = log[m]
    BY <1>2, <1>3, <1>6 DEF TypeOK
  <2>3. Consistent' /\ Reporting'
    BY <1>1, <1>4, ConsistentMoved, ReportingMoved DEF Rest
  <2>4. Posting'
    <3>1. \A n \in Ids : row'[n] # row[n] => n = id[c]
      BY <2>1
    <3>2. QED
      BY <1>1, <1>2, <3>1, PostingMoved DEF Rest
  <2>5. Posted'
    BY <1>2, <1>4, <2>1 DEF Posted, Rest, TypeOK, Statuses
  <2>6. LogTellsStatus'
    <3>1. SUFFICES ASSUME NEW n \in Ids, row'[n] \in Statuses
                   PROVE  row'[n] \in log'[n] \/ (row'[n] = "CREATED" /\ n \notin accepted')
      BY DEF LogTellsStatus, Exists
    <3>2. CASE n = id[c]
      BY <2>1, <2>2, <3>2
    <3>3. CASE n # id[c]
      <4>1. row'[n] = row[n] /\ log'[n] = log[n] /\ (n \in accepted' => n \in accepted)
        BY <1>4, <2>1, <2>2, <3>3
      <4>2. QED
        BY <3>1, <4>1 DEF LogTellsStatus, Exists, Rest
    <3>4. QED
      BY <3>2, <3>3
  <2>7. ToldIsLatest'
    BY <1>2, <1>4 DEF ToldIsLatest, Rest
  <2>8. QED
    BY <2>3, <2>4, <2>5, <2>6, <2>7 DEF Rest
<1>7. QED
  BY <1>5, <1>6

LEMMA RestLatest == ASSUME TypeOK, Rest, NEW c \in Clients, PutLatest(c) PROVE Rest'
<1>1. Moved(c)
  BY StepsMove DEF Step
<1>2. /\ id[c] \in Ids /\ pc[c] = "latest" /\ op[c] = "report"
      /\ UNCHANGED <<row, log>>
  BY DEF PutLatest, TypeOK, Consistent, Rest, itemVars
<1>3. PICK done \in BOOLEAN, ok \in BOOLEAN :
         /\ ok => done
         /\ latest' = IF done THEN With(latest, c, Reported(c)) ELSE latest
         /\ IF ok THEN Succeed(c) ELSE Refuse(c, 500)
  BY DEF PutLatest
<1>4. accepted' = accepted /\ failing' = failing
  BY <1>2, <1>3 DEF Succeed, Refuse, ghostVars
<1>5. /\ \A m \in Ids \ {id[c]} : told'[m] = told[m] /\ latest'[m] = latest[m]
      /\ \A u \in Recipients : latest'[id[c]][u] \in {latest[id[c]][u], report[c][u]}
      /\ \A u \in Recipients : report[c][u] = "none" => latest'[id[c]][u] = latest[id[c]][u]
      /\ \A u \in told'[id[c]] : u \in told[id[c]] \/ latest'[id[c]][u] = "SENT"
  <2>1. \A m \in Ids \ {id[c]} : told'[m] = told[m]
    BY <1>2, <1>3 DEF Succeed, Refuse, ghostVars, TypeOK
  <2>2. \A m \in Ids \ {id[c]} : latest'[m] = latest[m]
    BY <1>2, <1>3 DEF With, TypeOK
  <2>3. \A u \in Recipients : done =>
           latest'[id[c]][u] = IF u \in Reported(c) THEN report[c][u] ELSE latest[id[c]][u]
    BY <1>2, <1>3 DEF With, TypeOK
  <2>4. ~done => latest' = latest
    BY <1>3
  <2>5. ~ok => told' = told
    BY <1>3 DEF Refuse, ghostVars
  <2>6. ok => told'[id[c]] = told[id[c]] \cup {u \in Recipients : report[c][u] = "SENT"}
    BY <1>2, <1>3 DEF Succeed, TypeOK
  <2>7. \A u \in told'[id[c]] : u \in told[id[c]] \/ latest'[id[c]][u] = "SENT"
    <3>1. CASE ok
      <4>1. \A u \in Recipients : report[c][u] = "SENT" => u \in Reported(c)
        BY DEF Reported
      <4>2. QED
        BY <1>3, <2>3, <2>6, <3>1, <4>1
    <3>2. CASE ~ok
      BY <2>5, <3>2
    <3>3. QED
      BY <3>1, <3>2
  <2>8. \A u \in Recipients : report[c][u] = "none" => latest'[id[c]][u] = latest[id[c]][u]
    BY <2>3, <2>4 DEF Reported
  <2>9. \A u \in Recipients : latest'[id[c]][u] \in {latest[id[c]][u], report[c][u]}
    BY <2>3, <2>4
  <2>10. QED
    BY <2>1, <2>2, <2>7, <2>8, <2>9
<1>6. Consistent' /\ Reporting' /\ Posting'
  BY <1>1, <1>2, <1>4, ConsistentMoved, ReportingMoved, PostingMoved DEF Rest
<1>7. Posted' /\ LogTellsStatus'
  BY <1>2, <1>4 DEF Posted, LogTellsStatus, Exists, Rest
<1>8. ToldIsLatest'
  <2>1. SUFFICES ASSUME NEW n \in Ids, NEW u \in told'[n] \ failing[n]
                 PROVE  latest'[n][u] = "SENT"
    BY <1>4 DEF ToldIsLatest
  <2>2. CASE n # id[c]
    BY <1>5, <2>1, <2>2 DEF ToldIsLatest, Rest
  <2>3. CASE n = id[c]
    <3>1. CASE u \in told[n]
      <4>1. latest[n][u] = "SENT" /\ u \in Recipients
        BY <2>1, <3>1 DEF ToldIsLatest, Rest, TypeOK
      <4>2. report[c][u] # "FAILED"
        BY <1>2, <2>1, <2>3, <4>1 DEF Reporting, Rest
      <4>3. report[c][u] \in {"SENT", "FAILED", "none"}
        BY <4>1 DEF TypeOK, Results
      <4>4. CASE report[c][u] = "none"
        BY <1>5, <2>3, <4>1, <4>4
      <4>5. CASE report[c][u] = "SENT"
        BY <1>5, <2>3, <4>1, <4>5
      <4>6. QED
        BY <4>2, <4>3, <4>4, <4>5
    <3>2. CASE u \notin told[n]
      BY <1>5, <2>1, <2>3, <3>2
    <3>3. QED
      BY <3>1, <3>2
  <2>4. QED
    BY <2>2, <2>3
<1>9. QED
  BY <1>6, <1>7, <1>8 DEF Rest

LEMMA RestNext == TypeOK /\ Rest /\ [Next]_vars => Rest'
<1> SUFFICES ASSUME TypeOK, Rest, [Next]_vars PROVE Rest'
  OBVIOUS
<1>1. ASSUME NEW c \in Clients, Reads(c) \/ ReadFails(c) \/ LogResults(c) PROVE Rest'
  <2>1. Moved(c)
    BY <1>1, StepsMove DEF Step, Reads
  <2>2. UNCHANGED <<row, log, latest>>
    BY <1>1 DEF Reads, ReadFails, CheckVariables, CheckExists, ReadStatus, ReadItem, ReadDetails,
                LogResults, itemVars, resultVars
  <2>3. UNCHANGED <<accepted, told, failing>>
    BY <1>1, Quiet DEF Rest
  <2>4. QED
    BY <2>1, <2>2, <2>3, RestStill
<1>2. CASE SaveTemplate \/ DeleteTemplate \/ Converge \/ UNCHANGED vars
  <2>1. UNCHANGED <<row, log, latest, pc, op, id, status, report, accepted, told, failing>>
    <3>1. CASE SaveTemplate
      BY <3>1 DEF SaveTemplate, WriteTemplate, itemVars, resultVars, requestVars, ghostVars
    <3>2. CASE DeleteTemplate
      BY <3>2 DEF DeleteTemplate, WriteTemplate, itemVars, resultVars, requestVars, ghostVars
    <3>3. CASE Converge
      BY <3>3 DEF Converge, resultVars, requestVars, ghostVars
    <3>4. CASE UNCHANGED vars
      BY <3>4 DEF vars, itemVars, resultVars, requestVars, ghostVars
    <3>5. QED
      BY <1>2, <3>1, <3>2, <3>3, <3>4
  <2>2. QED
    BY <2>1 DEF Rest, Consistent, Posting, Posted, LogTellsStatus, Reporting, ToldIsLatest, Exists
<1>3. ASSUME NEW c \in Clients, Call(c) \/ Step(c) \/ ReadFails(c) PROVE Rest'
  BY <1>1, <1>3, RestCall, RestPut, RestRemove, RestWrite, RestLatest DEF Step, Reads
<1>4. QED
  BY <1>2, <1>3 DEF Next

----------------------------------------------------------------------------
(* Theorems *)

LEMMA Invariant == Spec => [](TypeOK /\ Rest)
<1>1. Init => TypeOK /\ Rest
  BY TypeInit, RestInit
<1>2. TypeOK /\ Rest /\ [Next]_vars => (TypeOK /\ Rest)'
  BY TypeNext, RestNext
<1>3. QED
  BY <1>1, <1>2, PTL DEF Spec

\* Every variable stays in its set: the calls of handlers and tables are the ones the code
\* makes (dynamodb/notification.go).
THEOREM TypeCorrect == Spec => []TypeOK
BY Invariant, PTL

\* What the row of a notification says is in its log, whatever calls fail or overlap
\* (notification.go:197-318).
THEOREM LogTells == Spec => []LogTellsStatus
<1>1. Rest => LogTellsStatus
  BY DEF Rest
<1>2. QED
  BY <1>1, Invariant, PTL

\* No batch that fails half-way, and no overlapping report that does not contradict it,
\* loses a delivery the service has acknowledged (notification.go:566-639).
THEOREM ToldLatest == Spec => []ToldIsLatest
<1>1. Rest => ToldIsLatest
  BY DEF Rest
<1>2. QED
  BY <1>1, Invariant, PTL

\* The registry on DynamoDB is a registry: rows are saved once, written while they are
\* there, and gone for good (notification.go:111-318, 352-400).
THEOREM Implements == Spec => RegistryHolds
<1>1. Init => Promised!Init
  BY DEF Init, Promised!Init
<1>2. TypeOK /\ Rest /\ [Next]_vars => [Promised!Next]_row
  <2> SUFFICES ASSUME TypeOK, Rest, [Next]_vars PROVE [Promised!Next]_row
    OBVIOUS
  <2>1. ASSUME NEW c \in Clients, Put(c) PROVE [Promised!Next]_row
    <3>1. id[c] \in Ids /\ row[id[c]] = "unsaved"
      BY <2>1 DEF Put, Posting, Rest, TypeOK
    <3>2. CASE UNCHANGED row
      BY <3>2
    <3>3. CASE SetRow(id[c], "CREATED")
      BY <3>1, <3>3 DEF SetRow, Promised!Next, Promised!Save
    <3>4. QED
      BY <2>1, <3>2, <3>3 DEF Put
  <2>2. ASSUME NEW c \in Clients, WriteStatus(c) PROVE [Promised!Next]_row
    <3>1. id[c] \in Ids /\ status[c] \in Statuses
      BY DEF TypeOK
    <3>2. CASE UNCHANGED row
      BY <3>2
    <3>3. CASE SetRow(id[c], status[c]) /\ Exists(id[c])
      BY <3>1, <3>3 DEF SetRow, Exists, Promised!Next, Promised!SetStatus, Promised!Exists
    <3>4. QED
      BY <2>2, <3>2, <3>3 DEF WriteStatus, itemVars
  <2>3. ASSUME NEW c \in Clients, RemoveItem(c) PROVE [Promised!Next]_row
    <3>1. id[c] \in Ids
      BY DEF TypeOK
    <3>2. CASE UNCHANGED row
      BY <3>2
    <3>3. CASE SetRow(id[c], "deleted") /\ Exists(id[c])
      <4>1. row' = [n \in Ids |-> IF n \in {id[c]} THEN "deleted" ELSE row[n]]
        BY <3>1, <3>3 DEF SetRow, TypeOK
      <4>2. Promised!Remove({id[c]})
        BY <3>3, <4>1 DEF Promised!Remove, Promised!Exists, Exists
      <4>3. {id[c]} \in SUBSET Ids
        BY <3>1
      <4>4. QED
        BY <4>2, <4>3 DEF Promised!Next
    <3>4. QED
      BY <2>3, <3>2, <3>3 DEF RemoveItem
  <2>4. ASSUME NEW c \in Clients, Call(c) PROVE UNCHANGED row
    BY <2>4 DEF Call, itemVars
  <2>5. ASSUME NEW c \in Clients, Reads(c) \/ ReadFails(c) \/ LogResults(c) \/ PutLatest(c)
        PROVE  UNCHANGED row
    BY <2>5 DEF Reads, ReadFails, CheckVariables, CheckExists, ReadStatus, ReadItem, ReadDetails,
                LogResults, PutLatest, itemVars
  <2>6. CASE SaveTemplate \/ DeleteTemplate
    BY <2>6 DEF SaveTemplate, DeleteTemplate, WriteTemplate, itemVars
  <2>7. CASE Converge \/ UNCHANGED vars
    BY <2>7 DEF Converge, vars, itemVars
  <2>8. ASSUME NEW c \in Clients, Call(c) \/ Step(c) \/ ReadFails(c) PROVE [Promised!Next]_row
    BY <2>1, <2>2, <2>3, <2>4, <2>5, <2>8 DEF Step, Reads
  <2>9. QED
    BY <2>6, <2>7, <2>8 DEF Next
<1>3. QED
  BY <1>1, <1>2, Invariant, PTL DEF Spec, RegistryHolds, Promised!Spec

============================================================================
