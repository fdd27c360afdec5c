------------------------- MODULE NotificationsProofs -------------------------
(***************************************************************************)
(* Theorems about Notifications, for any requests and queues, any number   *)
(* of handlers at a time and any number of faults.                         *)
(***************************************************************************)
EXTENDS Notifications, TLAPS

\* nothing is in the registry before the request saves it
FreshUntilSaved ==
    \A n \in Requests : step[n] \in {"new", "checkHash", "save"} => row[n] = "unsaved"

\* a handler that began is about a notification that was saved
CallsAreSaved == \A k \in Calls : op[k] # "none" => Saved(id[k])

\* a handler that has a next call has an operation
CallsHaveOps == \A k \in Calls : Running(k) => op[k] # "none"

\* the worker's reports are where they come from, wherever they are found
ReportsAreTrue ==
    /\ \A n \in Requests : {row[n], cached[n]} \cap {"SENDING", "SENT"} # {} => n \in patched
    /\ \A k \in Calls : new[k] \in {"SENDING", "SENT"} => id[k] \in patched

\* a queue that discards messages got one that was not
WindowIsTaken == \A q \in window : fifo /\ \E m \in published : Queue[m] = q

\* a publisher that is about to report QUEUED has published
OutcomesAreTrue ==
    \A n \in Requests :
        /\ step[n] \in {"cacheOutcome", "checkRow", "storeOutcome"} /\ outcome[n] = "QUEUED"
        => Taken(n)

IInv ==
    /\ TypeOK
    /\ FreshUntilSaved
    /\ CallsAreSaved
    /\ CallsHaveOps
    /\ ReportsAreTrue
    /\ WindowIsTaken
    /\ OutcomesAreTrue
    /\ NotFoundIsFinal
    /\ RefusalIsTrue
    /\ QueuedIsPublished

-----------------------------------------------------------------------------
(* Type correctness *)

LEMMA TypeInit == Init => TypeOK
  BY NotificationsAssumption DEF Init, TypeOK, Statuses

LEMMA TypePost ==
    ASSUME TypeOK, NEW n \in Requests, Post(n) \/ PostStep(n)
    PROVE  TypeOK'
<1> USE NotificationsAssumption
    DEF TypeOK, NoFault, Fault, GoOn, Refuse, CacheStatus, StoreStatus, Statuses, storeVars,
        queueVars, callVars, ghostVars
<1>1. CASE Post(n)
  BY <1>1 DEF Post
<1>2. CASE CheckHash(n)
  BY <1>2 DEF CheckHash
<1>3. CASE Save(n)
  BY <1>3 DEF Save
<1>4. CASE CacheCreated(n)
  BY <1>4 DEF CacheCreated
<1>5. CASE SetHash(n)
  BY <1>5 DEF SetHash
<1>6. CASE Publish(n)
  BY <1>6 DEF Publish, PublishStatus, Enqueue
<1>7. CASE CacheOutcome(n)
  BY <1>7 DEF CacheOutcome
<1>8. CASE CheckRow(n)
  BY <1>8 DEF CheckRow
<1>9. CASE StoreOutcome(n)
  BY <1>9 DEF StoreOutcome
<1>10. CASE DropHash(n)
  BY <1>10 DEF DropHash
<1>11. QED
  BY <1>1, <1>2, <1>3, <1>4, <1>5, <1>6, <1>7, <1>8, <1>9, <1>10 DEF PostStep

LEMMA TypeCall ==
    ASSUME TypeOK, NEW k \in Calls, Begin(k) \/ CallStep(k)
    PROVE  TypeOK'
<1> USE NotificationsAssumption
    DEF TypeOK, NoFault, Fault, GoTo, Answer, CacheStatus, StoreStatus, Statuses, storeVars,
        queueVars, postVars, ghostVars
<1>0. id[k] \in Requests /\ new[k] \in Statuses
  OBVIOUS
<1>1. CASE Begin(k)
  BY <1>1 DEF Begin, FirstCall
<1>2. CASE ReadCache(k)
  BY <1>2 DEF ReadCache, Decide
<1>3. CASE ReadRow(k)
  BY <1>3 DEF ReadRow, Decide
<1>4. CASE WriteCache(k)
  BY <1>0, <1>4 DEF WriteCache
<1>5. CASE CheckCallRow(k)
  BY <1>5 DEF CheckCallRow
<1>6. CASE WriteRow(k)
  BY <1>0, <1>6 DEF WriteRow
<1>7. CASE Remove(k)
  BY <1>7 DEF Remove
<1>8. QED
  BY <1>1, <1>2, <1>3, <1>4, <1>5, <1>6, <1>7 DEF CallStep

LEMMA TypeNext == TypeOK /\ [Next]_vars => TypeOK'
<1> SUFFICES ASSUME TypeOK, [Next]_vars PROVE TypeOK'
  OBVIOUS
<1>1. ASSUME NEW n \in Requests, Post(n) \/ PostStep(n) PROVE TypeOK'
  BY <1>1, TypePost
<1>2. ASSUME NEW k \in Calls, Begin(k) \/ CallStep(k) PROVE TypeOK'
  BY <1>2, TypeCall
<1>3. CASE Restart
  BY <1>3, NotificationsAssumption
     DEF TypeOK, Restart, Fault, storeVars, queueVars, ghostVars
<1>4. CASE Forget
  BY <1>4, NotificationsAssumption
     DEF TypeOK, Forget, Fault, CacheStatus, queueVars, postVars, callVars, ghostVars
<1>5. ASSUME NEW n \in Requests, DeleteTemplate(n) PROVE TypeOK'
  BY <1>5 DEF TypeOK, DeleteTemplate, postVars, callVars, ghostVars
<1>6. CASE UNCHANGED vars
  BY <1>6 DEF TypeOK, vars
<1>7. QED
  BY <1>1, <1>2, <1>3, <1>4, <1>5, <1>6 DEF Next

\* Every variable keeps its type: no handler or goroutine leaves its sequence of calls.
THEOREM TypeCorrect == Spec => []TypeOK
  BY TypeInit, TypeNext, PTL DEF Spec

-----------------------------------------------------------------------------
(* What a step does to the variables the invariants are about *)

LEMMA CheckHashStep ==
    ASSUME TypeOK, NEW n \in Requests, CheckHash(n)
    PROVE  (GoOn(n, "done") \/ GoOn(n, "save")) /\ outcome' = outcome
  BY DEF CheckHash, Refuse

LEMMA SaveStep ==
    ASSUME TypeOK, NEW n \in Requests, Save(n)
    PROVE  (GoOn(n, "done") \/ GoOn(n, "cacheCreated")) /\ outcome' = outcome
  BY DEF Save, Refuse

LEMMA PublishStep ==
    ASSUME TypeOK, NEW n \in Requests, Publish(n)
    PROVE  /\ GoOn(n, "dropHash") \/ GoOn(n, "cacheOutcome")
           /\ \/ outcome' = outcome
              \/ outcome' = [outcome EXCEPT ![n] = "QUEUED"]
              \/ outcome' = [outcome EXCEPT ![n] = "FAILED"]
<1>1. CASE HasQueue(n)
  BY <1>1 DEF Publish, PublishStatus
<1>2. CASE ~HasQueue(n)
  BY <1>2 DEF Publish
<1>3. QED
  BY <1>1, <1>2

LEMMA ReportStep ==
    ASSUME TypeOK, NEW n \in Requests, CacheOutcome(n) \/ CheckRow(n) \/ StoreOutcome(n)
    PROVE  /\ step[n] \in {"cacheOutcome", "checkRow", "storeOutcome"}
           /\ \/ GoOn(n, "checkRow") \/ GoOn(n, "storeOutcome")
              \/ GoOn(n, "dropHash") \/ GoOn(n, "done")
           /\ outcome' = outcome
<1>1. CASE CacheOutcome(n)
  BY <1>1 DEF CacheOutcome
<1>2. CASE CheckRow(n)
  BY <1>2 DEF CheckRow
<1>3. CASE StoreOutcome(n)
  <2>1. CASE n \in erred
    BY <1>3, <2>1 DEF StoreOutcome
  <2>2. CASE n \notin erred
    BY <1>3, <2>2 DEF StoreOutcome
  <2>3. QED
    BY <2>1, <2>2
<1>4. QED
  BY <1>1, <1>2, <1>3

\* the ways the row of a notification changes
LEMMA RowNext ==
    ASSUME IInv, [Next]_vars, NEW n \in Requests
    PROVE  \/ row'[n] = row[n]
           \/ /\ row[n] = "unsaved" /\ row'[n] = "CREATED"
              /\ step'[n] \in {"done", "cacheCreated"}
           \/ Saved(n) /\ row'[n] = "deleted"
           \/ Exists(n) /\ step[n] = "storeOutcome" /\ row'[n] = outcome[n]
           \/ Exists(n) /\ \E k \in Calls : id[k] = n /\ row'[n] = new[k]
<1> USE DEF IInv, TypeOK
<1>1. CASE row' = row
  BY <1>1
<1>2. ASSUME NEW m \in Requests, Save(m)
      PROVE  /\ row' = row \/ (row[m] = "unsaved" /\ StoreStatus(m, "CREATED"))
             /\ step'[m] \in {"done", "cacheCreated"}
  <2>1. row' = row \/ (row[m] = "unsaved" /\ StoreStatus(m, "CREATED"))
    BY <1>2 DEF Save, FreshUntilSaved
  <2>2. step'[m] \in {"done", "cacheCreated"}
    BY <1>2, SaveStep DEF GoOn
  <2>3. QED
    BY <2>1, <2>2
<1>3. ASSUME NEW m \in Requests, StoreOutcome(m)
      PROVE  row' = row \/ (Exists(m) /\ step[m] = "storeOutcome" /\ StoreStatus(m, outcome[m]))
  BY <1>3 DEF StoreOutcome
<1>4. ASSUME NEW k \in Calls, WriteRow(k)
      PROVE  row' = row \/ (Exists(id[k]) /\ StoreStatus(id[k], new[k]))
  BY <1>4 DEF WriteRow
<1>5. ASSUME NEW k \in Calls, Remove(k)
      PROVE  row' = row \/ (Saved(id[k]) /\ StoreStatus(id[k], "deleted"))
  BY <1>5 DEF Remove, CallsAreSaved, CallsHaveOps, Running
<1>6. \/ row' = row
      \/ \E m \in Requests : Save(m) \/ StoreOutcome(m)
      \/ \E k \in Calls : WriteRow(k) \/ Remove(k)
      \/ \E m \in Requests : DeleteTemplate(m)
  BY DEF Next, vars, storeVars, Post, PostStep, CheckHash, CacheCreated, SetHash, Publish,
         CacheOutcome, CheckRow, DropHash, Begin, CallStep, ReadCache, ReadRow, WriteCache,
         CheckCallRow, Restart, Forget
<1>7. ASSUME NEW m \in Requests, DeleteTemplate(m)
      PROVE  row'[n] = row[n] \/ (Saved(n) /\ row'[n] = "deleted")
  BY <1>7 DEF DeleteTemplate, Exists, Saved
<1>8. QED
  BY <1>1, <1>2, <1>3, <1>4, <1>5, <1>6, <1>7 DEF StoreStatus

\* the ways the cached status of a notification changes
LEMMA CacheNext ==
    ASSUME TypeOK, [Next]_vars, NEW n \in Requests
    PROVE  \/ cached'[n] = cached[n]
           \/ cached'[n] \in {"none", "CREATED"}
           \/ step[n] = "cacheOutcome" /\ cached'[n] = outcome[n]
           \/ \E k \in Calls : id[k] = n /\ cached'[n] = new[k]
<1> USE DEF TypeOK, CacheStatus
<1>1. ASSUME NEW m \in Requests, CacheCreated(m) PROVE cached' = cached \/ CacheStatus(m, "CREATED")
  BY <1>1 DEF CacheCreated
<1>2. ASSUME NEW m \in Requests, CacheOutcome(m)
      PROVE  cached' = cached \/ (step[m] = "cacheOutcome" /\ CacheStatus(m, outcome[m]))
  BY <1>2 DEF CacheOutcome
<1>3. ASSUME NEW k \in Calls, WriteCache(k) PROVE cached' = cached \/ CacheStatus(id[k], new[k])
  BY <1>3 DEF WriteCache
<1>4. CASE Forget
  BY <1>4 DEF Forget
<1>5. \/ cached' = cached
      \/ \E m \in Requests : CacheCreated(m) \/ CacheOutcome(m)
      \/ \E k \in Calls : WriteCache(k)
      \/ Forget
  BY DEF Next, vars, storeVars, Post, PostStep, CheckHash, Save, SetHash, Publish, CheckRow,
         StoreOutcome, DropHash, Begin, CallStep, ReadCache, ReadRow, CheckCallRow, WriteRow,
         Remove, DeleteTemplate, Restart
<1>6. QED
  BY <1>1, <1>2, <1>3, <1>4, <1>5

\* only Begin changes what a handler is about
LEMMA CallNext ==
    ASSUME [Next]_vars
    PROVE  UNCHANGED <<op, id, new, patched>> \/ \E k \in Calls : Begin(k)
<1>1. ASSUME NEW n \in Requests, Post(n) \/ PostStep(n) \/ DeleteTemplate(n)
      PROVE  UNCHANGED <<op, id, new, patched>>
  BY <1>1 DEF callVars, ghostVars, Post, PostStep, CheckHash, Save, CacheCreated, SetHash,
              Publish, CacheOutcome, CheckRow, StoreOutcome, DropHash, DeleteTemplate
<1>2. ASSUME NEW k \in Calls, CallStep(k)
      PROVE  UNCHANGED <<op, id, new, patched>>
  BY <1>2 DEF ghostVars, CallStep, ReadCache, ReadRow, WriteCache, CheckCallRow, WriteRow, Remove
<1>3. CASE Restart \/ Forget \/ UNCHANGED vars
  BY <1>3 DEF vars, callVars, ghostVars, Restart, Forget
<1>4. QED
  BY <1>1, <1>2, <1>3 DEF Next

\* the steps of one request do not touch the progress of another
LEMMA OtherPosts ==
    ASSUME TypeOK, NEW m \in Requests, NEW n \in Requests, n # m, Post(m) \/ PostStep(m)
    PROVE  step'[n] = step[n] /\ outcome'[n] = outcome[n]
<1> USE DEF TypeOK, GoOn
<1>1. CASE Post(m)
  BY <1>1 DEF Post
<1>2. CASE CheckHash(m) \/ Save(m)
  BY <1>2, CheckHashStep, SaveStep
<1>3. CASE CacheCreated(m)
  BY <1>3 DEF CacheCreated
<1>4. CASE SetHash(m)
  BY <1>4 DEF SetHash
<1>5. CASE Publish(m)
  BY <1>5, PublishStep
<1>6. CASE CacheOutcome(m) \/ CheckRow(m) \/ StoreOutcome(m)
  BY <1>6, ReportStep
<1>7. CASE DropHash(m)
  BY <1>7 DEF DropHash
<1>8. QED
  BY <1>1, <1>2, <1>3, <1>4, <1>5, <1>6, <1>7 DEF PostStep

\* only the steps of requests and a restart change the progress of a request
LEMMA PostNext ==
    ASSUME [Next]_vars
    PROVE  \/ UNCHANGED <<step, outcome>>
           \/ \E m \in Requests : Post(m) \/ PostStep(m)
           \/ Restart
  BY DEF Next, vars, postVars, Begin, CallStep, ReadCache, ReadRow, WriteCache, CheckCallRow,
         WriteRow, Remove, DeleteTemplate, Forget

\* a decision answers 400 about SENDING and SENT only, and 404 never
LEMMA DecideNext ==
    ASSUME TypeOK, NEW k \in Calls, NEW s, Decide(k, s)
    PROVE  /\ answer'[k] = "404" => answer[k] = "404"
           /\ answer'[k] = "400" => answer[k] = "400" \/ s \in {"SENDING", "SENT"}
<1>1. CASE UNCHANGED answer
  BY <1>1
<1>2. CASE Answer(k, "400") /\ s \in {"SENDING", "SENT"}
  BY <1>2 DEF Answer, TypeOK
<1>3. CASE Answer(k, "200") \/ Answer(k, "500")
  BY <1>3 DEF Answer, TypeOK
<1>4. QED
  BY <1>1, <1>2, <1>3 DEF Decide, GoTo

\* what a handler has seen when it answers 404 or 400
LEMMA AnswerNext ==
    ASSUME IInv, [Next]_vars, NEW k \in Calls
    PROVE  /\ answer'[k] = "404" => \/ answer[k] = "404" /\ id'[k] = id[k]
                                    \/ row[id[k]] = "deleted" /\ UNCHANGED <<row, id>>
           /\ answer'[k] = "400" =>
                 \/ answer[k] = "400" /\ id'[k] = id[k]
                 \/ /\ {row[id[k]], cached[id[k]]} \cap {"SENDING", "SENT"} # {}
                    /\ UNCHANGED id
<1> USE DEF IInv, TypeOK
<1>1. ASSUME NEW j \in Calls, CallStep(j), j # k
      PROVE  answer'[k] = answer[k] /\ id' = id
  BY <1>1 DEF CallStep, ReadCache, ReadRow, WriteCache, CheckCallRow, WriteRow, Remove, Decide,
              GoTo, Answer
<1>2. CASE ReadCache(k)
  <2>1. CASE Decide(k, cached[id[k]])
    BY <1>2, <2>1, DecideNext DEF ReadCache
  <2>2. CASE GoTo(k, "readRow") \/ Answer(k, "500")
    BY <1>2, <2>2 DEF ReadCache, GoTo, Answer
  <2>3. QED
    BY <1>2, <2>1, <2>2 DEF ReadCache
<1>3. CASE ReadRow(k)
  <2>1. CASE Decide(k, row[id[k]])
    BY <1>3, <2>1, DecideNext DEF ReadRow
  <2>2. CASE ~Exists(id[k])
    <3>1. row[id[k]] = "deleted"
      BY <1>3, <2>2 DEF ReadRow, CallsAreSaved, CallsHaveOps, Running, Saved, Exists
    <3>2. answer'[k] # "400" \/ answer[k] = "400"
      BY <1>3, <2>2 DEF ReadRow, Answer
    <3>3. QED
      BY <1>3, <3>1, <3>2 DEF ReadRow, storeVars
  <2>3. CASE Answer(k, "500")
    BY <1>3, <2>3 DEF ReadRow, Answer
  <2>4. QED
    BY <1>3, <2>1, <2>2, <2>3 DEF ReadRow
<1>4. CASE CheckCallRow(k)
  BY <1>4 DEF CheckCallRow, GoTo, Answer, CallsAreSaved, CallsHaveOps, Running, Saved,
              Exists, storeVars
<1>5. CASE WriteCache(k) \/ WriteRow(k) \/ Remove(k)
  BY <1>5 DEF WriteCache, WriteRow, Remove, GoTo, Answer
<1>6. ASSUME NEW j \in Calls, Begin(j)
      PROVE  answer'[k] \in {"none", answer[k]} /\ (answer'[k] # "none" => id'[k] = id[k])
  BY <1>6 DEF Begin
<1>7. CASE Restart
  BY <1>7 DEF Restart
<1>8. \/ UNCHANGED <<answer, id>>
      \/ \E j \in Calls : Begin(j) \/ CallStep(j)
      \/ Restart
  BY DEF Next, vars, callVars, Post, PostStep, CheckHash, Save, CacheCreated, SetHash, Publish,
         CacheOutcome, CheckRow, StoreOutcome, DropHash, DeleteTemplate, Forget
<1>9. QED
  BY <1>1, <1>2, <1>3, <1>4, <1>5, <1>6, <1>7, <1>8 DEF CallStep

\* a message that was published stays published
LEMMA PublishedGrows ==
    ASSUME TypeOK, [Next]_vars
    PROVE  published \subseteq published'
<1>1. ASSUME NEW n \in Requests, Publish(n)
      PROVE  published \subseteq published'
  BY <1>1 DEF Publish, Enqueue
<1>2. ASSUME ~\E n \in Requests : Publish(n)
      PROVE  published' = published
  BY <1>2 DEF Next, vars, storeVars, queueVars, Post, PostStep, CheckHash, Save, CacheCreated,
         SetHash, CacheOutcome, CheckRow, StoreOutcome, DropHash, Begin, CallStep,
         ReadCache, ReadRow, WriteCache, CheckCallRow, WriteRow, Remove, DeleteTemplate, Restart, Forget
<1>3. QED
  BY <1>1, <1>2

\* the queues are of one kind
LEMMA FifoStays == [Next]_vars => fifo' = fifo
  BY DEF Next, vars, storeVars, queueVars, Post, PostStep, CheckHash, Save, CacheCreated,
         SetHash, Publish, CacheOutcome, CheckRow, StoreOutcome, DropHash, Begin, CallStep,
         ReadCache, ReadRow, WriteCache, CheckCallRow, WriteRow, Remove, DeleteTemplate, Restart, Forget

\* a message that was taken stays so
LEMMA TakenStays ==
    ASSUME TypeOK, [Next]_vars, NEW n \in Requests, Taken(n)
    PROVE  Taken(n)'
  BY PublishedGrows, FifoStays DEF Taken

-----------------------------------------------------------------------------
(* The inductive invariant *)

LEMMA InitIInv == Init => IInv
<1> SUFFICES ASSUME Init PROVE IInv
  OBVIOUS
<1>1. TypeOK
  BY TypeInit
<1>2. QED
  BY <1>1 DEF Init, IInv, FreshUntilSaved, CallsAreSaved, CallsHaveOps, Running,
              ReportsAreTrue, WindowIsTaken, OutcomesAreTrue, NotFoundIsFinal, RefusalIsTrue,
              QueuedIsPublished

LEMMA FreshNext ==
    ASSUME IInv, [Next]_vars
    PROVE  FreshUntilSaved'
<1> SUFFICES ASSUME NEW n \in Requests, step'[n] \in {"new", "checkHash", "save"}
             PROVE  row'[n] = "unsaved"
  BY DEF FreshUntilSaved
<1>1. step[n] \in {"new", "checkHash", "save"}
  <2>1. ASSUME Post(n) \/ CheckHash(n)
        PROVE  step[n] \in {"new", "checkHash", "save"}
    BY <2>1 DEF Post, CheckHash
  <2>2. ASSUME PostStep(n), ~CheckHash(n)
        PROVE  FALSE
    <3> USE DEF IInv, TypeOK, GoOn
    <3>1. CASE Save(n) \/ Publish(n) \/ CacheOutcome(n) \/ CheckRow(n) \/ StoreOutcome(n)
      BY <3>1, SaveStep, PublishStep, ReportStep
    <3>2. CASE CacheCreated(n)
      BY <3>2 DEF CacheCreated
    <3>3. CASE SetHash(n)
      BY <3>3 DEF SetHash
    <3>4. CASE DropHash(n)
      BY <3>4 DEF DropHash
    <3>5. QED
      BY <2>2, <3>1, <3>2, <3>3, <3>4 DEF PostStep
  <2>3. CASE Restart
    BY <2>3 DEF Restart
  <2>4. QED
    BY <2>1, <2>2, <2>3, PostNext, OtherPosts DEF IInv
<1>2. row[n] = "unsaved"
  BY <1>1 DEF IInv, FreshUntilSaved
<1>3. QED
  BY <1>2, RowNext DEF Saved, Exists

\* no row goes back to "unsaved"
LEMMA SavedStays ==
    ASSUME IInv, [Next]_vars, NEW n \in Requests, Saved(n)
    PROVE  Saved(n)'
<1>1. outcome[n] # "unsaved" /\ \A k \in Calls : new[k] # "unsaved"
  BY NotificationsAssumption DEF IInv, TypeOK
<1>2. QED
  BY <1>1, RowNext DEF Saved

LEMMA CallsNext ==
    ASSUME IInv, [Next]_vars
    PROVE  CallsAreSaved' /\ CallsHaveOps'
<1>1. CallsAreSaved'
  <2> SUFFICES ASSUME NEW k \in Calls, op'[k] # "none" PROVE Saved(id[k])'
    BY DEF CallsAreSaved
  <2>1. CASE op'[k] = op[k] /\ id'[k] = id[k]
    BY <2>1, SavedStays DEF IInv, TypeOK, CallsAreSaved, Saved
  <2>2. CASE Begin(k)
    BY <2>2 DEF Begin, IInv, TypeOK, storeVars, Saved
  <2>3. ASSUME NEW j \in Calls, j # k, Begin(j) PROVE op'[k] = op[k] /\ id'[k] = id[k]
    BY <2>3 DEF Begin, IInv, TypeOK
  <2>4. QED
    BY <2>1, <2>2, <2>3, CallNext
<1>2. CallsHaveOps'
  <2> SUFFICES ASSUME NEW k \in Calls, Running(k)' PROVE op'[k] # "none"
    BY DEF CallsHaveOps
  <2>1. CASE Begin(k)
    BY <2>1, NotificationsAssumption DEF Begin, IInv, TypeOK
  <2>2. ASSUME NEW j \in Calls, j # k, Begin(j) PROVE op'[k] = op[k] /\ pc'[k] = pc[k]
    BY <2>2 DEF Begin, IInv, TypeOK
  <2>3. CASE ~\E j \in Calls : Begin(j)
    <3>1. op' = op
      BY <2>3, CallNext
    <3>2. ASSUME NEW j \in Calls, CallStep(j) PROVE Running(j) /\ (j = k \/ pc'[k] = pc[k])
      BY <3>2 DEF IInv, TypeOK, Running, CallStep, ReadCache, ReadRow, WriteCache,
                  CheckCallRow, WriteRow, Remove, Decide, GoTo, Answer
    <3>3. Running(k)
      BY <2>3, <3>2 DEF Running, Next, vars, callVars, Post, PostStep, CheckHash, Save,
         CacheCreated, SetHash, Publish, CacheOutcome, CheckRow, StoreOutcome, DropHash,
         DeleteTemplate, Restart, Forget
    <3>4. QED
      BY <3>1, <3>3 DEF IInv, CallsHaveOps
  <2>4. QED
    BY <2>1, <2>2, <2>3 DEF IInv, CallsHaveOps, Running
<1>3. QED
  BY <1>1, <1>2

LEMMA ReportsNext ==
    ASSUME IInv, [Next]_vars
    PROVE  ReportsAreTrue'
<1> USE DEF IInv, TypeOK
<1>1. patched \subseteq patched'
  BY CallNext DEF Begin
<1>2. ASSUME NEW k \in Calls, new'[k] \in {"SENDING", "SENT"} PROVE id'[k] \in patched'
  <2>1. CASE new'[k] = new[k] /\ id'[k] = id[k]
    BY <1>1, <1>2, <2>1 DEF ReportsAreTrue
  <2>2. CASE Begin(k)
    BY <1>2, <2>2 DEF Begin
  <2>3. ASSUME NEW j \in Calls, j # k, Begin(j) PROVE new'[k] = new[k] /\ id'[k] = id[k]
    BY <2>3 DEF Begin
  <2>4. QED
    BY <2>1, <2>2, <2>3, CallNext
<1>3. ASSUME NEW n \in Requests, row'[n] \in {"SENDING", "SENT"} PROVE n \in patched'
  <2>1. row[n] \in {"SENDING", "SENT"} \/ \E k \in Calls : id[k] = n /\ new[k] \in {"SENDING", "SENT"}
    BY <1>3, RowNext
  <2> HIDE DEF TypeOK
  <2>2. CASE row[n] \in {"SENDING", "SENT"}
    BY <1>1, <2>2 DEF ReportsAreTrue
  <2>3. ASSUME NEW k \in Calls, id[k] = n, new[k] \in {"SENDING", "SENT"} PROVE n \in patched'
    BY <1>1, <2>3 DEF ReportsAreTrue
  <2>4. QED
    BY <2>1, <2>2, <2>3
<1>4. ASSUME NEW n \in Requests, cached'[n] \in {"SENDING", "SENT"} PROVE n \in patched'
  <2>1. cached[n] \in {"SENDING", "SENT"} \/ \E k \in Calls : id[k] = n /\ new[k] \in {"SENDING", "SENT"}
    BY <1>4, CacheNext
  <2> HIDE DEF TypeOK
  <2>2. CASE cached[n] \in {"SENDING", "SENT"}
    BY <1>1, <2>2 DEF ReportsAreTrue
  <2>3. ASSUME NEW k \in Calls, id[k] = n, new[k] \in {"SENDING", "SENT"} PROVE n \in patched'
    BY <1>1, <2>3 DEF ReportsAreTrue
  <2>4. QED
    BY <2>1, <2>2, <2>3
<1>5. QED
  BY <1>2, <1>3, <1>4 DEF ReportsAreTrue

\* the queue gets the message, or has got that of another
LEMMA EnqueueTakes ==
    ASSUME TypeOK, WindowIsTaken, NEW n \in Requests, Enqueue(n), UNCHANGED fifo
    PROVE  Taken(n)' /\ WindowIsTaken'
<1>1. CASE Discarded(n) /\ UNCHANGED <<published, window>>
  <2>1. fifo /\ \E m \in published : Queue[m] = Queue[n]
    BY <1>1 DEF Discarded, WindowIsTaken
  <2>2. QED
    BY <1>1, <2>1 DEF Taken, WindowIsTaken
<1>2. CASE /\ published' = published \cup {n}
           /\ window' = IF fifo THEN window \cup {Queue[n]} ELSE window
  <2>1. Taken(n)'
    BY <1>2 DEF Taken
  <2>2. ASSUME NEW q \in window' PROVE fifo' /\ \E m \in published' : Queue[m] = q
    <3>1. CASE q \in window
      BY <1>2, <3>1 DEF WindowIsTaken
    <3>2. CASE q \notin window
      BY <1>2, <2>2, <3>2
    <3>3. QED
      BY <3>1, <3>2
  <2>3. QED
    BY <2>1, <2>2 DEF WindowIsTaken
<1>3. QED
  BY <1>1, <1>2 DEF Enqueue

LEMMA WindowNext ==
    ASSUME IInv, [Next]_vars
    PROVE  WindowIsTaken'
<1>1. TypeOK /\ WindowIsTaken
  BY DEF IInv
<1>2. published \subseteq published' /\ fifo' = fifo
  BY <1>1, PublishedGrows, FifoStays
<1>3. CASE window' \subseteq window
  BY <1>1, <1>2, <1>3 DEF WindowIsTaken
<1>4. ASSUME NEW n \in Requests, Publish(n) PROVE WindowIsTaken'
  <2>1. Enqueue(n) \/ UNCHANGED window
    BY <1>4 DEF Publish
  <2>2. QED
    BY <1>1, <1>2, <1>3, <2>1, EnqueueTakes
<1>5. ASSUME ~\E n \in Requests : Publish(n) PROVE window' \subseteq window
  BY <1>5 DEF Next, vars, storeVars, queueVars, Post, PostStep, CheckHash, Save, CacheCreated,
         SetHash, CacheOutcome, CheckRow, StoreOutcome, DropHash, Begin, CallStep,
         ReadCache, ReadRow, WriteCache, CheckCallRow, WriteRow, Remove, DeleteTemplate,
         Restart, Forget
<1>6. QED
  BY <1>3, <1>4, <1>5

LEMMA OutcomesNext ==
    ASSUME IInv, [Next]_vars
    PROVE  OutcomesAreTrue'
<1> SUFFICES ASSUME NEW n \in Requests, outcome'[n] = "QUEUED",
                    step'[n] \in {"cacheOutcome", "checkRow", "storeOutcome"}
             PROVE  Taken(n)'
  BY DEF OutcomesAreTrue
<1> USE DEF IInv, TypeOK
<1>1. CASE Publish(n)
  <2>1. Enqueue(n)
    BY <1>1 DEF Publish, PublishStatus, GoOn
  <2>2. QED
    BY <2>1, EnqueueTakes, FifoStays
<1>2. CASE step[n] \in {"cacheOutcome", "checkRow", "storeOutcome"} /\ outcome[n] = "QUEUED"
  BY <1>2, TakenStays DEF OutcomesAreTrue
<1>3. CASE (Post(n) \/ PostStep(n)) /\ ~Publish(n)
  <2> USE DEF GoOn
  <2>1. CASE Post(n)
    BY <2>1 DEF Post
  <2>2. CASE CheckHash(n) \/ Save(n)
    BY <2>2, CheckHashStep, SaveStep
  <2>3. CASE CacheCreated(n)
    BY <2>3 DEF CacheCreated
  <2>4. CASE SetHash(n)
    BY <2>4 DEF SetHash
  <2>5. CASE CacheOutcome(n) \/ CheckRow(n) \/ StoreOutcome(n)
    BY <1>2, <2>5, ReportStep
  <2>6. CASE DropHash(n)
    BY <2>6 DEF DropHash
  <2>7. QED
    BY <1>3, <2>1, <2>2, <2>3, <2>4, <2>5, <2>6 DEF PostStep
<1>4. CASE Restart
  BY <1>4 DEF Restart
<1>5. CASE step'[n] = step[n] /\ outcome'[n] = outcome[n]
  BY <1>2, <1>5
<1>6. QED
  BY <1>1, <1>3, <1>4, <1>5, PostNext, OtherPosts

LEMMA AnswersNext ==
    ASSUME IInv, [Next]_vars
    PROVE  NotFoundIsFinal' /\ RefusalIsTrue'
<1> USE DEF IInv, TypeOK
<1>1. ASSUME NEW n \in Requests, row[n] = "deleted" PROVE row'[n] = "deleted"
  BY <1>1, RowNext DEF Saved, Exists
<1>2. ASSUME NEW k \in Calls, answer'[k] = "404" PROVE row'[id'[k]] = "deleted"
  BY <1>1, <1>2, AnswerNext DEF NotFoundIsFinal
<1>3. patched \subseteq patched'
  BY CallNext DEF Begin
<1>4. ASSUME NEW k \in Calls, answer'[k] = "400" PROVE id'[k] \in patched'
  BY <1>3, <1>4, AnswerNext DEF RefusalIsTrue, ReportsAreTrue
<1>5. QED
  BY <1>2, <1>4 DEF NotFoundIsFinal, RefusalIsTrue

LEMMA QueuedNext ==
    ASSUME IInv, [Next]_vars
    PROVE  QueuedIsPublished'
<1> USE DEF IInv, TypeOK
<1>1. \A k \in Calls : new[k] # "QUEUED"
  BY NotificationsAssumption
<1>2. ASSUME NEW n \in Requests, row'[n] = "QUEUED" PROVE Taken(n)'
  <2>1. \/ row[n] = "QUEUED"
        \/ step[n] = "storeOutcome" /\ outcome[n] = "QUEUED"
    BY <1>1, <1>2, RowNext
  <2>2. QED
    BY <2>1, TakenStays DEF QueuedIsPublished, OutcomesAreTrue
<1>3. ASSUME NEW n \in Requests, cached'[n] = "QUEUED" PROVE Taken(n)'
  <2>1. \/ cached[n] = "QUEUED"
        \/ step[n] = "cacheOutcome" /\ outcome[n] = "QUEUED"
    BY <1>1, <1>3, CacheNext
  <2>2. QED
    BY <2>1, TakenStays DEF QueuedIsPublished, OutcomesAreTrue
<1>4. QED
  BY <1>2, <1>3 DEF QueuedIsPublished

LEMMA NextIInv == IInv /\ [Next]_vars => IInv'
<1> SUFFICES ASSUME IInv, [Next]_vars PROVE IInv'
  OBVIOUS
<1>1. TypeOK'
  BY TypeNext DEF IInv
<1>2. QED
  BY <1>1, FreshNext, CallsNext, ReportsNext, WindowNext, OutcomesNext, AnswersNext, QueuedNext DEF IInv

-----------------------------------------------------------------------------
(* Theorems *)

\* The inductive invariant: what a handler or the publisher is about to write is true
\* where it is kept in between.
THEOREM Invariance == Spec => []IInv
  BY InitIInv, NextIInv, PTL DEF Spec

\* A 404 of CancelDelivery, UpdateStatus or GetStatus is right, and stays right.
THEOREM NotFound == Spec => []NotFoundIsFinal
<1>1. IInv => NotFoundIsFinal
  BY DEF IInv
<1>2. QED
  BY <1>1, Invariance, PTL

\* A cancellation is refused only for a notification the worker reported SENDING or SENT.
THEOREM Refusal == Spec => []RefusalIsTrue
<1>1. IInv => RefusalIsTrue
  BY DEF IInv
<1>2. QED
  BY <1>1, Invariance, PTL

\* QUEUED is claimed only for messages that are in their queue or were, or that a FIFO queue
\* discarded for that of another request: never for one no queue ever got.
THEOREM Queued == Spec => []QueuedIsPublished
<1>1. IInv => QueuedIsPublished
  BY DEF IInv
<1>2. QED
  BY <1>1, Invariance, PTL

-----------------------------------------------------------------------------
(* The refinement *)

LEMMA PromisedInit == Init => Promised!Init
  BY DEF Init, Promised!Init

LEMMA ExistsIsPromised ==
    ASSUME TypeOK, NEW n \in Requests, Exists(n)
    PROVE  Promised!Exists(n)
  BY DEF TypeOK, Exists, Promised!Exists

LEMMA PromisedNext == IInv /\ [Next]_vars => [Promised!Next]_row
<1> SUFFICES ASSUME IInv, [Next]_vars, row' # row PROVE Promised!Next
  OBVIOUS
<1> USE DEF IInv, TypeOK, StoreStatus
<1>1. ASSUME NEW n \in Requests, Save(n) PROVE Promised!Save(n)
  BY <1>1 DEF Save, FreshUntilSaved, Promised!Save
<1>2. ASSUME NEW n \in Requests, StoreOutcome(n) PROVE Promised!SetStatus(n, outcome[n])
  BY <1>2, ExistsIsPromised DEF StoreOutcome, Promised!SetStatus
<1>3. ASSUME NEW k \in Calls, WriteRow(k) PROVE Promised!SetStatus(id[k], new[k])
  BY <1>3, ExistsIsPromised DEF WriteRow, Promised!SetStatus
<1>4. ASSUME NEW k \in Calls, Remove(k) PROVE Promised!Remove({id[k]})
  <2>1. Saved(id[k]) /\ row' = [row EXCEPT ![id[k]] = "deleted"]
    BY <1>4 DEF Remove, CallsAreSaved, CallsHaveOps, Running
  <2>2. id[k] \in Requests /\ row = [n \in Requests |-> row[n]]
    OBVIOUS
  <2> HIDE DEF IInv, TypeOK
  <2>3. Exists(id[k])
    BY <2>1, <2>2 DEF Saved, Exists
  <2>4. Promised!Exists(id[k])
    BY <2>2, <2>3, ExistsIsPromised DEF IInv
  <2>5. row' = [n \in Requests |-> IF n \in {id[k]} THEN "deleted" ELSE row[n]]
    BY <2>1, <2>2
  <2>6. QED
    BY <2>4, <2>5 DEF Promised!Remove
<1>5. ASSUME NEW n \in Requests, DeleteTemplate(n) PROVE \E gone \in SUBSET Requests : Promised!Remove(gone)
  <2> DEFINE gone == {m \in Requests : m \in Templated /\ Template[m] = Template[n] /\ Exists(m)}
  <2>1. row' = [m \in Requests |-> IF m \in gone THEN "deleted" ELSE row[m]]
    BY <1>5 DEF DeleteTemplate
  <2>2. \A m \in gone : Promised!Exists(m)
    BY ExistsIsPromised
  <2>3. QED
    BY <2>1, <2>2 DEF Promised!Remove
<1>6. \/ \E n \in Requests : Save(n) \/ StoreOutcome(n) \/ DeleteTemplate(n)
      \/ \E k \in Calls : WriteRow(k) \/ Remove(k)
  BY DEF Next, vars, storeVars, Post, PostStep, CheckHash, CacheCreated, SetHash, Publish,
         CacheOutcome, CheckRow, DropHash, Begin, CallStep, ReadCache, ReadRow, WriteCache,
         CheckCallRow, Restart, Forget
<1>7. \A n \in Requests : outcome[n] \in Statuses
  BY DEF Statuses
<1>8. \A k \in Calls : id[k] \in Requests /\ new[k] \in Statuses
  BY NotificationsAssumption DEF Statuses
<1>9. ASSUME NEW n \in Requests, Save(n) \/ StoreOutcome(n) \/ DeleteTemplate(n)
      PROVE  Promised!Next
  <2>1. Promised!Save(n) \/ Promised!SetStatus(n, outcome[n])
        \/ \E gone \in SUBSET Requests : Promised!Remove(gone)
    BY <1>1, <1>2, <1>5, <1>9
  <2>2. QED
    BY <1>7, <2>1, Zenon DEF Promised!Next
<1>10. ASSUME NEW k \in Calls, WriteRow(k) \/ Remove(k)
       PROVE  Promised!Next
  <2>1. Promised!SetStatus(id[k], new[k]) \/ Promised!Remove({id[k]})
    BY <1>3, <1>4, <1>10
  <2>2. id[k] \in Requests /\ new[k] \in Statuses /\ {id[k]} \in SUBSET Requests
    BY <1>8
  <2>3. QED
    BY <2>1, <2>2, Zenon DEF Promised!Next
<1>11. QED
  BY <1>6, <1>9, <1>10

\* Handlers, publisher and deletions of templates, call by call, implement a registry
\* whose rows are saved once, written while they are there, and never come back.
THEOREM Implements == Spec => RegistryHolds
  BY Invariance, PromisedInit, PromisedNext, PTL DEF Spec, RegistryHolds, Promised!Spec

-----------------------------------------------------------------------------
(* What a 204 promises *)

\* a request was saved and answered 204
Repeatable == \E m \in Requests : reply[m] = "204" /\ Saved(m)

\* the hash key and a 204 both come after such a request; nobody is answered twice
AcceptInv ==
    /\ hashKey = "set" => Repeatable
    /\ \A n \in Requests : reply[n] = "204" => Repeatable
    /\ \A n \in Requests : step[n] \in {"cacheCreated", "setHash"} => Saved(n)
    /\ \A n \in Requests : step[n] \in {"new", "checkHash", "save"} => reply[n] # "204"

LEMMA SaveIsSaved ==
    ASSUME TypeOK, NEW n \in Requests, Save(n), step'[n] = "cacheCreated"
    PROVE  Saved(n)'
  BY DEF TypeOK, Save, Refuse, GoOn, StoreStatus, Saved

\* a request about to be cached or hashed has been saved
LEMMA SavedBeforeHash ==
    ASSUME IInv, AcceptInv, [Next]_vars, NEW n \in Requests,
           step'[n] \in {"cacheCreated", "setHash"}
    PROVE  Saved(n)'
<1> USE DEF IInv, TypeOK, GoOn
<1>1. CASE step[n] \in {"cacheCreated", "setHash"}
  BY <1>1, SavedStays DEF AcceptInv
<1>2. CASE Save(n)
  BY <1>2, SaveStep, SaveIsSaved
<1>3. CASE Post(n) \/ CheckHash(n) \/ Publish(n)
  <2>1. CASE Post(n)
    BY <2>1 DEF Post
  <2>2. QED
    BY <1>3, <2>1, CheckHashStep, PublishStep
<1>4. CASE CacheOutcome(n) \/ CheckRow(n) \/ StoreOutcome(n)
  BY <1>4, ReportStep
<1>5. CASE CacheCreated(n) \/ SetHash(n)
  BY <1>1, <1>5 DEF CacheCreated, SetHash
<1>6. CASE DropHash(n)
  BY <1>6 DEF DropHash
<1>7. CASE Restart
  BY <1>7 DEF Restart
<1>8. CASE step'[n] = step[n]
  BY <1>1, <1>8
<1>9. QED
  BY <1>2, <1>3, <1>4, <1>5, <1>6, <1>7, <1>8, PostNext, OtherPosts DEF PostStep

\* the hash key is set, and a 204 answered, where the hash key was or after the row
LEMMA AcceptNext ==
    ASSUME IInv, [Next]_vars
    PROVE  \/ /\ hashKey' = "set" => hashKey = "set"
              /\ \A n \in Requests : reply'[n] = "204" => reply[n] = "204" \/ hashKey = "set"
           \/ \E m \in Requests : SetHash(m)
<1> USE DEF IInv, TypeOK
<1>1. ASSUME NEW m \in Requests, CheckHash(m)
      PROVE  /\ hashKey' = hashKey
             /\ \A n \in Requests : reply'[n] = "204" => reply[n] = "204" \/ hashKey = "set"
  BY <1>1 DEF CheckHash, Refuse, storeVars
<1>2. ASSUME NEW m \in Requests, Save(m)
      PROVE  hashKey' = hashKey /\ \A n \in Requests : reply'[n] = "204" => reply[n] = "204"
  BY <1>2 DEF Save, Refuse
<1>3. ASSUME NEW m \in Requests, DropHash(m) PROVE hashKey' \in {hashKey, "none"} /\ reply' = reply
  BY <1>3 DEF DropHash
<1>4. CASE Forget
  BY <1>4 DEF Forget, postVars
<1>5. \/ UNCHANGED <<hashKey, reply>>
      \/ \E m \in Requests : CheckHash(m) \/ Save(m) \/ SetHash(m) \/ DropHash(m)
      \/ Forget
  BY DEF Next, vars, storeVars, postVars, Post, PostStep, CacheCreated, Publish, CacheOutcome,
         CheckRow, StoreOutcome, Begin, CallStep, ReadCache, ReadRow, WriteCache, CheckCallRow,
         WriteRow, Remove, DeleteTemplate, Restart
<1>6. QED
  BY <1>1, <1>2, <1>3, <1>4, <1>5

\* a 204 is not taken back
LEMMA ReplyStays ==
    ASSUME IInv, AcceptInv, [Next]_vars, NEW n \in Requests, reply[n] = "204"
    PROVE  reply'[n] = "204"
<1> USE DEF IInv, TypeOK
<1>1. step[n] \notin {"checkHash", "save"}
  BY DEF AcceptInv
<1>2. ASSUME NEW m \in Requests, CheckHash(m) \/ Save(m) PROVE reply'[n] = "204"
  BY <1>1, <1>2 DEF CheckHash, Save, Refuse
<1>3. ASSUME NEW m \in Requests, SetHash(m) PROVE reply'[n] = "204"
  BY <1>3 DEF SetHash
<1>4. \/ UNCHANGED reply
      \/ \E m \in Requests : CheckHash(m) \/ Save(m) \/ SetHash(m)
  BY DEF Next, vars, storeVars, postVars, Post, PostStep, CacheCreated, Publish, CacheOutcome,
         CheckRow, StoreOutcome, DropHash, Begin, CallStep, ReadCache, ReadRow, WriteCache,
         CheckCallRow, WriteRow, Remove, DeleteTemplate, Restart, Forget
<1>5. QED
  BY <1>2, <1>3, <1>4

\* a handler still to look for the hash key, or to save, was not answered
LEMMA UnansweredNext ==
    ASSUME IInv, AcceptInv, [Next]_vars, NEW n \in Requests,
           step'[n] \in {"new", "checkHash", "save"}
    PROVE  reply'[n] # "204"
<1> USE DEF IInv, TypeOK, GoOn
<1>1. CASE Post(n)
  BY <1>1 DEF Post, AcceptInv
<1>2. CASE CheckHash(n) \/ Save(n)
  BY <1>2 DEF CheckHash, Save, Refuse, AcceptInv
<1>3. CASE CacheCreated(n) \/ SetHash(n) \/ DropHash(n)
  BY <1>3 DEF CacheCreated, SetHash, DropHash
<1>4. CASE Publish(n)
  BY <1>4, PublishStep
<1>5. CASE CacheOutcome(n) \/ CheckRow(n) \/ StoreOutcome(n)
  BY <1>5, ReportStep
<1>6. ASSUME NEW m \in Requests, m # n, Post(m) \/ PostStep(m)
      PROVE  step'[n] = step[n] /\ reply'[n] = reply[n]
  <2>1. step'[n] = step[n]
    BY <1>6, OtherPosts
  <2>2. UNCHANGED reply \/ CheckHash(m) \/ Save(m) \/ SetHash(m)
    BY <1>6 DEF Post, PostStep, CacheCreated, Publish, CacheOutcome, CheckRow, StoreOutcome,
                DropHash
  <2>3. CASE CheckHash(m) \/ Save(m) \/ SetHash(m)
    BY <1>6, <2>3 DEF CheckHash, Save, SetHash, Refuse
  <2>4. QED
    BY <2>1, <2>2, <2>3
<1>7. CASE Restart
  BY <1>7 DEF Restart, AcceptInv
<1>8. CASE ~(Restart \/ \E m \in Requests : Post(m) \/ PostStep(m))
  <2>1. UNCHANGED <<step, reply>>
    BY <1>8 DEF Next, vars, postVars, Begin, CallStep, ReadCache, ReadRow, WriteCache,
         CheckCallRow, WriteRow, Remove, DeleteTemplate, Forget
  <2>2. QED
    BY <2>1 DEF AcceptInv
<1>9. QED
  BY <1>1, <1>2, <1>3, <1>4, <1>5, <1>6, <1>7, <1>8 DEF PostStep, AcceptInv

LEMMA AcceptInvNext == IInv /\ AcceptInv /\ [Next]_vars => AcceptInv'
<1> SUFFICES ASSUME IInv, AcceptInv, [Next]_vars PROVE AcceptInv'
  OBVIOUS
<1>1. Repeatable => Repeatable'
  BY SavedStays, ReplyStays DEF Repeatable
<1>2. ASSUME NEW m \in Requests, SetHash(m) PROVE Repeatable'
  <2>1. Saved(m)'
    BY <1>2, SavedStays DEF SetHash, AcceptInv
  <2>2. reply'[m] = "204"
    BY <1>2 DEF SetHash, IInv, TypeOK
  <2>3. QED
    BY <2>1, <2>2 DEF Repeatable
<1>3. (hashKey' = "set" => Repeatable') /\ \A n \in Requests : reply'[n] = "204" => Repeatable'
  BY <1>1, <1>2, AcceptNext DEF AcceptInv
<1>4. QED
  BY <1>3, SavedBeforeHash, UnansweredNext DEF AcceptInv

\* A request answered 204 was saved, or another that was saved was answered 204, for any
\* requests: the hash key, though it tells no two requests apart, is only there after a
\* saved notification whose handler has answered (notifications.go:111-197).
THEOREM Accepted == Spec => []AcceptedOrRepeated
<1>1. Init => AcceptInv
  BY DEF Init, AcceptInv
<1>2. AcceptInv => AcceptedOrRepeated
  BY DEF AcceptInv, AcceptedOrRepeated, Repeatable
<1>3. QED
  BY <1>1, <1>2, AcceptInvNext, Invariance, PTL DEF Spec

-----------------------------------------------------------------------------
(* Repeated requests *)

\* nothing failed, and no publication returned an error
Quiet == faults = 0 /\ erred = {}

\* the hash key is there for everyone who was answered 204, or posted after such an answer
KeyIsSet == \A n \in Requests : reply[n] = "204" \/ answered[n] # {} => hashKey = "set"

\* a request posted after a 204 does not come to its publication
RepeatsStop ==
    \A n \in Requests : answered[n] # {} => step[n] \in {"checkHash", "done"} /\ n \notin published

\* the hash key is dropped for the publications that returned an error only
DropsHaveErred == \A n \in Requests : step[n] = "dropHash" => n \in erred

NewIsUnpublished == \A n \in Requests : step[n] = "new" => n \notin published

RepeatInv ==
    /\ DropsHaveErred
    /\ NewIsUnpublished
    /\ Quiet => KeyIsSet /\ RepeatsStop

LEMMA InitRepeatInv == Init => RepeatInv
  BY DEF Init, RepeatInv, DropsHaveErred, NewIsUnpublished, KeyIsSet, RepeatsStop

\* the steps that leave all of these alone but, possibly, add to erred or faults
LEMMA RepeatIdle ==
    ASSUME TypeOK, RepeatInv, faults' >= faults, erred \subseteq erred',
           UNCHANGED <<hashKey, published, step, reply, answered>>
    PROVE  RepeatInv'
<1>1. Quiet' => Quiet
  BY DEF Quiet, TypeOK
<1>2. QED
  BY <1>1 DEF RepeatInv, DropsHaveErred, NewIsUnpublished, KeyIsSet, RepeatsStop

\* the steps of a request past the check of its hash, with what each leaves alone
LEMMA RepeatAdvance ==
    ASSUME TypeOK, RepeatInv, faults' \in Nat, faults' >= faults, erred \subseteq erred',
           NEW n \in Requests, step[n] \notin {"new", "checkHash", "done"},
           \A m \in Requests \ {n} : step'[m] = step[m],
           step'[n] # "new", step'[n] = "dropHash" => n \in erred',
           published' \subseteq published \cup {n}, UNCHANGED answered,
           Quiet' => /\ hashKey = "set" => hashKey' = "set"
                     /\ \A m \in Requests : reply'[m] = "204" => reply[m] = "204" \/ hashKey' = "set"
    PROVE  RepeatInv'
<1> USE DEF TypeOK, GoOn
<1>1. Quiet' => Quiet
  BY DEF Quiet
<1>2. DropsHaveErred'
  BY DEF RepeatInv, DropsHaveErred
<1>3. NewIsUnpublished'
  BY DEF RepeatInv, NewIsUnpublished
<1>4. ASSUME Quiet' PROVE KeyIsSet'
  BY <1>1, <1>4 DEF RepeatInv, KeyIsSet
<1>5. ASSUME Quiet' PROVE RepeatsStop'
  BY <1>1, <1>5 DEF RepeatInv, RepeatsStop
<1>6. QED
  BY <1>2, <1>3, <1>4, <1>5 DEF RepeatInv

LEMMA RepeatPost ==
    ASSUME TypeOK, RepeatInv, NEW n \in Requests, Post(n)
    PROVE  RepeatInv'
<1> USE DEF TypeOK, GoOn
<1>1. /\ step[n] = "new" /\ step' = [step EXCEPT ![n] = "checkHash"]
      /\ answered' = [answered EXCEPT ![n] = {m \in Requests : reply[m] = "204"}]
      /\ UNCHANGED <<hashKey, published, erred, reply, faults>>
  BY DEF Post, storeVars, queueVars
<1>2. DropsHaveErred' /\ NewIsUnpublished'
  BY <1>1 DEF RepeatInv, DropsHaveErred, NewIsUnpublished
<1>3. ASSUME Quiet' PROVE KeyIsSet' /\ RepeatsStop'
  BY <1>1, <1>3 DEF Quiet, RepeatInv, KeyIsSet, RepeatsStop, NewIsUnpublished
<1>4. QED
  BY <1>2, <1>3 DEF RepeatInv

LEMMA RepeatCheckHash ==
    ASSUME TypeOK, RepeatInv, NEW n \in Requests, CheckHash(n)
    PROVE  RepeatInv'
<1> USE DEF TypeOK, GoOn, Refuse
<1>1. /\ step[n] = "checkHash" /\ UNCHANGED <<hashKey, published, erred, answered>>
      /\ step' = [step EXCEPT ![n] = "done"] \/ step' = [step EXCEPT ![n] = "save"]
  BY DEF CheckHash, storeVars, queueVars, ghostVars
<1>2. DropsHaveErred' /\ NewIsUnpublished'
  BY <1>1 DEF RepeatInv, DropsHaveErred, NewIsUnpublished
<1>3. ASSUME Quiet' PROVE KeyIsSet' /\ RepeatsStop'
  <2>1. Quiet /\ NoFault
    BY <1>1, <1>3 DEF Quiet, CheckHash, NoFault, Fault
  <2>2. ~Fault
    BY <1>3 DEF Quiet, Fault
  <2>3. \/ hashKey = "set" /\ step' = [step EXCEPT ![n] = "done"]
        \/ hashKey = "none" /\ step' = [step EXCEPT ![n] = "save"] /\ UNCHANGED reply
    BY <2>2 DEF CheckHash
  <2>4. QED
    BY <1>1, <2>1, <2>3 DEF RepeatInv, KeyIsSet, RepeatsStop
<1>4. QED
  BY <1>2, <1>3 DEF RepeatInv

LEMMA RepeatPostStep ==
    ASSUME TypeOK, TypeOK', RepeatInv, NEW n \in Requests, PostStep(n)
    PROVE  RepeatInv'
<1> DEFINE At(next) == step' = [step EXCEPT ![n] = next]
<1>1. faults \in Nat /\ faults' \in Nat
  BY NotificationsAssumption DEF TypeOK
<1>2. ASSUME NEW next, At(next)
      PROVE  step'[n] = next /\ \A m \in Requests \ {n} : step'[m] = step[m]
  BY <1>2 DEF TypeOK
<1> USE DEF NoFault, Fault, GoOn
<1>3. CASE CheckHash(n)
  BY <1>3, RepeatCheckHash
<1>4. CASE Save(n)
  <2>1. \A m \in Requests : reply'[m] = "204" => reply[m] = "204"
    BY <1>4 DEF Save, Refuse, TypeOK
  <2>2. At("done") \/ At("cacheCreated")
    BY <1>4, SaveStep
  <2>3. /\ step[n] = "save" /\ UNCHANGED <<hashKey, published, erred, answered>>
        /\ faults' >= faults
    BY <1>1, <1>4 DEF Save, queueVars, ghostVars
  <2>4. QED
    BY <1>1, <1>2, <2>1, <2>2, <2>3, RepeatAdvance
<1>5. CASE CacheCreated(n)
  <2>1. /\ step[n] = "cacheCreated" /\ At("setHash") /\ faults' >= faults
        /\ UNCHANGED <<hashKey, published, erred, reply, answered>>
    BY <1>1, <1>5 DEF CacheCreated, queueVars, ghostVars
  <2>2. QED
    BY <1>1, <1>2, <2>1, RepeatAdvance
<1>6. CASE SetHash(n)
  <2>1. /\ step[n] = "setHash" /\ At("publish") /\ faults' >= faults
        /\ UNCHANGED <<published, erred, answered>>
    BY <1>1, <1>6 DEF SetHash, queueVars, ghostVars
  <2>2. Quiet' => hashKey' = "set"
    BY <1>1, <1>6 DEF SetHash, Quiet
  <2>3. QED
    BY <1>1, <1>2, <2>1, <2>2, RepeatAdvance
<1>7. CASE Publish(n)
  <2>1. step[n] = "publish" /\ UNCHANGED <<hashKey, reply, answered>>
    BY <1>7 DEF Publish, ghostVars
  <2>2. CASE HasQueue(n)
    <3>1. At("cacheOutcome") /\ faults' \in {faults, faults + 1}
      BY <1>7, <2>2 DEF Publish
    <3>2. published' \subseteq published \cup {n}
      BY <1>7, <2>2 DEF Publish, Enqueue
    <3>3. erred \subseteq erred'
      BY <1>7, <2>2 DEF Publish
    <3>4. QED
      BY <1>1, <1>2, <2>1, <3>1, <3>2, <3>3, RepeatAdvance
  <2>3. CASE ~HasQueue(n)
    <3>1. /\ At("dropHash") /\ faults' >= faults
          /\ UNCHANGED published /\ erred' = erred \cup {n}
      BY <1>1, <1>7, <2>3 DEF Publish
    <3>2. QED
      BY <1>1, <1>2, <2>1, <3>1, RepeatAdvance
  <2>4. QED
    BY <2>2, <2>3
<1>8. CASE CacheOutcome(n)
  <2>1. /\ step[n] = "cacheOutcome" /\ At("checkRow") /\ faults' >= faults
        /\ UNCHANGED <<hashKey, published, reply, answered>> /\ erred \subseteq erred'
    BY <1>1, <1>8 DEF CacheOutcome, queueVars, ghostVars
  <2>2. QED
    BY <1>1, <1>2, <2>1, RepeatAdvance
<1>9. CASE CheckRow(n)
  <2>1. /\ step[n] = "checkRow" /\ faults' >= faults
        /\ UNCHANGED <<hashKey, published, reply, answered>> /\ erred \subseteq erred'
    BY <1>1, <1>9 DEF CheckRow, storeVars, queueVars, ghostVars
  <2>2. At("storeOutcome") \/ (At("dropHash") /\ n \in erred')
    BY <1>9 DEF CheckRow
  <2>3. QED
    BY <1>1, <1>2, <2>1, <2>2, RepeatAdvance
<1>10. CASE StoreOutcome(n)
  <2>1. /\ step[n] = "storeOutcome" /\ faults' >= faults
        /\ UNCHANGED <<hashKey, published, reply, answered>> /\ erred \subseteq erred'
    BY <1>1, <1>10 DEF StoreOutcome, queueVars, ghostVars
  <2>2. At("done") \/ (At("dropHash") /\ n \in erred')
    BY <1>10 DEF StoreOutcome
  <2>3. QED
    BY <1>1, <1>2, <2>1, <2>2, RepeatAdvance
<1>11. CASE DropHash(n)
  <2>1. /\ step[n] = "dropHash" /\ At("done") /\ faults' >= faults
        /\ UNCHANGED <<published, erred, reply, answered>>
    BY <1>1, <1>11 DEF DropHash, queueVars, ghostVars
  <2>2. ~Quiet'
    BY <2>1 DEF RepeatInv, DropsHaveErred, Quiet
  <2>3. QED
    BY <1>1, <1>2, <2>1, <2>2, RepeatAdvance
<1>12. QED
  BY <1>3, <1>4, <1>5, <1>6, <1>7, <1>8, <1>9, <1>10, <1>11 DEF PostStep

LEMMA RepeatNext == TypeOK /\ RepeatInv /\ [Next]_vars => RepeatInv'
<1> SUFFICES ASSUME TypeOK, RepeatInv, [Next]_vars PROVE RepeatInv'
  OBVIOUS
<1>1. TypeOK'
  BY TypeNext
<1>2. ASSUME NEW n \in Requests, Post(n) \/ PostStep(n) PROVE RepeatInv'
  BY <1>1, <1>2, RepeatPost, RepeatPostStep
<1>3. ASSUME NEW k \in Calls, Begin(k) \/ CallStep(k) PROVE RepeatInv'
  <2>1. faults' >= faults
    BY <1>3 DEF TypeOK, NoFault, Fault, Begin, CallStep, ReadCache, ReadRow, WriteCache,
                CheckCallRow, WriteRow, Remove
  <2>2. UNCHANGED <<hashKey, published, step, erred, reply, answered>>
    BY <1>3 DEF Begin, CallStep, ReadCache, ReadRow, WriteCache, CheckCallRow, WriteRow,
                Remove, storeVars, queueVars, postVars, ghostVars
  <2>3. QED
    BY <2>1, <2>2, RepeatIdle
<1>4. ASSUME NEW n \in Requests, DeleteTemplate(n) PROVE RepeatInv'
  BY <1>4, RepeatIdle DEF DeleteTemplate, TypeOK, postVars, ghostVars
<1>5. CASE Restart
  BY <1>5 DEF Restart, Fault, Quiet, TypeOK, RepeatInv, DropsHaveErred, NewIsUnpublished,
              storeVars, queueVars
<1>6. CASE Forget
  BY <1>6 DEF Forget, Fault, Quiet, TypeOK, RepeatInv, DropsHaveErred, NewIsUnpublished,
              queueVars, postVars
<1>7. CASE UNCHANGED vars
  BY <1>7, RepeatIdle DEF vars, TypeOK
<1>8. QED
  BY <1>2, <1>3, <1>4, <1>5, <1>6, <1>7 DEF Next

\* While nothing fails and no publication returns an error, a request posted after a 204
\* finds the hash key and is not queued: the key is set before the 204 is sent, and dropped
\* only after a publication failed (notifications.go:126-133, 174-208).
THEOREM Repeats == Spec => []RepeatsDetected
<1>1. TypeOK /\ RepeatInv => RepeatsDetected
  BY DEF TypeOK, RepeatInv, Quiet, RepeatsStop, RepeatsDetected
<1>2. QED
  BY <1>1, InitRepeatInv, RepeatNext, TypeCorrect, PTL DEF Spec

-----------------------------------------------------------------------------
(* The cache and the registry *)

Agree(n) == Exists(n) /\ cached[n] # "none" => cached[n] = row[n]

\* handler k is between its two writes, the first of which is still there
HalfDone(k) ==
    \/ op[k] = "cancel" /\ pc[k] \in {"checkRow", "writeRow"}
    \/ op[k] = "update" /\ pc[k] = "writeCache"
Midway(k, n) ==
    /\ HalfDone(k)
    /\ op[k] = "cancel" => cached[n] = new[k]
    /\ op[k] = "update" => row[n] \in {new[k], "deleted"}

Settled(n) ==
    \/ Agree(n) /\ \A k \in Writers(n) : ~HalfDone(k)
    \/ \E k \in Writers(n) : Midway(k, n)

\* the writers of a notification that is not raced take turns, and the publisher comes first
TakeTurns(n) ==
    /\ Publishing(n) => Writers(n) = {}
    /\ \A j, k \in Writers(n) : j = k

\* what each call of the publisher and of the one writer finds
InStep(n) ==
    /\ step[n] = "cacheCreated" => row[n] \in {"CREATED", "deleted"}
    /\ step[n] \in {"checkRow", "storeOutcome"} => cached[n] = outcome[n]
    /\ step[n] \notin {"cacheCreated", "checkRow", "storeOutcome"} => Settled(n)

Calm(n) == faults = 0 /\ n \notin raced

WritersWrite ==
    \A k \in Calls : pc[k] \in {"writeCache", "checkRow", "writeRow"} => op[k] \in {"cancel", "update"}

AgreeInv ==
    /\ WritersWrite
    /\ \A n \in Requests : Calm(n) => TakeTurns(n) /\ InStep(n)

LEMMA InitAgreeInv == Init => AgreeInv
  BY DEF Init, AgreeInv, WritersWrite, TakeTurns, InStep, Settled, Agree, Writers, Running, Publishing,
         Exists

LEMMA DecideWrites ==
    ASSUME TypeOK, NEW k \in Calls, NEW s, Decide(k, s)
    PROVE  /\ pc'[k] \in {"idle", "writeCache", "remove"}
           /\ pc'[k] = "writeCache" => op[k] = "cancel"
           /\ \A j \in Calls \ {k} : pc'[j] = pc[j]
  BY DEF TypeOK, Decide, GoTo, Answer

\* what a call of handler k does to the progress of the handlers
LEMMA CallMoves ==
    ASSUME TypeOK, NEW k \in Calls, CallStep(k)
    PROVE  /\ \A j \in Calls \ {k} : pc'[j] = pc[j]
           /\ UNCHANGED <<op, id, new, step, outcome, raced, patched>>
           /\ Running(k)
<1> USE DEF TypeOK, GoTo, Answer, Running, postVars, ghostVars
<1>1. CASE ReadCache(k)
  BY <1>1, DecideWrites DEF ReadCache
<1>2. CASE ReadRow(k)
  BY <1>2, DecideWrites DEF ReadRow
<1>3. CASE WriteCache(k)
  BY <1>3 DEF WriteCache
<1>4. CASE CheckCallRow(k)
  BY <1>4 DEF CheckCallRow
<1>5. CASE WriteRow(k)
  BY <1>5 DEF WriteRow
<1>6. CASE Remove(k)
  BY <1>6 DEF Remove
<1>7. QED
  BY <1>1, <1>2, <1>3, <1>4, <1>5, <1>6 DEF CallStep

LEMMA WritersWriteCall ==
    ASSUME TypeOK, WritersWrite, NEW k \in Calls, CallStep(k)
    PROVE  WritersWrite'
<1>1. pc'[k] \in {"writeCache", "checkRow", "writeRow"} => op[k] \in {"cancel", "update"}
  <2> USE DEF TypeOK, GoTo, Answer
  <2>1. CASE ReadCache(k)
    BY <2>1, DecideWrites DEF ReadCache
  <2>2. CASE ReadRow(k)
    BY <2>2, DecideWrites DEF ReadRow
  <2>3. CASE WriteCache(k) \/ CheckCallRow(k) \/ WriteRow(k)
    BY <2>3 DEF WriteCache, CheckCallRow, WriteRow, WritersWrite
  <2>4. CASE Remove(k)
    BY <2>4 DEF Remove
  <2>5. QED
    BY <2>1, <2>2, <2>3, <2>4 DEF CallStep
<1>2. QED
  BY <1>1, CallMoves DEF WritersWrite

LEMMA WritersWriteNext ==
    ASSUME TypeOK, WritersWrite, [Next]_vars
    PROVE  WritersWrite'
<1>1. ASSUME NEW k \in Calls, Begin(k) PROVE WritersWrite'
  <2>1. pc'[k] \in {"writeCache", "checkRow", "writeRow"} => op'[k] \in {"cancel", "update"}
    BY <1>1, NotificationsAssumption DEF Begin, FirstCall, TypeOK
  <2>2. \A j \in Calls \ {k} : pc'[j] = pc[j] /\ op'[j] = op[j]
    BY <1>1 DEF Begin, TypeOK
  <2>3. QED
    BY <2>1, <2>2 DEF WritersWrite
<1>2. CASE Restart
  BY <1>2 DEF Restart, WritersWrite
<1>3. CASE UNCHANGED <<pc, op>>
  BY <1>3 DEF WritersWrite
<1>4. UNCHANGED <<pc, op>> \/ Restart \/ \E k \in Calls : Begin(k) \/ CallStep(k)
  BY DEF Next, vars, callVars, Post, PostStep, CheckHash, Save, CacheCreated, SetHash,
         Publish, CacheOutcome, CheckRow, StoreOutcome, DropHash, DeleteTemplate, Forget
<1>5. QED
  BY <1>1, <1>2, <1>3, <1>4, WritersWriteCall

\* the steps that neither move nor write what the writers of n and its publisher rely on; the
\* row may be deleted at any time
LEMMA StepUndisturbed ==
    ASSUME TypeOK, NEW n \in Requests, TakeTurns(n), InStep(n),
           row'[n] \in {row[n], "deleted"}, cached'[n] = cached[n],
           step'[n] = step[n], outcome'[n] = outcome[n], UNCHANGED <<op, id, new>>,
           \A j \in Calls : id[j] = n /\ op[j] \in {"cancel", "update"} => pc'[j] = pc[j]
    PROVE  TakeTurns(n)' /\ InStep(n)'
<1>1. Writers(n)' = Writers(n)
  BY DEF Writers, Running
<1>2. TakeTurns(n)'
  BY <1>1 DEF TakeTurns, Publishing
<1>3. Agree(n) => Agree(n)'
  BY DEF Agree, Exists
<1>4. ASSUME NEW k \in Writers(n)
      PROVE  (HalfDone(k)' => HalfDone(k)) /\ (Midway(k, n) => Midway(k, n)')
  <2>1. pc'[k] = pc[k] /\ UNCHANGED <<op, new>>
    BY DEF Writers
  <2>2. QED
    BY <2>1 DEF HalfDone, Midway
<1>5. Settled(n) => Settled(n)'
  BY <1>1, <1>3, <1>4 DEF Settled
<1>6. InStep(n)'
  BY <1>5 DEF InStep
<1>7. QED
  BY <1>2, <1>6

\* the one writer of n makes its next call: it leaves the two agreeing, or is midway
LEMMA WriterTurn ==
    ASSUME IInv, WritersWrite, NEW n \in Requests, TakeTurns(n), InStep(n),
           NEW k \in Writers(n), CallStep(k), faults' = 0
    PROVE  TakeTurns(n)' /\ InStep(n)'
<1> USE DEF IInv, TypeOK, NoFault, Fault
<1>1. /\ k \in Calls /\ id[k] = n /\ op[k] \in {"cancel", "update"}
      /\ ~Publishing(n)
      /\ step' = step
      /\ \A j \in Writers(n) : j = k
  BY CallMoves DEF Writers, TakeTurns
<1>2. (Agree(n) /\ ~HalfDone(k)) \/ Midway(k, n)
  BY <1>1 DEF InStep, Settled, Publishing
<1>3. ~Fault
  BY NotificationsAssumption
<1>4. Writers(n)' \subseteq {k}
  BY <1>1, CallMoves DEF Writers, Running
<1>5. k \in Writers(n)' \/ ~Running(k)'
  BY <1>1, CallMoves DEF Writers
<1>6. (Agree(n)' /\ ~HalfDone(k)') \/ (Running(k)' /\ Midway(k, n)')
  <2> USE DEF GoTo, Answer, Running, HalfDone, Midway
  <2>1. CASE ReadCache(k)
    <3>1. UNCHANGED <<row, cached>> /\ pc[k] = "readCache"
      BY <2>1 DEF ReadCache, storeVars
    <3>2. pc'[k] \in {"idle", "readRow", "writeCache", "remove"}
          /\ (pc'[k] = "writeCache" => op[k] = "cancel")
      BY <1>1, <2>1, DecideWrites DEF ReadCache
    <3>3. UNCHANGED op
      BY <1>1, CallMoves
    <3>4. ~HalfDone(k)'
      BY <3>2, <3>3
    <3>5. Agree(n)'
      BY <1>2, <3>1 DEF Agree, Exists
    <3>6. QED
      BY <3>4, <3>5
  <2>2. CASE ReadRow(k)
    <3>1. UNCHANGED <<row, cached>> /\ pc[k] = "readRow"
      BY <2>2 DEF ReadRow, storeVars
    <3>2. pc'[k] \in {"idle", "writeCache", "remove"}
          /\ (pc'[k] = "writeCache" => op[k] = "cancel")
      BY <1>1, <2>2, DecideWrites DEF ReadRow
    <3>3. UNCHANGED op
      BY <1>1, CallMoves
    <3>4. ~HalfDone(k)'
      BY <3>2, <3>3
    <3>5. Agree(n)'
      BY <1>2, <3>1 DEF Agree, Exists
    <3>6. QED
      BY <3>4, <3>5
  <2>3. CASE WriteCache(k)
    <3>1. pc[k] = "writeCache" /\ UNCHANGED <<row, op, new>>
      BY <2>3 DEF WriteCache
    <3>2. cached'[n] = new[k]
      BY <1>1, <1>3, <2>3 DEF WriteCache, CacheStatus
    <3>3. CASE op[k] = "cancel"
      <4>1. pc'[k] = "checkRow"
        BY <1>1, <1>3, <2>3, <3>3 DEF WriteCache
      <4>2. QED
        BY <3>1, <3>2, <3>3, <4>1
    <3>4. CASE op[k] = "update"
      <4>1. pc'[k] = "idle"
        BY <1>1, <1>3, <2>3, <3>4 DEF WriteCache
      <4>2. QED
        BY <1>2, <3>1, <3>2, <3>4, <4>1 DEF Agree, Exists
    <3>5. QED
      BY <1>1, <3>3, <3>4
  <2>4. CASE CheckCallRow(k)
    <3>1. pc[k] = "checkRow" /\ UNCHANGED <<row, cached, op, new>>
      BY <2>4 DEF CheckCallRow, storeVars
    <3>2. pc'[k] = "writeRow" \/ (~Exists(n) /\ pc'[k] = "idle")
      BY <1>1, <1>3, <2>4 DEF CheckCallRow
    <3>3. QED
      BY <1>1, <1>2, <3>1, <3>2 DEF Agree, Exists
  <2>5. CASE WriteRow(k)
    <3>1. pc[k] = "writeRow" /\ UNCHANGED <<cached, op, new>>
      BY <2>5 DEF WriteRow
    <3>2. CASE Exists(n)
      <4>1. row'[n] = new[k]
        BY <1>1, <1>3, <2>5, <3>2 DEF WriteRow, StoreStatus
      <4>2. CASE op[k] = "cancel"
        <5>1. pc'[k] = "idle"
          BY <1>1, <1>3, <2>5, <3>2, <4>2 DEF WriteRow
        <5>2. QED
          BY <1>2, <3>1, <4>1, <4>2, <5>1 DEF Agree, Exists
      <4>3. CASE op[k] = "update"
        <5>1. pc'[k] = "writeCache"
          BY <1>1, <1>3, <2>5, <3>2, <4>3 DEF WriteRow
        <5>2. QED
          BY <3>1, <4>1, <4>3, <5>1
      <4>4. QED
        BY <1>1, <4>2, <4>3
    <3>3. CASE ~Exists(n)
      <4>1. row' = row /\ pc'[k] = "idle"
        BY <1>1, <1>3, <2>5, <3>3 DEF WriteRow
      <4>2. QED
        BY <3>3, <4>1 DEF Agree, Exists
    <3>4. QED
      BY <3>2, <3>3
  <2>6. CASE Remove(k)
    BY <1>1, <1>3, <2>6 DEF Remove, StoreStatus, Agree, Exists
  <2>7. QED
    BY <2>1, <2>2, <2>3, <2>4, <2>5, <2>6 DEF CallStep
<1>7. TakeTurns(n)'
  BY <1>1, <1>4 DEF TakeTurns, Publishing
<1>8. InStep(n)'
  BY <1>1, <1>4, <1>5, <1>6 DEF InStep, Settled, Publishing
<1>9. QED
  BY <1>7, <1>8

\* every other call of a handler leaves n alone, or deletes it
LEMMA OtherCalls ==
    ASSUME TypeOK, WritersWrite, NEW n \in Requests, TakeTurns(n), InStep(n),
           NEW k \in Calls, k \notin Writers(n), CallStep(k)
    PROVE  TakeTurns(n)' /\ InStep(n)'
<1> USE DEF TypeOK
<1>1. id[k] # n \/ op[k] \notin {"cancel", "update"}
  BY CallMoves DEF Writers
<1>2. row'[n] \in {row[n], "deleted"} /\ cached'[n] = cached[n]
  <2>1. CASE ReadCache(k) \/ ReadRow(k) \/ CheckCallRow(k)
    BY <2>1 DEF ReadCache, ReadRow, CheckCallRow, storeVars
  <2>2. CASE WriteCache(k)
    BY <1>1, <2>2 DEF WriteCache, CacheStatus, WritersWrite
  <2>3. CASE WriteRow(k)
    BY <1>1, <2>3 DEF WriteRow, StoreStatus, WritersWrite
  <2>4. CASE Remove(k)
    BY <2>4 DEF Remove, StoreStatus
  <2>5. QED
    BY <2>1, <2>2, <2>3, <2>4 DEF CallStep
<1>3. QED
  BY <1>1, <1>2, CallMoves, StepUndisturbed

\* a new writer of n comes when there is none and its publisher is done, or races it
LEMMA BeginTurn ==
    ASSUME IInv, NEW n \in Requests, TakeTurns(n), InStep(n), NEW k \in Calls, Begin(k),
           n \notin raced'
    PROVE  TakeTurns(n)' /\ InStep(n)'
<1> USE DEF IInv, TypeOK
<1>1. /\ ~Running(k)
      /\ UNCHANGED <<row, cached, step, outcome>>
      /\ \A j \in Calls \ {k} : pc'[j] = pc[j] /\ op'[j] = op[j] /\ id'[j] = id[j] /\ new'[j] = new[j]
  BY DEF Begin, storeVars, postVars
<1>2. k \in Writers(n)' => Writers(n) = {} /\ ~Publishing(n)
  BY DEF Begin, Writers, Running
<1>3. Writers(n)' \subseteq Writers(n) \cup {k} /\ Writers(n) \subseteq Writers(n)'
  BY <1>1 DEF Writers, Running
<1>4. TakeTurns(n)'
  BY <1>1, <1>2, <1>3 DEF TakeTurns, Publishing
<1>5. /\ \A j \in Writers(n) : (HalfDone(j)' <=> HalfDone(j)) /\ (Midway(j, n) => Midway(j, n)')
      /\ ~HalfDone(k)'
  <2>1. ~HalfDone(k)'
    BY NotificationsAssumption DEF Begin, FirstCall, HalfDone
  <2>2. QED
    BY <1>1, <2>1 DEF HalfDone, Midway, Writers
<1>6. InStep(n)'
  BY <1>1, <1>3, <1>5 DEF InStep, Settled, Agree, Exists
<1>7. QED
  BY <1>4, <1>6

\* the calls of the publisher of n, and of the handler before it
LEMMA PublisherTurn ==
    ASSUME IInv, NEW n \in Requests, TakeTurns(n), InStep(n), Post(n) \/ PostStep(n), faults' = 0
    PROVE  TakeTurns(n)' /\ InStep(n)'
<1> DEFINE At(next) == step'[n] = next
<1>1. ~Fault
  BY NotificationsAssumption DEF IInv, TypeOK, Fault
<1>2. TypeOK
  BY DEF IInv
<1>3. UNCHANGED <<pc, op, id, new>>
  BY DEF Post, PostStep, CheckHash, Save, CacheCreated, SetHash, Publish, CacheOutcome,
         CheckRow, StoreOutcome, DropHash, callVars
<1>4. Writers(n)' = Writers(n)
  BY <1>3 DEF Writers, Running
<1>5. \A k \in Writers(n) : HalfDone(k)' <=> HalfDone(k)
  BY <1>3 DEF HalfDone
<1>6. ASSUME row'[n] = row[n], cached'[n] = cached[n], Settled(n)
      PROVE  Settled(n)'
  <2>1. \A k \in Writers(n) : Midway(k, n) => Midway(k, n)'
    BY <1>3, <1>5, <1>6 DEF Midway
  <2>2. QED
    BY <1>4, <1>5, <1>6, <2>1 DEF Settled, Agree, Exists
<1>7. ASSUME Publishing(n) \/ row[n] = "unsaved"
      PROVE  /\ Writers(n) = {} /\ TakeTurns(n)'
             /\ Agree(n)' => Settled(n)'
  <2>1. Writers(n) = {}
    BY <1>7 DEF TakeTurns, IInv, CallsAreSaved, Writers, Saved
  <2>2. QED
    BY <1>4, <2>1 DEF TakeTurns, Settled
<1> USE DEF NoFault, GoOn, Refuse, TypeOK
<1>8. CASE Post(n)
  <2>1. At("checkHash") /\ step[n] = "new" /\ UNCHANGED <<row, cached>>
    BY <1>2, <1>8 DEF Post, storeVars
  <2>2. QED
    BY <1>4, <1>6, <2>1 DEF TakeTurns, InStep, Publishing
<1>9. CASE CheckHash(n)
  <2>1. (At("done") \/ At("save")) /\ step[n] = "checkHash" /\ UNCHANGED <<row, cached>>
    BY <1>2, <1>9 DEF CheckHash, storeVars
  <2>2. QED
    BY <1>4, <1>6, <2>1 DEF TakeTurns, InStep, Publishing
<1>10. CASE Save(n)
  <2>1. step[n] = "save" /\ row[n] = "unsaved"
    BY <1>10 DEF Save, IInv, FreshUntilSaved
  <2>2. (At("done") /\ row' = row) \/ (At("cacheCreated") /\ row'[n] = "CREATED")
    BY <1>1, <1>2, <1>10 DEF Save, StoreStatus
  <2>3. At("done") /\ row' = row => Agree(n)'
    BY <2>1 DEF Agree, Exists
  <2>4. QED
    BY <1>7, <2>1, <2>2, <2>3 DEF InStep
<1>11. CASE CacheCreated(n)
  <2>1. step[n] = "cacheCreated" /\ At("setHash") /\ row' = row /\ cached'[n] = "CREATED"
    BY <1>1, <1>2, <1>11 DEF CacheCreated, CacheStatus
  <2>2. Agree(n)'
    BY <2>1 DEF InStep, Agree, Exists
  <2>3. QED
    BY <1>7, <2>1, <2>2 DEF InStep, Publishing
<1>12. CASE SetHash(n)
  <2>1. step[n] = "setHash" /\ At("publish") /\ UNCHANGED <<row, cached>>
    BY <1>2, <1>12 DEF SetHash
  <2>2. QED
    BY <1>6, <1>7, <2>1 DEF InStep, Publishing
<1>13. CASE Publish(n)
  <2>1. step[n] = "publish" /\ UNCHANGED <<row, cached>>
    BY <1>13 DEF Publish
  <2>2. At("cacheOutcome") \/ At("dropHash")
    BY <1>2, <1>13, PublishStep
  <2>3. QED
    BY <1>6, <1>7, <2>1, <2>2 DEF InStep, Publishing
<1>14. CASE CacheOutcome(n)
  <2>1. step[n] = "cacheOutcome" /\ At("checkRow") /\ UNCHANGED outcome /\ cached'[n] = outcome[n]
    BY <1>1, <1>2, <1>14 DEF CacheOutcome, CacheStatus
  <2>2. QED
    BY <1>7, <2>1 DEF InStep, Publishing
<1>15. CASE CheckRow(n)
  <2>1. step[n] = "checkRow" /\ UNCHANGED <<row, cached, outcome>>
    BY <1>15 DEF CheckRow, storeVars
  <2>2. At("storeOutcome") \/ (At("dropHash") /\ ~Exists(n))
    BY <1>1, <1>2, <1>15 DEF CheckRow
  <2>3. ~Exists(n) => Agree(n)'
    BY <2>1 DEF Agree, Exists
  <2>4. QED
    BY <1>7, <2>1, <2>2, <2>3 DEF InStep, Publishing
<1>16. CASE StoreOutcome(n)
  <2>1. step[n] = "storeOutcome" /\ UNCHANGED <<cached, outcome>>
    BY <1>16 DEF StoreOutcome
  <2>2. At("dropHash") \/ At("done")
    <3>1. CASE n \in erred
      BY <1>2, <1>16, <3>1 DEF StoreOutcome
    <3>2. CASE n \notin erred
      BY <1>2, <1>16, <3>2 DEF StoreOutcome
    <3>3. QED
      BY <3>1, <3>2
  <2>3. IF Exists(n) THEN row'[n] = outcome[n] ELSE row' = row
    BY <1>1, <1>2, <1>16 DEF StoreOutcome, StoreStatus
  <2>4. Agree(n)'
    BY <2>1, <2>3 DEF InStep, Agree, Exists
  <2>5. QED
    BY <1>7, <2>1, <2>2, <2>4 DEF InStep, Publishing
<1>17. CASE DropHash(n)
  <2>1. step[n] = "dropHash" /\ At("done") /\ UNCHANGED <<row, cached>>
    BY <1>2, <1>17 DEF DropHash
  <2>2. QED
    BY <1>4, <1>6, <2>1 DEF TakeTurns, InStep, Publishing
<1>18. QED
  BY <1>8, <1>9, <1>10, <1>11, <1>12, <1>13, <1>14, <1>15, <1>16, <1>17 DEF PostStep

\* the calls about another request leave the stores of n alone
LEMMA OtherPostsStores ==
    ASSUME TypeOK, NEW m \in Requests, NEW n \in Requests, n # m, Post(m) \/ PostStep(m)
    PROVE  row'[n] = row[n] /\ cached'[n] = cached[n] /\ UNCHANGED <<pc, op, id, new>>
<1> USE DEF TypeOK, CacheStatus, StoreStatus, storeVars, callVars
<1>1. CASE Post(m) \/ CheckHash(m) \/ SetHash(m) \/ Publish(m) \/ CheckRow(m) \/ DropHash(m)
  BY <1>1 DEF Post, CheckHash, SetHash, Publish, CheckRow, DropHash
<1>2. CASE Save(m) \/ StoreOutcome(m)
  BY <1>2 DEF Save, StoreOutcome
<1>3. CASE CacheCreated(m) \/ CacheOutcome(m)
  BY <1>3 DEF CacheCreated, CacheOutcome
<1>4. QED
  BY <1>1, <1>2, <1>3 DEF PostStep

LEMMA FaultsGrow ==
    ASSUME [Next]_vars
    PROVE  NoFault \/ Fault
<1>1. ASSUME NEW n \in Requests, Post(n) \/ PostStep(n)
      PROVE  NoFault \/ Fault
  <2>1. CASE Post(n) \/ CheckHash(n) \/ Save(n) \/ CacheCreated(n) \/ SetHash(n) \/ DropHash(n)
    BY <2>1 DEF Post, CheckHash, Save, CacheCreated, SetHash, DropHash, NoFault
  <2>2. CASE Publish(n)
    BY <2>2 DEF Publish
  <2>3. CASE CacheOutcome(n)
    BY <2>3 DEF CacheOutcome
  <2>4. CASE CheckRow(n)
    BY <2>4 DEF CheckRow
  <2>5. CASE StoreOutcome(n)
    BY <2>5 DEF StoreOutcome
  <2>6. QED
    BY <1>1, <2>1, <2>2, <2>3, <2>4, <2>5 DEF PostStep
<1>2. ASSUME NEW k \in Calls, Begin(k) \/ CallStep(k)
      PROVE  NoFault \/ Fault
  BY <1>2 DEF Begin, CallStep, ReadCache, ReadRow, WriteCache, CheckCallRow, WriteRow, Remove,
              NoFault
<1>3. CASE (\E n \in Requests : DeleteTemplate(n)) \/ Restart \/ Forget \/ UNCHANGED vars
  BY <1>3 DEF DeleteTemplate, Restart, Forget, vars, NoFault
<1>4. QED
  BY <1>1, <1>2, <1>3 DEF Next

\* only a new handler marks a notification raced
LEMMA RacedGrows ==
    ASSUME [Next]_vars
    PROVE  raced \subseteq raced'
<1>1. UNCHANGED raced \/ \E k \in Calls : Begin(k)
  BY DEF Next, vars, ghostVars, Post, PostStep, CheckHash, Save, CacheCreated, SetHash, Publish,
         CacheOutcome, CheckRow, StoreOutcome, DropHash, CallStep, ReadCache, ReadRow,
         WriteCache, CheckCallRow, WriteRow, Remove, DeleteTemplate, Restart, Forget
<1>2. ASSUME NEW k \in Calls, Begin(k) PROVE raced \subseteq raced'
  BY <1>2 DEF Begin
<1>3. QED
  BY <1>1, <1>2

LEMMA AgreeInvNext == IInv /\ AgreeInv /\ [Next]_vars => AgreeInv'
<1> SUFFICES ASSUME IInv, AgreeInv, [Next]_vars PROVE AgreeInv'
  OBVIOUS
<1>1. TypeOK /\ WritersWrite
  BY DEF IInv, AgreeInv
<1>2. WritersWrite'
  BY <1>1, WritersWriteNext
<1>3. faults \in Nat /\ (faults' = 0 => faults = 0) /\ raced \subseteq raced'
  BY <1>1, NotificationsAssumption, FaultsGrow, RacedGrows DEF TypeOK, NoFault, Fault
<1>4. ASSUME NEW n \in Requests, Calm(n)'
      PROVE  TakeTurns(n)' /\ InStep(n)'
  <2>1. TakeTurns(n) /\ InStep(n) /\ faults' = 0 /\ n \notin raced'
    BY <1>3, <1>4 DEF AgreeInv, Calm
  <2>2. ASSUME NEW m \in Requests, Post(m) \/ PostStep(m)
        PROVE  TakeTurns(n)' /\ InStep(n)'
    <3>1. CASE m = n
      BY <2>1, <2>2, <3>1, PublisherTurn
    <3>2. CASE m # n
      <4>1. /\ row'[n] = row[n] /\ cached'[n] = cached[n] /\ UNCHANGED <<pc, op, id, new>>
            /\ step'[n] = step[n] /\ outcome'[n] = outcome[n]
        BY <1>1, <2>2, <3>2, OtherPosts, OtherPostsStores
      <4>2. QED
        BY <1>1, <2>1, <4>1, StepUndisturbed
    <3>3. QED
      BY <3>1, <3>2
  <2>3. ASSUME NEW k \in Calls, Begin(k)
        PROVE  TakeTurns(n)' /\ InStep(n)'
    BY <2>1, <2>3, BeginTurn
  <2>4. ASSUME NEW k \in Calls, CallStep(k)
        PROVE  TakeTurns(n)' /\ InStep(n)'
    <3>1. CASE k \in Writers(n)
      BY <1>1, <2>1, <2>4, <3>1, WriterTurn
    <3>2. CASE k \notin Writers(n)
      BY <1>1, <2>1, <2>4, <3>2, OtherCalls
    <3>3. QED
      BY <3>1, <3>2
  <2>5. ASSUME NEW m \in Requests, DeleteTemplate(m)
        PROVE  TakeTurns(n)' /\ InStep(n)'
    <3>1. /\ row'[n] \in {row[n], "deleted"}
          /\ UNCHANGED <<cached, step, outcome, pc, op, id, new>>
      BY <2>5 DEF DeleteTemplate, postVars, callVars
    <3>2. QED
      BY <1>1, <2>1, <3>1, StepUndisturbed
  <2>6. CASE Restart \/ Forget
    BY <1>3, <2>1, <2>6 DEF Restart, Forget, Fault
  <2>7. CASE UNCHANGED vars
    BY <1>1, <2>1, <2>7, StepUndisturbed DEF vars
  <2>8. QED
    BY <2>2, <2>3, <2>4, <2>5, <2>6, <2>7 DEF Next
<1>5. QED
  BY <1>2, <1>4 DEF AgreeInv

\* Without failures, and without two writers of the status at once, the cache and the
\* registry agree whenever no writer is between its two writes, whichever of the two each
\* handler writes first.
THEOREM CacheIsTrue == Spec => []CacheAgrees
<1>1. AgreeInv => CacheAgrees
  <2> SUFFICES ASSUME AgreeInv, NEW n \in Requests, Exists(n), cached[n] # "none",
                      Writers(n) = {}, ~Publishing(n), Calm(n)
               PROVE  cached[n] = row[n]
    BY DEF CacheAgrees, Calm
  <2>1. InStep(n)
    BY DEF AgreeInv
  <2>2. Settled(n)
    BY <2>1 DEF InStep, Publishing
  <2>3. QED
    BY <2>2 DEF Settled, Agree
<1>2. QED
  BY <1>1, InitAgreeInv, AgreeInvNext, Invariance, PTL DEF Spec
==============================================================================
