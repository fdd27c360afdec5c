------------------------- MODULE ServiceClientProofs -------------------------
(***************************************************************************)
(* The safety of the client, for any callers, retries, pages and tokens.   *)
(***************************************************************************)
EXTENDS ServiceClient, TLAPS

\* Who has the write lock asks for a token; while it does none is usable, and never more
\* than one
Locking ==
    /\ \A c \in Callers : pc[c] = "generate" <=> writer = c
    /\ writer # Nobody => ~Usable
    /\ held = issued
    /\ (1..issued) \ lapsed \subseteq {held}

\* How far the call of a caller is, and what may have been done for it
Progress ==
    \A c \in Callers :
        /\ pc[c] # "idle" => got[c] < wanted[c]
        /\ pc[c] \in {"token", "lock", "generate"} => applied[c] = 0
        /\ pc[c] = "send" => applied[c] <= retry[c]
        /\ pc[c] = "sleep" => applied[c] <= retry[c] + 1 /\ retry[c] < NumRetries
        /\ pc[c] \in {"send", "sleep"} /\ applied[c] > 0 => blurred[c]
        /\ kind[c] = "get" => applied[c] = 0

----------------------------------------------------------------------------
(* Tokens *)

\* The part of the state that the tokens are in
TokenType ==
    /\ prefixed \in BOOLEAN
    /\ issued \in 0..MaxTokens
    /\ held \in 0..issued
    /\ dead \subseteq 1..issued /\ lapsed \subseteq dead
    /\ writer \in Callers \cup {Nobody}
    /\ pc \in [Callers -> {"idle", "token", "lock", "generate", "send", "sleep"}]
    /\ token \in [Callers -> 0..MaxTokens]

Tokened == TokenType /\ Locking

\* A step of a caller that leaves the tokens alone, and the lock
LEMMA TokenedStill ==
    ASSUME Tokened, NEW c \in Callers, UNCHANGED <<tokenVars, token>>,
           NEW label \in {"idle", "token", "lock", "send", "sleep"}, GoTo(c, label),
           pc[c] # "generate"
    PROVE  Tokened'
<1>1. TokenType'
  BY DEF Tokened, TokenType, GoTo, tokenVars
<1>2. Locking'
  BY DEF Tokened, TokenType, Locking, GoTo, tokenVars, Usable, Nobody
<1>3. QED
  BY <1>1, <1>2 DEF Tokened

LEMMA TokenedNext == Tokened /\ [Next]_vars => Tokened'
<1> SUFFICES ASSUME Tokened, [Next]_vars PROVE Tokened'
  OBVIOUS
<1>1. ASSUME NEW c \in Callers, Query(c) \/ Post(c) \/ PutStatus(c) PROVE Tokened'
  <2>1. pc[c] = "idle" /\ GoTo(c, "token") /\ UNCHANGED <<tokenVars, token>>
    BY <1>1 DEF Query, Post, PutStatus, Request
  <2>2. QED
    BY <2>1, TokenedStill
<1>2. ASSUME NEW c \in Callers, ReadToken(c) \/ LockToken(c) PROVE Tokened'
  <2>1. pc[c] \in {"token", "lock"} /\ writer = Nobody
    BY <1>2 DEF ReadToken, LockToken
  <2>2. UNCHANGED <<prefixed, issued, held, dead, lapsed>>
    BY <1>2 DEF ReadToken, LockToken, tokenVars
  <2>3. CASE TakeToken(c) /\ UNCHANGED writer
    <3>1. held \in 0..MaxTokens
      BY ClientAssumption DEF Tokened, TokenType
    <3>2. TokenType'
      BY <2>2, <2>3, <3>1 DEF Tokened, TokenType, TakeToken, GoTo
    <3>3. Locking'
      BY <2>1, <2>2, <2>3 DEF Tokened, TokenType, Locking, TakeToken, GoTo, Usable, Nobody
    <3>4. QED
      BY <3>2, <3>3 DEF Tokened
  <2>4. CASE GoTo(c, "lock") /\ UNCHANGED <<token, writer>>
    BY <2>1, <2>2, <2>4, TokenedStill DEF tokenVars
  <2>5. CASE ~Usable /\ writer' = c /\ GoTo(c, "generate") /\ UNCHANGED token
    <3>1. TokenType'
      BY <2>2, <2>5 DEF Tokened, TokenType, GoTo
    <3>2. \A d \in Callers : pc'[d] = "generate" <=> writer' = d
      BY <2>1, <2>5, ClientAssumption DEF Tokened, TokenType, Locking, GoTo, Nobody
    <3>3. QED
      BY <2>2, <2>5, <3>1, <3>2 DEF Tokened, Locking, Usable
  <2>6. QED
    BY <1>2, <2>3, <2>4, <2>5 DEF ReadToken, LockToken, tokenVars
<1>3. ASSUME NEW c \in Callers, GenerateToken(c) PROVE Tokened'
  <2>1. /\ pc[c] = "generate" /\ writer = c /\ issued < MaxTokens
        /\ issued' = issued + 1 /\ held' = issued + 1 /\ writer' = Nobody
        /\ token' = [token EXCEPT ![c] = issued + 1] /\ GoTo(c, "send")
        /\ UNCHANGED <<prefixed, dead, lapsed>>
    BY <1>3 DEF GenerateToken, Tokened, Locking
  <2>2. TokenType'
    BY <2>1, ClientAssumption DEF Tokened, TokenType, GoTo
  <2>3. (1..issued) \ lapsed = {}
    <3>1. writer # Nobody
      BY <2>1, ClientAssumption DEF Nobody
    <3>2. ~Usable
      BY <3>1 DEF Tokened, Locking
    <3>3. QED
      BY <3>2 DEF Tokened, TokenType, Locking, Usable
  <2>4. Locking'
    <3>1. \A d \in Callers : pc'[d] = "generate" <=> writer' = d
      BY <2>1, ClientAssumption DEF Tokened, TokenType, Locking, GoTo, Nobody
    <3>2. 1..(issued + 1) = (1..issued) \cup {issued + 1}
      BY DEF Tokened, TokenType
    <3>3. QED
      BY <2>1, <2>3, <3>1, <3>2 DEF Locking
  <2>5. QED
    BY <2>2, <2>4 DEF Tokened
<1>4. ASSUME NEW c \in Callers, TokenRefused(c) PROVE Tokened'
  <2>1. /\ pc[c] = "generate" /\ writer = c /\ writer' = Nobody /\ GoTo(c, "idle")
        /\ UNCHANGED <<prefixed, issued, held, dead, lapsed, token>>
    BY <1>4 DEF TokenRefused, Return, Tokened, Locking, callVars
  <2>2. TokenType'
    BY <2>1 DEF Tokened, TokenType, GoTo
  <2>3. Locking'
    BY <2>1, ClientAssumption DEF Tokened, TokenType, Locking, GoTo, Nobody, Usable
  <2>4. QED
    BY <2>2, <2>3 DEF Tokened
<1>5. ASSUME NEW c \in Callers, SendFails(c) \/ Page(c) \/ NoContent(c) \/ NotFound(c)
                                     \/ ServerError(c) \/ Wake(c)
      PROVE  Tokened'
  <2>1. pc[c] # "generate" /\ UNCHANGED <<tokenVars, token>>
    BY <1>5 DEF SendFails, Page, NoContent, NotFound, callVars, ServerError, Wake
  <2>2. \/ UNCHANGED pc
        \/ \E label \in {"idle", "token", "lock", "send", "sleep"} : GoTo(c, label)
    BY <1>5 DEF SendFails, Page, NoContent, NotFound, callVars, ServerError, Wake, Return, Repeat
  <2>3. CASE UNCHANGED pc
    BY <2>1, <2>3 DEF Tokened, TokenType, Locking, Usable, tokenVars
  <2>4. QED
    BY <2>1, <2>2, <2>3, TokenedStill
<1>6. ASSUME NEW t \in Tokens, Die(t) \/ Lapse(t) PROVE Tokened'
  <2>1. /\ UNCHANGED <<prefixed, issued, held, writer, pc, token>>
        /\ lapsed \subseteq lapsed' /\ lapsed' \subseteq dead' /\ dead' \subseteq 1..issued
    BY <1>6 DEF Die, Lapse, callVars, Tokened, TokenType
  <2>2. QED
    BY <2>1 DEF Tokened, TokenType, Locking, Usable
<1>7. CASE UNCHANGED vars
  BY <1>7 DEF vars, tokenVars, callVars, Tokened, TokenType, Locking, Usable
<1>8. QED
  BY <1>1, <1>2, <1>3, <1>4, <1>5, <1>6, <1>7 DEF Next, Step

----------------------------------------------------------------------------
(* Calls *)

\* What TypeOK says of one caller besides, and how far it is
CallType ==
    /\ kind \in [Callers -> {"get", "post", "put"}]
    /\ retry \in [Callers -> 0..NumRetries]
    /\ wanted \in [Callers -> 1..Pages]
    /\ got \in [Callers -> 0..Pages]
    /\ result \in [Callers -> {"none", "ok", "error"}]
    /\ applied \in [Callers -> 0..(NumRetries + 1)]
    /\ blurred \in [Callers -> BOOLEAN]

Called == CallType /\ Progress /\ TwiceOnlyBlurred /\ NoWriteSucceeds

Pcs == pc \in [Callers -> {"idle", "token", "lock", "generate", "send", "sleep"}]

\* The caller goes on with the same call
LEMMA CalledMoves ==
    ASSUME Called, Pcs, NEW c \in Callers,
           UNCHANGED <<kind, retry, wanted, got, applied, blurred, result>>,
           pc[c] \in {"token", "lock", "generate"},
           NEW label \in {"lock", "generate", "send"}, GoTo(c, label)
    PROVE  Called'
<1>1. CallType' /\ TwiceOnlyBlurred' /\ NoWriteSucceeds'
  BY DEF Called, CallType, TwiceOnlyBlurred, NoWriteSucceeds
<1>2. Progress'
  BY ClientAssumption DEF Called, CallType, Progress, GoTo, Pcs
<1>3. QED
  BY <1>1, <1>2 DEF Called

\* A call of whatever kind fails
LEMMA CalledFails ==
    ASSUME Called, Pcs, NEW c \in Callers, UNCHANGED <<kind, retry, wanted, got, applied, blurred>>,
           Return(c, "error")
    PROVE  Called'
<1>1. CallType' /\ TwiceOnlyBlurred' /\ NoWriteSucceeds'
  BY DEF Called, CallType, TwiceOnlyBlurred, NoWriteSucceeds, Return
<1>2. Progress'
  BY DEF Called, Progress, Return, GoTo, Pcs
<1>3. QED
  BY <1>1, <1>2 DEF Called

LEMMA CalledNext == Called /\ Pcs /\ [Next]_vars => Called'
<1> SUFFICES ASSUME Called, Pcs, [Next]_vars PROVE Called'
  OBVIOUS
<1>1. ASSUME NEW c \in Callers, Query(c) \/ Post(c) \/ PutStatus(c) PROVE Called'
  <2>1. PICK k \in {"get", "post", "put"}, n \in 1..Pages : Request(c, k, n)
    BY <1>1, ClientAssumption DEF Query, Post, PutStatus
  <2>2. CallType'
    BY <2>1, ClientAssumption DEF Called, CallType, Request
  <2>3. Progress'
    BY <2>1, ClientAssumption DEF Called, CallType, Progress, Request, GoTo, Pcs
  <2>4. TwiceOnlyBlurred' /\ NoWriteSucceeds'
    BY <2>1 DEF Called, CallType, TwiceOnlyBlurred, NoWriteSucceeds, Request
  <2>5. QED
    BY <2>2, <2>3, <2>4 DEF Called
<1>2. ASSUME NEW c \in Callers, ReadToken(c) \/ LockToken(c) \/ GenerateToken(c) PROVE Called'
  <2>1. /\ UNCHANGED <<kind, retry, wanted, got, applied, blurred, result>>
        /\ pc[c] \in {"token", "lock", "generate"}
        /\ \E label \in {"lock", "generate", "send"} : GoTo(c, label)
    BY <1>2 DEF ReadToken, LockToken, GenerateToken, TakeToken, callVars
  <2>2. QED
    BY <2>1, CalledMoves
<1>3. ASSUME NEW c \in Callers, TokenRefused(c) PROVE Called'
  BY <1>3, CalledFails DEF TokenRefused, callVars
<1>4. ASSUME NEW c \in Callers, SendFails(c) \/ NoContent(c) \/ NotFound(c) PROVE Called'
  <2>1. /\ Return(c, "error") /\ pc[c] = "send"
        /\ UNCHANGED <<kind, retry, wanted, got, blurred>>
        /\ \/ UNCHANGED applied
           \/ kind[c] = "post" /\ applied' = [applied EXCEPT ![c] = @ + 1]
    BY <1>4 DEF SendFails, NoContent, NotFound, callVars
  <2>2. CASE UNCHANGED applied
    BY <2>1, <2>2, CalledFails
  <2>3. CASE kind[c] = "post" /\ applied' = [applied EXCEPT ![c] = @ + 1]
    <3>1. applied[c] \in 0..NumRetries
      BY <2>1, ClientAssumption DEF Called, CallType, Progress
    <3>2. CallType'
      BY <2>1, <2>3, <3>1, ClientAssumption DEF Called, CallType, Return
    <3>3. Progress'
      BY <2>1, <2>3, <3>1 DEF Called, CallType, Progress, Return, GoTo, Pcs
    <3>4. TwiceOnlyBlurred'
      BY <2>1, <2>3, <3>1 DEF Called, CallType, Progress, TwiceOnlyBlurred
    <3>5. NoWriteSucceeds'
      BY <2>1 DEF Called, CallType, NoWriteSucceeds, Return
    <3>6. QED
      BY <3>2, <3>3, <3>4, <3>5 DEF Called
  <2>4. QED
    BY <2>1, <2>2, <2>3
<1>5. ASSUME NEW c \in Callers, Page(c) PROVE Called'
  <2>1. /\ pc[c] = "send" /\ kind[c] = "get" /\ UNCHANGED <<kind, wanted, applied, blurred>>
        /\ got' = [got EXCEPT ![c] = @ + 1] /\ retry' = [retry EXCEPT ![c] = 0]
        /\ IF got'[c] = wanted[c] THEN Return(c, "ok") ELSE UNCHANGED <<pc, result>>
    BY <1>5 DEF Page
  <2>2. /\ got[c] < wanted[c] /\ got'[c] = got[c] + 1
        /\ got[c] \in 0..Pages /\ wanted[c] \in 1..Pages
    BY <2>1 DEF Called, CallType, Progress
  <2>3. CallType'
    <3>1. got[c] + 1 \in 0..Pages /\ 0 \in 0..NumRetries
      BY <2>2, ClientAssumption
    <3>2. got' \in [Callers -> 0..Pages] /\ retry' \in [Callers -> 0..NumRetries]
      BY <2>1, <3>1 DEF Called, CallType
    <3>3. result' \in [Callers -> {"none", "ok", "error"}]
      BY <2>1 DEF Called, CallType, Return
    <3>4. QED
      BY <2>1, <3>2, <3>3 DEF Called, CallType
  <2>4. Progress'
    <3>1. \A d \in Callers \ {c} : got'[d] = got[d] /\ retry'[d] = retry[d] /\ pc'[d] = pc[d]
      BY <2>1 DEF Called, CallType, Pcs, GoTo, Return
    <3>2. /\ pc'[c] = "idle" \/ (pc'[c] = "send" /\ got'[c] # wanted[c])
          /\ retry'[c] = 0 /\ applied[c] = 0
      BY <2>1 DEF Called, CallType, Progress, Pcs, GoTo, Return
    <3>3. SUFFICES ASSUME NEW d \in Callers
                   PROVE  /\ pc'[d] # "idle" => got'[d] < wanted[d]
                          /\ pc'[d] \in {"token", "lock", "generate"} => applied[d] = 0
                          /\ pc'[d] = "send" => applied[d] <= retry'[d]
                          /\ pc'[d] = "sleep" => applied[d] <= retry'[d] + 1 /\ retry'[d] < NumRetries
                          /\ pc'[d] \in {"send", "sleep"} /\ applied[d] > 0 => blurred[d]
                          /\ kind[d] = "get" => applied[d] = 0
      BY <2>1 DEF Progress
    <3>4. CASE d # c
      BY <3>1, <3>4 DEF Called, Progress
    <3>5. CASE d = c
      BY <2>2, <3>2, <3>5 DEF Called, Progress
    <3>6. QED
      BY <3>4, <3>5
  <2>5. TwiceOnlyBlurred' /\ NoWriteSucceeds'
    BY <2>1 DEF Called, CallType, TwiceOnlyBlurred, NoWriteSucceeds, Return
  <2>6. QED
    BY <2>3, <2>4, <2>5 DEF Called
<1>6. ASSUME NEW c \in Callers, ServerError(c) PROVE Called'
  <2>1. /\ pc[c] = "send" /\ UNCHANGED <<kind, retry, wanted, got>>
        /\ \/ UNCHANGED <<applied, blurred>>
           \/ /\ kind[c] = "post" /\ applied' = [applied EXCEPT ![c] = @ + 1]
              /\ blurred' = [blurred EXCEPT ![c] = TRUE]
        /\ \/ retry[c] < NumRetries /\ GoTo(c, "sleep") /\ UNCHANGED result
           \/ Return(c, "error")
    BY <1>6 DEF ServerError, Repeat
  <2>2. applied[c] \in 0..NumRetries /\ retry[c] \in 0..NumRetries /\ applied[c] <= retry[c]
    BY <2>1, ClientAssumption DEF Called, CallType, Progress
  <2>3. \A d \in Callers \ {c} : applied'[d] = applied[d] /\ blurred'[d] = blurred[d] /\ pc'[d] = pc[d]
    BY <2>1 DEF Called, CallType, Pcs, GoTo, Return
  <2>4. \/ applied'[c] = applied[c] /\ blurred'[c] = blurred[c]
        \/ kind[c] = "post" /\ applied'[c] = applied[c] + 1 /\ blurred'[c]
    BY <2>1 DEF Called, CallType
  <2>5. CallType'
    <3>1. applied[c] + 1 \in 0..(NumRetries + 1)
      BY <2>2, ClientAssumption
    <3>2. applied' \in [Callers -> 0..(NumRetries + 1)] /\ blurred' \in [Callers -> BOOLEAN]
      BY <2>1, <3>1 DEF Called, CallType
    <3>3. result' \in [Callers -> {"none", "ok", "error"}]
      BY <2>1 DEF Called, CallType, Return
    <3>4. QED
      BY <2>1, <3>2, <3>3 DEF Called, CallType
  <2>6. pc'[c] = "idle" \/ (pc'[c] = "sleep" /\ retry[c] < NumRetries)
    BY <2>1 DEF Pcs, GoTo, Return
  <2>7. Progress'
    <3>1. SUFFICES ASSUME NEW d \in Callers
                   PROVE  /\ pc'[d] # "idle" => got[d] < wanted[d]
                          /\ pc'[d] \in {"token", "lock", "generate"} => applied'[d] = 0
                          /\ pc'[d] = "send" => applied'[d] <= retry[d]
                          /\ pc'[d] = "sleep" => applied'[d] <= retry[d] + 1 /\ retry[d] < NumRetries
                          /\ pc'[d] \in {"send", "sleep"} /\ applied'[d] > 0 => blurred'[d]
                          /\ kind[d] = "get" => applied'[d] = 0
      BY <2>1 DEF Progress
    <3>2. CASE d # c
      BY <2>3, <3>2 DEF Called, Progress
    <3>3. CASE d = c
      BY <2>1, <2>2, <2>4, <2>6, <3>3 DEF Called, Progress
    <3>4. QED
      BY <3>2, <3>3
  <2>8. TwiceOnlyBlurred'
    BY <2>1, <2>2, <2>3, <2>4 DEF Called, Progress, TwiceOnlyBlurred
  <2>9. NoWriteSucceeds'
    BY <2>1 DEF Called, CallType, NoWriteSucceeds, Return
  <2>10. QED
    BY <2>5, <2>7, <2>8, <2>9 DEF Called
<1>7. ASSUME NEW c \in Callers, Wake(c) PROVE Called'
  <2>1. /\ pc[c] = "sleep" /\ retry' = [retry EXCEPT ![c] = @ + 1] /\ GoTo(c, "send")
        /\ UNCHANGED <<kind, wanted, got, applied, blurred, result>>
    BY <1>7 DEF Wake
  <2>2. CallType'
    BY <2>1, ClientAssumption DEF Called, CallType, Progress
  <2>3. Progress'
    BY <2>1, ClientAssumption DEF Called, CallType, Progress, GoTo, Pcs
  <2>4. TwiceOnlyBlurred' /\ NoWriteSucceeds'
    BY <2>1 DEF Called, TwiceOnlyBlurred, NoWriteSucceeds
  <2>5. QED
    BY <2>2, <2>3, <2>4 DEF Called
<1>8. ASSUME UNCHANGED <<pc, callVars, result>> PROVE Called'
  BY <1>8 DEF callVars, Called, CallType, Progress, TwiceOnlyBlurred, NoWriteSucceeds
<1>9. ASSUME NEW t \in Tokens, Die(t) \/ Lapse(t) PROVE Called'
  BY <1>8, <1>9 DEF Die, Lapse
<1>10. CASE UNCHANGED vars
  BY <1>8, <1>10 DEF vars
<1>11. QED
  BY <1>1, <1>2, <1>3, <1>4, <1>5, <1>6, <1>7, <1>9, <1>10 DEF Next, Step

----------------------------------------------------------------------------
(* Theorems *)

LEMMA Invariance == Spec => [](Tokened /\ Called)
<1>1. Init => Tokened
  <2> SUFFICES ASSUME Init PROVE Tokened
    OBVIOUS
  <2>1. TokenType
    BY ClientAssumption DEF Init, TokenType
  <2>2. Locking
    BY ClientAssumption DEF Init, Locking, Nobody
  <2>3. QED
    BY <2>1, <2>2 DEF Tokened
<1>2. Init => Called
  BY ClientAssumption DEF Init, Called, CallType, Progress, TwiceOnlyBlurred, NoWriteSucceeds
<1>3. Tokened => Pcs
  BY DEF Tokened, TokenType, Pcs
<1>4. QED
  BY <1>1, <1>2, <1>3, TokenedNext, CalledNext, PTL DEF Spec

\* The client's variables stay in their sets: retries, pages and tokens within their
\* bounds (clients/notification_service.go, clients/auth.go).
THEOREM TypeCorrect == Spec => []TypeOK
<1>1. Tokened /\ Called => TypeOK
  BY DEF Tokened, TokenType, Called, CallType, TypeOK
<1>2. QED
  BY <1>1, Invariance, PTL

\* However many goroutines find the token expired, the provider holds at most one that
\* has not (auth.go:106-130).
THEOREM OneToken == Spec => []OneUsableToken
<1>1. Tokened => OneUsableToken
  BY DEF Tokened, Locking, OneUsableToken
<1>2. QED
  BY <1>1, Invariance, PTL

\* Whatever answers are lost, and however often requests are repeated, only a 500 makes
\* the service do twice what a post asks (notification_service.go:64-99).
THEOREM TwiceBlurred == Spec => []TwiceOnlyBlurred
<1>1. Called => TwiceOnlyBlurred
  BY DEF Called
<1>2. QED
  BY <1>1, Invariance, PTL

\* No call that writes is ever reported done (notification_service.go:94).
THEOREM WritesFail == Spec => []NoWriteSucceeds
<1>1. Called => NoWriteSucceeds
  BY DEF Called
<1>2. QED
  BY <1>1, Invariance, PTL

============================================================================
