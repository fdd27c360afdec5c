---------------------------- MODULE ServiceClient ----------------------------
(***************************************************************************)
(* The worker's calls to the service: the senders and providers of         *)
(* worker/internal/{sender,providers}/notification_service.go over the     *)
(* client of worker/internal/clients/notification_service.go and the token *)
(* provider of clients/auth.go, and the middleware of the service that     *)
(* answers them (service/internal/middleware/{ratelimit,authentication}.go *)
(* and the controllers).                                                   *)
(*                                                                         *)
(* A call is a query of one page or several ("get"), a request with a body *)
(* that changes something ("post"), or the write of a status ("put"). One  *)
(* action per request of the network. The worker of this repository is one *)
(* caller; the provider of the token is written for several. Tokens are    *)
(* numbered; the service refuses a token a little before the client takes  *)
(* it for expired, since the client's clock starts when the answer arrives.*)
(***************************************************************************)
EXTENDS Naturals

CONSTANTS
    Callers,     \* goroutines that share the client; the worker starts one
    NumRetries,  \* how often a request is repeated
    Pages,       \* pages of the longest query
    MaxTokens    \* bound on the tokens of a behaviour

ASSUME ClientAssumption ==
    /\ NumRetries \in Nat /\ Pages \in Nat \ {0} /\ MaxTokens \in Nat
    /\ "nobody" \notin Callers

Nobody == "nobody"
Tokens == 1..MaxTokens

VARIABLES
    prefixed,  \* a proxy gives the token the prefix "Bearer " the service wants,
               \* and names the user: the client does neither
    issued,    \* how many tokens were issued
    held,      \* the token the provider keeps, 0 before the first
    dead,      \* the tokens the service refuses
    lapsed,    \* the tokens whose tokenExpiry is over
    writer,    \* who has locked the mutex for writing
    pc,        \* pc[c]: what caller c does
    kind,      \* kind[c]: its call
    token,     \* token[c]: the token in its request's header
    retry,     \* retry[c]: how often the request was repeated
    wanted,    \* wanted[c]: pages its query has
    got,       \* got[c]: pages it has received
    result,    \* result[c]: what its last call returned
    applied,   \* applied[c]: how often the service did what the post asks
    blurred    \* blurred[c]: the service did, and answered 500

tokenVars == <<prefixed, issued, held, dead, lapsed, writer>>
callVars == <<kind, token, retry, wanted, got, applied, blurred>>
vars == <<tokenVars, pc, callVars, result>>

TypeOK ==
    /\ prefixed \in BOOLEAN
    /\ issued \in 0..MaxTokens
    /\ held \in 0..issued
    /\ dead \subseteq 1..issued /\ lapsed \subseteq dead
    /\ writer \in Callers \cup {Nobody}
    /\ pc \in [Callers -> {"idle", "token", "lock", "generate", "send", "sleep"}]
    /\ kind \in [Callers -> {"get", "post", "put"}]
    /\ token \in [Callers -> 0..MaxTokens]
    /\ retry \in [Callers -> 0..NumRetries]
    /\ wanted \in [Callers -> 1..Pages]
    /\ got \in [Callers -> 0..Pages]
    /\ result \in [Callers -> {"none", "ok", "error"}]
    /\ applied \in [Callers -> 0..(NumRetries + 1)]
    /\ blurred \in [Callers -> BOOLEAN]

----------------------------------------------------------------------------

GoTo(c, label) == pc' = [pc EXCEPT ![c] = label]

\* The call returns
Return(c, outcome) ==
    /\ result' = [result EXCEPT ![c] = outcome]
    /\ GoTo(c, "idle")

\* A request is made, and AddAuth asks for a token
Request(c, k, n) ==
    /\ pc[c] = "idle"
    /\ kind' = [kind EXCEPT ![c] = k]
    /\ wanted' = [wanted EXCEPT ![c] = n]
    /\ retry' = [retry EXCEPT ![c] = 0]
    /\ got' = [got EXCEPT ![c] = 0]
    /\ applied' = [applied EXCEPT ![c] = 0]
    /\ blurred' = [blurred EXCEPT ![c] = FALSE]
    /\ result' = [result EXCEPT ![c] = "none"]
    /\ GoTo(c, "token")
    /\ UNCHANGED <<tokenVars, token>>

\* The template, the status, the recipients of a list or their statuses
Query(c) == \E n \in 1..Pages : Request(c, "get", n)

\* A batch of notifications, or the statuses of recipients
Post(c) == Request(c, "post", 1)

\* The status of a notification
PutStatus(c) == Request(c, "put", 1)

----------------------------------------------------------------------------
(* getToken *)

Usable == held # 0 /\ held \notin lapsed

TakeToken(c) ==
    /\ token' = [token EXCEPT ![c] = held]
    /\ GoTo(c, "send")

\* Under the read lock, which waits for a writer
ReadToken(c) ==
    /\ pc[c] = "token"
    /\ writer = Nobody
    /\ IF Usable THEN TakeToken(c) ELSE GoTo(c, "lock") /\ UNCHANGED token
    /\ UNCHANGED <<tokenVars, kind, retry, wanted, got, applied, blurred, result>>

\* Mutant of LockToken: nothing is checked again under the lock
LockTokenUnchecked(c) ==
    /\ pc[c] = "lock"
    /\ writer = Nobody /\ writer' = c
    /\ GoTo(c, "generate")
    /\ UNCHANGED <<prefixed, issued, held, dead, lapsed, callVars, result>>

\* Under the write lock another caller may have brought a token meanwhile
LockToken(c) ==
    /\ pc[c] = "lock"
    /\ writer = Nobody
    /\ IF Usable
       THEN TakeToken(c) /\ UNCHANGED writer
       ELSE /\ writer' = c
            /\ GoTo(c, "generate") /\ UNCHANGED token
    /\ UNCHANGED <<prefixed, issued, held, dead, lapsed, kind, retry, wanted, got, applied,
                   blurred, result>>

\* GenerateToken answers, and the deferred Unlock runs
GenerateToken(c) ==
    /\ pc[c] = "generate"
    /\ issued < MaxTokens
    /\ issued' = issued + 1
    /\ held' = issued'
    /\ token' = [token EXCEPT ![c] = issued']
    /\ writer' = Nobody
    /\ GoTo(c, "send")
    /\ UNCHANGED <<prefixed, dead, lapsed, kind, retry, wanted, got, applied, blurred, result>>

\* Mutant of TokenRefused: it is asked for again without a limit
TokenRefusedRetried(c) ==
    /\ pc[c] = "generate"
    /\ writer' = Nobody
    /\ GoTo(c, "lock")
    /\ UNCHANGED <<prefixed, issued, held, dead, lapsed, callVars, result>>

\* The token request fails
TokenRefused(c) ==
    /\ pc[c] = "generate"
    /\ writer' = Nobody
    /\ Return(c, "error")
    /\ UNCHANGED <<prefixed, issued, held, dead, lapsed, callVars>>

----------------------------------------------------------------------------
(* DoRequestWithBackoff, and the service *)

\* The service lets the request pass its authentication
Authentic(c) == prefixed /\ token[c] \notin dead

\* The request is repeated after a pause, NumRetries times at most
Repeat(c) ==
    IF retry[c] < NumRetries
    THEN GoTo(c, "sleep") /\ UNCHANGED result
    ELSE Return(c, "error")

\* Mutant of SendFails: an error of the connection is retried as well
SendFailsRetried(c) ==
    /\ pc[c] = "send"
    /\ \/ UNCHANGED applied
       \/ /\ kind[c] = "post" /\ Authentic(c)
          /\ applied' = [applied EXCEPT ![c] = @ + 1]
    /\ Repeat(c)
    /\ UNCHANGED <<tokenVars, kind, token, retry, wanted, got, blurred>>

\* The request is lost, refused, or its answer is lost: an error that is not
\* retried. So are 429, whose header X-RateLimit-Reset the service does not send; 401
\* for a token that has expired since the call began; and a repeated post whose body
\* is used up. A lost answer leaves the caller ignorant of what was done
SendFails(c) ==
    /\ pc[c] = "send"
    /\ \/ UNCHANGED applied
       \/ /\ kind[c] = "post" /\ Authentic(c)
          /\ applied' = [applied EXCEPT ![c] = @ + 1]
    /\ Return(c, "error")
    /\ UNCHANGED <<tokenVars, kind, token, retry, wanted, got, blurred>>

\* A query is answered with a page: 200. The next page has its own retries, and the
\* same header
Page(c) ==
    /\ pc[c] = "send" /\ kind[c] = "get"
    /\ Authentic(c)
    /\ got' = [got EXCEPT ![c] = @ + 1]
    /\ retry' = [retry EXCEPT ![c] = 0]
    /\ IF got'[c] = wanted[c]
       THEN Return(c, "ok")
       ELSE UNCHANGED <<pc, result>>
    /\ UNCHANGED <<tokenVars, kind, token, wanted, applied, blurred>>

\* A post is done and answered 204. That is not StatusOK: an error
NoContent(c) ==
    /\ pc[c] = "send" /\ kind[c] = "post"
    /\ Authentic(c)
    /\ applied' = [applied EXCEPT ![c] = @ + 1]
    /\ Return(c, "error")
    /\ UNCHANGED <<tokenVars, kind, token, retry, wanted, got, blurred>>

\* The service registers PATCH for the status: a PUT is answered 404, and nothing is done
NotFound(c) ==
    /\ pc[c] = "send" /\ kind[c] = "put"
    /\ Authentic(c)
    /\ Return(c, "error")
    /\ UNCHANGED <<tokenVars, callVars>>

\* 500, of the rate limiter, the authentication or the handler. The handler may have
\* done what was asked: the commit was ambiguous
ServerError(c) ==
    /\ pc[c] = "send"
    /\ prefixed
    /\ \/ UNCHANGED <<applied, blurred>>
       \/ /\ kind[c] = "post" /\ Authentic(c)
          /\ applied' = [applied EXCEPT ![c] = @ + 1]
          /\ blurred' = [blurred EXCEPT ![c] = TRUE]
    /\ Repeat(c)
    /\ UNCHANGED <<tokenVars, kind, token, retry, wanted, got>>

Wake(c) ==
    /\ pc[c] = "sleep"
    /\ retry' = [retry EXCEPT ![c] = @ + 1]
    /\ GoTo(c, "send")
    /\ UNCHANGED <<tokenVars, kind, token, wanted, got, applied, blurred, result>>

----------------------------------------------------------------------------
(* Time *)

Die(t) ==
    /\ t \in (1..issued) \ dead
    /\ dead' = dead \cup {t}
    /\ UNCHANGED <<prefixed, issued, held, lapsed, writer, pc, callVars, result>>

Lapse(t) ==
    /\ t \in dead \ lapsed
    /\ lapsed' = lapsed \cup {t}
    /\ UNCHANGED <<prefixed, issued, held, dead, writer, pc, callVars, result>>

Init ==
    /\ prefixed \in BOOLEAN
    /\ issued = 0 /\ held = 0 /\ dead = {} /\ lapsed = {}
    /\ writer = Nobody
    /\ pc = [c \in Callers |-> "idle"]
    /\ kind = [c \in Callers |-> "get"]
    /\ token = [c \in Callers |-> 0]
    /\ retry = [c \in Callers |-> 0]
    /\ wanted = [c \in Callers |-> 1]
    /\ got = [c \in Callers |-> 0]
    /\ result = [c \in Callers |-> "none"]
    /\ applied = [c \in Callers |-> 0]
    /\ blurred = [c \in Callers |-> FALSE]

Step(c) ==
    \/ ReadToken(c) \/ LockToken(c) \/ GenerateToken(c) \/ TokenRefused(c)
    \/ SendFails(c) \/ Page(c) \/ NoContent(c) \/ NotFound(c) \/ ServerError(c) \/ Wake(c)

Next ==
    \/ \E c \in Callers : Query(c) \/ Post(c) \/ PutStatus(c) \/ Step(c)
    \/ \E t \in Tokens : Die(t) \/ Lapse(t)

Spec == Init /\ [][Next]_vars

\* Go's RWMutex starves nobody: whoever waits for it gets it when it is free again
\* and again. Requests are answered or fail
FairSpec ==
    /\ Spec
    /\ \A c \in Callers :
          /\ SF_vars(ReadToken(c)) /\ SF_vars(LockToken(c))
          /\ WF_vars(Step(c))

----------------------------------------------------------------------------
(* Properties *)

\* Callers that find the token expired together obtain one new token, not one each:
\* the provider asks for a token only when the last one has lapsed.
OneUsableToken == \A s, t \in (1..issued) \ lapsed : s = t

\* What a post asks is done twice only if the service did it and answered 500: no
\* answer that was lost, and no 204 taken for an error, is followed by a repetition.
TwiceOnlyBlurred == \A c \in Callers : applied[c] > 1 => blurred[c]

\* Every call returns: nobody waits for ever for the mutex, the network or a retry.
CallsReturn == \A c \in Callers : pc[c] # "idle" ~> pc[c] = "idle"

\* No call that writes is reported done, though the service can do each of them: it answers
\* a post 204 and the client takes only 200; the status is put where the service wants a
\* patch. So the worker sees every send, status and log it wrote fail.
NoWriteSucceeds == \A c \in Callers : kind[c] # "get" => result[c] # "ok"

=============================================================================
