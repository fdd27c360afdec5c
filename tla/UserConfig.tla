------------------------------ MODULE UserConfig ------------------------------
(***************************************************************************)
(* The preferences of one user behind the response cache: GetUserConfig    *)
(* and UpdateUserConfig of service/internal/controllers/users.go over both *)
(* registries (service/internal/registry/{postgres,dynamodb}/              *)
(* user_config.go), with the middleware of                                 *)
(* service/internal/middleware/cache.go and the keys and calls of          *)
(* shared/cache/redis.go. One action per call.                             *)
(*                                                                         *)
(* Postgres runs each statement in a transaction of its own. DynamoDB      *)
(* reads are eventually consistent, its writes here have no condition, and *)
(* the SDK repeats a call whose answer was lost. Failing calls and         *)
(* restarts are FAULTS, bounded by MaxFaults.                              *)
(***************************************************************************)
EXTENDS Naturals, SequencesExt

CONSTANTS
    Requests,    \* slots for requests: how many are served at a time
    Values,      \* the preferences a PUT may carry
    MaxUpdates,  \* bound on the PUT requests of a behaviour
    MaxFaults    \* bound on the failing calls of a behaviour

\* no preferences are stored; everything opted in; the zero value of the Go type,
\* everything opted out
None == "none"
Default == "default"
Zero == "zero"

ASSUME ConfigAssumption ==
    /\ Values \cap {None, Default, Zero} = {}
    /\ MaxUpdates \in Nat /\ MaxFaults \in Nat

VARIABLES
    registry,  \* which registry the service was built with
    config,    \* the stored preferences, or None
    readable,  \* what a read may answer
    cache,     \* the cached response of the GET, or None
    pc,        \* pc[r]: the next call of request r
    want,      \* want[r]: what a PUT carries, None for a GET
    resp,      \* resp[r]: the body of the answer, None without one
    caching,   \* caching[r]: the middleware stores the answer
    updates,   \* how many PUT requests came
    faults     \* how many calls failed

store == <<config, readable>>
vars == <<registry, store, cache, pc, want, resp, caching, updates, faults>>

TypeOK ==
    /\ registry \in {"postgres", "dynamodb"}
    /\ config \in Values \cup {None, Default}
    /\ readable \subseteq Values \cup {None, Default} /\ config \in readable
    /\ cache \in Values \cup {None, Default, Zero}
    /\ pc \in [Requests -> {"idle", "lookup", "read", "create", "write", "store",
                            "invalidate"}]
    /\ want \in [Requests -> Values \cup {None}]
    /\ resp \in [Requests -> Values \cup {None, Default, Zero}]
    /\ caching \in [Requests -> BOOLEAN]
    /\ updates \in 0..MaxUpdates
    /\ faults \in 0..MaxFaults

----------------------------------------------------------------------------
(* Keys of the cache *)

\* The path of both requests
Path == <<"users", "me", "notifications", "config">>

\* GetEntpointKey: the digest is of the path as it is
EntpointKey(path) == [digest |-> path, path |-> path]

\* GetEndpointKeyWithPrefix: the digest is of the path with the asterisk. Digests
\* of different strings are different
EndpointKeyWithPrefix(path) == [digest |-> Append(path, "*"), path |-> path]

\* Redis: SCAN with a pattern
Matches(pattern, key) ==
    pattern.digest = key.digest /\ IsPrefix(pattern.path, key.path)

----------------------------------------------------------------------------
(* Requests *)

GoTo(r, label) == pc' = [pc EXCEPT ![r] = label]

Fail == faults < MaxFaults /\ faults' = faults + 1

\* 500, which is not cached
Error(r) == GoTo(r, "idle") /\ UNCHANGED <<resp, caching>>

\* 200 with these preferences, which the middleware stores unless it could not ask
\* the cache
Answer(r, value) ==
    /\ resp' = [resp EXCEPT ![r] = value]
    /\ GoTo(r, IF caching[r] THEN "store" ELSE "idle")
    /\ UNCHANGED caching

\* A write reached the store. Reads of DynamoDB may miss it for a while
Stored(value) ==
    /\ config' = value
    /\ readable' = {value} \cup IF registry = "dynamodb" THEN readable ELSE {}

Get(r) ==
    /\ pc[r] = "idle"
    /\ want' = [want EXCEPT ![r] = None]
    /\ resp' = [resp EXCEPT ![r] = None]
    /\ GoTo(r, "lookup")
    /\ UNCHANGED <<registry, store, cache, caching, updates, faults>>

\* A PUT does not pass the cache
Put(r) ==
    /\ pc[r] = "idle"
    /\ updates < MaxUpdates /\ updates' = updates + 1
    /\ \E v \in Values : want' = [want EXCEPT ![r] = v]
    /\ resp' = [resp EXCEPT ![r] = None]
    /\ caching' = [caching EXCEPT ![r] = FALSE]
    /\ GoTo(r, IF registry = "dynamodb" THEN "read" ELSE "write")
    /\ UNCHANGED <<registry, store, cache, faults>>

\* Mutant of Lookup: the middleware stores its own answer again
LookupStoresAgain(r) ==
    /\ pc[r] = "lookup"
    /\ caching' = [caching EXCEPT ![r] = TRUE]
    /\ resp' = [resp EXCEPT ![r] = cache]
    /\ GoTo(r, IF cache = None THEN "read" ELSE "store")
    /\ UNCHANGED <<registry, store, cache, want, updates, faults>>

\* The middleware asks the cache. When that fails it sets 500 and returns, but does
\* not abort: the handler runs, answers 200 and is not cached
Lookup(r) ==
    /\ pc[r] = "lookup"
    /\ \/ /\ Fail
          /\ caching' = [caching EXCEPT ![r] = FALSE]
          /\ GoTo(r, "read") /\ UNCHANGED resp
       \/ /\ caching' = [caching EXCEPT ![r] = TRUE]
          /\ resp' = [resp EXCEPT ![r] = cache]
          /\ GoTo(r, IF cache = None THEN "read" ELSE "idle")
          /\ UNCHANGED faults
    /\ UNCHANGED <<registry, store, cache, want, updates>>

----------------------------------------------------------------------------
(* The registries *)

\* Mutant of ReadFails: as on Postgres, no error but ErrNoRows is looked at
ReadFailsSilently(r) == Answer(r, Zero)

\* A query failed. Postgres looks at no error but ErrNoRows, and answers what Scan
\* has not filled in
ReadFails(r) == IF registry = "postgres" THEN Answer(r, Zero) ELSE Error(r)

\* What QueryRow or GetItem may find
Found == readable

\* GetUserConfig; on DynamoDB also the first call of UpdateUserConfig
Read(r) ==
    /\ pc[r] = "read"
    /\ \/ /\ Fail
          /\ ReadFails(r)
       \/ /\ \E value \in Found :
                IF value = None
                THEN GoTo(r, "create") /\ UNCHANGED <<resp, caching>>
                ELSE IF want[r] # None
                THEN GoTo(r, "write") /\ UNCHANGED <<resp, caching>>
                ELSE Answer(r, value)
          /\ UNCHANGED faults
    /\ UNCHANGED <<registry, store, cache, want, updates>>

\* Mutant of Creates: an upsert on both
CreatesAlways == TRUE

\* The defaults are stored: makeUserConfig's INSERT takes only a new user,
\* createUserConfig's PutItem replaces whatever is there
Creates == registry = "dynamodb" \/ config = None

Create(r) ==
    /\ pc[r] = "create"
    /\ IF Creates THEN Stored(Default) ELSE UNCHANGED store
    /\ IF ~Creates THEN Error(r)
       ELSE IF want[r] = None THEN Answer(r, Default)
       ELSE GoTo(r, "write") /\ UNCHANGED <<resp, caching>>
    /\ UNCHANGED <<registry, cache, want, updates, faults>>

\* The call fails, before or after it took effect; or the SDK repeats it
CreateFails(r) ==
    /\ pc[r] = "create"
    /\ Fail
    /\ UNCHANGED store \/ (Creates /\ Stored(Default))
    /\ Error(r) \/ (registry = "dynamodb" /\ UNCHANGED <<pc, resp, caching>>)
    /\ UNCHANGED <<registry, cache, want, updates>>

\* UpdateUserConfig's upsert, or UpdateItem
Write(r) ==
    /\ pc[r] = "write"
    /\ Stored(want[r])
    /\ GoTo(r, "invalidate")
    /\ UNCHANGED <<registry, cache, want, resp, caching, updates, faults>>

WriteFails(r) ==
    /\ pc[r] = "write"
    /\ Fail
    /\ UNCHANGED store \/ Stored(want[r])
    /\ Error(r) \/ (registry = "dynamodb" /\ UNCHANGED <<pc, resp, caching>>)
    /\ UNCHANGED <<registry, cache, want, updates>>

----------------------------------------------------------------------------
(* The cache *)

\* DelWithPrefix, after 200 was set; an error of Redis is only logged
Invalidate(r) ==
    /\ pc[r] = "invalidate"
    /\ \/ /\ cache' = IF Matches(EndpointKeyWithPrefix(Path), EntpointKey(Path))
                      THEN None ELSE cache
          /\ UNCHANGED faults
       \/ Fail /\ UNCHANGED cache
    /\ GoTo(r, "idle")
    /\ UNCHANGED <<registry, store, want, resp, caching, updates>>

\* The middleware stores the answer of a GET
Store(r) ==
    /\ pc[r] = "store"
    /\ \/ cache' = resp[r] /\ UNCHANGED faults
       \/ Fail /\ UNCHANGED cache
    /\ GoTo(r, "idle")
    /\ UNCHANGED <<registry, store, want, resp, caching, updates>>

\* The time to live of the entry is over
Expire ==
    /\ cache # None
    /\ cache' = None
    /\ UNCHANGED <<registry, store, pc, want, resp, caching, updates, faults>>

\* DynamoDB's copies agree
Converge ==
    /\ readable # {config}
    /\ readable' = {config}
    /\ UNCHANGED <<registry, config, cache, pc, want, resp, caching, updates, faults>>

\* The service restarts: its requests are gone
Restart ==
    /\ Fail
    /\ pc' = [r \in Requests |-> "idle"]
    /\ UNCHANGED <<registry, store, cache, want, resp, caching, updates>>

----------------------------------------------------------------------------

Init ==
    /\ registry \in {"postgres", "dynamodb"}
    /\ config = None /\ readable = {None}
    /\ cache = None
    /\ pc = [r \in Requests |-> "idle"]
    /\ want = [r \in Requests |-> None]
    /\ resp = [r \in Requests |-> None]
    /\ caching = [r \in Requests |-> FALSE]
    /\ updates = 0 /\ faults = 0

Step(r) ==
    \/ Lookup(r) \/ Read(r) \/ Create(r) \/ CreateFails(r) \/ Write(r) \/ WriteFails(r)
    \/ Invalidate(r) \/ Store(r)

Next ==
    \/ \E r \in Requests : Get(r) \/ Put(r) \/ Step(r)
    \/ Expire \/ Converge \/ Restart

Spec == Init /\ [][Next]_vars
FairSpec ==
    /\ Spec
    /\ \A r \in Requests : WF_vars(Step(r))
    /\ WF_vars(Expire) /\ WF_vars(Converge)

----------------------------------------------------------------------------
(* Properties *)

\* The user has preferences, every read finds some, and no request that found none
\* is about to write the defaults over them
Settled ==
    /\ config # None
    /\ registry = "dynamodb" =>
          None \notin readable /\ \A r \in Requests : pc[r] # "create"

\* Once that is so it stays so, and what a user chose is replaced only by another
\* choice: never by the defaults of somebody's first read.
UpdateSticks ==
    [][Settled => Settled' /\ (config \in Values => config' \in Values)]_vars

\* A user whose calls do not fail is never told, by the registry or the cache, to
\* have opted out of everything; on DynamoDB nobody is.
AnswersAreReal ==
    (\E r \in Requests : resp[r] = Zero) \/ cache = Zero =>
        registry = "postgres" /\ faults > 0

\* What the cache holds, and what requests are about to put there, is what is stored
Agrees ==
    /\ cache \in {None, config}
    /\ \A r \in Requests : pc[r] = "store" => resp[r] = config

\* When updates end, stale answers do: an answer from the cache does not prolong
\* the life of the entry, and no two requests hand an old value to each other.
StaleAnswersEnd == <>[]Agrees

=============================================================================
