--------------------------- MODULE UserConfigProofs ---------------------------
(***************************************************************************)
(* The safety of the preferences of a user, for any requests, preferences, *)
(* updates and faults, on both registries.                                 *)
(***************************************************************************)
EXTENDS UserConfig, TLAPS

\* A request writes what a PUT carries
Writing == \A r \in Requests : pc[r] \in {"write", "invalidate"} => want[r] \in Values

IInv == TypeOK /\ Writing /\ AnswersAreReal

LEMMA Distinct ==
    /\ None # Default /\ None # Zero /\ Default # Zero
    /\ None \notin Values /\ Default \notin Values /\ Zero \notin Values
BY ConfigAssumption DEF None, Default, Zero

\* Every write stores a choice of the user or the defaults
LEMMA StoredTypes ==
    ASSUME TypeOK, NEW value \in Values \cup {Default}, Stored(value)
    PROVE  /\ config' = value
           /\ readable' \subseteq Values \cup {None, Default} /\ config' \in readable'
           /\ None \notin readable => None \notin readable'
BY Distinct DEF TypeOK, Stored

\* A call fails at most as often as the bound allows
LEMMA Fails ==
    ASSUME TypeOK, Fail
    PROVE  faults' \in 0..MaxFaults /\ faults' > 0
BY ConfigAssumption DEF TypeOK, Fail

\* The answer of a call: what it leaves of the request
LEMMA Answered ==
    ASSUME TypeOK, NEW r \in Requests, NEW value \in Values \cup {None, Default, Zero},
           Answer(r, value)
    PROVE  /\ resp' = [resp EXCEPT ![r] = value] /\ caching' = caching
           /\ \E l \in {"store", "idle"} : pc' = [pc EXCEPT ![r] = l]
BY DEF Answer, GoTo

LEMMA Initially == Init => IInv
BY ConfigAssumption, Distinct DEF Init, IInv, TypeOK, Writing, AnswersAreReal

----------------------------------------------------------------------------

LEMMA ReadKeeps ==
    ASSUME IInv, NEW r \in Requests, Read(r)
    PROVE  IInv'
<1> USE DEF IInv
<1>1. /\ pc[r] = "read" /\ UNCHANGED <<registry, config, readable, cache, want, updates>>
  BY DEF Read, store
<1>2. CASE Fail /\ ReadFails(r)
  <2>1. faults' \in 0..MaxFaults /\ faults' > 0
    BY <1>2, Fails
  <2>2. CASE registry = "postgres" /\ Answer(r, Zero)
    BY <1>1, <2>1, <2>2, Answered DEF TypeOK, Writing, AnswersAreReal
  <2>3. CASE registry # "postgres" /\ Error(r)
    BY <1>1, <2>1, <2>3 DEF Error, GoTo, TypeOK, Writing, AnswersAreReal
  <2>4. QED
    BY <1>2, <2>2, <2>3 DEF ReadFails
<1>3. ASSUME faults' = faults, NEW value \in Found,
             \/ GoTo(r, "create") /\ UNCHANGED <<resp, caching>>
             \/ want[r] # None /\ GoTo(r, "write") /\ UNCHANGED <<resp, caching>>
      PROVE  IInv'
  <2>1. CASE GoTo(r, "create") /\ UNCHANGED <<resp, caching>>
    BY <1>1, <1>3, <2>1 DEF GoTo, TypeOK, Writing, AnswersAreReal
  <2>2. CASE want[r] # None /\ GoTo(r, "write") /\ UNCHANGED <<resp, caching>>
    BY <1>1, <1>3, <2>2 DEF GoTo, TypeOK, Writing, AnswersAreReal
  <2>3. QED
    BY <1>3, <2>1, <2>2
<1>4. ASSUME faults' = faults, NEW value \in Found, Answer(r, value) PROVE IInv'
  <2>1. value \in Values \cup {None, Default} /\ value # Zero
    BY <1>4, Distinct DEF TypeOK, Found
  <2>2. QED
    BY <1>1, <1>4, <2>1, Answered DEF TypeOK, Writing, AnswersAreReal
<1>5. QED
  BY <1>2, <1>3, <1>4 DEF Read

LEMMA CreateKeeps ==
    ASSUME IInv, NEW r \in Requests, Create(r) \/ CreateFails(r)
    PROVE  IInv'
<1> USE DEF IInv
<1>1. /\ pc[r] = "create" /\ UNCHANGED <<registry, cache, want, updates>>
      /\ UNCHANGED store \/ Stored(Default)
      /\ faults' = faults \/ Fail
  BY DEF Create, CreateFails
<1>2. /\ config' \in Values \cup {None, Default}
      /\ readable' \subseteq Values \cup {None, Default} /\ config' \in readable'
  BY <1>1, StoredTypes DEF store, TypeOK
<1>3. faults' \in 0..MaxFaults /\ (faults > 0 => faults' > 0)
  BY <1>1, Fails DEF TypeOK
<1>4. CASE Error(r) \/ UNCHANGED <<pc, resp, caching>>
  BY <1>1, <1>2, <1>3, <1>4 DEF Error, GoTo, TypeOK, Writing, AnswersAreReal
<1>5. CASE want[r] # None /\ GoTo(r, "write") /\ UNCHANGED <<resp, caching>>
  BY <1>1, <1>2, <1>3, <1>5 DEF GoTo, TypeOK, Writing, AnswersAreReal
<1>6. CASE Answer(r, Default)
  BY <1>1, <1>2, <1>3, <1>6, Answered, Distinct DEF TypeOK, Writing, AnswersAreReal
<1>7. QED
  BY <1>4, <1>5, <1>6 DEF Create, CreateFails

LEMMA WriteKeeps ==
    ASSUME IInv, NEW r \in Requests, Write(r) \/ WriteFails(r)
    PROVE  IInv'
<1> USE DEF IInv
<1>1. /\ pc[r] = "write" /\ UNCHANGED <<registry, cache, want, updates, resp, caching>>
      /\ UNCHANGED store \/ Stored(want[r])
      /\ faults' = faults \/ Fail
      /\ GoTo(r, "invalidate") \/ GoTo(r, "idle") \/ UNCHANGED pc
  BY DEF Write, WriteFails, Error
<1>2. want[r] \in Values
  BY <1>1 DEF Writing
<1>3. /\ config' \in Values \cup {None, Default}
      /\ readable' \subseteq Values \cup {None, Default} /\ config' \in readable'
  BY <1>1, <1>2, StoredTypes DEF store, TypeOK
<1>4. faults' \in 0..MaxFaults /\ (faults > 0 => faults' > 0)
  BY <1>1, Fails DEF TypeOK
<1>5. QED
  BY <1>1, <1>2, <1>3, <1>4 DEF GoTo, TypeOK, Writing, AnswersAreReal

LEMMA CacheKeeps ==
    ASSUME IInv, NEW r \in Requests, Lookup(r) \/ Invalidate(r) \/ Store(r)
    PROVE  IInv'
<1> USE DEF IInv
<1>1. /\ UNCHANGED <<registry, config, readable, want, updates>>
      /\ faults' = faults \/ Fail
  BY DEF Lookup, Invalidate, Store, store
<1>2. faults' \in 0..MaxFaults /\ (faults > 0 => faults' > 0)
  BY <1>1, Fails DEF TypeOK
<1>3. CASE Lookup(r)
  <2>1. PICK l \in {"read", "idle"} : pc' = [pc EXCEPT ![r] = l]
    BY <1>3 DEF Lookup, GoTo
  <2>2. PICK b \in BOOLEAN : caching' = [caching EXCEPT ![r] = b]
    BY <1>3 DEF Lookup
  <2>3. cache' = cache /\ (UNCHANGED resp \/ resp' = [resp EXCEPT ![r] = cache])
    BY <1>3 DEF Lookup
  <2>4. /\ pc' \in [Requests -> {"idle", "lookup", "read", "create", "write", "store",
                                "invalidate"}]
        /\ caching' \in [Requests -> BOOLEAN]
    BY <2>1, <2>2 DEF TypeOK
  <2>5. resp' \in [Requests -> Values \cup {None, Default, Zero}]
    BY <2>3 DEF TypeOK
  <2>6. TypeOK'
    BY <1>1, <1>2, <2>3, <2>4, <2>5 DEF TypeOK
  <2>7. Writing'
    BY <1>1, <2>1 DEF TypeOK, Writing
  <2>8. AnswersAreReal'
    BY <1>1, <1>2, <2>3 DEF TypeOK, AnswersAreReal
  <2>9. QED
    BY <2>6, <2>7, <2>8
<1>4. CASE Invalidate(r)
  <2>1. cache' \in {None, cache} /\ pc' = [pc EXCEPT ![r] = "idle"] /\ UNCHANGED <<resp, caching>>
    BY <1>4 DEF Invalidate, GoTo
  <2>2. QED
    BY <1>1, <1>2, <2>1, Distinct DEF TypeOK, Writing, AnswersAreReal
<1>5. CASE Store(r)
  BY <1>1, <1>2, <1>5 DEF Store, GoTo, TypeOK, Writing, AnswersAreReal
<1>6. QED
  BY <1>3, <1>4, <1>5

\* Each action keeps the invariant
LEMMA Invariance == IInv /\ [Next]_vars => IInv'
<1> SUFFICES ASSUME IInv, [Next]_vars PROVE IInv'
  OBVIOUS
<1>1. ASSUME NEW r \in Requests, Get(r) PROVE IInv'
  BY <1>1, Distinct DEF IInv, Get, GoTo, store, TypeOK, Writing, AnswersAreReal
<1>2. ASSUME NEW r \in Requests, Put(r) PROVE IInv'
  <2>1. updates' \in 0..MaxUpdates
    BY <1>2, ConfigAssumption DEF IInv, Put, TypeOK
  <2>2. PICK v \in Values : want' = [want EXCEPT ![r] = v]
    BY <1>2 DEF Put
  <2>3. PICK l \in {"read", "write"} : pc' = [pc EXCEPT ![r] = l]
    BY <1>2 DEF Put, GoTo
  <2>4. /\ resp' = [resp EXCEPT ![r] = None] /\ caching' = [caching EXCEPT ![r] = FALSE]
        /\ UNCHANGED <<registry, config, readable, cache, faults>>
    BY <1>2 DEF Put, store
  <2>5. QED
    BY <2>1, <2>2, <2>3, <2>4, Distinct DEF IInv, TypeOK, Writing, AnswersAreReal
<1>3. CASE Expire
  BY <1>3, Distinct DEF IInv, Expire, store, TypeOK, Writing, AnswersAreReal
<1>4. CASE Converge
  BY <1>4 DEF IInv, Converge, TypeOK, Writing, AnswersAreReal
<1>5. CASE Restart
  <2>1. faults' \in 0..MaxFaults /\ faults' > 0
    BY <1>5, Fails DEF IInv, Restart
  <2>2. QED
    BY <1>5, <2>1 DEF IInv, Restart, store, TypeOK, Writing, AnswersAreReal
<1>6. CASE UNCHANGED vars
  BY <1>6 DEF IInv, vars, store, TypeOK, Writing, AnswersAreReal
<1>7. QED
  BY <1>1, <1>2, <1>3, <1>4, <1>5, <1>6, ReadKeeps, CreateKeeps, WriteKeeps, CacheKeeps
     DEF Next, Step

----------------------------------------------------------------------------
(* The theorems *)

\* The variables have their types.
THEOREM TypeCorrect == Spec => []TypeOK
<1>1. IInv => TypeOK
  BY DEF IInv
<1>2. QED
  BY <1>1, Initially, Invariance, PTL DEF Spec

\* Nobody is told to have opted out of everything, unless a query of Postgres failed.
THEOREM Real == Spec => []AnswersAreReal
<1>1. IInv => AnswersAreReal
  BY DEF IInv
<1>2. QED
  BY <1>1, Initially, Invariance, PTL DEF Spec

\* One step of settled preferences leaves them settled, and keeps a choice a choice
LEMMA StepSticks ==
    ASSUME IInv, [Next]_vars, Settled
    PROVE  Settled' /\ (config \in Values => config' \in Values)
<1> USE DEF IInv
<1>1. ASSUME UNCHANGED <<registry, config, readable>>,
             registry = "dynamodb" => \A r \in Requests : pc'[r] = "create" => pc[r] = "create"
      PROVE  Settled' /\ (config \in Values => config' \in Values)
  BY <1>1 DEF Settled
<1>2. ASSUME NEW r \in Requests, Read(r)
      PROVE  Settled' /\ (config \in Values => config' \in Values)
  <2>1. UNCHANGED <<registry, config, readable>>
    BY <1>2 DEF Read, store
  <2>2. ASSUME registry = "dynamodb" PROVE \E l \in {"idle", "write", "store"} : GoTo(r, l)
    <3>1. None \notin Found
      BY <2>2 DEF Settled, Found
    <3>2. QED
      BY <1>2, <3>1 DEF Read, ReadFails, Error, Answer, GoTo
  <2>3. registry = "dynamodb" => \A q \in Requests : pc'[q] = "create" => pc[q] = "create"
    BY <2>2 DEF GoTo, TypeOK
  <2>4. QED
    BY <1>1, <2>1, <2>3
<1>3. ASSUME NEW r \in Requests, Create(r) \/ CreateFails(r)
      PROVE  Settled' /\ (config \in Values => config' \in Values)
  <2>1. registry # "dynamodb" /\ UNCHANGED registry
    BY <1>3 DEF Create, CreateFails, Settled
  <2>2. ~Creates
    BY <2>1 DEF Creates, Settled
  <2>3. UNCHANGED <<config, readable>>
    BY <1>3, <2>2 DEF Create, CreateFails, store
  <2>4. QED
    BY <1>1, <2>1, <2>3
<1>4. ASSUME NEW r \in Requests, Write(r) \/ WriteFails(r)
      PROVE  Settled' /\ (config \in Values => config' \in Values)
  <2>1. /\ pc[r] = "write" /\ UNCHANGED registry
        /\ UNCHANGED store \/ Stored(want[r])
        /\ GoTo(r, "invalidate") \/ GoTo(r, "idle") \/ UNCHANGED pc
    BY <1>4 DEF Write, WriteFails, Error
  <2>2. \A q \in Requests : pc'[q] = "create" => pc[q] = "create"
    BY <2>1 DEF GoTo, TypeOK
  <2>3. want[r] \in Values
    BY <2>1 DEF Writing
  <2>4. CASE UNCHANGED store
    BY <1>1, <2>1, <2>2, <2>4 DEF store
  <2>5. CASE Stored(want[r])
    <3>1. config' \in Values /\ config' # None /\ (None \notin readable => None \notin readable')
      BY <2>3, <2>5, StoredTypes, Distinct
    <3>2. QED
      BY <2>1, <2>2, <3>1 DEF Settled
  <2>6. QED
    BY <2>1, <2>4, <2>5
<1>5. ASSUME NEW r \in Requests, Get(r) \/ Put(r) \/ Lookup(r) \/ Invalidate(r) \/ Store(r)
      PROVE  Settled' /\ (config \in Values => config' \in Values)
  <2>1. /\ UNCHANGED <<registry, config, readable>>
        /\ \E l \in {"idle", "lookup", "read", "write"} : GoTo(r, l)
    BY <1>5 DEF Get, Put, Lookup, Invalidate, Store, GoTo, store
  <2>2. \A q \in Requests : pc'[q] = "create" => pc[q] = "create"
    BY <2>1 DEF GoTo, TypeOK
  <2>3. QED
    BY <1>1, <2>1, <2>2
<1>6. CASE Converge
  BY <1>6 DEF Converge, Settled, TypeOK
<1>7. CASE Expire \/ Restart \/ UNCHANGED vars
  BY <1>1, <1>7 DEF Expire, Restart, vars, store
<1>8. QED
  BY <1>2, <1>3, <1>4, <1>5, <1>6, <1>7 DEF Next, Step

\* Preferences that can be read everywhere, with no first read under way, are from
\* then on replaced only by the user's own choices.
THEOREM Sticks == Spec => UpdateSticks
<1>1. IInv /\ [Next]_vars => [Settled => Settled' /\ (config \in Values => config' \in Values)]_vars
  BY StepSticks
<1>2. QED
  BY <1>1, Initially, Invariance, PTL DEF Spec, UpdateSticks

=============================================================================
