--------------------------- MODULE LiveStreamProofs ---------------------------
(***************************************************************************)
(* The safety of the live notifications, for any connections, channels,    *)
(* subscriptions and notifications.                                        *)
(***************************************************************************)
EXTENDS LiveStream, SequenceTheorems, TLAPS

----------------------------------------------------------------------------
(* Messages on their way *)

LEMMA FirstAndRest ==
    ASSUME NEW S, NEW q \in Seq(S), q # <<>>
    PROVE  Head(q) \in S /\ Tail(q) \in Seq(S) /\ q = <<Head(q)>> \o Tail(q)
<1>1. Head(q) \in S /\ Tail(q) \in Seq(S) /\ Len(Tail(q)) = Len(q) - 1
      /\ \A i \in 1..Len(Tail(q)) : Tail(q)[i] = q[i + 1]
  BY HeadTailProperties
<1>2. <<Head(q)>> \in Seq(S) /\ Len(<<Head(q)>>) = 1 /\ <<Head(q)>>[1] = q[1]
  BY <1>1
<1>3. Len(q) \in Nat \ {0}
  BY EmptySeq
<1>4. /\ <<Head(q)>> \o Tail(q) \in Seq(S)
      /\ Len(<<Head(q)>> \o Tail(q)) = Len(q)
      /\ \A i \in 1..Len(q) : (<<Head(q)>> \o Tail(q))[i] = q[i]
  BY <1>1, <1>2, <1>3, ConcatProperties
<1>5. QED
  BY <1>1, <1>4, SeqEqual

LEMMA Associative ==
    \A a, b, c \in Seq(Messages) : (a \o b) \o c = a \o (b \o c)
BY ConcatAssociative

\* An event takes the first of the buffer
LEMMA Shown ==
    \A d, b \in Seq(Messages) : b # <<>> => Append(d, Head(b)) \o Tail(b) = d \o b
<1> TAKE d, b \in Seq(Messages)
<1> HAVE b # <<>>
<1>1. Head(b) \in Messages /\ Tail(b) \in Seq(Messages) /\ b = <<Head(b)>> \o Tail(b) /\ <<Head(b)>> \in Seq(Messages)
  BY FirstAndRest
<1>2. Append(d, Head(b)) = d \o <<Head(b)>>
  BY <1>1, AppendIsConcat
<1>3. (d \o <<Head(b)>>) \o Tail(b) = d \o (<<Head(b)>> \o Tail(b))
  BY <1>1, Associative, Zenon
<1>4. QED
  BY <1>1, <1>2, <1>3, Zenon

\* The goroutine takes the first of what Redis sent
LEMMA Taken ==
    \A d, b, i \in Seq(Messages) :
        i # <<>> => d \o b \o <<Head(i)>> \o Tail(i) = d \o b \o <<>> \o i
<1> TAKE d, b, i \in Seq(Messages)
<1> HAVE i # <<>>
<1>1. Head(i) \in Messages /\ Tail(i) \in Seq(Messages) /\ i = <<Head(i)>> \o Tail(i) /\ <<Head(i)>> \in Seq(Messages)
  BY FirstAndRest
<1>2. d \o b \in Seq(Messages) /\ (d \o b) \o <<>> = d \o b
  BY ConcatProperties, ConcatEmptySeq
<1>3. ((d \o b) \o <<Head(i)>>) \o Tail(i) = (d \o b) \o (<<Head(i)>> \o Tail(i))
  BY <1>1, <1>2, Associative, Zenon
<1>4. QED
  BY <1>1, <1>2, <1>3

\* The goroutine puts what it took behind the buffer
LEMMA Forwarded ==
    \A d, b, i \in Seq(Messages) : \A x \in Messages :
        d \o Append(b, x) \o <<>> \o i = d \o b \o <<x>> \o i
<1> TAKE d, b, i \in Seq(Messages)
<1> TAKE x \in Messages
<1>1. <<x>> \in Seq(Messages) /\ Append(b, x) = b \o <<x>>
  BY AppendIsConcat
<1>2. b \o <<x>> \in Seq(Messages) /\ d \o (b \o <<x>>) = (d \o b) \o <<x>>
  <2>1. b \o <<x>> \in Seq(Messages)
    BY <1>1, ConcatProperties
  <2>2. (d \o b) \o <<x>> = d \o (b \o <<x>>)
    BY <1>1, Associative, Zenon
  <2>3. QED
    BY <2>1, <2>2, Zenon
<1>3. d \o (b \o <<x>>) \in Seq(Messages)
  BY <1>2, ConcatProperties
<1>4. (d \o (b \o <<x>>)) \o <<>> = d \o (b \o <<x>>)
  BY <1>3, ConcatEmptySeq
<1>5. (d \o Append(b, x)) \o <<>> = (d \o b) \o <<x>>
  BY <1>1, <1>2, <1>4, Zenon
<1>6. QED
  BY <1>5, Zenon

\* Redis sends more
LEMMA Sent ==
    \A d, b, f, i, x \in Seq(Messages) :
        d \o b \o f \o (i \o x) = (d \o b \o f \o i) \o x
<1> TAKE d, b, f, i, x \in Seq(Messages)
<1>1. d \o b \in Seq(Messages)
  BY ConcatProperties
<1>2. d \o b \o f \in Seq(Messages)
  BY <1>1, ConcatProperties
<1>3. ((d \o b \o f) \o i) \o x = (d \o b \o f) \o (i \o x)
  BY <1>2, Associative
<1>4. QED
  BY <1>3, Zenon

----------------------------------------------------------------------------
(* The invariants *)

\* Handlers read and end subscriptions there are
Wired ==
    /\ entry <= made
    /\ \A c \in Connections :
          /\ conn[c] = "serving" => source[c] \in Subs
          /\ conn[c] \in {"quitting", "closing", "deleting"} => target[c] \in Subs /\ target[c] <= made

\* A channel is closed after its goroutine has returned, and it returns with empty hands
Ended ==
    /\ \A s \in Subs : /\ closed[s] => gone[s]
                       /\ gone[s] => held[s] = None /\ s <= made
    /\ \A c \in Connections : conn[c] = "closing" => gone[target[c]]

\* A connection that was alone so far reads the subscription in the map, which is open
\* until it closes it itself
Alone ==
    ~shared =>
        /\ \A c, d \in Connections : conn[c] # "idle" /\ conn[d] # "idle" => c = d
        /\ \A c \in Connections :
              /\ conn[c] = "making" => entry = None
              /\ conn[c] = "serving" => source[c] = entry /\ entry # None
              /\ conn[c] \in {"quitting", "closing", "deleting"} => target[c] = entry
        /\ entry # None /\ closed[entry] => \E c \in Connections : conn[c] = "deleting"

Stages == {"idle", "making", "serving", "quitting", "closing", "deleting"}

LEMMA Basics ==
    /\ None = 0 /\ None \notin Subs /\ Subs \subseteq Nat /\ None \notin Messages
    /\ Messages \subseteq Nat
BY StreamAssumption DEF None, Subs, Messages

LEMMA TypeInit == Init => TypeOK /\ Wired /\ Ended /\ Alone /\ NothingLost /\ EventsAreReal
<1> SUFFICES ASSUME Init PROVE TypeOK /\ Wired /\ Ended /\ Alone /\ NothingLost /\ EventsAreReal
  OBVIOUS
<1>1. TypeOK
  <2>1. <<>> \in Seq(Messages) /\ Len(<<>>) = 0
    BY EmptySeq
  <2>2. /\ inbox \in [Subs -> Seq(Messages)] /\ buffer \in [Subs -> Seq(Messages)]
        /\ due \in [Subs -> Seq(Messages)] /\ delivered \in [Subs -> Seq(Messages)]
        /\ \A s \in Subs : Len(buffer[s]) <= Capacity
    BY <2>1, StreamAssumption DEF Init
  <2>3. 0 \in 0..MaxSubs /\ 0 \in 0..MaxPublished
    BY StreamAssumption
  <2>4. QED
    BY <2>2, <2>3 DEF Init, TypeOK
<1>2. Wired /\ Ended /\ Alone /\ EventsAreReal
  BY Basics DEF Init, Wired, Ended, Alone, EventsAreReal
<1>3. NothingLost
  <2>1. <<>> \o <<>> \o <<>> \o <<>> = <<>>
    <3>1. <<>> \in Seq(Messages) /\ \A q \in Seq(Messages) : q \o <<>> = q
      BY EmptySeq, ConcatEmptySeq
    <3>2. QED
      BY <3>1, Zenon
  <2>2. QED
    BY <2>1 DEF Init, NothingLost
<1>4. QED
  BY <1>1, <1>2, <1>3

\* A step of the handler of c that leaves subscriptions as they are
LEMMA TypeHandler ==
    ASSUME TypeOK, Wired, NEW c \in Connections,
           Connect(c) \/ BlankEvent(c) \/ Disconnect(c) \/ Quit(c) \/ QuitPanics(c) \/ Close(c)
             \/ Delete(c)
    PROVE  TypeOK'
<1>1. conn' \in [Connections -> Stages]
  <2>1. conn \in [Connections -> Stages]
    BY DEF TypeOK, Stages
  <2>2. \E label \in Stages : conn' = [conn EXCEPT ![c] = label]
    <3>1. CASE Connect(c)
      BY <3>1 DEF Stages, Connect, GoTo
    <3>2. CASE BlankEvent(c)
      BY <3>2, <2>1 DEF BlankEvent
    <3>3. CASE Disconnect(c)
      BY <3>3 DEF Stages, Disconnect, GoTo
    <3>4. CASE Quit(c)
      BY <3>4 DEF Stages, Quit, GoTo
    <3>5. CASE QuitPanics(c)
      BY <3>5 DEF Stages, QuitPanics, GoTo
    <3>6. CASE Close(c)
      BY <3>6 DEF Stages, Close, GoTo
    <3>7. CASE Delete(c)
      BY <3>7 DEF Stages, Delete, GoTo
    <3>8. QED
      BY <3>1, <3>2, <3>3, <3>4, <3>5, <3>6, <3>7
  <2>3. QED
    BY <2>1, <2>2
<1>2. source' \in [Connections -> Subs \cup {None}]
  <2>1. CASE Connect(c)
    BY <2>1 DEF TypeOK, Connect
  <2>2. CASE ~Connect(c)
    BY <2>2 DEF TypeOK, BlankEvent, Disconnect, Quit, QuitPanics, Close, Delete
  <2>3. QED
    BY <2>1, <2>2
<1>3. target' \in [Connections -> Subs \cup {None}]
  <2>1. CASE Connect(c) \/ Disconnect(c)
    BY <2>1 DEF TypeOK, Connect, Disconnect
  <2>2. CASE ~(Connect(c) \/ Disconnect(c))
    BY <2>2 DEF TypeOK, BlankEvent, Quit, QuitPanics, Close, Delete
  <2>3. QED
    BY <2>1, <2>2
<1>4. blank' \in [Connections -> BOOLEAN]
  <2>1. CASE Connect(c) \/ BlankEvent(c)
    BY <2>1 DEF TypeOK, Connect, BlankEvent
  <2>2. CASE ~(Connect(c) \/ BlankEvent(c))
    BY <2>2 DEF TypeOK, Disconnect, Quit, QuitPanics, Close, Delete
  <2>3. QED
    BY <2>1, <2>2
<1>5. closed' \in [Subs -> BOOLEAN] /\ gone' \in [Subs -> BOOLEAN]
  <2>1. CASE Connect(c)
    BY <2>1 DEF TypeOK, Connect, subVars
  <2>2. CASE Quit(c) \/ QuitPanics(c) \/ Delete(c)
    BY <2>2 DEF TypeOK, Quit, QuitPanics, Delete, subVars
  <2>3. CASE BlankEvent(c) \/ Disconnect(c) \/ Close(c)
    BY <2>3 DEF TypeOK, BlankEvent, Disconnect, Close, subVars
  <2>4. QED
    BY <2>1, <2>2, <2>3
<1>6. entry' \in Subs \cup {None} /\ shared' \in BOOLEAN
  <2>1. CASE Connect(c)
    BY <2>1 DEF TypeOK, Connect
  <2>2. CASE ~Connect(c)
    BY <2>2 DEF TypeOK, BlankEvent, Disconnect, Quit, QuitPanics, Close, Delete
  <2>3. QED
    BY <2>1, <2>2
<1>7. UNCHANGED <<made, attached, inbox, held, buffer, due, delivered, published>>
  BY DEF Connect, BlankEvent, Disconnect, Quit, QuitPanics, Close, Delete, subVars
<1>8. QED
  BY <1>1, <1>2, <1>3, <1>4, <1>5, <1>6, <1>7 DEF TypeOK, Stages

LEMMA TypeNext == TypeOK /\ Wired /\ [Next]_vars => TypeOK'
<1> SUFFICES ASSUME TypeOK, Wired, [Next]_vars PROVE TypeOK'
  OBVIOUS
<1>1. ASSUME NEW c \in Connections, Suscribe(c) PROVE TypeOK'
  <2>1. made + 1 \in Subs /\ made + 1 \in 0..MaxSubs
    BY <1>1, StreamAssumption DEF Suscribe, Subs, TypeOK
  <2>2. QED
    BY <1>1, <2>1 DEF Suscribe, GoTo, TypeOK
<1>2. ASSUME NEW c \in Connections, Event(c) PROVE TypeOK'
  <2>1. source[c] \in Subs /\ buffer[source[c]] \in Seq(Messages) /\ buffer[source[c]] # <<>>
        /\ Len(buffer[source[c]]) <= Capacity
    BY <1>2 DEF Event, Wired, TypeOK
  <2>2. /\ Head(buffer[source[c]]) \in Messages /\ Tail(buffer[source[c]]) \in Seq(Messages)
        /\ Len(Tail(buffer[source[c]])) = Len(buffer[source[c]]) - 1
    BY <2>1, HeadTailProperties
  <2>3. Append(delivered[source[c]], Head(buffer[source[c]])) \in Seq(Messages)
    BY <2>1, <2>2 DEF TypeOK
  <2>4. delivered' \in [Subs -> Seq(Messages)] /\ buffer' \in [Subs -> Seq(Messages)]
    BY <1>2, <2>1, <2>2, <2>3 DEF Event, TypeOK
  <2>5. \A s \in Subs : Len(buffer'[s]) <= Capacity
    <3>1. SUFFICES ASSUME NEW s \in Subs PROVE Len(buffer'[s]) <= Capacity
      OBVIOUS
    <3>2. CASE s = source[c]
      <4>1. buffer'[s] = Tail(buffer[s])
        BY <1>2, <2>1, <3>2 DEF Event, TypeOK
      <4>2. Len(buffer[s]) \in Nat
        BY <2>1, <3>2, LenProperties
      <4>3. QED
        BY <2>1, <2>2, <3>2, <4>1, <4>2, StreamAssumption
    <3>3. CASE s # source[c]
      BY <1>2, <3>3 DEF Event, TypeOK
    <3>4. QED
      BY <3>2, <3>3
  <2>6. QED
    BY <1>2, <2>4, <2>5 DEF Event, connVars, TypeOK
<1>3. ASSUME NEW s \in Subs, Attach(s) PROVE TypeOK'
  BY <1>3 DEF Attach, connVars, TypeOK
<1>4. ASSUME NEW s \in Subs, Take(s) PROVE TypeOK'
  <2>1. Head(inbox[s]) \in Messages /\ Tail(inbox[s]) \in Seq(Messages)
    BY <1>4, HeadTailProperties DEF Take, TypeOK
  <2>2. held' \in [Subs -> Messages \cup {None}] /\ inbox' \in [Subs -> Seq(Messages)]
    BY <1>4, <2>1 DEF Take, TypeOK
  <2>3. QED
    BY <1>4, <2>2 DEF Take, connVars, TypeOK
<1>5. ASSUME NEW s \in Subs, Forward(s) PROVE TypeOK'
  <2>1. held[s] \in Messages /\ buffer[s] \in Seq(Messages) /\ Len(buffer[s]) < Capacity
    BY <1>5 DEF Forward, TypeOK
  <2>2. Append(buffer[s], held[s]) \in Seq(Messages)
        /\ Len(Append(buffer[s], held[s])) = Len(buffer[s]) + 1 /\ Len(buffer[s]) \in Nat
    BY <2>1
  <2>3. Len(Append(buffer[s], held[s])) <= Capacity
    BY <2>1, <2>2, StreamAssumption
  <2>4. held' \in [Subs -> Messages \cup {None}] /\ buffer' \in [Subs -> Seq(Messages)]
    BY <1>5, <2>2 DEF Forward, TypeOK
  <2>5. \A t \in Subs : Len(buffer'[t]) <= Capacity
    BY <1>5, <2>3 DEF Forward, TypeOK
  <2>6. QED
    BY <1>5, <2>4, <2>5 DEF Forward, connVars, TypeOK
<1>6. CASE Publish
  <2>1. published + 1 \in Messages /\ published + 1 \in 0..MaxPublished
    BY <1>6, StreamAssumption DEF Publish, Messages, TypeOK
  <2>2. <<published + 1>> \in Seq(Messages) /\ <<>> \in Seq(Messages)
    BY <2>1, EmptySeq
  <2>3. PICK to \in {Listening, {}} :
           /\ inbox' = [s \in Subs |-> inbox[s] \o IF s \in to THEN <<published + 1>> ELSE <<>>]
           /\ due' = [s \in Subs |-> due[s] \o IF s \in to THEN <<published + 1>> ELSE <<>>]
    BY <1>6 DEF Publish
  <2>4. \A q \in Seq(Messages) : \A s \in Subs :
           q \o (IF s \in to THEN <<published + 1>> ELSE <<>>) \in Seq(Messages)
    BY <2>2, ConcatProperties
  <2>5. inbox' \in [Subs -> Seq(Messages)] /\ due' \in [Subs -> Seq(Messages)]
    BY <2>3, <2>4 DEF TypeOK
  <2>6. QED
    BY <1>6, <2>1, <2>5 DEF Publish, connVars, TypeOK
<1>7. CASE Crash
  <2>1. <<>> \in Seq(Messages) /\ Len(<<>>) = 0
    BY EmptySeq
  <2>2. /\ inbox' \in [Subs -> Seq(Messages)] /\ buffer' \in [Subs -> Seq(Messages)]
        /\ due' \in [Subs -> Seq(Messages)] /\ delivered' \in [Subs -> Seq(Messages)]
        /\ \A s \in Subs : Len(buffer'[s]) <= Capacity
    BY <1>7, <2>1, StreamAssumption DEF Crash
  <2>3. /\ entry' \in Subs \cup {None} /\ conn' \in [Connections -> Stages]
        /\ held' \in [Subs -> Messages \cup {None}]
        /\ blank' \in [Connections -> BOOLEAN] /\ shared' \in BOOLEAN
    BY <1>7 DEF Crash, Stages
  <2>4. gone' \in [Subs -> BOOLEAN] /\ closed' \in [Subs -> BOOLEAN]
    <3>1. gone' = [s \in Subs |-> s <= made] /\ closed' = gone'
      BY <1>7 DEF Crash
    <3>2. QED
      BY <3>1
  <2>5. QED
    BY <1>7, <2>2, <2>3, <2>4 DEF Crash, TypeOK, Stages
<1>8. CASE UNCHANGED vars
  BY <1>8 DEF vars, subVars, connVars, TypeOK
<1>9. QED
  BY <1>1, <1>2, <1>3, <1>4, <1>5, <1>6, <1>7, <1>8, TypeHandler DEF Next, Handler, Goroutine

\* What the steps of a handler do to connections
LEMMA WiredNext == TypeOK /\ Wired /\ [Next]_vars => Wired'
<1> SUFFICES ASSUME TypeOK, Wired, [Next]_vars PROVE Wired'
  OBVIOUS
<1>1. ASSUME NEW c \in Connections, Connect(c) PROVE Wired'
  BY <1>1, Basics DEF Connect, GoTo, Wired, TypeOK, subVars
<1>2. ASSUME NEW c \in Connections, Disconnect(c) PROVE Wired'
  BY <1>2, Basics DEF Disconnect, GoTo, Wired, TypeOK, subVars
<1>3. ASSUME NEW c \in Connections, Suscribe(c) PROVE Wired'
  <2>1. made + 1 \in Subs /\ made \in Nat
    BY <1>3, StreamAssumption DEF Suscribe, Subs, TypeOK
  <2>2. \A s \in Subs : s <= made => s <= made + 1
    BY <2>1, Basics
  <2>3. /\ entry' = made + 1 /\ made' = made + 1 /\ source'[c] = made + 1 /\ conn'[c] = "serving"
        /\ \A d \in Connections \ {c} : conn'[d] = conn[d] /\ source'[d] = source[d]
        /\ UNCHANGED target
    BY <1>3 DEF Suscribe, GoTo, TypeOK
  <2>4. QED
    BY <2>1, <2>2, <2>3 DEF Wired
<1>4. ASSUME NEW c \in Connections, Quit(c) \/ QuitPanics(c) \/ Close(c) \/ Delete(c) PROVE Wired'
  BY <1>4, Basics DEF Quit, QuitPanics, Close, Delete, GoTo, Wired, TypeOK, subVars
<1>5. CASE UNCHANGED <<entry, made, conn, source, target>>
  BY <1>5 DEF Wired
<1>6. ASSUME NEW c \in Connections, Event(c) \/ BlankEvent(c) PROVE Wired'
  BY <1>5, <1>6 DEF Event, BlankEvent, connVars, subVars
<1>7. ASSUME NEW s \in Subs, Attach(s) \/ Take(s) \/ Forward(s) PROVE Wired'
  BY <1>5, <1>7 DEF Attach, Take, Forward, connVars
<1>8. CASE Publish \/ UNCHANGED vars
  BY <1>5, <1>8 DEF Publish, vars, connVars, subVars
<1>9. CASE Crash
  BY <1>9, Basics DEF Crash, Wired, TypeOK
<1>10. QED
  BY <1>1, <1>2, <1>3, <1>4, <1>6, <1>7, <1>8, <1>9 DEF Next, Handler, Goroutine

LEMMA EndedNext == TypeOK /\ Wired /\ Ended /\ [Next]_vars => Ended'
<1> SUFFICES ASSUME TypeOK, Wired, Ended, [Next]_vars PROVE Ended'
  OBVIOUS
<1>1. ASSUME NEW c \in Connections, Connect(c) \/ Disconnect(c) \/ QuitPanics(c) \/ Delete(c)
      PROVE  Ended'
  <2>1. /\ UNCHANGED <<closed, gone, held, made>>
        /\ \A d \in Connections : conn'[d] = "closing" => conn[d] = "closing" /\ target'[d] = target[d]
    BY <1>1 DEF Connect, Disconnect, QuitPanics, Delete, GoTo, TypeOK, subVars
  <2>2. QED
    BY <2>1 DEF Ended
<1>2. ASSUME NEW c \in Connections, Suscribe(c) PROVE Ended'
  <2>1. /\ UNCHANGED <<closed, gone, held, target>> /\ made' = made + 1 /\ made \in Nat
        /\ \A d \in Connections : conn'[d] = "closing" => conn[d] = "closing"
    BY <1>2, StreamAssumption DEF Suscribe, GoTo, TypeOK
  <2>2. \A s \in Subs : s <= made => s <= made + 1
    BY <2>1, Basics
  <2>3. QED
    BY <2>1, <2>2 DEF Ended
<1>3. ASSUME NEW c \in Connections, Quit(c) PROVE Ended'
  <2>1. target[c] \in Subs /\ held[target[c]] = None
    BY <1>3 DEF Quit, Wired
  <2>2. target[c] <= made
    BY <1>3 DEF Quit, Wired
  <2>3. QED
    BY <1>3, <2>1, <2>2 DEF Quit, GoTo, Ended, TypeOK
<1>4. ASSUME NEW c \in Connections, Close(c) PROVE Ended'
  <2>1. target[c] \in Subs /\ gone[target[c]]
    BY <1>4 DEF Close, Wired, Ended
  <2>2. QED
    BY <1>4, <2>1 DEF Close, GoTo, Ended, TypeOK
<1>5. ASSUME NEW s \in Subs, Take(s) PROVE Ended'
  BY <1>5 DEF Take, connVars, Ended, TypeOK
<1>6. ASSUME NEW s \in Subs, Forward(s) PROVE Ended'
  BY <1>6 DEF Forward, connVars, Ended, TypeOK
<1>7. CASE Crash
  BY <1>7 DEF Crash, Ended
<1>8. CASE UNCHANGED <<closed, gone, held, made, conn, target>>
  BY <1>8 DEF Ended
<1>9. ASSUME NEW c \in Connections, Event(c) \/ BlankEvent(c) PROVE Ended'
  BY <1>8, <1>9 DEF Event, BlankEvent, connVars, subVars
<1>10. ASSUME NEW s \in Subs, Attach(s) PROVE Ended'
  BY <1>8, <1>10 DEF Attach, connVars
<1>11. CASE Publish \/ UNCHANGED vars
  BY <1>8, <1>11 DEF Publish, vars, connVars, subVars
<1>12. QED
  BY <1>1, <1>2, <1>3, <1>4, <1>5, <1>6, <1>7, <1>9, <1>10, <1>11 DEF Next, Handler, Goroutine

\* What a subscription s is due, for values of the variables
Forwarding(h) == IF h = None THEN <<>> ELSE <<h>>
Account(s, d, b, h, i) == d[s] \o b[s] \o Forwarding(h[s]) \o i[s]

LEMMA NothingLostNext == TypeOK /\ Wired /\ NothingLost /\ [Next]_vars => NothingLost'
<1> SUFFICES ASSUME TypeOK, Wired, NothingLost, [Next]_vars, NEW s \in Subs
             PROVE  due'[s] = Account(s, delivered', buffer', held', inbox')
  BY DEF NothingLost, Account, Forwarding
<1>1. due[s] = Account(s, delivered, buffer, held, inbox)
  BY DEF NothingLost, Account, Forwarding
<1>2. /\ delivered[s] \in Seq(Messages) /\ buffer[s] \in Seq(Messages) /\ inbox[s] \in Seq(Messages)
      /\ held[s] \in Messages \cup {None}
      /\ Forwarding(held[s]) \in Seq(Messages)
  BY DEF TypeOK, Forwarding
<1>3. ASSUME due'[s] = due[s], delivered'[s] = delivered[s], buffer'[s] = buffer[s],
             held'[s] = held[s], inbox'[s] = inbox[s]
      PROVE  due'[s] = Account(s, delivered', buffer', held', inbox')
  BY <1>1, <1>3 DEF Account
<1>4. ASSUME NEW c \in Connections, Event(c)
      PROVE  due'[s] = Account(s, delivered', buffer', held', inbox')
  <2>1. CASE s # source[c]
    BY <1>3, <1>4, <2>1 DEF Event, TypeOK
  <2>2. CASE s = source[c]
    <3>1. /\ buffer[s] # <<>> /\ buffer'[s] = Tail(buffer[s])
          /\ delivered'[s] = Append(delivered[s], Head(buffer[s]))
          /\ held'[s] = held[s] /\ inbox'[s] = inbox[s] /\ due'[s] = due[s]
      BY <1>4, <2>2 DEF Event, TypeOK
    <3>2. Append(delivered[s], Head(buffer[s])) \o Tail(buffer[s]) = delivered[s] \o buffer[s]
      BY <1>2, <3>1, Shown, Zenon
    <3>3. QED
      BY <1>1, <3>1, <3>2, Zenon DEF Account
  <2>3. QED
    BY <2>1, <2>2
<1>5. ASSUME NEW t \in Subs, Take(t)
      PROVE  due'[s] = Account(s, delivered', buffer', held', inbox')
  <2>1. CASE s # t
    BY <1>3, <1>5, <2>1 DEF Take, TypeOK
  <2>2. CASE s = t
    <3>1. /\ held[s] = None /\ inbox[s] # <<>> /\ held'[s] = Head(inbox[s])
          /\ inbox'[s] = Tail(inbox[s])
          /\ delivered'[s] = delivered[s] /\ buffer'[s] = buffer[s] /\ due'[s] = due[s]
      BY <1>5, <2>2 DEF Take, TypeOK
    <3>2. Head(inbox[s]) # None
      BY <1>2, <3>1, FirstAndRest, Basics
    <3>3. delivered[s] \o buffer[s] \o <<Head(inbox[s])>> \o Tail(inbox[s])
             = delivered[s] \o buffer[s] \o <<>> \o inbox[s]
      BY <1>2, <3>1, Taken, ZenonT(60)
    <3>4. Forwarding(held[s]) = <<>> /\ Forwarding(held'[s]) = <<Head(inbox[s])>>
      BY <3>1, <3>2 DEF Forwarding
    <3>5. QED
      BY <1>1, <3>1, <3>3, <3>4, Zenon DEF Account
  <2>3. QED
    BY <2>1, <2>2
<1>6. ASSUME NEW t \in Subs, Forward(t)
      PROVE  due'[s] = Account(s, delivered', buffer', held', inbox')
  <2>1. CASE s # t
    BY <1>3, <1>6, <2>1 DEF Forward, TypeOK
  <2>2. CASE s = t
    <3>1. /\ held[s] # None /\ held'[s] = None /\ buffer'[s] = Append(buffer[s], held[s])
          /\ delivered'[s] = delivered[s] /\ inbox'[s] = inbox[s] /\ due'[s] = due[s]
      BY <1>6, <2>2 DEF Forward, TypeOK
    <3>2. held[s] \in Messages
      BY <1>2, <3>1
    <3>3. delivered[s] \o Append(buffer[s], held[s]) \o <<>> \o inbox[s]
             = delivered[s] \o buffer[s] \o <<held[s]>> \o inbox[s]
      BY <1>2, <3>2, Forwarded, ZenonT(60)
    <3>4. Forwarding(held[s]) = <<held[s]>> /\ Forwarding(held'[s]) = <<>>
      BY <3>1 DEF Forwarding
    <3>5. QED
      BY <1>1, <3>1, <3>3, <3>4, Zenon DEF Account
  <2>3. QED
    BY <2>1, <2>2
<1>7. ASSUME Publish PROVE due'[s] = Account(s, delivered', buffer', held', inbox')
  <2>1. PICK x \in {<<published + 1>>, <<>>} : due'[s] = due[s] \o x /\ inbox'[s] = inbox[s] \o x
    <3>1. PICK to \in {Listening, {}} :
             /\ inbox' = [t \in Subs |-> inbox[t] \o IF t \in to THEN <<published + 1>> ELSE <<>>]
             /\ due' = [t \in Subs |-> due[t] \o IF t \in to THEN <<published + 1>> ELSE <<>>]
      BY <1>7 DEF Publish
    <3>2. CASE s \in to
      BY <3>1, <3>2
    <3>3. CASE s \notin to
      BY <3>1, <3>3
    <3>4. QED
      BY <3>2, <3>3
  <2>2. published + 1 \in Messages
    BY <1>7, StreamAssumption DEF Publish, Messages, TypeOK
  <2>3. x \in Seq(Messages)
    <3>1. <<published + 1>> \in Seq(Messages)
      BY <2>2
    <3>2. <<>> \in Seq(Messages)
      BY EmptySeq
    <3>3. QED
      BY <2>1, <3>1, <3>2
  <2>4. /\ delivered'[s] = delivered[s] /\ buffer'[s] = buffer[s]
        /\ held'[s] = held[s]
    BY <1>7 DEF Publish
  <2>5. delivered[s] \o buffer[s] \o Forwarding(held[s]) \o (inbox[s] \o x)
          = (delivered[s] \o buffer[s] \o Forwarding(held[s]) \o inbox[s]) \o x
    <3>1. \A f, i, y \in Seq(Messages) :
             delivered[s] \o buffer[s] \o f \o (i \o y) = (delivered[s] \o buffer[s] \o f \o i) \o y
      BY <1>2, Sent, ZenonT(60)
    <3>2. QED
      BY <1>2, <2>3, <3>1, ZenonT(60)
  <2>6. QED
    BY <1>1, <1>2, <2>1, <2>4, <2>5, Zenon DEF Account
<1>8. ASSUME Crash PROVE due'[s] = Account(s, delivered', buffer', held', inbox')
  <2>1. /\ delivered'[s] = <<>> /\ buffer'[s] = <<>> /\ inbox'[s] = <<>> /\ due'[s] = <<>>
        /\ held'[s] = None
    BY <1>8 DEF Crash
  <2>2. <<>> \o <<>> \o <<>> \o <<>> = <<>>
    <3>1. <<>> \in Seq(Messages) /\ \A q \in Seq(Messages) : q \o <<>> = q
      BY EmptySeq, ConcatEmptySeq
    <3>2. QED
      BY <3>1, Zenon
  <2>3. Forwarding(None) = <<>>
    BY DEF Forwarding
  <2>4. QED
    BY <2>1, <2>2, <2>3, Zenon DEF Account
<1>9. ASSUME UNCHANGED <<due, delivered, buffer, held, inbox>>
      PROVE  due'[s] = Account(s, delivered', buffer', held', inbox')
  BY <1>3, <1>9
<1>10. ASSUME NEW c \in Connections,
              Connect(c) \/ Disconnect(c) \/ Suscribe(c) \/ BlankEvent(c) \/ Quit(c)
                \/ QuitPanics(c) \/ Close(c) \/ Delete(c)
       PROVE  due'[s] = Account(s, delivered', buffer', held', inbox')
  BY <1>9, <1>10 DEF Connect, Disconnect, Suscribe, BlankEvent, Quit, QuitPanics, Close, Delete, subVars
<1>11. ASSUME NEW t \in Subs, Attach(t)
       PROVE  due'[s] = Account(s, delivered', buffer', held', inbox')
  BY <1>9, <1>11 DEF Attach
<1>12. CASE UNCHANGED vars
  BY <1>9, <1>12 DEF vars, subVars
<1>13. QED
  BY <1>4, <1>5, <1>6, <1>7, <1>8, <1>10, <1>11, <1>12 DEF Next, Handler, Goroutine

\* What a step does to the connections of a user who has one at a time
LEMMA AloneNext == TypeOK /\ Wired /\ Ended /\ Alone /\ [Next]_vars => Alone'
<1> SUFFICES ASSUME TypeOK, Wired, Ended, Alone, [Next]_vars, ~shared' PROVE Alone'
  BY DEF Alone
<1>1. ASSUME NEW c \in Connections, Connect(c) PROVE Alone'
  <2>1. /\ ~shared /\ \A d \in Connections : conn[d] = "idle"
        /\ UNCHANGED <<entry, closed, target>> /\ source'[c] = entry
        /\ conn'[c] = IF entry = None THEN "making" ELSE "serving"
        /\ \A d \in Connections \ {c} : conn'[d] = "idle"
    BY <1>1 DEF Connect, GoTo, TypeOK, subVars
  <2>2. QED
    BY <2>1 DEF Alone
<1>2. ASSUME NEW c \in Connections, ~shared, conn[c] # "idle",
             conn' \in [Connections -> Stages], \A d \in Connections \ {c} : conn'[d] = conn[d]
      PROVE  /\ \A d \in Connections \ {c} : conn[d] = "idle" /\ conn'[d] = "idle"
             /\ \A d, e \in Connections : conn'[d] # "idle" /\ conn'[e] # "idle" => d = e
  BY <1>2 DEF Alone
<1>3. ASSUME NEW c \in Connections, Suscribe(c) PROVE Alone'
  <2>1. /\ ~shared /\ conn[c] = "making" /\ conn' = [conn EXCEPT ![c] = "serving"]
        /\ entry' = made + 1 /\ source'[c] = made + 1 /\ UNCHANGED <<closed, target>>
        /\ made + 1 \in Subs /\ made \in Nat
    BY <1>3, StreamAssumption DEF Suscribe, GoTo, TypeOK, Subs
  <2>2. conn'[c] = "serving" /\ \A d \in Connections \ {c} : conn[d] = "idle" /\ conn'[d] = "idle"
    BY <2>1 DEF Alone, TypeOK
  <2>3. ~closed[made + 1] /\ made + 1 # None
    BY <2>1, Basics DEF Ended
  <2>4. QED
    BY <2>1, <2>2, <2>3 DEF Alone
<1>4. ASSUME NEW c \in Connections, Disconnect(c) PROVE Alone'
  <2>1. /\ ~shared /\ conn[c] = "serving" /\ UNCHANGED <<entry, closed>> /\ target'[c] = entry
        /\ conn'[c] = IF entry = None THEN "idle" ELSE "quitting"
        /\ \A d \in Connections \ {c} : conn'[d] = conn[d]
    BY <1>4 DEF Disconnect, GoTo, TypeOK, subVars
  <2>2. \A d \in Connections \ {c} : conn[d] = "idle"
    BY <2>1 DEF Alone
  <2>3. QED
    BY <2>1, <2>2 DEF Alone
<1>5. ASSUME NEW c \in Connections, Quit(c) PROVE Alone'
  <2>1. /\ ~shared /\ conn[c] = "quitting" /\ UNCHANGED <<entry, closed, target>>
        /\ conn'[c] = "closing" /\ \A d \in Connections \ {c} : conn'[d] = conn[d]
    BY <1>5 DEF Quit, GoTo, TypeOK
  <2>2. \A d \in Connections \ {c} : conn[d] = "idle"
    BY <2>1 DEF Alone
  <2>3. QED
    BY <2>1, <2>2 DEF Alone
<1>6. ASSUME NEW c \in Connections, QuitPanics(c) PROVE Alone'
  <2>1. /\ ~shared /\ conn[c] = "quitting" /\ closed[target[c]] /\ target[c] \in Subs
        /\ UNCHANGED shared
    BY <1>6 DEF QuitPanics, Wired
  <2>2. \A d \in Connections \ {c} : conn[d] = "idle"
    BY <2>1 DEF Alone
  <2>3. FALSE
    BY <2>1, <2>2, Basics DEF Alone
  <2>4. QED
    BY <2>3
<1>7. ASSUME NEW c \in Connections, Close(c) PROVE Alone'
  <2>1. /\ ~shared /\ conn[c] = "closing" /\ UNCHANGED <<entry, target>>
        /\ conn'[c] = "deleting" /\ \A d \in Connections \ {c} : conn'[d] = conn[d]
    BY <1>7 DEF Close, GoTo, TypeOK
  <2>2. \A d \in Connections \ {c} : conn[d] = "idle"
    BY <2>1 DEF Alone
  <2>3. QED
    BY <2>1, <2>2 DEF Alone
<1>8. ASSUME NEW c \in Connections, Delete(c) PROVE Alone'
  <2>1. /\ ~shared /\ conn[c] = "deleting" /\ entry' = None
        /\ conn'[c] = "idle" /\ \A d \in Connections \ {c} : conn'[d] = conn[d]
    BY <1>8 DEF Delete, GoTo, TypeOK
  <2>2. \A d \in Connections \ {c} : conn[d] = "idle"
    BY <2>1 DEF Alone
  <2>3. QED
    BY <2>1, <2>2 DEF Alone
<1>9. CASE Crash
  BY <1>9 DEF Crash, Alone
<1>10. CASE UNCHANGED <<entry, closed, conn, source, target, shared>>
  BY <1>10 DEF Alone
<1>11. ASSUME NEW c \in Connections, Event(c) \/ BlankEvent(c) PROVE Alone'
  BY <1>10, <1>11 DEF Event, BlankEvent, connVars, subVars
<1>12. ASSUME NEW t \in Subs, Attach(t) \/ Take(t) \/ Forward(t) PROVE Alone'
  BY <1>10, <1>12 DEF Attach, Take, Forward, connVars
<1>13. CASE Publish \/ UNCHANGED vars
  BY <1>10, <1>13 DEF Publish, vars, connVars, subVars
<1>14. QED
  BY <1>1, <1>3, <1>4, <1>5, <1>6, <1>7, <1>8, <1>9, <1>11, <1>12, <1>13 DEF Next, Handler, Goroutine

LEMMA RealNext ==
    TypeOK /\ Wired /\ Alone /\ EventsAreReal /\ [Next]_vars => EventsAreReal'
<1> SUFFICES ASSUME TypeOK, Wired, Alone, EventsAreReal, [Next]_vars PROVE EventsAreReal'
  OBVIOUS
<1>1. ASSUME NEW c \in Connections, BlankEvent(c) PROVE EventsAreReal'
  <2>1. /\ conn[c] = "serving" /\ closed[source[c]] /\ source[c] \in Subs
        /\ UNCHANGED shared
    BY <1>1 DEF BlankEvent, Wired
  <2>2. shared
    BY <2>1, Basics DEF Alone
  <2>3. QED
    BY <2>1, <2>2 DEF EventsAreReal
<1>2. ASSUME NEW c \in Connections, Connect(c) PROVE EventsAreReal'
  BY <1>2 DEF Connect, EventsAreReal, TypeOK
<1>3. CASE UNCHANGED <<blank, shared>>
  BY <1>3 DEF EventsAreReal
<1>4. CASE Crash
  BY <1>4 DEF Crash, EventsAreReal
<1>5. ASSUME NEW c \in Connections,
             Disconnect(c) \/ Suscribe(c) \/ Event(c) \/ Quit(c) \/ QuitPanics(c) \/ Close(c)
               \/ Delete(c)
      PROVE  EventsAreReal'
  BY <1>3, <1>5 DEF Disconnect, Suscribe, Event, Quit, QuitPanics, Close, Delete, connVars
<1>6. ASSUME NEW t \in Subs, Attach(t) \/ Take(t) \/ Forward(t) PROVE EventsAreReal'
  BY <1>3, <1>6 DEF Attach, Take, Forward, connVars
<1>7. CASE Publish \/ UNCHANGED vars
  BY <1>3, <1>7 DEF Publish, vars, connVars
<1>8. QED
  BY <1>1, <1>2, <1>4, <1>5, <1>6, <1>7 DEF Next, Handler, Goroutine

----------------------------------------------------------------------------
(* Theorems *)

IInv == TypeOK /\ Wired /\ Ended /\ Alone /\ NothingLost /\ EventsAreReal

LEMMA Invariance == Spec => []IInv
<1>1. Init => IInv
  BY TypeInit DEF IInv
<1>2. IInv /\ [Next]_vars => IInv'
  BY TypeNext, WiredNext, EndedNext, AloneNext, NothingLostNext, RealNext DEF IInv
<1>3. QED
  BY <1>1, <1>2, PTL DEF Spec

\* The variables of broker and handlers stay in their sets, and no Go channel holds more
\* than it was made for (broker/redis.go).
THEOREM TypeCorrect == Spec => []TypeOK
<1>1. IInv => TypeOK
  BY DEF IInv
<1>2. QED
  BY <1>1, Invariance, PTL

\* However many connections share a subscription and end it, none closes its channel
\* before its goroutine has returned (broker/redis.go:75-90).
THEOREM NoPanic == Spec => []NoSendOnClosed
<1>1. IInv => NoSendOnClosed
  BY DEF IInv, Ended, NoSendOnClosed
<1>2. QED
  BY <1>1, Invariance, PTL

\* Neither the goroutine nor the channel loses, repeats or swaps a notification
\* (broker/redis.go:53-70).
THEOREM InOrder == Spec => []NothingLost
<1>1. IInv => NothingLost
  BY DEF IInv
<1>2. QED
  BY <1>1, Invariance, PTL

\* Only another connection of the user makes a stream send events without a notification
\* (broker/redis.go:34-49, 75-90).
THEOREM Real == Spec => []EventsAreReal
<1>1. IInv => EventsAreReal
  BY DEF IInv
<1>2. QED
  BY <1>1, Invariance, PTL

============================================================================
