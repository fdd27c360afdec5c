------------------------------ MODULE LiveStream ------------------------------
(***************************************************************************)
(* The live notifications of one user: GetLiveUserNotifications and        *)
(* CreateNotifications of service/internal/controllers/users.go over the   *)
(* broker of service/internal/broker/redis.go. A request that the response *)
(* cache answers does not reach them, and is no connection here: the cache *)
(* keeps the response of a stream that ended, too (middleware/cache.go).   *)
(*                                                                         *)
(* A subscription is a channel of Redis, a goroutine that forwards its     *)
(* messages, and a bounded Go channel. The broker's map has one for the    *)
(* user, whatever the number of connections; it is read and written        *)
(* without a lock, by the handlers of all users. Notifications are         *)
(* numbered in the order of their publication.                             *)
(***************************************************************************)
EXTENDS Naturals, Sequences, SequencesExt

CONSTANTS
    Connections,   \* slots for the connections of the user
    Capacity,      \* size of the Go channel
    MaxSubs,       \* bound on the subscriptions of a behaviour
    MaxPublished   \* bound on the notifications of a behaviour

ASSUME StreamAssumption ==
    /\ Capacity \in Nat \ {0} /\ MaxSubs \in Nat /\ MaxPublished \in Nat

None == 0
Subs == 1..MaxSubs
Messages == 1..MaxPublished

VARIABLES
    entry,      \* the subscription in the map, or None
    made,       \* how many subscriptions were made
    attached,   \* attached[s]: Redis sends to it
    inbox,      \* inbox[s]: messages Redis sent it
    held,       \* held[s]: the message its goroutine is forwarding, or None
    buffer,     \* buffer[s]: the Go channel
    closed,     \* closed[s]: the Go channels were closed
    gone,       \* gone[s]: its goroutine has returned
    conn,       \* conn[c]: what the handler of connection c does
    source,     \* source[c]: the subscription it reads
    target,     \* target[c]: the subscription it ends
    blank,      \* blank[c]: it sent its client an event without a notification
    published,  \* how many notifications were published
    due,        \* due[s]: what Redis sent it, for ever
    delivered,  \* delivered[s]: what its streams sent their clients, for ever
    shared      \* two connections were in the broker at once

subVars == <<made, attached, inbox, held, buffer, closed, gone, due, delivered>>
connVars == <<conn, source, target, blank>>
vars == <<entry, subVars, connVars, published, shared>>

TypeOK ==
    /\ entry \in Subs \cup {None}
    /\ made \in 0..MaxSubs
    /\ attached \in [Subs -> BOOLEAN]
    /\ inbox \in [Subs -> Seq(Messages)]
    /\ held \in [Subs -> Messages \cup {None}]
    /\ buffer \in [Subs -> Seq(Messages)] /\ \A s \in Subs : Len(buffer[s]) <= Capacity
    /\ closed \in [Subs -> BOOLEAN]
    /\ gone \in [Subs -> BOOLEAN]
    /\ conn \in [Connections -> {"idle", "making", "serving", "quitting", "closing",
                                 "deleting"}]
    /\ source \in [Connections -> Subs \cup {None}]
    /\ target \in [Connections -> Subs \cup {None}]
    /\ blank \in [Connections -> BOOLEAN]
    /\ published \in 0..MaxPublished
    /\ due \in [Subs -> Seq(Messages)]
    /\ delivered \in [Subs -> Seq(Messages)]
    /\ shared \in BOOLEAN

----------------------------------------------------------------------------
(* Connections *)

GoTo(c, label) == conn' = [conn EXCEPT ![c] = label]

\* A client connects, and shares the subscription in the map, if there is one
Connect(c) ==
    /\ conn[c] = "idle"
    /\ blank' = [blank EXCEPT ![c] = FALSE]
    /\ source' = [source EXCEPT ![c] = entry]
    /\ GoTo(c, IF entry = None THEN "making" ELSE "serving")
    /\ shared' = (shared \/ \E d \in Connections : conn[d] # "idle")
    /\ UNCHANGED <<entry, subVars, target, published>>

\* Suscribe found none: it makes one, though another handler may have since
Suscribe(c) ==
    /\ conn[c] = "making"
    /\ made < MaxSubs
    /\ made' = made + 1
    /\ entry' = made'
    /\ source' = [source EXCEPT ![c] = made']
    /\ GoTo(c, "serving")
    /\ UNCHANGED <<attached, inbox, held, buffer, closed, gone, due, delivered, target,
                   blank, published, shared>>

\* The loop of c.Stream: an event for the next notification of the channel
Event(c) ==
    LET s == source[c]
    IN  /\ conn[c] = "serving"
        /\ buffer[s] # <<>>
        /\ buffer' = [buffer EXCEPT ![s] = Tail(@)]
        /\ delivered' = [delivered EXCEPT ![s] = Append(@, Head(buffer[s]))]
        /\ UNCHANGED <<entry, made, attached, inbox, held, closed, gone, due, connVars,
                       published, shared>>

\* A closed channel is read for ever, and yields notifications without contents
BlankEvent(c) ==
    /\ conn[c] = "serving"
    /\ closed[source[c]] /\ buffer[source[c]] = <<>>
    /\ blank' = [blank EXCEPT ![c] = TRUE]
    /\ UNCHANGED <<entry, subVars, conn, source, target, published, shared>>

\* The client is gone: Unsubscribe looks the user up, not its own subscription
Disconnect(c) ==
    /\ conn[c] = "serving"
    /\ target' = [target EXCEPT ![c] = entry]
    /\ GoTo(c, IF entry = None THEN "idle" ELSE "quitting")
    /\ UNCHANGED <<entry, subVars, source, blank, published, shared>>

\* Mutant of Quit: the goroutine is told to quit, and not waited for
QuitUnheard(c) ==
    /\ conn[c] = "quitting"
    /\ ~gone[target[c]] /\ ~closed[target[c]]
    /\ gone' = [gone EXCEPT ![target[c]] = TRUE]
    /\ GoTo(c, "closing")
    /\ UNCHANGED <<entry, made, attached, inbox, held, buffer, closed, due, delivered,
                   source, target, blank, published, shared>>

\* Unsubscribe: Quit <- true waits until the goroutine selects, and it returns
Quit(c) ==
    /\ conn[c] = "quitting"
    /\ ~gone[target[c]] /\ held[target[c]] = None /\ ~closed[target[c]]
    /\ gone' = [gone EXCEPT ![target[c]] = TRUE]
    /\ GoTo(c, "closing")
    /\ UNCHANGED <<entry, made, attached, inbox, held, buffer, closed, due, delivered,
                   source, target, blank, published, shared>>

\* Another handler has closed Quit: a panic, which gin answers
QuitPanics(c) ==
    /\ conn[c] = "quitting"
    /\ closed[target[c]]
    /\ GoTo(c, "idle")
    /\ UNCHANGED <<entry, subVars, source, target, blank, published, shared>>

\* Mutant of Close: the channels are left open
CloseNothing(c) ==
    /\ conn[c] = "closing"
    /\ GoTo(c, "deleting")
    /\ UNCHANGED <<entry, subVars, source, target, blank, published, shared>>

Close(c) ==
    /\ conn[c] = "closing"
    /\ closed' = [closed EXCEPT ![target[c]] = TRUE]
    /\ GoTo(c, "deleting")
    /\ UNCHANGED <<entry, made, attached, inbox, held, buffer, gone, due, delivered,
                   source, target, blank, published, shared>>

\* Mutant of Delete: the entry stays
DeleteNothing(c) ==
    /\ conn[c] = "deleting"
    /\ GoTo(c, "idle")
    /\ UNCHANGED <<entry, subVars, source, target, blank, published, shared>>

\* delete(rb.channels, userId), whatever is there by now
Delete(c) ==
    /\ conn[c] = "deleting"
    /\ entry' = None
    /\ GoTo(c, "idle")
    /\ UNCHANGED <<subVars, source, target, blank, published, shared>>

----------------------------------------------------------------------------
(* Publication and forwarding *)

\* Redis confirms the subscription, some time after Suscribe returned
Attach(s) ==
    /\ s <= made /\ ~attached[s] /\ ~gone[s]
    /\ attached' = [attached EXCEPT ![s] = TRUE]
    /\ UNCHANGED <<entry, made, inbox, held, buffer, closed, gone, due, delivered,
                   connVars, published, shared>>

Listening == {s \in Subs : attached[s] /\ ~gone[s]}

\* CreateNotifications has saved the notification and publishes it; when that
\* fails it goes on to the next one
Publish ==
    LET n == published + 1
    IN  /\ published < MaxPublished
        /\ published' = n
        /\ \E to \in {Listening, {}} :
              /\ inbox' = [s \in Subs |-> inbox[s] \o IF s \in to THEN <<n>> ELSE <<>>]
              /\ due' = [s \in Subs |-> due[s] \o IF s \in to THEN <<n>> ELSE <<>>]
        /\ UNCHANGED <<entry, made, attached, held, buffer, closed, gone, delivered,
                       connVars, shared>>

\* The goroutine receives a message
Take(s) ==
    /\ ~gone[s] /\ held[s] = None /\ inbox[s] # <<>>
    /\ held' = [held EXCEPT ![s] = Head(inbox[s])]
    /\ inbox' = [inbox EXCEPT ![s] = Tail(@)]
    /\ UNCHANGED <<entry, made, attached, buffer, closed, gone, due, delivered, connVars,
                   published, shared>>

\* Mutant of Forward: the goroutine drops what does not fit
ForwardOrDrop(s) ==
    /\ held[s] # None
    /\ buffer' = [buffer EXCEPT ![s] = IF Len(@) < Capacity THEN Append(@, held[s]) ELSE @]
    /\ held' = [held EXCEPT ![s] = None]
    /\ UNCHANGED <<entry, made, attached, inbox, closed, gone, due, delivered, connVars,
                   published, shared>>

\* It waits for room in the channel and sends
Forward(s) ==
    /\ held[s] # None
    /\ Len(buffer[s]) < Capacity
    /\ buffer' = [buffer EXCEPT ![s] = Append(@, held[s])]
    /\ held' = [held EXCEPT ![s] = None]
    /\ UNCHANGED <<entry, made, attached, inbox, closed, gone, due, delivered, connVars,
                   published, shared>>

----------------------------------------------------------------------------

\* Go ends the process when it notices that a map is written while another
\* goroutine, of this or another user, reads or writes it
Crash ==
    /\ \E c \in Connections : conn[c] \in {"making", "deleting"}
    /\ entry' = None
    /\ conn' = [c \in Connections |-> "idle"]
    /\ held' = [s \in Subs |-> None]
    /\ gone' = [s \in Subs |-> s <= made] /\ closed' = gone'
    /\ inbox' = [s \in Subs |-> <<>>] /\ buffer' = inbox'
    /\ due' = inbox' /\ delivered' = inbox'
    /\ blank' = [c \in Connections |-> FALSE]
    /\ shared' = FALSE
    /\ UNCHANGED <<made, attached, source, target, published>>

Init ==
    /\ entry = None /\ made = 0
    /\ attached = [s \in Subs |-> FALSE]
    /\ inbox = [s \in Subs |-> <<>>]
    /\ held = [s \in Subs |-> None]
    /\ buffer = [s \in Subs |-> <<>>]
    /\ closed = [s \in Subs |-> FALSE]
    /\ gone = [s \in Subs |-> FALSE]
    /\ conn = [c \in Connections |-> "idle"]
    /\ source = [c \in Connections |-> None]
    /\ target = [c \in Connections |-> None]
    /\ blank = [c \in Connections |-> FALSE]
    /\ published = 0
    /\ due = [s \in Subs |-> <<>>]
    /\ delivered = [s \in Subs |-> <<>>]
    /\ shared = FALSE

Handler(c) ==
    \/ Suscribe(c) \/ Event(c) \/ BlankEvent(c)
    \/ Quit(c) \/ QuitPanics(c) \/ Close(c) \/ Delete(c)

Goroutine(s) == Take(s) \/ Forward(s)

Next ==
    \/ \E c \in Connections : Connect(c) \/ Disconnect(c) \/ Handler(c)
    \/ \E s \in Subs : Attach(s) \/ Goroutine(s)
    \/ Publish \/ Crash

Spec == Init /\ [][Next]_vars
FairSpec ==
    /\ Spec
    /\ \A c \in Connections : WF_vars(Handler(c))
    /\ \A s \in Subs : WF_vars(Goroutine(s))

----------------------------------------------------------------------------
(* Properties *)

\* Nobody sends on a closed channel, which would end the process: Unsubscribe
\* closes it only after the goroutine has returned, whichever handler's Unsubscribe
\* it was and however many there are.
NoSendOnClosed == \A s \in Subs : closed[s] => gone[s] /\ held[s] = None

\* Everything Redis sent a subscription is in its events, its buffer or on the way,
\* once and in order, however many streams read it: what several connections of a
\* user get together is what was published.
NothingLost ==
    \A s \in Subs :
        LET forwarding == IF held[s] = None THEN <<>> ELSE <<held[s]>>
        IN  due[s] = delivered[s] \o buffer[s] \o forwarding \o inbox[s]

\* A user with one connection at a time gets no event without a notification: only
\* the handler of another connection closes the channel it reads.
EventsAreReal == \A c \in Connections : blank[c] => shared

\* What Redis sent arrives, as long as a stream reads the subscription and its
\* goroutine was not told to quit.
Arrives ==
    \A s \in Subs, n \in Messages :
        n \in Range(due[s]) ~>
            \/ n \in Range(delivered[s])
            \/ gone[s] \/ n \notin Range(due[s])
            \/ \A c \in Connections : conn[c] # "serving" \/ source[c] # s

\* The goroutine has a message for a channel that is full
Jammed(s) == held[s] # None /\ Len(buffer[s]) = Capacity

\* The handler of a client that has gone ends, unless the channel is full: then it
\* waits for the goroutine, which waits for somebody to read.
Departs ==
    \A c \in Connections :
        conn[c] = "quitting" ~> (conn[c] # "quitting" \/ Jammed(target[c]))

=============================================================================
