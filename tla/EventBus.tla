------------------------------ MODULE EventBus ------------------------------
(***************************************************************************)
(* The telemetry stream of test mode (src/sieve/test_mode/event_bus.py and *)
(* GET /test/events in router.py): a counter, a ring buffer of the latest  *)
(* events, and one queue per SSE connection.  A consumer that lost its     *)
(* connection comes back with the id of the last event it received, and is *)
(* sent what the buffer holds after it, or a notice of a gap.              *)
(*                                                                         *)
(* The bus lives in memory and its counter starts again with the process;  *)
(* the module models one process.                                          *)
(***************************************************************************)
EXTENDS Integers, Sequences

CONSTANTS
    Consumer,        \* SSE clients
    BufferSize,      \* EventBus.BUFFER_SIZE
    MaxConnections,  \* connections ever made (a bound)
    MaxEvents        \* event ids ever assigned (a bound)

ASSUME BusAssumption ==
    /\ BufferSize \in Nat \ {0}
    /\ MaxConnections \in Nat /\ MaxEvents \in Nat

Connection == 1..MaxConnections
NoId == 0

Event == [id : 1..MaxEvents, gap : BOOLEAN]

VARIABLES
    counter,      \* the last event id assigned
    buffer,       \* the ring buffer, oldest first
    subscribers,  \* connections whose queue is published to
    state,        \* of each connection's handler
    owner,        \* consumer of each connection
    up,           \* connections the consumer has not dropped
    queue,        \* events waiting for each connection
    got,          \* what each consumer has received, in order
    since,        \* counter when a consumer first subscribed
    blind,        \* counter when it last came back with no id to resume after
    published     \* ids of the telemetry published so far

vars == <<counter, buffer, subscribers, state, owner, up, queue, got, since, blind, published>>
links == <<state, owner, up>>

Connected(c) == \E k \in up : owner[k] = c
NewTo(c) == \A k \in Connection : state[k] # "unused" => owner[k] # c

\* Last-Event-ID of a client: the id of the event it received last.
LastId(c) == IF got[c] = <<>> THEN NoId ELSE got[c][Len(got[c])].id

Init ==
    /\ counter = 0 /\ buffer = <<>> /\ subscribers = {}
    /\ state = [k \in Connection |-> "unused"]
    /\ \E c \in Consumer : owner = [k \in Connection |-> c]   \* until subscribed
    /\ up = {}
    /\ queue = [k \in Connection |-> <<>>]
    /\ got = [c \in Consumer |-> <<>>]
    /\ since = [c \in Consumer |-> MaxEvents]
    /\ blind = [c \in Consumer |-> 0]
    /\ published = {}

-----------------------------------------------------------------------------
\* deque(maxlen=BUFFER_SIZE).append
Push(ring, e) ==
    IF Len(ring) < BufferSize THEN Append(ring, e) ELSE Append(Tail(ring), e)

\* Positions in the buffer of the event a consumer received last.
Place(id) == {i \in DOMAIN buffer : buffer[i].id = id}

AfterInclusive(i) == SubSeq(buffer, i, Len(buffer))   \* Mutant: off by one.
After(i) == SubSeq(buffer, i + 1, Len(buffer))

Notice == [id |-> counter + 1, gap |-> TRUE]

OverflowedNever(id) == FALSE   \* Mutant: the gap goes unnoticed.

Overflowed(id) == id # NoId /\ Place(id) = {} /\ buffer # <<>>

\* The notice is appended to the buffer before the replay, so that with a full
\* buffer the oldest event gives way to it and is not replayed.
Replay(id) ==
    IF id = NoId THEN <<>>
    ELSE IF Overflowed(id)
         THEN LET ring == Push(buffer, Notice)
              IN  <<Notice>> \o SubSeq(ring, 1, Len(ring) - 1)
         ELSE IF Place(id) = {} THEN <<>>
              ELSE After(CHOOSE i \in Place(id) : TRUE)

-----------------------------------------------------------------------------
\* emit_*: assign an id, build the event, publish it.
Emit ==
    /\ counter < MaxEvents
    /\ counter' = counter + 1
    /\ LET e == [id |-> counter + 1, gap |-> FALSE]
       IN  /\ buffer' = Push(buffer, e)
           /\ queue' = [k \in Connection |->
                 IF k \in subscribers THEN Append(queue[k], e) ELSE queue[k]]
    /\ published' = published \cup {counter + 1}
    /\ UNCHANGED <<subscribers, links, got, since, blind>>

\* The event does not validate: the id is spent and nothing is published.
EmitInvalid ==
    /\ counter < MaxEvents
    /\ counter' = counter + 1
    /\ UNCHANGED <<buffer, subscribers, links, queue, got, since, blind, published>>

\* GET /test/events.  The replay and the registration are one step: subscribe
\* does not suspend.
Subscribe(c) ==
    \E k \in Connection :
        /\ state[k] = "unused" /\ \A j \in 1..(k - 1) : state[j] # "unused"
        /\ ~Connected(c)
        /\ Overflowed(LastId(c)) => counter < MaxEvents
        /\ state' = [state EXCEPT ![k] = "subscribed"]
        /\ owner' = [owner EXCEPT ![k] = c]
        /\ up' = up \cup {k}
        /\ subscribers' = subscribers \cup {k}
        /\ queue' = [queue EXCEPT ![k] = Replay(LastId(c))]
        /\ IF Overflowed(LastId(c))
           THEN /\ counter' = counter + 1
                /\ buffer' = Push(buffer, Notice)
           ELSE UNCHANGED <<counter, buffer>>
        /\ since' = [since EXCEPT ![c] = IF NewTo(c) THEN counter ELSE @]
        /\ blind' = [blind EXCEPT ![c] = IF LastId(c) = NoId /\ ~NewTo(c) THEN counter ELSE @]
        /\ UNCHANGED <<got, published>>

\* The response starts to iterate the event generator.
Start(k) ==
    /\ state[k] = "subscribed"
    /\ state' = [state EXCEPT ![k] = "streaming"]
    /\ UNCHANGED <<counter, buffer, subscribers, owner, up, queue, got, since, blind, published>>

\* The generator takes an event and sends it; what is sent after the consumer
\* dropped the connection reaches nobody.
Deliver(k) ==
    /\ state[k] = "streaming" /\ queue[k] # <<>>
    /\ queue' = [queue EXCEPT ![k] = Tail(@)]
    /\ got' = IF k \in up
              THEN [got EXCEPT ![owner[k]] = Append(@, Head(queue[k]))]
              ELSE got
    /\ UNCHANGED <<counter, buffer, subscribers, links, since, blind, published>>

\* The consumer's side of the connection goes away.
Disconnect(k) ==
    /\ k \in up
    /\ up' = up \ {k}
    /\ UNCHANGED <<counter, buffer, subscribers, state, owner, queue, got, since, blind, published>>

\* The server notices and cancels the generator: the finally of stream()
\* unsubscribes the queue.
Cancel(k) ==
    /\ state[k] = "streaming" /\ k \notin up
    /\ state' = [state EXCEPT ![k] = "closed"]
    /\ subscribers' = subscribers \ {k}
    /\ queue' = [queue EXCEPT ![k] = <<>>]
    /\ UNCHANGED <<counter, buffer, owner, up, got, since, blind, published>>

\* A generator that never started has no finally to run: its queue stays
\* registered.
Abandon(k) ==
    /\ state[k] = "subscribed" /\ k \notin up
    /\ state' = [state EXCEPT ![k] = "closed"]
    /\ UNCHANGED <<counter, buffer, subscribers, owner, up, queue, got, since, blind, published>>

Next ==
    \/ Emit \/ EmitInvalid
    \/ \E c \in Consumer : Subscribe(c)
    \/ \E k \in Connection :
          Start(k) \/ Deliver(k) \/ Disconnect(k) \/ Cancel(k) \/ Abandon(k)

Spec == Init /\ [][Next]_vars

-----------------------------------------------------------------------------
TypeOK ==
    /\ counter \in 0..MaxEvents
    /\ buffer \in Seq(Event) /\ Len(buffer) <= BufferSize
    /\ up \subseteq Connection /\ subscribers \subseteq Connection
    /\ state \in [Connection -> {"unused", "subscribed", "streaming", "closed"}]
    /\ owner \in [Connection -> Consumer]
    /\ queue \in [Connection -> Seq(Event)]
    /\ got \in [Consumer -> Seq(Event)]
    /\ {since, blind} \subseteq [Consumer -> 0..MaxEvents]
    /\ published \subseteq 1..counter

Entries(s) == {s[i] : i \in DOMAIN s}

\* However often a consumer loses its connection, and whatever the others do,
\* telemetry published since it first subscribed has reached it, or waits in
\* its queue, or the consumer is told of a gap after it (event_bus.py: "If the
\* id is older than the buffer's tail (overflow), emit a synthetic error event
\* noting the gap").  There is one silent loss: a consumer whose connections
\* were cut before anything had arrived over them comes back with no id, gets
\* no replay and no notice, and misses what was published until then.
NoSilentLoss ==
    \A k \in up : \A n \in published :
        LET known == Entries(got[owner[k]]) \cup Entries(queue[k])
        IN  n > since[owner[k]] =>
                \/ \E e \in known : e.id = n \/ (e.gap /\ e.id > n)
                \/ n <= blind[owner[k]]

\* A consumer receives telemetry in the order it was published and nothing
\* twice, across connections and gaps.
InOrderOnce ==
    \A c \in Consumer : \A i, j \in DOMAIN got[c] :
        i < j /\ ~got[c][i].gap /\ ~got[c][j].gap => got[c][i].id < got[c][j].id
=============================================================================
