--------------------------- MODULE EventBusProofs ---------------------------
(***************************************************************************)
(* Proofs about the telemetry stream, for any number of consumers,         *)
(* connections and events, and any size of the buffer.  The invariant says *)
(* of each consumer that what it has received never runs ahead of what     *)
(* waits for it, and of each event id that it is in the buffer or older    *)
(* than everything there: that is what a consumer that comes back with the *)
(* id of the event it received last relies on.                             *)
(***************************************************************************)
EXTENDS EventBus, SequenceTheorems, TLAPS

\* Along a sequence of events, nothing after telemetry is older than it.  A
\* notice of a gap may be followed by events older than itself.
Chain(s) == \A i, j \in 1..Len(s) : i < j /\ ~s[i].gap => s[i].id < s[j].id

Sorted(s) == \A i, j \in 1..Len(s) : i < j => s[i].id < s[j].id

\* The id is in the ring, or fell out of it, or was never put in and is older.
Known(n, ring) ==
    \/ \E i \in 1..Len(ring) : ring[i].id = n
    \/ Len(ring) > 0 /\ \A i \in 1..Len(ring) : n < ring[i].id

Seen(s, ring, last) == \A i \in 1..Len(s) : s[i].id <= last /\ Known(s[i].id, ring)

\* The telemetry received is older than what waits.
Ahead(s, q) == \A i \in 1..Len(s), j \in 1..Len(q) : ~s[i].gap => s[i].id < q[j].id

\* The consumer has event n, or a notice of a gap that covers it ...
Told(n, s) == \E i \in 1..Len(s) : s[i].id = n \/ (s[i].gap /\ s[i].id > n)

\* ... or one of them is to come, the notice first.
Coming(n, q) ==
    \/ \E j \in 1..Len(q) : q[j].id = n
    \/ Len(q) > 0 /\ q[1].gap /\ q[1].id > n

\* What a consumer is owed begins after this: it was published before the
\* consumer first subscribed, or before it came back without an id.
Floor == [c \in Consumer |-> IF since[c] > blind[c] THEN since[c] ELSE blind[c]]

\* A consumer has nothing published since then left to be told
\* of, up to the id of the event it received last.
Kept(s, from, all) ==
    Len(s) > 0 => \A n \in all : n > from => Told(n, s) \/ n > s[Len(s)].id

Owed(s, q, from, all) == \A n \in all : n > from => Told(n, s) \/ Coming(n, q)

-----------------------------------------------------------------------------
Ring ==
    /\ Sorted(buffer)
    /\ \A i \in 1..Len(buffer) : buffer[i].id <= counter
    /\ \A n \in published : Known(n, buffer)

Received ==
    \A c \in Consumer : /\ Chain(got[c]) /\ Seen(got[c], buffer, counter)
                        /\ Kept(got[c], Floor[c], published)

Waiting == \A k \in Connection : Chain(queue[k]) /\ Seen(queue[k], buffer, counter)

Linked ==
    \A k \in up : /\ k \in subscribers
                  /\ Ahead(got[owner[k]], queue[k])
                  /\ Owed(got[owner[k]], queue[k], Floor[owner[k]], published)

\* A consumer holds one connection at a time.
Single == \A k, l \in up : owner[k] = owner[l] => k = l

IInv == TypeOK /\ Ring /\ Received /\ Waiting /\ Linked /\ Single

-----------------------------------------------------------------------------
LEMMA InitIInv == Init => IInv
  <1> SUFFICES ASSUME Init PROVE IInv
    OBVIOUS
  <1> USE BusAssumption
  <1>1. <<>> \in Seq(Event) /\ Len(<<>>) = 0
    BY EmptySeq
  <1>2. TypeOK
    BY <1>1 DEF Init, TypeOK
  <1>3. Ring
    BY <1>1 DEF Init, Ring, Sorted
  <1>4. Received
    <2> SUFFICES ASSUME NEW c \in Consumer
                 PROVE  Chain(got[c]) /\ Seen(got[c], buffer, counter)
                        /\ Kept(got[c], Floor[c], published)
      BY DEF Received
    <2>1. got[c] = <<>>
      BY DEF Init
    <2> QED BY <1>1, <2>1 DEF Chain, Seen, Kept
  <1>5. Waiting
    BY <1>1 DEF Init, Waiting, Chain, Seen
  <1>6. Linked /\ Single
    BY DEF Init, Linked, Single
  <1> QED BY <1>2, <1>3, <1>4, <1>5, <1>6 DEF IInv

-----------------------------------------------------------------------------
(* The ring.                                                               *)

\* The elements of a sequence of events, and its length.
LEMMA Events ==
  ASSUME NEW s \in Seq(Event)
  PROVE  /\ Len(s) \in Nat /\ DOMAIN s = 1..Len(s)
         /\ \A i \in 1..Len(s) : s[i] \in Event /\ s[i].id \in Int /\ s[i].gap \in BOOLEAN
  <1>1. Len(s) \in Nat /\ DOMAIN s = 1..Len(s)
    BY LenProperties
  <1>2. \A i \in 1..Len(s) : s[i] \in Event
    BY ElementOfSeq
  <1> QED BY <1>1, <1>2 DEF Event

\* What the ring holds after an event newer than all of it is pushed.
LEMMA Pushed ==
  ASSUME NEW ring \in Seq(Event), Len(ring) <= BufferSize, Sorted(ring),
         NEW e \in Event, \A i \in 1..Len(ring) : ring[i].id < e.id
  PROVE  /\ Push(ring, e) \in Seq(Event)
         /\ Len(Push(ring, e)) \in 1..BufferSize
         /\ Push(ring, e)[Len(Push(ring, e))] = e
         /\ \A i \in 1..Len(Push(ring, e)) - 1 :
               \E j \in 1..Len(ring) : Push(ring, e)[i] = ring[j]
         /\ \A i \in 1..Len(Push(ring, e)) : Push(ring, e)[i].id <= e.id
         /\ Sorted(Push(ring, e))
         /\ Known(e.id, Push(ring, e))
         /\ \A n \in Int : Known(n, ring) /\ n < e.id => Known(n, Push(ring, e))
  <1> DEFINE new == Push(ring, e)
             d == IF Len(ring) < BufferSize THEN 0 ELSE 1
  <1> USE BusAssumption
  <1>1. /\ Len(ring) \in Nat
        /\ \A i \in 1..Len(ring) : ring[i] \in Event /\ ring[i].id \in Int
    <2>1. Len(ring) \in Nat
      BY LenProperties
    <2>2. \A i \in 1..Len(ring) : ring[i] \in Event
      BY ElementOfSeq
    <2> QED BY <2>1, <2>2 DEF Event
  <1>2. e.id \in Int
    BY DEF Event
  <1>3. /\ new \in Seq(Event) /\ Len(new) = Len(ring) + 1 - d
        /\ \A i \in 1..Len(ring) - d : new[i] = ring[i + d]
        /\ new[Len(new)] = e
    <2>1. CASE Len(ring) < BufferSize
      BY <2>1, <1>1, AppendProperties DEF Push
    <2>2. CASE ~(Len(ring) < BufferSize)
      <3>1. ring # <<>> /\ Len(ring) > 0
        BY <2>2, <1>1, EmptySeq
      <3>2. /\ Tail(ring) \in Seq(Event) /\ Len(Tail(ring)) = Len(ring) - 1
            /\ \A i \in 1..Len(Tail(ring)) : Tail(ring)[i] = ring[i + 1]
        BY <3>1, HeadTailProperties
      <3>3. new = Append(Tail(ring), e)
        BY <2>2 DEF Push
      <3>4. /\ new \in Seq(Event) /\ Len(new) = Len(Tail(ring)) + 1
            /\ \A i \in 1..Len(Tail(ring)) : new[i] = Tail(ring)[i]
            /\ new[Len(Tail(ring)) + 1] = e
        BY <3>2, <3>3, AppendProperties
      <3> QED BY <3>2, <3>4, <1>1, <2>2
    <2> QED BY <2>1, <2>2
  <1> HIDE DEF new
  <1>4. d \in {0, 1} /\ Len(new) \in 1..BufferSize /\ Len(ring) - d \in Nat
    BY <1>1, <1>3
  <1>5. \A i \in 1..Len(new) - 1 : i + d \in 1..Len(ring) /\ new[i] = ring[i + d]
    BY <1>1, <1>3, <1>4
  <1>6. \A i \in 1..Len(new) : i = Len(new) \/ i \in 1..Len(new) - 1
    BY <1>4
  <1>7. \A i \in 1..Len(new) - 1 : new[i].id \in Int /\ new[i].id < e.id
    BY <1>1, <1>5
  <1>8. \A i \in 1..Len(new) : new[i].id <= e.id
    BY <1>2, <1>3, <1>6, <1>7
  <1>9. Sorted(new)
    <2> SUFFICES ASSUME NEW i \in 1..Len(new), NEW j \in 1..Len(new), i < j
                 PROVE  new[i].id < new[j].id
      BY DEF Sorted
    <2>1. i \in 1..Len(new) - 1
      BY <1>4
    <2>2. CASE j = Len(new)
      BY <2>1, <2>2, <1>3, <1>7
    <2>3. CASE j \in 1..Len(new) - 1
      BY <2>1, <2>3, <1>4, <1>5 DEF Sorted
    <2> QED BY <2>2, <2>3, <1>6
  <1>10. Known(e.id, new)
    BY <1>3, <1>4 DEF Known
  <1>11. ASSUME NEW n \in Int, Known(n, ring), n < e.id
         PROVE  Known(n, new)
    <2>1. CASE \E i \in 1..Len(ring) : ring[i].id = n
      <3> PICK i \in 1..Len(ring) : ring[i].id = n
        BY <2>1
      <3>1. CASE i = d
        <4>1. \A j \in 1..Len(new) - 1 : n < new[j].id
          BY <3>1, <1>1, <1>4, <1>5 DEF Sorted
        <4> QED BY <4>1, <1>3, <1>4, <1>6, <1>11 DEF Known
      <3>2. CASE i # d
        <4>1. i - d \in 1..Len(ring) - d /\ i - d \in 1..Len(new)
          BY <3>2, <1>1, <1>3, <1>4
        <4>2. new[i - d] = ring[i]
          BY <4>1, <1>1, <1>3, <1>4
        <4> QED BY <4>1, <4>2 DEF Known
      <3> QED BY <3>1, <3>2
    <2>2. CASE \A i \in 1..Len(ring) : n < ring[i].id
      <3>1. \A j \in 1..Len(new) - 1 : n < new[j].id
        BY <2>2, <1>5
      <3> QED BY <3>1, <1>3, <1>4, <1>6, <1>11 DEF Known
    <2> QED BY <2>1, <2>2, <1>11 DEF Known
  <1> QED BY <1>1, <1>3, <1>4, <1>5, <1>8, <1>9, <1>10, <1>11 DEF new

\* An event with the next id goes into the ring.
LEMMA Grows ==
  ASSUME TypeOK, Ring, NEW e \in Event, e.id = counter + 1
  PROVE  /\ Push(buffer, e) \in Seq(Event) /\ Len(Push(buffer, e)) \in 1..BufferSize
         /\ Push(buffer, e)[Len(Push(buffer, e))] = e
         /\ \A i \in 1..Len(Push(buffer, e)) - 1 :
               \E j \in 1..Len(buffer) : Push(buffer, e)[i] = buffer[j]
         /\ Sorted(Push(buffer, e))
         /\ \A i \in 1..Len(Push(buffer, e)) : Push(buffer, e)[i].id <= counter + 1
         /\ Known(counter + 1, Push(buffer, e))
         /\ \A n \in published : Known(n, Push(buffer, e))
         /\ \A s \in Seq(Event) :
               Seen(s, buffer, counter) => Seen(s, Push(buffer, e), counter + 1)
  <1>1. /\ counter \in Nat /\ buffer \in Seq(Event) /\ Len(buffer) <= BufferSize
        /\ published \subseteq 1..counter
    BY BusAssumption DEF TypeOK
  <1>2. \A i \in 1..Len(buffer) : buffer[i].id \in Int
    BY <1>1, Events
  <1>3. \A i \in 1..Len(buffer) : buffer[i].id < e.id
    BY <1>1, <1>2 DEF Ring
  <1>4. \A n \in Int : Known(n, buffer) /\ n < e.id => Known(n, Push(buffer, e))
    BY <1>1, <1>3, Pushed DEF Ring
  <1>5. \A n \in published : Known(n, Push(buffer, e))
    BY <1>1, <1>4 DEF Ring
  <1>6. ASSUME NEW s \in Seq(Event), Seen(s, buffer, counter)
        PROVE  Seen(s, Push(buffer, e), counter + 1)
    <2> SUFFICES ASSUME NEW i \in 1..Len(s)
                 PROVE  s[i].id <= counter + 1 /\ Known(s[i].id, Push(buffer, e))
      BY DEF Seen
    <2>1. s[i].id \in Int
      BY Events
    <2> QED BY <2>1, <1>1, <1>4, <1>6 DEF Seen
  <1>7. /\ Push(buffer, e) \in Seq(Event) /\ Len(Push(buffer, e)) \in 1..BufferSize
        /\ Push(buffer, e)[Len(Push(buffer, e))] = e
        /\ \A i \in 1..Len(Push(buffer, e)) - 1 :
              \E j \in 1..Len(buffer) : Push(buffer, e)[i] = buffer[j]
        /\ Sorted(Push(buffer, e))
        /\ \A i \in 1..Len(Push(buffer, e)) : Push(buffer, e)[i].id <= e.id
        /\ Known(e.id, Push(buffer, e))
    BY <1>1, <1>3, Pushed DEF Ring
  <1> QED BY <1>5, <1>6, <1>7

-----------------------------------------------------------------------------
(* The actions.                                                            *)

LEMMA EmitKeeps == ASSUME IInv, Emit PROVE IInv'
  <1> DEFINE e == [id |-> counter + 1, gap |-> FALSE]
             Grown(k) == IF k \in subscribers THEN Append(queue[k], e) ELSE queue[k]
  <1>0. /\ counter < MaxEvents /\ counter' = counter + 1
        /\ buffer' = Push(buffer, e)
        /\ queue' = [k \in Connection |-> Grown(k)]
        /\ published' = published \cup {counter + 1}
        /\ UNCHANGED <<subscribers, state, owner, up, got, since, blind, Floor>>
    BY DEF Emit, links, Floor
  <1>1. TypeOK /\ counter \in Nat /\ MaxEvents \in Nat
    BY BusAssumption DEF IInv, TypeOK
  <1>2. e \in Event /\ e.id = counter + 1 /\ ~e.gap
    BY <1>0, <1>1 DEF Event
  <1> HIDE DEF e
  <1>3. /\ buffer' \in Seq(Event) /\ Len(buffer') <= BufferSize
        /\ Sorted(buffer') /\ \A i \in 1..Len(buffer') : buffer'[i].id <= counter'
        /\ Known(counter', buffer') /\ \A n \in published : Known(n, buffer')
        /\ \A s \in Seq(Event) :
              Seen(s, buffer, counter) => Seen(s, buffer', counter')
    <2>1. Ring /\ BufferSize \in Nat
      BY BusAssumption DEF IInv
    <2> QED BY <2>1, <1>0, <1>1, <1>2, Grows
  <1>4. ASSUME NEW k \in subscribers
        PROVE  /\ queue[k] \in Seq(Event) /\ Len(queue[k]) \in Nat /\ queue'[k] \in Seq(Event)
               /\ Len(queue'[k]) = Len(queue[k]) + 1
               /\ \A i \in 1..Len(queue[k]) : queue'[k][i] = queue[k][i]
               /\ queue'[k][Len(queue[k]) + 1] = e
    <2>1. k \in Connection /\ queue[k] \in Seq(Event)
      BY <1>1 DEF TypeOK
    <2>2. queue'[k] = Append(queue[k], e)
      BY <2>1, <1>0
    <2>3. Len(queue[k]) \in Nat
      BY <2>1, Events
    <2> QED BY <2>1, <2>2, <2>3, <1>2, AppendProperties
  <1>5. \A k \in Connection : k \notin subscribers => queue'[k] = queue[k]
    BY <1>0
  <1>6. TypeOK'
    <2>1. \A k \in Connection : queue'[k] \in Seq(Event)
      BY <1>1, <1>4, <1>5 DEF TypeOK
    <2>2. queue' \in [Connection -> Seq(Event)]
      BY <2>1, <1>0
    <2> QED BY <2>2, <1>0, <1>1, <1>3 DEF TypeOK
  <1>7. Ring'
    BY <1>0, <1>3 DEF Ring
  <1>8. Received'
    <2> SUFFICES ASSUME NEW c \in Consumer
                 PROVE  /\ Chain(got[c]) /\ Seen(got[c], buffer', counter')
                        /\ Kept(got[c], Floor[c], published')
      BY <1>0 DEF Received
    <2>1. /\ got[c] \in Seq(Event) /\ Chain(got[c]) /\ Seen(got[c], buffer, counter)
          /\ Kept(got[c], Floor[c], published)
      BY <1>1 DEF IInv, Received, TypeOK
    <2>2. Kept(got[c], Floor[c], published')
      <3>1. Len(got[c]) > 0 => got[c][Len(got[c])].id < counter + 1
        BY <2>1, <1>1, Events DEF Seen
      <3> QED BY <3>1, <2>1, <1>0 DEF Kept
    <2> QED BY <2>1, <2>2, <1>3
  <1>9. Waiting'
    <2> SUFFICES ASSUME NEW k \in Connection
                 PROVE  Chain(queue'[k]) /\ Seen(queue'[k], buffer', counter')
      BY DEF Waiting
    <2>1. queue[k] \in Seq(Event) /\ Chain(queue[k]) /\ Seen(queue[k], buffer, counter)
      BY <1>1 DEF IInv, Waiting, TypeOK
    <2>2. CASE k \notin subscribers
      BY <2>1, <2>2, <1>3, <1>5
    <2>3. CASE k \in subscribers
      <3>1. \A i \in 1..Len(queue'[k]) : i = Len(queue[k]) + 1 \/ i \in 1..Len(queue[k])
        BY <2>3, <1>4
      <3>2. \A i \in 1..Len(queue[k]) : queue[k][i].id < e.id
        BY <2>1, <1>1, <1>2, Events DEF Seen
      <3>3. Chain(queue'[k])
        <4> SUFFICES ASSUME NEW i \in 1..Len(queue'[k]), NEW j \in 1..Len(queue'[k]),
                            i < j, ~queue'[k][i].gap
                     PROVE  queue'[k][i].id < queue'[k][j].id
          BY DEF Chain
        <4>1. i \in 1..Len(queue[k]) /\ queue'[k][i] = queue[k][i]
          BY <2>3, <1>4
        <4>2. CASE j = Len(queue[k]) + 1
          BY <4>1, <4>2, <3>2, <2>3, <1>4
        <4>3. CASE j \in 1..Len(queue[k])
          BY <4>1, <4>3, <2>1, <2>3, <1>4 DEF Chain
        <4> QED BY <4>2, <4>3, <3>1
      <3>4. Seen(queue[k], buffer', counter')
        BY <2>1, <1>3
      <3>5. Seen(queue'[k], buffer', counter')
        BY <3>1, <3>4, <2>3, <1>0, <1>1, <1>2, <1>3, <1>4 DEF Seen
      <3> QED BY <3>3, <3>5
    <2> QED BY <2>2, <2>3
  <1>10. Linked'
    <2> SUFFICES ASSUME NEW k \in up
                 PROVE  /\ k \in subscribers /\ Ahead(got[owner[k]], queue'[k])
                        /\ Owed(got[owner[k]], queue'[k], Floor[owner[k]], published')
      BY <1>0 DEF Linked
    <2>1. /\ k \in subscribers /\ Ahead(got[owner[k]], queue[k])
          /\ Owed(got[owner[k]], queue[k], Floor[owner[k]], published)
      BY DEF IInv, Linked
    <2>2. owner[k] \in Consumer /\ got[owner[k]] \in Seq(Event)
      BY <1>1 DEF TypeOK
    <2>3. \A i \in 1..Len(got[owner[k]]) : got[owner[k]][i].id < e.id
      BY <2>2, <1>1, <1>2, Events DEF IInv, Received, Seen
    <2>4. Ahead(got[owner[k]], queue'[k])
      <3>1. \A i \in 1..Len(queue'[k]) : i = Len(queue[k]) + 1 \/ i \in 1..Len(queue[k])
        BY <2>1, <1>4
      <3> QED BY <3>1, <2>1, <2>3, <1>4 DEF Ahead
    <2>5. \A n \in published : Coming(n, queue[k]) => Coming(n, queue'[k])
      BY <2>1, <1>4 DEF Coming
    <2>6. Coming(counter + 1, queue'[k])
      BY <2>1, <1>2, <1>4 DEF Coming
    <2> QED BY <2>1, <2>4, <2>5, <2>6, <1>0 DEF Owed
  <1>11. Single'
    BY <1>0 DEF IInv, Single
  <1> QED BY <1>6, <1>7, <1>8, <1>9, <1>10, <1>11 DEF IInv

LEMMA EmitInvalidKeeps == ASSUME IInv, EmitInvalid PROVE IInv'
  <1>0. /\ counter < MaxEvents /\ counter' = counter + 1
        /\ UNCHANGED <<buffer, subscribers, state, owner, up, queue, got, since, blind, Floor, published>>
    BY DEF EmitInvalid, links, Floor
  <1>1. TypeOK /\ counter \in Nat /\ MaxEvents \in Nat
    BY BusAssumption DEF IInv, TypeOK
  <1>2. TypeOK'
    BY <1>0, <1>1 DEF TypeOK
  <1>3. ASSUME NEW s \in Seq(Event), Seen(s, buffer, counter)
        PROVE  Seen(s, buffer', counter')
    BY <1>0, <1>1, <1>3, Events DEF Seen
  <1>4. Ring'
    BY <1>0, <1>1, Events DEF IInv, Ring, TypeOK
  <1>5. Received' /\ Waiting'
    BY <1>0, <1>1, <1>3 DEF IInv, Received, Waiting, TypeOK
  <1>6. Linked' /\ Single'
    BY <1>0 DEF IInv, Linked, Single
  <1> QED BY <1>2, <1>4, <1>5, <1>6 DEF IInv

\* The steps of a handler and of a consumer that go away, or start.
LEMMA Quiet ==
  ASSUME IInv, UNCHANGED <<counter, buffer, owner, got, since, blind, Floor, published>>,
         state' \in [Connection -> {"unused", "subscribed", "streaming", "closed"}],
         queue' \in [Connection -> Seq(Event)],
         \A k \in Connection : queue'[k] = queue[k] \/ (queue'[k] = <<>> /\ k \notin up'),
         up' \subseteq up, subscribers' \subseteq subscribers,
         up' \subseteq subscribers'
  PROVE  IInv'
  <1>1. TypeOK
    BY DEF IInv
  <1>2. TypeOK' /\ Ring' /\ Received' /\ Single'
    BY <1>1 DEF IInv, TypeOK, Ring, Received, Single
  <1>3. Waiting'
    <2> SUFFICES ASSUME NEW k \in Connection
                 PROVE  Chain(queue'[k]) /\ Seen(queue'[k], buffer, counter)
      BY DEF Waiting
    <2>1. CASE queue'[k] = queue[k]
      BY <2>1 DEF IInv, Waiting
    <2>2. CASE queue'[k] = <<>>
      BY <2>2, EmptySeq DEF Chain, Seen
    <2> QED BY <2>1, <2>2
  <1>4. Linked'
    BY <1>1 DEF IInv, Linked, TypeOK
  <1> QED BY <1>2, <1>3, <1>4 DEF IInv

LEMMA HandlerKeeps ==
  ASSUME IInv, NEW k \in Connection, Start(k) \/ Disconnect(k) \/ Cancel(k) \/ Abandon(k)
  PROVE  IInv'
  <1>1. TypeOK /\ up \subseteq subscribers
    BY DEF IInv, Linked
  <1>2. <<>> \in Seq(Event)
    BY EmptySeq
  <1>3. CASE Start(k) \/ Abandon(k)
    BY <1>1, <1>3, Quiet DEF Start, Abandon, TypeOK, Floor
  <1>4. CASE Disconnect(k)
    BY <1>1, <1>4, Quiet DEF Disconnect, TypeOK, Floor
  <1>5. CASE Cancel(k)
    <2>1. queue' = [queue EXCEPT ![k] = <<>>] /\ queue' \in [Connection -> Seq(Event)]
      BY <1>1, <1>2, <1>5 DEF Cancel, TypeOK
    <2>2. state' \in [Connection -> {"unused", "subscribed", "streaming", "closed"}]
      BY <1>1, <1>5 DEF Cancel, TypeOK
    <2>3. /\ UNCHANGED <<counter, buffer, owner, up, got, since, blind, Floor, published>>
          /\ k \notin up /\ subscribers' = subscribers \ {k}
      BY <1>5 DEF Cancel, Floor
    <2>4. \A l \in Connection :
             queue'[l] = queue[l] \/ (queue'[l] = <<>> /\ l \notin up')
      BY <1>1, <2>1, <2>3 DEF TypeOK
    <2> QED BY <1>1, <2>1, <2>2, <2>3, <2>4, Quiet
  <1> QED BY <1>3, <1>4, <1>5

LEMMA DeliverKeeps == ASSUME IInv, NEW k \in Connection, Deliver(k) PROVE IInv'
  <1> DEFINE q == queue[k]
             h == Head(queue[k])
             c == owner[k]
  <1>0. /\ q # <<>>
        /\ queue' = [queue EXCEPT ![k] = Tail(@)]
        /\ got' = IF k \in up THEN [got EXCEPT ![owner[k]] = Append(@, Head(queue[k]))]
                  ELSE got
        /\ UNCHANGED <<counter, buffer, subscribers, state, owner, up, since, blind, Floor, published>>
    BY DEF Deliver, links, Floor
  <1>1. TypeOK /\ q \in Seq(Event) /\ c \in Consumer /\ got[c] \in Seq(Event)
    BY DEF IInv, TypeOK
  <1>2. /\ Tail(q) \in Seq(Event) /\ Len(q) \in Nat /\ Len(q) > 0
        /\ Len(Tail(q)) = Len(q) - 1
        /\ \A i \in 1..Len(Tail(q)) : i + 1 \in 1..Len(q) /\ Tail(q)[i] = q[i + 1]
        /\ h = q[1] /\ h \in Event /\ h.id \in Int
    <2>1. /\ Head(q) \in Event /\ Tail(q) \in Seq(Event) /\ Len(Tail(q)) = Len(q) - 1
          /\ \A i \in 1..Len(Tail(q)) : Tail(q)[i] = q[i + 1]
      BY <1>0, <1>1, HeadTailProperties
    <2>2. Len(q) \in Nat /\ Len(q) > 0
      BY <1>0, <1>1, EmptySeq, Events
    <2>3. Head(q) = q[1]
      BY <1>0, <1>1
    <2> QED BY <2>1, <2>2, <2>3 DEF Event
  <1>3. Chain(q) /\ Seen(q, buffer, counter)
    BY DEF IInv, Waiting
  <1>4. \A l \in Connection : queue'[l] = IF l = k THEN Tail(q) ELSE queue[l]
    BY <1>0, <1>1 DEF TypeOK
  <1>5. /\ Append(got[c], h) \in Seq(Event) /\ Len(got[c]) \in Nat
        /\ Len(Append(got[c], h)) = Len(got[c]) + 1
        /\ \A i \in 1..Len(got[c]) : Append(got[c], h)[i] = got[c][i]
        /\ Append(got[c], h)[Len(got[c]) + 1] = h
    BY <1>1, <1>2, Events, AppendProperties
  <1>6. \A i \in 1..Len(got[c]) + 1 : i = Len(got[c]) + 1 \/ i \in 1..Len(got[c])
    BY <1>5
  <1>7. queue' \in [Connection -> Seq(Event)] /\ got' \in [Consumer -> Seq(Event)]
    <2>1. \A l \in Connection : queue'[l] \in Seq(Event)
      BY <1>1, <1>2, <1>4 DEF TypeOK
    <2>2. queue' \in [Connection -> Seq(Event)]
      BY <2>1, <1>0, <1>1 DEF TypeOK
    <2>3. got' \in [Consumer -> Seq(Event)]
      BY <1>0, <1>1, <1>5 DEF TypeOK
    <2> QED BY <2>2, <2>3
  <1>8. TypeOK' /\ Ring' /\ Single'
    BY <1>0, <1>1, <1>7 DEF IInv, TypeOK, Ring, Single
  <1>9. Waiting'
    <2>1. Chain(Tail(q))
      <3> SUFFICES ASSUME NEW i \in 1..Len(Tail(q)), NEW j \in 1..Len(Tail(q)), i < j,
                          ~Tail(q)[i].gap
                   PROVE  Tail(q)[i].id < Tail(q)[j].id
        BY DEF Chain
      <3>1. /\ i + 1 \in 1..Len(q) /\ j + 1 \in 1..Len(q) /\ i + 1 < j + 1
            /\ Tail(q)[i] = q[i + 1] /\ Tail(q)[j] = q[j + 1]
        BY <1>2
      <3> QED BY <3>1, <1>3 DEF Chain
    <2>2. Seen(Tail(q), buffer, counter)
      BY <1>2, <1>3 DEF Seen
    <2> QED BY <2>1, <2>2, <1>0, <1>4 DEF IInv, Waiting
  <1>10. CASE k \notin up
    <2>1. got' = got /\ \A l \in up : queue'[l] = queue[l]
      BY <1>10, <1>0, <1>1, <1>4 DEF TypeOK
    <2>2. Received' /\ Linked'
      BY <2>1, <1>0 DEF IInv, Received, Linked
    <2> QED BY <2>2, <1>8, <1>9 DEF IInv
  <1>11. CASE k \in up
    <2>1. /\ got'[c] = Append(got[c], h)
          /\ \A b \in Consumer \ {c} : got'[b] = got[b]
      BY <1>11, <1>0, <1>1 DEF TypeOK
    <2>2. Ahead(got[c], q) /\ Owed(got[c], q, Floor[c], published)
      BY <1>11 DEF IInv, Linked
    <2>3. Chain(got[c]) /\ Seen(got[c], buffer, counter)
      BY <1>1 DEF IInv, Received
    <2>4. Chain(got'[c])
      <3> SUFFICES ASSUME NEW i \in 1..Len(got'[c]), NEW j \in 1..Len(got'[c]),
                          i < j, ~got'[c][i].gap
                   PROVE  got'[c][i].id < got'[c][j].id
        BY DEF Chain
      <3>1. i \in 1..Len(got[c]) /\ got'[c][i] = got[c][i]
        BY <2>1, <1>5
      <3>2. CASE j = Len(got[c]) + 1
        BY <3>1, <3>2, <2>1, <2>2, <1>2, <1>5 DEF Ahead
      <3>3. CASE j \in 1..Len(got[c])
        BY <3>1, <3>3, <2>1, <2>3, <1>5 DEF Chain
      <3> QED BY <3>2, <3>3, <2>1, <1>5, <1>6
    <2>5. Seen(got'[c], buffer, counter)
      BY <2>1, <2>3, <1>2, <1>3, <1>5, <1>6 DEF Seen
    <2>6. \A n \in published : Told(n, got[c]) => Told(n, got'[c])
      BY <2>1, <1>5 DEF Told
    <2>7. \A n \in published : n = h.id \/ (h.gap /\ h.id > n) => Told(n, got'[c])
      BY <2>1, <1>5 DEF Told
    <2>8. Kept(got'[c], Floor[c], published)
      <3> SUFFICES ASSUME NEW n \in published, n > Floor[c]
                   PROVE  Told(n, got'[c]) \/ n > got'[c][Len(got'[c])].id
        BY DEF Kept
      <3>1. n \in Int
        BY <1>1 DEF TypeOK
      <3>2. got'[c][Len(got'[c])] = h
        BY <2>1, <1>5
      <3>3. CASE \E j \in 1..Len(q) : q[j].id = n
        <4> PICK j \in 1..Len(q) : q[j].id = n
          BY <3>3
        <4>1. CASE j = 1
          BY <4>1, <1>2, <2>7
        <4>2. CASE 1 < j /\ ~h.gap
          BY <4>2, <3>2, <1>2, <1>3 DEF Chain
        <4>3. CASE 1 < j /\ h.gap
          BY <4>3, <3>1, <3>2, <1>2, <2>7
        <4> QED BY <4>1, <4>2, <4>3, <1>2
      <3>4. CASE q[1].gap /\ q[1].id > n
        BY <3>4, <1>2, <2>7
      <3> QED BY <3>3, <3>4, <2>2, <2>6 DEF Owed, Coming
    <2>9. Received'
      BY <2>1, <2>4, <2>5, <2>8, <1>0 DEF IInv, Received
    <2>10. Ahead(got'[c], Tail(q))
      <3> SUFFICES ASSUME NEW i \in 1..Len(got'[c]), NEW j \in 1..Len(Tail(q)),
                          ~got'[c][i].gap
                   PROVE  got'[c][i].id < Tail(q)[j].id
        BY DEF Ahead
      <3>1. j + 1 \in 1..Len(q) /\ Tail(q)[j] = q[j + 1] /\ 1 < j + 1 /\ 1 \in 1..Len(q)
        BY <1>2
      <3>2. CASE i = Len(got[c]) + 1
        BY <3>1, <3>2, <2>1, <1>2, <1>3, <1>5 DEF Chain
      <3>3. CASE i \in 1..Len(got[c])
        BY <3>1, <3>3, <2>1, <2>2, <1>5 DEF Ahead
      <3> QED BY <3>2, <3>3, <2>1, <1>5, <1>6
    <2>11. Owed(got'[c], Tail(q), Floor[c], published)
      <3> SUFFICES ASSUME NEW n \in published, n > Floor[c]
                   PROVE  Told(n, got'[c]) \/ Coming(n, Tail(q))
        BY DEF Owed
      <3>1. CASE \E j \in 1..Len(q) : q[j].id = n
        <4> PICK j \in 1..Len(q) : q[j].id = n
          BY <3>1
        <4>1. CASE j = 1
          BY <4>1, <1>2, <2>7
        <4>2. CASE j # 1
          <5>1. j - 1 \in 1..Len(Tail(q)) /\ Tail(q)[j - 1] = q[j]
            BY <4>2, <1>2
          <5> QED BY <5>1 DEF Coming
        <4> QED BY <4>1, <4>2
      <3>2. CASE q[1].gap /\ q[1].id > n
        BY <3>2, <1>2, <2>7
      <3> QED BY <3>1, <3>2, <2>2, <2>6 DEF Owed, Coming
    <2>12. \A l \in up : l # k => owner[l] # c /\ queue'[l] = queue[l]
      BY <1>11, <1>1, <1>4 DEF IInv, Single, TypeOK
    <2>13. \A l \in up : owner[l] \in Consumer
      BY <1>1 DEF TypeOK
    <2>14. Linked'
      <3> SUFFICES ASSUME NEW l \in up
                   PROVE  /\ l \in subscribers /\ Ahead(got'[owner[l]], queue'[l])
                          /\ Owed(got'[owner[l]], queue'[l], Floor[owner[l]], published)
        BY <1>0 DEF Linked
      <3>1. CASE l = k
        BY <3>1, <2>10, <2>11, <1>4 DEF IInv, Linked
      <3>2. CASE l # k
        BY <3>2, <2>1, <2>12, <2>13 DEF IInv, Linked
      <3> QED BY <3>1, <3>2
    <2> QED BY <2>9, <2>14, <1>8, <1>9 DEF IInv
  <1> QED BY <1>10, <1>11

\* A consumer that comes back: what it received last, and what is in the ring.
LEMMA Back ==
  ASSUME IInv, NEW c \in Consumer
  PROVE  /\ got[c] \in Seq(Event) /\ Len(got[c]) \in Nat /\ LastId(c) \in Nat
         /\ got[c] = <<>> => LastId(c) = NoId
         /\ got[c] # <<>> =>
              /\ Len(got[c]) > 0 /\ LastId(c) = got[c][Len(got[c])].id
              /\ LastId(c) # NoId /\ LastId(c) <= counter /\ Known(LastId(c), buffer)
         /\ \A i \in 1..Len(got[c]) : ~got[c][i].gap => got[c][i].id <= LastId(c)
  <1> DEFINE g == got[c]
  <1>1. g \in Seq(Event) /\ Chain(g) /\ Seen(g, buffer, counter)
    BY DEF IInv, TypeOK, Received
  <1>2. Len(g) \in Nat /\ \A i \in 1..Len(g) : g[i] \in Event
    BY <1>1, Events
  <1>3. CASE g = <<>>
    <2>1. Len(g) = 0
      BY <1>3, EmptySeq
    <2> QED BY <2>1, <1>1, <1>2, <1>3 DEF LastId, NoId
  <1>4. CASE g # <<>>
    <2>1. Len(g) > 0 /\ Len(g) \in 1..Len(g)
      BY <1>1, <1>2, <1>4, EmptySeq
    <2>2. LastId(c) = g[Len(g)].id /\ LastId(c) \in 1..MaxEvents
      BY <2>1, <1>2, <1>4 DEF LastId, Event
    <2>3. LastId(c) \in Nat /\ LastId(c) # NoId
      BY <2>2, BusAssumption DEF NoId
    <2>4. LastId(c) <= counter /\ Known(LastId(c), buffer)
      BY <2>1, <2>2, <1>1 DEF Seen
    <2>5. \A i \in 1..Len(g) : ~g[i].gap => g[i].id <= LastId(c)
      <3> SUFFICES ASSUME NEW i \in 1..Len(g), ~g[i].gap
                   PROVE  g[i].id <= LastId(c)
        OBVIOUS
      <3>1. CASE i = Len(g)
        BY <3>1, <2>2, <2>3
      <3>2. CASE i < Len(g)
        <4>1. g[i].id < g[Len(g)].id /\ g[i].id \in Int
          BY <3>2, <2>1, <1>1, Events DEF Chain
        <4> QED BY <4>1, <2>2, <2>3
      <3> QED BY <3>1, <3>2, <1>2
    <2> QED BY <2>1, <2>2, <2>3, <2>4, <2>5, <1>1, <1>2, <1>4
  <1> QED BY <1>3, <1>4

\* The replay after a gap: the notice, then what is left in the ring.
LEMMA ReplayAfterGap ==
  ASSUME IInv, NEW c \in Consumer, Overflowed(LastId(c)), counter < MaxEvents
  PROVE  LET q == Replay(LastId(c))
         IN  /\ q \in Seq(Event) /\ Chain(q)
             /\ Seen(q, Push(buffer, Notice), counter + 1)
             /\ Ahead(got[c], q) /\ Owed(got[c], q, Floor[c], published)
  <1> DEFINE q == Replay(LastId(c))
             ring == Push(buffer, Notice)
             rest == SubSeq(ring, 1, Len(ring) - 1)
  <1>1. TypeOK /\ Ring /\ counter \in Nat /\ BufferSize \in Nat \ {0} /\ MaxEvents \in Nat
        /\ published \subseteq 1..counter
    BY BusAssumption DEF IInv, TypeOK
  <1>2. Notice \in Event /\ Notice.id = counter + 1 /\ Notice.gap
    BY <1>1 DEF Notice, Event
  <1>3. /\ ring \in Seq(Event) /\ Len(ring) \in 1..BufferSize
        /\ \A i \in 1..Len(ring) - 1 : \E j \in 1..Len(buffer) : ring[i] = buffer[j]
        /\ Sorted(ring)
        /\ \A i \in 1..Len(ring) : ring[i].id <= counter + 1
        /\ Known(counter + 1, ring)
    BY <1>1, <1>2, Grows
  <1>4. q = <<Notice>> \o rest
    BY DEF Overflowed, Replay
  <1> HIDE DEF ring, q
  <1>5. /\ Len(ring) \in Nat /\ buffer \in Seq(Event)
        /\ \A i \in 1..Len(ring) : ring[i] \in Event /\ ring[i].id \in Int
        /\ \A i \in 1..Len(buffer) : buffer[i].id \in Int
    BY <1>1, <1>3, Events DEF TypeOK
  <1>6. /\ rest \in Seq(Event) /\ Len(rest) = Len(ring) - 1
        /\ \A i \in 1..Len(ring) - 1 : rest[i] = ring[i]
    <2>1. \A i \in 1..(Len(ring) - 1) : ring[i] \in Event
      BY <1>3, <1>5
    <2>2. Len(ring) - 1 \in Int
      BY <1>5
    <2>3. /\ rest \in Seq(Event)
          /\ Len(rest) = IF 1 <= Len(ring) - 1 THEN (Len(ring) - 1) - 1 + 1 ELSE 0
          /\ \A i \in 1..((Len(ring) - 1) - 1 + 1) : rest[i] = ring[1 + i - 1]
      BY <2>1, <2>2, SubSeqProperties
    <2>4. Len(ring) \in Nat /\ Len(ring) >= 1 /\ (Len(ring) - 1) - 1 + 1 = Len(ring) - 1
      BY <1>3, <1>5
    <2>5. Len(rest) = Len(ring) - 1
      BY <2>3, <2>4
    <2>6. \A i \in 1..Len(ring) - 1 : 1 + i - 1 = i
      OBVIOUS
    <2> QED BY <2>3, <2>4, <2>5, <2>6
  <1> HIDE DEF rest
  <1>7. <<Notice>> \in Seq(Event) /\ Len(<<Notice>>) = 1 /\ <<Notice>>[1] = Notice
    BY <1>2
  <1>8. /\ q \in Seq(Event) /\ Len(q) = Len(ring) /\ q[1] = Notice
        /\ \A i \in 2..Len(q) : i - 1 \in 1..Len(ring) - 1 /\ q[i] = ring[i - 1]
    <2>1. /\ q \in Seq(Event) /\ Len(q) = 1 + Len(rest)
          /\ \A i \in 1..1 + Len(rest) :
                q[i] = IF i <= 1 THEN <<Notice>>[i] ELSE rest[i - 1]
      BY <1>4, <1>6, <1>7, ConcatProperties
    <2>2. \A i \in 2..Len(q) : i - 1 \in 1..Len(ring) - 1 /\ q[i] = rest[i - 1]
      BY <2>1, <1>5, <1>6
    <2> QED BY <2>1, <2>2, <1>3, <1>5, <1>6, <1>7
  <1>9. \A i \in 1..Len(q) : i = 1 \/ i \in 2..Len(q)
    BY <1>5, <1>8
  <1>10. Chain(q)
    <2> SUFFICES ASSUME NEW i \in 1..Len(q), NEW j \in 1..Len(q), i < j, ~q[i].gap
                 PROVE  q[i].id < q[j].id
      BY DEF Chain
    <2>1. i \in 2..Len(q) /\ j \in 2..Len(q)
      BY <1>2, <1>8, <1>9
    <2>2. /\ q[i] = ring[i - 1] /\ q[j] = ring[j - 1] /\ i - 1 < j - 1
          /\ i - 1 \in 1..Len(ring) /\ j - 1 \in 1..Len(ring)
      BY <2>1, <1>5, <1>8
    <2> QED BY <2>2, <1>3 DEF Sorted
  <1>11. Seen(q, ring, counter + 1)
    <2> SUFFICES ASSUME NEW i \in 1..Len(q)
                 PROVE  q[i].id <= counter + 1 /\ Known(q[i].id, ring)
      BY DEF Seen
    <2>1. CASE i = 1
      BY <2>1, <1>1, <1>2, <1>3, <1>8
    <2>2. CASE i \in 2..Len(q)
      <3>1. i - 1 \in 1..Len(ring) /\ q[i] = ring[i - 1]
        BY <2>2, <1>5, <1>8
      <3> QED BY <3>1, <1>3 DEF Known
    <2> QED BY <2>1, <2>2, <1>9
  <1>12. Ahead(got[c], q)
    <2>1. /\ LastId(c) \in Nat /\ LastId(c) < counter + 1
          /\ \A i \in 1..Len(buffer) : LastId(c) < buffer[i].id
      <3>1. Place(LastId(c)) = {} /\ LastId(c) # NoId
        BY DEF Overflowed
      <3>2. LastId(c) \in Nat /\ LastId(c) <= counter /\ Known(LastId(c), buffer)
        BY <3>1, Back
      <3>3. ~\E i \in 1..Len(buffer) : buffer[i].id = LastId(c)
        <4>1. DOMAIN buffer = 1..Len(buffer)
          BY <1>5, Events
        <4> QED BY <4>1, <3>1 DEF Place
      <3> QED BY <3>2, <3>3, <1>1 DEF Known
    <2>2. \A j \in 1..Len(q) : q[j].id \in Int /\ LastId(c) < q[j].id
      <3> SUFFICES ASSUME NEW j \in 1..Len(q)
                   PROVE  q[j].id \in Int /\ LastId(c) < q[j].id
        OBVIOUS
      <3>1. CASE j = 1
        BY <3>1, <2>1, <1>1, <1>2, <1>8
      <3>2. CASE j \in 2..Len(q)
        BY <3>2, <2>1, <1>3, <1>5, <1>8
      <3> QED BY <3>1, <3>2, <1>9
    <2>3. got[c] \in Seq(Event)
          /\ \A i \in 1..Len(got[c]) : ~got[c][i].gap => got[c][i].id <= LastId(c)
      BY Back
    <2>4. \A i \in 1..Len(got[c]) : got[c][i].id \in Int
      BY <2>3, Events
    <2> QED BY <2>1, <2>2, <2>3, <2>4 DEF Ahead
  <1>13. Owed(got[c], q, Floor[c], published)
    <2>1. Len(q) > 0 /\ q[1].gap /\ q[1].id = counter + 1
      BY <1>2, <1>3, <1>8
    <2>2. \A n \in published : counter + 1 > n
      BY <1>1
    <2>3. \A n \in published : Coming(n, q)
      BY <2>1, <2>2 DEF Coming
    <2> QED BY <2>3 DEF Owed
  <1> QED BY <1>8, <1>10, <1>11, <1>12, <1>13 DEF q, ring

\* The replay without one: nothing for a new consumer, else what came after.
LEMMA ReplayInOrder ==
  ASSUME IInv, NEW c \in Consumer, ~Overflowed(LastId(c))
  PROVE  LET q == Replay(LastId(c))
         IN  /\ q \in Seq(Event) /\ Chain(q) /\ Seen(q, buffer, counter)
             /\ Ahead(got[c], q)
             /\ got[c] # <<>> => Owed(got[c], q, Floor[c], published)
  <1> DEFINE q == Replay(LastId(c))
  <1>1. /\ TypeOK /\ Ring /\ buffer \in Seq(Event) /\ Len(buffer) \in Nat
        /\ DOMAIN buffer = 1..Len(buffer)
        /\ \A i \in 1..Len(buffer) : buffer[i] \in Event /\ buffer[i].id \in Int
        /\ published \subseteq Nat
    BY Events DEF IInv, TypeOK
  <1>2. CASE got[c] = <<>>
    <2>1. q = <<>>
      BY <1>2, Back DEF Replay
    <2> QED BY <2>1, <1>2, EmptySeq DEF Chain, Seen, Ahead
  <1>3. CASE got[c] # <<>>
    <2>1. LastId(c) # NoId /\ Known(LastId(c), buffer) /\ LastId(c) \in Nat
      BY <1>3, Back
    <2>2. Place(LastId(c)) # {}
      <3>1. CASE buffer = <<>>
        BY <3>1, <2>1, EmptySeq, <1>1 DEF Known, Place
      <3> QED BY <3>1, <2>1 DEF Overflowed
    <2> DEFINE p == CHOOSE i \in Place(LastId(c)) : TRUE
    <2>3. p \in 1..Len(buffer) /\ buffer[p].id = LastId(c)
      BY <2>2, <1>1 DEF Place
    <2>4. q = SubSeq(buffer, p + 1, Len(buffer))
      BY <2>1, <2>2 DEF Replay, After, Overflowed
    <2> HIDE DEF p, q
    <2>5. /\ q \in Seq(Event) /\ Len(q) = Len(buffer) - p
          /\ \A i \in 1..Len(q) : p + i \in 1..Len(buffer) /\ q[i] = buffer[p + i]
      <3>1. /\ p + 1 \in Int /\ Len(buffer) \in Int
            /\ \A i \in (p + 1)..Len(buffer) : buffer[i] \in Event
        BY <2>3, <1>1
      <3>2. /\ q \in Seq(Event)
            /\ Len(q) = IF p + 1 <= Len(buffer) THEN Len(buffer) - (p + 1) + 1 ELSE 0
            /\ \A i \in 1..(Len(buffer) - (p + 1) + 1) : q[i] = buffer[(p + 1) + i - 1]
        BY <3>1, <2>4, SubSeqProperties
      <3>3. Len(q) = Len(buffer) - p /\ Len(buffer) - (p + 1) + 1 = Len(buffer) - p
        <4>1. Len(q) = IF p + 1 <= Len(buffer) THEN Len(buffer) - (p + 1) + 1 ELSE 0
          BY <3>2
        <4>2. Len(buffer) \in Nat /\ p \in Nat /\ p <= Len(buffer)
          BY <2>3, <1>1
        <4> QED BY <4>1, <4>2
      <3>4. \A i \in 1..Len(q) : p + i \in 1..Len(buffer) /\ (p + 1) + i - 1 = p + i
        BY <3>3, <2>3, <1>1
      <3> QED BY <3>2, <3>3, <3>4
    <2>6. Chain(q)
      <3> SUFFICES ASSUME NEW i \in 1..Len(q), NEW j \in 1..Len(q), i < j
                   PROVE  q[i].id < q[j].id
        BY DEF Chain
      <3>1. p + i < p + j
        BY <2>3
      <3> QED BY <3>1, <2>5, <1>1 DEF Ring, Sorted
    <2>7. Seen(q, buffer, counter)
      BY <2>5, <1>1 DEF Seen, Known, Ring
    <2>8. Ahead(got[c], q)
      <3>1. \A j \in 1..Len(q) : LastId(c) < q[j].id /\ q[j].id \in Int
        <4> SUFFICES ASSUME NEW j \in 1..Len(q)
                     PROVE  LastId(c) < q[j].id /\ q[j].id \in Int
          OBVIOUS
        <4>1. p < p + j
          BY <2>3
        <4> QED BY <4>1, <2>3, <2>5, <1>1 DEF Ring, Sorted
      <3>2. got[c] \in Seq(Event)
            /\ \A i \in 1..Len(got[c]) : ~got[c][i].gap => got[c][i].id <= LastId(c)
        BY Back
      <3>3. \A i \in 1..Len(got[c]) : got[c][i].id \in Int
        BY <3>2, Events
      <3> QED BY <3>1, <3>2, <3>3, <2>1 DEF Ahead
    <2>9. Owed(got[c], q, Floor[c], published)
      <3> SUFFICES ASSUME NEW n \in published, n > Floor[c], ~Told(n, got[c])
                   PROVE  Coming(n, q)
        BY DEF Owed
      <3>1. n > LastId(c) /\ n \in Nat
        BY <1>1, <1>3, Back DEF IInv, Received, Kept
      <3>2. PICK j \in 1..Len(buffer) : buffer[j].id = n
        BY <3>1, <2>1, <2>3, <1>1 DEF Ring, Known
      <3>3. p < j
        <4>1. CASE j < p
          BY <4>1, <3>1, <3>2, <2>1, <2>3, <1>1 DEF Ring, Sorted
        <4>2. j # p
          BY <3>1, <3>2, <2>1, <2>3
        <4> QED BY <4>1, <4>2, <2>3
      <3>4. j - p \in 1..Len(q) /\ p + (j - p) = j
        BY <3>3, <2>3, <2>5, <1>1
      <3>5. q[j - p].id = n
        BY <3>2, <3>4, <2>5
      <3> QED BY <3>4, <3>5 DEF Coming
    <2> QED BY <2>5, <2>6, <2>7, <2>8, <2>9, <1>3 DEF q
  <1> QED BY <1>2, <1>3

LEMMA SubscribeKeeps == ASSUME IInv, NEW c \in Consumer, Subscribe(c) PROVE IInv'
  <1> DEFINE q == Replay(LastId(c))
  <1>0. PICK k \in Connection :
        /\ ~Connected(c)
        /\ Overflowed(LastId(c)) => counter < MaxEvents
        /\ state' = [state EXCEPT ![k] = "subscribed"]
        /\ owner' = [owner EXCEPT ![k] = c]
        /\ up' = up \cup {k}
        /\ subscribers' = subscribers \cup {k}
        /\ queue' = [queue EXCEPT ![k] = q]
        /\ IF Overflowed(LastId(c))
           THEN counter' = counter + 1 /\ buffer' = Push(buffer, Notice)
           ELSE UNCHANGED <<counter, buffer>>
        /\ since' = [since EXCEPT ![c] = IF NewTo(c) THEN counter ELSE @]
        /\ blind' = [blind EXCEPT ![c] = IF LastId(c) = NoId /\ ~NewTo(c) THEN counter ELSE @]
        /\ UNCHANGED <<got, published>>
    BY DEF Subscribe
  <1>1. TypeOK /\ counter \in Nat /\ MaxEvents \in Nat
    BY BusAssumption DEF IInv, TypeOK
  <1>2. /\ counter' \in counter..MaxEvents
        /\ buffer' \in Seq(Event) /\ Len(buffer') <= BufferSize
        /\ Sorted(buffer') /\ \A i \in 1..Len(buffer') : buffer'[i].id <= counter'
        /\ \A n \in published : Known(n, buffer')
        /\ \A s \in Seq(Event) :
              Seen(s, buffer, counter) => Seen(s, buffer', counter')
    <2>1. CASE Overflowed(LastId(c))
      <3>1. Notice \in Event /\ Notice.id = counter + 1
        BY <2>1, <1>0, <1>1 DEF Notice, Event
      <3>2. Ring /\ BufferSize \in Nat
        BY BusAssumption DEF IInv
      <3>3. counter' = counter + 1 /\ buffer' = Push(buffer, Notice) /\ counter < MaxEvents
        BY <2>1, <1>0
      <3> QED BY <3>1, <3>2, <3>3, <1>1, Grows
    <2>2. CASE ~Overflowed(LastId(c))
      BY <2>2, <1>0, <1>1 DEF IInv, Ring, TypeOK
    <2> QED BY <2>1, <2>2
  <1>3. /\ q \in Seq(Event) /\ Chain(q) /\ Seen(q, buffer', counter')
        /\ Ahead(got[c], q)
        /\ got[c] # <<>> => Owed(got[c], q, Floor[c], published)
    <2>1. CASE Overflowed(LastId(c))
      BY <2>1, <1>0, ReplayAfterGap
    <2>2. CASE ~Overflowed(LastId(c))
      BY <2>2, <1>0, ReplayInOrder
    <2> QED BY <2>1, <2>2
  <1> HIDE DEF q
  <1>4. /\ \A l \in Connection : queue'[l] = IF l = k THEN q ELSE queue[l]
        /\ \A l \in Connection : owner'[l] = IF l = k THEN c ELSE owner[l]
    BY <1>0, <1>1 DEF TypeOK
  <1>f. /\ \A b \in Consumer : b # c => Floor'[b] = Floor[b]
        /\ Floor'[c] \in Int
        /\ Floor'[c] >= counter \/ (Floor'[c] = Floor[c] /\ got[c] # <<>>)
    <2>1. /\ since \in [Consumer -> 0..MaxEvents] /\ blind \in [Consumer -> 0..MaxEvents]
          /\ \A b \in Consumer : b # c => since'[b] = since[b] /\ blind'[b] = blind[b]
          /\ since'[c] = IF NewTo(c) THEN counter ELSE since[c]
          /\ blind'[c] = IF LastId(c) = NoId /\ ~NewTo(c) THEN counter ELSE blind[c]
      BY <1>0, <1>1 DEF TypeOK
    <2>2. LastId(c) # NoId => got[c] # <<>>
      BY DEF LastId
    <2> QED BY <2>1, <2>2, <1>1 DEF Floor
  <1>5. queue' \in [Connection -> Seq(Event)]
    <2>1. \A l \in Connection : queue'[l] \in Seq(Event)
      BY <1>1, <1>3, <1>4 DEF TypeOK
    <2> QED BY <2>1, <1>0, <1>1 DEF TypeOK
  <1>6. {since', blind'} \subseteq [Consumer -> 0..MaxEvents]
    BY <1>0, <1>1 DEF TypeOK
  <1>7. TypeOK'
    <2>1. counter' \in 0..MaxEvents /\ published' \subseteq 1..counter'
      BY <1>0, <1>1, <1>2 DEF TypeOK
    <2>2. /\ up' \subseteq Connection /\ subscribers' \subseteq Connection
          /\ state' \in [Connection -> {"unused", "subscribed", "streaming", "closed"}]
          /\ owner' \in [Connection -> Consumer]
      BY <1>0, <1>1 DEF TypeOK
    <2>3. got' \in [Consumer -> Seq(Event)]
      BY <1>0, <1>1 DEF TypeOK
    <2> QED BY <2>1, <2>2, <2>3, <1>2, <1>5, <1>6 DEF TypeOK
  <1>8. Ring'
    BY <1>0, <1>2 DEF Ring
  <1>9. \A b \in Consumer : got[b] \in Seq(Event)
    BY <1>1 DEF TypeOK
  <1>10. Received'
    <2> SUFFICES ASSUME NEW b \in Consumer
                 PROVE  /\ Chain(got[b]) /\ Seen(got[b], buffer', counter')
                        /\ Kept(got[b], Floor'[b], published)
      BY <1>0 DEF Received
    <2>1. /\ Chain(got[b]) /\ Seen(got[b], buffer, counter)
          /\ Kept(got[b], Floor[b], published)
      BY DEF IInv, Received
    <2>2. Floor'[b] = Floor[b] \/ \A n \in published : ~(n > Floor'[b])
      BY <1>1, <1>f DEF TypeOK
    <2>3. Kept(got[b], Floor'[b], published)
      BY <2>1, <2>2 DEF Kept
    <2> QED BY <2>1, <2>3, <1>2, <1>9
  <1>11. Waiting'
    <2>1. \A l \in Connection :
             /\ queue[l] \in Seq(Event) /\ Chain(queue[l]) /\ Seen(queue[l], buffer, counter)
      BY <1>1 DEF IInv, Waiting, TypeOK
    <2> QED BY <2>1, <1>2, <1>3, <1>4 DEF Waiting
  <1>12. \A l \in up : l \in Connection /\ owner[l] # c /\ owner[l] \in Consumer
    BY <1>0, <1>1 DEF Connected, TypeOK
  <1>13. Linked'
    <2> SUFFICES ASSUME NEW l \in up \cup {k}
                 PROVE  /\ l \in subscribers \cup {k}
                        /\ Ahead(got[owner'[l]], queue'[l])
                        /\ Owed(got[owner'[l]], queue'[l], Floor'[owner'[l]], published)
      BY <1>0 DEF Linked
    <2>1. CASE l = k
      <3>1. owner'[l] = c /\ queue'[l] = q
        BY <2>1, <1>4
      <3>2. CASE Floor'[c] >= counter
        <4>1. \A n \in published : ~(n > Floor'[c])
          BY <3>2, <1>1, <1>f DEF TypeOK
        <4>2. Owed(got[c], q, Floor'[c], published)
          BY <4>1 DEF Owed
        <4> QED BY <4>2, <3>1, <2>1, <1>3
      <3>3. CASE Floor'[c] = Floor[c] /\ got[c] # <<>>
        BY <3>1, <3>3, <2>1, <1>3, <1>4
      <3> QED BY <3>2, <3>3, <1>f
    <2>2. CASE l # k
      <3>1. /\ l \in up /\ owner'[l] = owner[l] /\ queue'[l] = queue[l]
            /\ Floor'[owner[l]] = Floor[owner[l]]
        BY <2>2, <1>4, <1>12, <1>f
      <3> QED BY <3>1 DEF IInv, Linked
    <2> QED BY <2>1, <2>2
  <1>14. Single'
    BY <1>0, <1>4, <1>12 DEF IInv, Single
  <1> QED BY <1>7, <1>8, <1>10, <1>11, <1>13, <1>14 DEF IInv

-----------------------------------------------------------------------------
LEMMA Invariance == Spec => []IInv
  <1>1. IInv /\ [Next]_vars => IInv'
    <2> SUFFICES ASSUME IInv, [Next]_vars PROVE IInv'
      OBVIOUS
    <2>1. CASE UNCHANGED vars
      BY <2>1 DEF vars, Floor, IInv, TypeOK, Ring, Received, Waiting, Linked, Single
    <2>2. CASE Next
      BY <2>2, EmitKeeps, EmitInvalidKeeps, SubscribeKeeps, DeliverKeeps, HandlerKeeps
         DEF Next
    <2> QED BY <2>1, <2>2
  <1> QED BY <1>1, InitIInv, PTL DEF Spec

\* The bus, the queues and what consumers hold keep their types; the buffer
\* never outgrows its size.
THEOREM BusTypeCorrect == Spec => []TypeOK
  <1>1. IInv => TypeOK
    BY DEF IInv
  <1> QED BY <1>1, Invariance, PTL

\* Telemetry reaches a consumer in the order it was published and nothing
\* twice, however often the consumer comes back and whatever falls out of the
\* buffer meanwhile.
THEOREM InOrderOnceAlways == Spec => []InOrderOnce
  <1>1. IInv => InOrderOnce
    <2> SUFFICES ASSUME IInv, NEW c \in Consumer PROVE
          \A i, j \in DOMAIN got[c] :
            i < j /\ ~got[c][i].gap /\ ~got[c][j].gap => got[c][i].id < got[c][j].id
      BY DEF InOrderOnce
    <2>1. got[c] \in Seq(Event) /\ Chain(got[c])
      BY DEF IInv, TypeOK, Received
    <2>2. DOMAIN got[c] = 1..Len(got[c])
      BY <2>1, Events
    <2> QED BY <2>1, <2>2 DEF Chain
  <1> QED BY <1>1, Invariance, PTL

\* A connected consumer has, or is about to have, every event published since
\* it first subscribed, or the notice of a gap that covers it; but for what was
\* published before it came back from connections that had brought it nothing.
THEOREM NoSilentLossAlways == Spec => []NoSilentLoss
  <1>1. IInv => NoSilentLoss
    <2> SUFFICES ASSUME IInv, NEW k \in up, NEW n \in published, n > since[owner[k]],
                        ~(n <= blind[owner[k]])
                 PROVE  \E e \in Entries(got[owner[k]]) \cup Entries(queue[k]) :
                          e.id = n \/ (e.gap /\ e.id > n)
      BY DEF NoSilentLoss
    <2>0. n > Floor[owner[k]]
      BY BusAssumption DEF IInv, TypeOK, Floor
    <2>1. got[owner[k]] \in Seq(Event) /\ queue[k] \in Seq(Event)
      BY DEF IInv, TypeOK
    <2>2. /\ DOMAIN got[owner[k]] = 1..Len(got[owner[k]])
          /\ DOMAIN queue[k] = 1..Len(queue[k]) /\ Len(queue[k]) \in Nat
      BY <2>1, Events
    <2>3. Told(n, got[owner[k]]) \/ Coming(n, queue[k])
      BY <2>0 DEF IInv, Linked, Owed
    <2>4. CASE Told(n, got[owner[k]])
      BY <2>2, <2>4 DEF Told, Entries
    <2>5. CASE Coming(n, queue[k])
      <3>1. \E j \in 1..Len(queue[k]) :
              queue[k][j].id = n \/ (queue[k][j].gap /\ queue[k][j].id > n)
        BY <2>2, <2>5 DEF Coming
      <3> QED BY <3>1, <2>2 DEF Entries
    <2> QED BY <2>3, <2>4, <2>5
  <1> QED BY <1>1, Invariance, PTL
=============================================================================
