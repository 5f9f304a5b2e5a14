----------------------------- MODULE EventBus_proofs -----------------------------
(***************************************************************************)
(* The event bus implements Delivery, for any number of handlers, consumer *)
(* tasks, batch sizes and restarts.  The module's two backends share one   *)
(* invariant each with the published events: the queue (QueueInv), and the *)
(* group's cursor with the batch read from it (StreamInv, BatchInv).       *)
(***************************************************************************)
EXTENDS EventBus, FiniteSetTheorems, TLAPS

Subs == {"memory", "redis"} \X Handlers

BusInv == HandedInv /\ QueueInv /\ StreamInv /\ BatchInv

\* What the invariants are about; a step that leaves it alone preserves them.
busData == <<published, handed, queue, stream, cursor, handlers, batch, pos, rpc>>

LEMMA Untouched == BusInv /\ UNCHANGED busData => BusInv'
BY DEF BusInv, busData, HandedInv, QueueInv, StreamInv, BatchInv, LastHanded, Called

\* Append adds one element behind the others.
LEMMA Appended ==
  ASSUME NEW T, NEW s \in Seq(T), NEW e \in T
  PROVE  /\ Append(s, e) \in Seq(T) /\ Append(s, e) # <<>>
         /\ Len(Append(s, e)) = Len(s) + 1 /\ Len(s) \in Nat
         /\ DOMAIN s = 1..Len(s) /\ DOMAIN Append(s, e) = 1..Len(s) + 1
         /\ \A i \in 1..Len(s) : Append(s, e)[i] = s[i]
         /\ Append(s, e)[Len(s) + 1] = e
OBVIOUS

\* If nothing is handed over and events are at most added, what was handed stays.
LEMMA HandedKept ==
  ASSUME HandedInv, UNCHANGED handed, published' \in Nat, published' >= published
  PROVE  HandedInv' /\ \A s \in Subs : LastHanded(s)' = LastHanded(s)
BY DEF HandedInv, LastHanded, Subs

\* Handing event e to the subscribers S.
LEMMA HandOver ==
  ASSUME HandedInv, NEW e \in 1..published, NEW S \in SUBSET Subs, UNCHANGED published,
         handed' = [s \in Subs |-> IF s \in S THEN Append(handed[s], e) ELSE handed[s]]
  PROVE  /\ HandedInv'
         /\ \A s \in Subs : LastHanded(s)' = IF s \in S THEN e ELSE LastHanded(s)
<1>1. handed \in [Subs -> Seq(Nat)] /\ published \in Nat /\ e \in Nat
  BY DEF HandedInv, Subs
<1>2. handed' \in [Subs -> Seq(Nat)]
  BY <1>1
<1>3. ASSUME NEW s \in Subs
      PROVE  LastHanded(s)' = IF s \in S THEN e ELSE LastHanded(s)
  <2>1. CASE s \in S
    <3>1. handed'[s] = Append(handed[s], e) /\ handed[s] \in Seq(Nat)
      BY <1>1, <2>1
    <3>2. handed'[s] # <<>> /\ handed'[s][Len(handed'[s])] = e
      <4>0. handed[s] \in Seq(Nat) /\ e \in Nat
        BY <1>1, <3>1
      <4>1. /\ Append(handed[s], e) # <<>>
            /\ Len(Append(handed[s], e)) = Len(handed[s]) + 1
            /\ Append(handed[s], e)[Len(handed[s]) + 1] = e
        BY <4>0, Appended
      <4> QED
        BY <3>1, <4>1
    <3> QED
      BY <2>1, <3>2 DEF LastHanded
  <2>2. CASE s \notin S
    BY <1>1, <2>2 DEF LastHanded
  <2> QED
    BY <2>1, <2>2
<1>4. \A s \in Subs : LastHanded(s)' \in 0..published'
  BY <1>1, <1>3 DEF HandedInv, Subs
<1> QED
  BY <1>1, <1>2, <1>3, <1>4 DEF HandedInv, Subs

\* Nothing has been published or handed over at first.
LEMMA InitOrdered == Init => BusInv
BY DEF Init, BusInv, HandedInv, QueueInv, StreamInv, BatchInv, LastHanded, NoGroup

-----------------------------------------------------------------------------
\* get_bus, the subscriptions and the end of the process.
LEMMA SharedStep ==
  ASSUME BusInv, GetRedisBus \/ Crash \/ \E h \in Handlers : Subscribe(h)
  PROVE  BusInv'
<1> USE DEF BusInv
<1>1. HandedInv' /\ \A s \in Subs : LastHanded(s)' = LastHanded(s)
  BY HandedKept DEF GetRedisBus, Crash, Subscribe, HandedInv
<1>2. \A h \in Handlers : <<"memory", h>> \in Subs /\ <<"redis", h>> \in Subs
  BY DEF Subs
<1>3. CASE GetRedisBus
  <2>1. QueueInv'
    BY <1>1, <1>2, <1>3 DEF GetRedisBus, memoryBus, QueueInv
  <2>2. StreamInv'
    BY <1>1, <1>2, <1>3 DEF GetRedisBus, StreamInv, HandedInv, Subs, NoGroup
  <2>3. BatchInv'
    BY <1>3 DEF GetRedisBus, BatchInv
  <2> QED
    BY <1>1, <2>1, <2>2, <2>3
<1>4. CASE Crash
  <2>1. QueueInv' /\ BatchInv'
    BY <1>4 DEF Crash, QueueInv, BatchInv
  <2>2. StreamInv'
    <3>1. handlers' \in Seq(Handlers) /\ DOMAIN handlers' = {}
      BY <1>4 DEF Crash
    <3>2. UNCHANGED <<published, stream, cursor>>
      BY <1>4 DEF Crash
    <3> QED
      BY <1>1, <1>2, <3>1, <3>2 DEF StreamInv
  <2> QED
    BY <1>1, <2>1, <2>2
<1>5. ASSUME NEW h \in Handlers, Subscribe(h)
      PROVE  BusInv'
  <2>1. /\ handlers \in Seq(Handlers) /\ handlers' = Append(handlers, h)
        /\ \A i \in DOMAIN handlers : handlers[i] # h
        /\ UNCHANGED <<published, handed, queue, stream, cursor, batch, pos, rpc>>
    BY <1>5 DEF Subscribe, StreamInv, ToSet, memoryBus, redisBus
  <2>2. /\ handlers' \in Seq(Handlers) /\ Len(handlers') = Len(handlers) + 1
        /\ \A i \in 1..Len(handlers) : handlers'[i] = handlers[i]
        /\ handlers'[Len(handlers) + 1] = h
    BY <2>1
  <2>3. \A i, j \in DOMAIN handlers' : handlers'[i] = handlers'[j] => i = j
    BY <2>1, <2>2 DEF StreamInv
  <2>4. StreamInv'
    BY <1>1, <1>2, <2>1, <2>2, <2>3 DEF StreamInv
  <2>5. DOMAIN handlers \subseteq DOMAIN handlers' /\ \A i \in DOMAIN handlers : handlers'[i] = handlers[i]
    BY <2>1, <2>2
  <2>6. BatchInv'
    BY <1>1, <1>2, <2>1, <2>5 DEF BatchInv, Called
  <2>7. QueueInv'
    BY <1>1, <1>2, <2>1 DEF QueueInv
  <2> QED
    BY <1>1, <2>4, <2>6, <2>7
<1> QED
  BY <1>3, <1>4, <1>5

-----------------------------------------------------------------------------
\* InMemoryBus: what is appended to the queue is newer than everything in it.
LEMMA PublishOrdered == ASSUME BusInv, Publish PROVE BusInv'
<1> USE DEF BusInv
<1>1. /\ published \in Nat /\ published' = published + 1
      /\ queue' = queue \/ queue' = Append(queue, published + 1)
      /\ UNCHANGED <<handed, stream, cursor, handlers, batch, pos, rpc>>
  BY DEF Publish, HandedInv, shared, redisBus
<1>2. HandedInv' /\ \A s \in Subs : LastHanded(s)' = LastHanded(s)
  BY <1>1, HandedKept
<1>3. \A h \in Handlers : <<"memory", h>> \in Subs /\ <<"redis", h>> \in Subs
  BY DEF Subs
<1>4. \A h \in Handlers : LastHanded(<<"memory", h>>) \in 0..published
  BY DEF HandedInv
<1>5. QueueInv'
  <2>1. CASE queue' = queue
    <3>1. UNCHANGED queue /\ \A i \in DOMAIN queue : queue[i] \in 1..published'
      BY <1>1, <2>1 DEF QueueInv
    <3>2. \A h \in Handlers : LastHanded(<<"memory", h>>)' = LastHanded(<<"memory", h>>)
      BY <1>2, <1>3
    <3> QED
      BY <3>1, <3>2 DEF QueueInv
  <2>2. CASE queue' = Append(queue, published + 1)
    <3>1. /\ queue' \in Seq(Nat) /\ Len(queue) \in Nat
          /\ DOMAIN queue = 1..Len(queue) /\ DOMAIN queue' = 1..Len(queue) + 1
          /\ \A i \in DOMAIN queue : queue'[i] = queue[i]
          /\ queue'[Len(queue) + 1] = published + 1
      BY <1>1, <2>2, Appended DEF QueueInv
    <3>2. \A i \in DOMAIN queue' :
            \/ i \in DOMAIN queue /\ queue'[i] = queue[i] /\ i < Len(queue) + 1
            \/ i = Len(queue) + 1 /\ queue'[i] = published + 1
      BY <3>1
    <3>3. \A i \in DOMAIN queue : queue[i] \in 1..published
      BY DEF QueueInv
    <3>4. \A i \in DOMAIN queue' : queue'[i] \in 1..published'
      BY <1>1, <3>2, <3>3
    <3>6. \A i, j \in DOMAIN queue' : i < j => queue'[i] < queue'[j]
      <4>1. ASSUME NEW i \in DOMAIN queue', NEW j \in DOMAIN queue', i < j
            PROVE  queue'[i] < queue'[j]
        <5>1. i \in DOMAIN queue /\ queue'[i] = queue[i]
          BY <3>1, <4>1
        <5>2. CASE j \in DOMAIN queue
          BY <3>1, <4>1, <5>1, <5>2 DEF QueueInv
        <5>3. CASE j = Len(queue) + 1
          BY <1>1, <3>1, <3>3, <5>1, <5>3
        <5> QED
          BY <3>2, <5>2, <5>3
      <4> QED
        BY <4>1
    <3>5. \A i \in DOMAIN queue', h \in Handlers : LastHanded(<<"memory", h>>)' < queue'[i]
      <4>1. ASSUME NEW i \in DOMAIN queue', NEW h \in Handlers
            PROVE  LastHanded(<<"memory", h>>) < queue'[i]
        <5>1. CASE i \in DOMAIN queue
          BY <3>1, <4>1, <5>1 DEF QueueInv
        <5>2. CASE i = Len(queue) + 1
          BY <1>1, <1>4, <3>1, <4>1, <5>2
        <5> QED
          BY <3>2, <4>1, <5>1, <5>2
      <4> QED
        BY <1>2, <1>3, <4>1
    <3> QED
      BY <3>1, <3>4, <3>5, <3>6 DEF QueueInv
  <2> QED
    BY <1>1, <2>1, <2>2
<1>6. StreamInv'
  <2>1. stream \subseteq 1..published' /\ cursor \in NoGroup..published'
    BY <1>1 DEF StreamInv, NoGroup
  <2>2. \A h \in Handlers : LastHanded(<<"redis", h>>)' = LastHanded(<<"redis", h>>)
    BY <1>2, <1>3
  <2> QED
    BY <1>1, <2>1, <2>2 DEF StreamInv
<1>7. BatchInv'
  BY <1>1, <1>2, <1>3 DEF BatchInv, Called
<1> QED
  BY <1>2, <1>5, <1>6, <1>7

\* A consumer hands the head of the queue to the handlers of the moment.
LEMMA TakeHands ==
  ASSUME BusInv, NEW c \in Consumers, Take(c)
  PROVE  /\ queue[1] \in 1..published
         /\ UNCHANGED <<published, stream, cursor, handlers, batch, pos, rpc>>
         /\ queue \in Seq(Nat) /\ queue # <<>> /\ queue' = Tail(queue)
         /\ \E S \in SUBSET Subs :
              /\ \A s \in S : s[1] = "memory" /\ s \in Subs
              /\ handed' = [s \in Subs |-> IF s \in S THEN Append(handed[s], queue[1]) ELSE handed[s]]
<1>1. queue \in Seq(Nat) /\ queue # <<>> /\ queue' = Tail(queue) /\ Head(queue) = queue[1]
  BY DEF Take, Took, BusInv, QueueInv
<1>2. queue[1] \in 1..published
  BY <1>1 DEF BusInv, QueueInv
<1>3. UNCHANGED <<published, stream, cursor, handlers, batch, pos, rpc>>
  BY DEF Take, Took, shared, redisBus
<1> DEFINE S == {s \in Subs : s[1] = "memory" /\ s[2] \in ToSet(handlers)}
<1>4. handed' = [s \in Subs |-> IF s \in S THEN Append(handed[s], queue[1]) ELSE handed[s]]
  BY <1>1 DEF Take, Took, BusInv, HandedInv, Subs
<1> QED
  BY <1>1, <1>2, <1>3, <1>4

LEMMA TakeOrdered == ASSUME BusInv, NEW c \in Consumers, Take(c) PROVE BusInv'
<1> USE DEF BusInv
<1>1. /\ queue[1] \in 1..published /\ queue \in Seq(Nat) /\ queue # <<>> /\ queue' = Tail(queue)
      /\ UNCHANGED <<published, stream, cursor, handlers, batch, pos, rpc>>
  BY TakeHands
<1>2. PICK S \in SUBSET Subs :
        /\ \A s \in S : s[1] = "memory" /\ s \in Subs
        /\ handed' = [s \in Subs |-> IF s \in S THEN Append(handed[s], queue[1]) ELSE handed[s]]
  BY TakeHands
<1>3. HandedInv' /\ \A s \in Subs : LastHanded(s)' = IF s \in S THEN queue[1] ELSE LastHanded(s)
  BY <1>1, <1>2, HandOver
<1>4. \A h \in Handlers : <<"memory", h>> \in Subs /\ <<"redis", h>> \in Subs /\ <<"redis", h>> \notin S
  BY <1>2 DEF Subs
<1>5. /\ queue' \in Seq(Nat) /\ Len(queue') = Len(queue) - 1
      /\ \A i \in DOMAIN queue' : i + 1 \in DOMAIN queue /\ 1 < i + 1 /\ queue'[i] = queue[i + 1]
  BY <1>1
<1>6. \A i \in DOMAIN queue' : queue'[i] \in 1..published' /\ queue[1] < queue'[i]
  BY <1>1, <1>5 DEF QueueInv
<1>7. \A i, j \in DOMAIN queue' : i < j => queue'[i] < queue'[j]
  BY <1>1, <1>5 DEF QueueInv
<1>8. \A i \in DOMAIN queue', h \in Handlers : LastHanded(<<"memory", h>>)' < queue'[i]
  BY <1>3, <1>4, <1>5, <1>6 DEF QueueInv
<1>9. QueueInv'
  BY <1>5, <1>6, <1>7, <1>8 DEF QueueInv
<1>10. \A h \in Handlers : LastHanded(<<"redis", h>>)' = LastHanded(<<"redis", h>>)
  BY <1>3, <1>4
<1>11. StreamInv' /\ BatchInv'
  BY <1>1, <1>10 DEF StreamInv, BatchInv, Called
<1> QED
  BY <1>3, <1>9, <1>11

-----------------------------------------------------------------------------
\* RedisStreamBus.  A publication goes behind everything in the stream.
LEMMA XAddOrdered == ASSUME BusInv, XAdd PROVE BusInv'
<1> USE DEF BusInv
<1>1. /\ published \in Nat /\ published' = published + 1 /\ stream' = stream \cup {published + 1}
      /\ UNCHANGED <<handed, queue, cursor, handlers, batch, pos, rpc>>
  BY DEF XAdd, HandedInv, shared, memoryBus
<1>2. HandedInv' /\ \A s \in Subs : LastHanded(s)' = LastHanded(s)
  BY <1>1, HandedKept
<1>3. \A h \in Handlers : /\ LastHanded(<<"memory", h>>)' = LastHanded(<<"memory", h>>)
                          /\ LastHanded(<<"redis", h>>)' = LastHanded(<<"redis", h>>)
  BY <1>2 DEF Subs
<1>4. QueueInv'
  <2>1. \A i \in DOMAIN queue : queue[i] \in 1..published'
    BY <1>1 DEF QueueInv
  <2> QED
    BY <1>1, <1>3, <2>1 DEF QueueInv
<1>5. StreamInv'
  <2>1. stream' \subseteq 1..published' /\ cursor \in NoGroup..published'
    BY <1>1 DEF StreamInv, NoGroup
  <2> QED
    BY <1>1, <1>3, <2>1 DEF StreamInv
<1>6. BatchInv'
  BY <1>1, <1>3 DEF BatchInv, Called
<1> QED
  BY <1>2, <1>4, <1>5, <1>6

\* A new batch is behind the cursor, and so behind whatever was handed over.
LEMMA ReadOrdered == ASSUME BusInv, Read PROVE BusInv'
<1> USE DEF BusInv
<1>1. PICK n \in 1..BatchSize : \E read \in [1..n -> Unread] :
        /\ \A i, j \in 1..n : i < j => read[i] < read[j]
        /\ batch' = read /\ cursor' = read[n]
  BY DEF Read, FirstUnread
<1>2. PICK read \in [1..n -> Unread] :
        /\ \A i, j \in 1..n : i < j => read[i] < read[j]
        /\ batch' = read /\ cursor' = read[n]
  BY <1>1
<1>3. /\ pos' = 1 /\ rpc' = "call"
      /\ UNCHANGED <<published, handed, queue, handlers, stream>>
  BY DEF Read, shared, memoryBus
<1>4. n \in Nat /\ n >= 1 /\ published \in Nat /\ cursor \in Int
  BY <1>1, BusAssumption DEF HandedInv, StreamInv, NoGroup
<1>5. \A i \in 1..n : read[i] \in 1..published /\ read[i] > cursor
  BY <1>2 DEF Unread, StreamInv
<1>6. HandedInv' /\ \A s \in Subs : LastHanded(s)' = LastHanded(s)
  BY <1>3, <1>4, HandedKept
<1>7. \A h \in Handlers : /\ LastHanded(<<"memory", h>>)' = LastHanded(<<"memory", h>>)
                          /\ LastHanded(<<"redis", h>>)' = LastHanded(<<"redis", h>>)
                          /\ LastHanded(<<"redis", h>>) \in 0..published
  BY <1>6 DEF Subs, HandedInv
<1>8. QueueInv'
  BY <1>3, <1>7 DEF QueueInv
<1>9. cursor' \in 1..published /\ cursor' > cursor
  BY <1>2, <1>4, <1>5
<1>10. StreamInv'
  <2>1. \A h \in Handlers : LastHanded(<<"redis", h>>)' <= cursor' \/ LastHanded(<<"redis", h>>)' = 0
    <3>1. ASSUME NEW h \in Handlers
          PROVE  LastHanded(<<"redis", h>>) <= cursor' \/ LastHanded(<<"redis", h>>) = 0
      <4>1. LastHanded(<<"redis", h>>) <= cursor \/ LastHanded(<<"redis", h>>) = 0
        BY DEF StreamInv
      <4>2. LastHanded(<<"redis", h>>) \in Int /\ cursor' \in Int
        <5>1. LastHanded(<<"redis", h>>) \in 0..published
          BY <1>7
        <5>2. cursor' \in 1..published
          BY <1>9
        <5> QED
          BY <1>4, <5>1, <5>2
      <4> QED
        BY <1>4, <1>9, <4>1, <4>2
    <3> QED
      BY <1>7, <3>1
  <2>2. cursor' \in NoGroup..published'
    BY <1>3, <1>9 DEF NoGroup
  <2> QED
    BY <1>3, <2>1, <2>2 DEF StreamInv
<1>11. BatchInv'
  <2>1. batch' \in Seq(Nat) /\ batch' # <<>> /\ DOMAIN batch' = 1..n
    BY <1>2, <1>4, <1>5
  <2>2. \A i \in 1..n : read[i] <= read[n]
    BY <1>2, <1>4, <1>5
  <2>3. \A i \in DOMAIN batch' : batch'[i] \in 1..cursor'
    BY <1>2, <1>5, <2>1, <2>2
  <2>6. batch'[1] \in 1..published /\ batch'[1] > cursor
    BY <1>2, <1>4, <1>5
  <2>4. ASSUME NEW h \in Handlers
        PROVE  LastHanded(<<"redis", h>>)' < batch'[1] /\ LastHanded(<<"redis", h>>)' <= batch'[1]
    <3>1. LastHanded(<<"redis", h>>)' \in Int /\ batch'[1] \in Int
      <4>1. LastHanded(<<"redis", h>>)' = LastHanded(<<"redis", h>>)
        BY <1>7
      <4>2. LastHanded(<<"redis", h>>) \in 0..published
        BY <1>7
      <4> QED
        BY <1>4, <2>6, <4>1, <4>2
    <3>2. LastHanded(<<"redis", h>>)' <= cursor \/ LastHanded(<<"redis", h>>)' = 0
      BY <1>7 DEF StreamInv
    <3> QED
      BY <1>4, <2>6, <3>1, <3>2
  <2> QED
    BY <1>2, <1>3, <2>1, <2>3, <2>4 DEF BatchInv
<1> QED
  BY <1>6, <1>8, <1>10, <1>11

\* A lost answer moves the cursor alone.
LEMMA LostOrdered == ASSUME BusInv, ReadLost PROVE BusInv'
<1> USE DEF BusInv
<1>1. PICK n \in 1..BatchSize : \E read \in [1..n -> Unread] : cursor' = read[n]
  BY DEF ReadLost
<1>2. PICK e \in Unread : cursor' = e
  BY <1>1
<1>3. UNCHANGED <<published, handed, queue, handlers, stream, rpc>>
  BY DEF ReadLost, shared, memoryBus
<1>4. published \in Nat /\ cursor \in Int /\ rpc = "read"
  BY DEF HandedInv, StreamInv, NoGroup, ReadLost
<1>5. cursor' \in 1..published /\ cursor' > cursor
  BY <1>2, <1>4 DEF Unread, StreamInv
<1>6. HandedInv' /\ \A s \in Subs : LastHanded(s)' = LastHanded(s)
  BY <1>3, <1>4, HandedKept
<1>7. \A h \in Handlers : /\ LastHanded(<<"memory", h>>)' = LastHanded(<<"memory", h>>)
                          /\ LastHanded(<<"redis", h>>)' = LastHanded(<<"redis", h>>)
                          /\ LastHanded(<<"redis", h>>) \in 0..published
  BY <1>6 DEF Subs, HandedInv
<1>8. QueueInv'
  BY <1>3, <1>7 DEF QueueInv
<1>9. StreamInv'
  <2>1. ASSUME NEW h \in Handlers
        PROVE  LastHanded(<<"redis", h>>)' <= cursor' \/ LastHanded(<<"redis", h>>)' = 0
    <3>1. LastHanded(<<"redis", h>>) <= cursor \/ LastHanded(<<"redis", h>>) = 0
      BY DEF StreamInv
    <3>2. LastHanded(<<"redis", h>>) \in Int /\ cursor' \in Int
      <4>1. LastHanded(<<"redis", h>>) \in 0..published
        BY <1>7
      <4> QED
        BY <1>4, <1>5, <4>1
    <3>3. LastHanded(<<"redis", h>>) <= cursor' \/ LastHanded(<<"redis", h>>) = 0
      BY <1>4, <1>5, <3>1, <3>2
    <3> QED
      BY <1>7, <3>3
  <2>2. cursor' \in NoGroup..published'
    BY <1>3, <1>5 DEF NoGroup
  <2> QED
    BY <1>3, <2>1, <2>2 DEF StreamInv
<1>10. BatchInv'
  BY <1>3, <1>4 DEF BatchInv
<1> QED
  BY <1>6, <1>8, <1>9, <1>10

\* The next handler is called with the current message, for which nobody called it yet.
LEMMA CallHands ==
  ASSUME BusInv, Call, pos <= Len(handlers)
  PROVE  /\ pos \in DOMAIN handlers /\ handlers[pos] \in Handlers
         /\ batch[1] \in 1..published
         /\ LastHanded(<<"redis", handlers[pos]>>) < batch[1]
         /\ handed' = [s \in Subs |-> IF s \in {<<"redis", handlers[pos]>>}
                                      THEN Append(handed[s], batch[1]) ELSE handed[s]]
<1> USE DEF BusInv
<1>1. /\ rpc = "call" /\ pos \in Nat \ {0} /\ batch \in Seq(Nat) /\ batch # <<>>
      /\ handlers \in Seq(Handlers)
  BY DEF Call, BatchInv, StreamInv
<1>2. pos \in DOMAIN handlers /\ handlers[pos] \in Handlers
  BY <1>1
<1>3. batch[1] \in 1..cursor /\ cursor \in NoGroup..published /\ Head(batch) = batch[1]
  BY <1>1 DEF BatchInv, StreamInv
<1>4. batch[1] \in 1..published
  BY <1>3 DEF NoGroup, HandedInv
<1>5. \A i \in (1..pos - 1) \cap DOMAIN handlers : handlers[i] # handlers[pos]
  <2>1. \A i \in 1..pos - 1 : i # pos
    BY <1>1
  <2> QED
    BY <1>2, <2>1 DEF StreamInv
<1>6. LastHanded(<<"redis", handlers[pos]>>) < batch[1]
  BY <1>1, <1>2, <1>5 DEF BatchInv, Called
<1>7. handed' = [handed EXCEPT ![<<"redis", handlers[pos]>>] = Append(@, batch[1])]
  <2>1. ~(pos > Len(handlers))
    BY <1>1
  <2> QED
    BY <1>3, <2>1 DEF Call
<1>8. handed' = [s \in Subs |-> IF s \in {<<"redis", handlers[pos]>>}
                                THEN Append(handed[s], batch[1]) ELSE handed[s]]
  BY <1>2, <1>7 DEF HandedInv, Subs
<1> QED
  BY <1>2, <1>4, <1>6, <1>8

LEMMA CallOrdered == ASSUME BusInv, Call PROVE BusInv'
<1> USE DEF BusInv
<1>1. UNCHANGED <<published, queue, stream, cursor, handlers, batch, pos>> /\ rpc = "call"
  BY DEF Call, shared, memoryBus
<1>2. CASE pos > Len(handlers)
  <2>1. UNCHANGED handed /\ rpc' = "ack"
    BY <1>2 DEF Call
  <2>2. BatchInv'
    BY <1>1, <2>1 DEF BatchInv, LastHanded
  <2> QED
    BY <1>1, <2>1, <2>2 DEF HandedInv, QueueInv, StreamInv, LastHanded
<1>3. CASE pos <= Len(handlers)
  <2>1. /\ pos \in DOMAIN handlers /\ handlers[pos] \in Handlers /\ batch[1] \in 1..published
        /\ LastHanded(<<"redis", handlers[pos]>>) < batch[1]
        /\ handed' = [s \in Subs |-> IF s \in {<<"redis", handlers[pos]>>}
                                     THEN Append(handed[s], batch[1]) ELSE handed[s]]
    BY <1>3, CallHands
  <2>2. rpc' = "wait" /\ pos \in Nat \ {0} /\ batch \in Seq(Nat) /\ batch # <<>>
    <3>1. ~(pos > Len(handlers))
      BY <1>1, <1>3 DEF BatchInv, StreamInv
    <3> QED
      BY <3>1, <1>1 DEF Call, BatchInv
  <2>3. {<<"redis", handlers[pos]>>} \in SUBSET Subs
    BY <2>1 DEF Subs
  <2>4. /\ HandedInv'
        /\ \A s \in Subs : LastHanded(s)' = IF s \in {<<"redis", handlers[pos]>>} THEN batch[1] ELSE LastHanded(s)
    <3>1. HandedInv /\ UNCHANGED published
      BY <1>1
    <3>2. \E S \in SUBSET Subs : S = {<<"redis", handlers[pos]>>}
      BY <2>3
    <3>3. PICK S \in SUBSET Subs : S = {<<"redis", handlers[pos]>>}
      BY <3>2
    <3>4. handed' = [s \in Subs |-> IF s \in S THEN Append(handed[s], batch[1]) ELSE handed[s]]
      BY <2>1, <3>3
    <3>5. HandedInv' /\ \A s \in Subs : LastHanded(s)' = IF s \in S THEN batch[1] ELSE LastHanded(s)
      BY <2>1, <3>1, <3>4, HandOver
    <3> QED
      BY <3>3, <3>5
  <2>5. \A h \in Handlers :
          /\ LastHanded(<<"memory", h>>)' = LastHanded(<<"memory", h>>)
          /\ LastHanded(<<"redis", h>>)' = IF h = handlers[pos] THEN batch[1] ELSE LastHanded(<<"redis", h>>)
    BY <2>4 DEF Subs
  <2>6. QueueInv'
    BY <1>1, <2>5 DEF QueueInv
  <2>7. StreamInv'
    <3>1. batch[1] <= cursor /\ batch[1] \in Nat
      BY <1>1, <2>2 DEF BatchInv, StreamInv, NoGroup
    <3>2. \A h \in Handlers : LastHanded(<<"redis", h>>)' <= cursor \/ LastHanded(<<"redis", h>>)' = 0
      BY <2>5, <3>1 DEF StreamInv
    <3> QED
      BY <1>1, <3>2 DEF StreamInv
  <2>8. BatchInv'
    <3>1. batch[1] <= batch[1]
      BY <2>1
    <3>2. \A h \in Handlers : LastHanded(<<"redis", h>>)' <= batch[1]
      BY <1>1, <2>5, <3>1 DEF BatchInv
    <3>3. ASSUME NEW h \in Handlers, \A i \in (1..pos) \cap DOMAIN handlers : handlers[i] # h
          PROVE  LastHanded(<<"redis", h>>)' < batch[1]
      <4>1. h # handlers[pos]
        BY <2>1, <2>2, <3>3
      <4>2. (1..pos - 1) \subseteq 1..pos
        BY <2>2
      <4> QED
        BY <1>1, <2>5, <3>3, <4>1, <4>2 DEF BatchInv, Called
    <3> QED
      BY <1>1, <2>2, <3>2, <3>3 DEF BatchInv, Called
  <2> QED
    BY <2>4, <2>6, <2>7, <2>8
<1> QED
  BY <1>1, <1>2, <1>3 DEF BatchInv, StreamInv

\* Return, Ack and the end of the Redis task hand nothing over.
LEMMA RedisEnds == ASSUME BusInv, Return \/ Ack \/ AckFails \/ RedisStop PROVE BusInv'
<1> USE DEF BusInv
<1>1. UNCHANGED <<published, handed, queue, stream, cursor, handlers>>
  BY DEF Return, Ack, AckFails, RedisStop, shared, memoryBus
<1>2. HandedInv' /\ QueueInv' /\ StreamInv'
  BY <1>1 DEF HandedInv, QueueInv, StreamInv, LastHanded
<1>3. BatchInv'
  <2>1. CASE Return
    <3>1. rpc = "wait" /\ UNCHANGED batch /\ pos \in Nat \ {0}
      BY <2>1 DEF Return, BatchInv
    <3>2. CASE rpc' = "call" /\ pos' = pos + 1
      <4>1. Called' = Called
        BY <3>1, <3>2 DEF Called
      <4> QED
        BY <1>1, <3>1, <3>2, <4>1 DEF BatchInv, LastHanded
    <3>3. CASE rpc' = "ack" /\ UNCHANGED pos
      BY <1>1, <3>1, <3>3 DEF BatchInv, LastHanded
    <3> QED
      BY <2>1, <3>2, <3>3 DEF Return
  <2>2. CASE Ack
    <3>1. /\ rpc = "ack" /\ batch \in Seq(Nat) /\ batch # <<>> /\ batch' = Tail(batch)
          /\ pos' = 1 /\ rpc' = IF Len(batch) = 1 THEN "read" ELSE "call"
      BY <2>2 DEF Ack, BatchInv
    <3>2. CASE Len(batch) = 1
      BY <3>1, <3>2 DEF BatchInv
    <3>3. CASE Len(batch) # 1
      <4>1. /\ batch' \in Seq(Nat) /\ batch' # <<>> /\ 1 \in DOMAIN batch /\ 1 \in DOMAIN batch'
            /\ \A i \in DOMAIN batch' : i + 1 \in DOMAIN batch /\ batch'[i] = batch[i + 1]
        <5>1. /\ Len(batch) \in Nat /\ Len(batch) > 1 /\ DOMAIN batch = 1..Len(batch)
          <6>1. Len(batch) \in Nat /\ DOMAIN batch = 1..Len(batch)
            BY <3>1
          <6>2. Len(batch) # 0
            BY <3>1
          <6> QED
            BY <3>3, <6>1, <6>2
        <5>2. /\ Tail(batch) \in Seq(Nat) /\ Len(Tail(batch)) = Len(batch) - 1
              /\ DOMAIN Tail(batch) = 1..Len(batch) - 1
              /\ \A i \in 1..Len(batch) - 1 : Tail(batch)[i] = batch[i + 1]
          BY <3>1, <5>1
        <5> QED
          BY <3>1, <5>1, <5>2
      <4>2. \A i \in DOMAIN batch' : batch'[i] \in 1..cursor
        BY <3>1, <4>1 DEF BatchInv
      <4>3. \A i, j \in DOMAIN batch' : i < j => batch'[i] < batch'[j]
        BY <3>1, <4>1 DEF BatchInv
      <4>4. batch[1] < batch'[1] /\ batch[1] \in Int /\ batch'[1] \in Int
        BY <3>1, <4>1, <4>2 DEF BatchInv
      <4>6. ASSUME NEW h \in Handlers
            PROVE  LastHanded(<<"redis", h>>) < batch'[1] /\ LastHanded(<<"redis", h>>) <= batch'[1]
        <5>1. LastHanded(<<"redis", h>>) \in 0..published /\ published \in Nat
          BY DEF HandedInv
        <5>2. LastHanded(<<"redis", h>>) <= batch[1]
          BY <3>1 DEF BatchInv
        <5> QED
          BY <4>4, <5>1, <5>2
      <4> QED
        BY <1>1, <3>1, <3>3, <4>1, <4>2, <4>3, <4>6 DEF BatchInv, LastHanded
    <3> QED
      BY <3>2, <3>3
  <2>3. CASE AckFails \/ RedisStop
    BY <2>3 DEF AckFails, RedisStop, BatchInv
  <2> QED
    BY <2>1, <2>2, <2>3
<1> QED
  BY <1>2, <1>3

-----------------------------------------------------------------------------
\* The other steps leave the events alone.
LEMMA OtherSteps ==
  ASSUME \/ GetMemoryBus \/ Start \/ Stop \/ StopCancels \/ StopEnds
         \/ \E c \in Consumers : ConsumerDies(c) \/ \E h \in Handlers : HandlerEnds(c, h)
         \/ UNCHANGED vars
  PROVE  UNCHANGED busData
BY DEF GetMemoryBus, Start, Stop, StopCancels, StopEnds, ConsumerDies, HandlerEnds, Ended, busData,
       memoryBus, redisBus, shared, vars

\* The invariant is inductive.
LEMMA StepOrdered == BusInv /\ [Next]_vars => BusInv'
<1> SUFFICES ASSUME BusInv, [Next]_vars PROVE BusInv'
  OBVIOUS
<1>1. CASE GetRedisBus \/ Crash \/ \E h \in Handlers : Subscribe(h)
  BY <1>1, SharedStep
<1>2. CASE Publish \/ XAdd
  BY <1>2, PublishOrdered, XAddOrdered
<1>3. CASE \E c \in Consumers : Take(c)
  BY <1>3, TakeOrdered
<1>4. CASE Read \/ ReadLost \/ Call
  BY <1>4, ReadOrdered, LostOrdered, CallOrdered
<1>5. CASE Return \/ Ack \/ AckFails \/ RedisStop
  BY <1>5, RedisEnds
<1>6. CASE \/ GetMemoryBus \/ Start \/ Stop \/ StopCancels \/ StopEnds
           \/ \E c \in Consumers : ConsumerDies(c) \/ \E h \in Handlers : HandlerEnds(c, h)
           \/ UNCHANGED vars
  BY <1>6, OtherSteps, Untouched
<1> QED
  BY <1>1, <1>2, <1>3, <1>4, <1>5, <1>6 DEF Next, MemoryStep, RedisStep

\* Handing event e to S, all of whom were last handed an earlier one, is a step of Delivery.
LEMMA HandOverDelivers ==
  ASSUME HandedInv, NEW e \in 1..published, NEW S \in SUBSET Subs, UNCHANGED published,
         \A s \in S : LastHanded(s) < e,
         handed' = [s \in Subs |-> IF s \in S THEN Append(handed[s], e) ELSE handed[s]]
  PROVE  Promise!Next \/ UNCHANGED handed
<1>1. CASE S = {}
  BY <1>1 DEF HandedInv, Subs
<1>2. CASE S # {}
  <2>1. \A s \in S : Promise!Before(s, e)
    BY DEF LastHanded, Promise!Before
  <2>2. Promise!Deliver(e, S)
    BY <1>2, <2>1 DEF Promise!Deliver, Subs
  <2> QED
    BY <2>2 DEF Promise!Next, Subs
<1> QED
  BY <1>1, <1>2

\* Every step of the bus is a step of Delivery or leaves it alone.
LEMMA StepDelivers ==
  ASSUME BusInv, [Next]_vars
  PROVE  [Promise!Next]_<<published, handed>>
<1>1. CASE Publish \/ XAdd
  BY <1>1 DEF Publish, XAdd, Promise!Next, Promise!Publish
<1>2. ASSUME NEW c \in Consumers, Take(c)
      PROVE  [Promise!Next]_<<published, handed>>
  <2>1. /\ queue[1] \in 1..published /\ queue \in Seq(Nat) /\ queue # <<>> /\ UNCHANGED published
    BY <1>2, TakeHands
  <2>2. PICK S \in SUBSET Subs :
          /\ \A s \in S : s[1] = "memory" /\ s \in Subs
          /\ handed' = [s \in Subs |-> IF s \in S THEN Append(handed[s], queue[1]) ELSE handed[s]]
    BY <1>2, TakeHands
  <2>3. \A s \in S : LastHanded(s) < queue[1]
    <3>1. \A s \in S : \E h \in Handlers : s = <<"memory", h>>
      BY <2>2 DEF Subs
    <3>2. 1 \in DOMAIN queue
      BY <2>1
    <3> QED
      BY <3>1, <3>2 DEF BusInv, QueueInv
  <2>4. Promise!Next \/ UNCHANGED handed
    BY <2>1, <2>2, <2>3, HandOverDelivers DEF BusInv
  <2> QED
    BY <2>1, <2>4
<1>3. CASE Call
  <2>1. CASE pos > Len(handlers)
    BY <1>3, <2>1 DEF Call
  <2>2. CASE pos <= Len(handlers)
    <3>1. /\ handlers[pos] \in Handlers /\ batch[1] \in 1..published
          /\ LastHanded(<<"redis", handlers[pos]>>) < batch[1]
          /\ handed' = [s \in Subs |-> IF s \in {<<"redis", handlers[pos]>>}
                                       THEN Append(handed[s], batch[1]) ELSE handed[s]]
      BY <1>3, <2>2, CallHands
    <3>6. {<<"redis", handlers[pos]>>} \in SUBSET Subs
      BY <3>1 DEF Subs
    <3>2. PICK S \in SUBSET Subs : S = {<<"redis", handlers[pos]>>}
      BY <3>6
    <3>3. handed' = [s \in Subs |-> IF s \in S THEN Append(handed[s], batch[1]) ELSE handed[s]]
      BY <3>1, <3>2
    <3>4. (\A s \in S : LastHanded(s) < batch[1]) /\ UNCHANGED published
      BY <1>3, <3>1, <3>2 DEF Call
    <3>5. Promise!Next \/ UNCHANGED handed
      BY <3>1, <3>3, <3>4, HandOverDelivers DEF BusInv
    <3> QED
      BY <3>4, <3>5
  <2>3. pos \in Nat /\ Len(handlers) \in Nat
    BY <1>3 DEF Call, BusInv, BatchInv, StreamInv
  <2> QED
    BY <2>1, <2>2, <2>3
<1>4. CASE \/ GetMemoryBus \/ Start \/ Stop \/ StopCancels \/ StopEnds
           \/ \E c \in Consumers : ConsumerDies(c) \/ \E h \in Handlers : HandlerEnds(c, h)
           \/ UNCHANGED vars
  BY <1>4, OtherSteps DEF busData
<1>5. CASE \/ GetRedisBus \/ Crash \/ (\E h \in Handlers : Subscribe(h))
           \/ Read \/ ReadLost \/ Return \/ Ack \/ AckFails \/ RedisStop
  BY <1>5 DEF GetRedisBus, Crash, Subscribe, Read, ReadLost, Return, Ack, AckFails, RedisStop
<1> QED
  BY <1>1, <1>2, <1>3, <1>4, <1>5 DEF Next, MemoryStep, RedisStep

\* EventBus (bus.py): both backends keep the promise of Delivery, events in the order of
\* publication and none twice, through crashes, failed acknowledgements and stops.
THEOREM DeliversTheorem == Spec => Delivers
<1>1. Init => Promise!Init
  BY DEF Init, Promise!Init
<1>2. BusInv /\ [Next]_vars => [Promise!Next]_<<published, handed>>
  BY StepDelivers
<1> QED
  BY <1>1, <1>2, InitOrdered, StepOrdered, PTL DEF Spec, Delivers, Promise!Spec

-----------------------------------------------------------------------------
(* What stop has waited for *)

TaskType ==
  [pc : {"off", "waiting", "handling", "cancelled"}, event : Nat, left : SUBSET Handlers]

\* The tasks of the memory bus, of which finitely many are at work; and stop's mark.
TaskInv ==
  /\ task \in [Consumers -> TaskType] /\ consumer \in Consumers \cup {None}
  /\ \A c \in Consumers : task[c].pc = "handling" => task[c].event # 0
  /\ IsFiniteSet(Busy)
  /\ mark \in 0..published

DrainInv == TaskInv /\ DrainedBeforeCancel

LEMMA OffWaiting ==
  /\ Off \in TaskType /\ Off.event = 0 /\ Off.pc = "off"
  /\ Waiting \in TaskType /\ Waiting.event = 0 /\ Waiting.pc = "waiting"
BY DEF TaskType, Off, Waiting

\* No event is unfinished: the queue is empty and no consumer at work.
LEMMA NothingUnfinished ==
  ASSUME BusInv, TaskInv, Unfinished = 0
  PROVE  queue = <<>> /\ Busy = {}
<1>1. Len(queue) \in Nat /\ queue \in Seq(Nat)
  BY DEF BusInv, QueueInv
<1>2. Cardinality(Busy) \in Nat
  BY FS_CardinalityType DEF TaskInv
<1>3. Len(queue) = 0 /\ Cardinality(Busy) = 0
  BY <1>1, <1>2 DEF Unfinished
<1> QED BY <1>1, <1>3, FS_EmptySet DEF TaskInv

\* One event is, and consumer c has it.
LEMMA LastUnfinished ==
  ASSUME BusInv, TaskInv, Unfinished = 1, NEW c \in Busy
  PROVE  queue = <<>> /\ Busy = {c}
<1>1. Len(queue) \in Nat /\ queue \in Seq(Nat)
  BY DEF BusInv, QueueInv
<1>2. IsFiniteSet(Busy \ {c}) /\ Cardinality(Busy \ {c}) = Cardinality(Busy) - 1
      /\ Cardinality(Busy) \in Nat
  BY FS_RemoveElement, FS_CardinalityType DEF TaskInv
<1>3. Cardinality(Busy \ {c}) \in Nat
  BY <1>2, FS_CardinalityType
<1>4. Len(queue) = 0 /\ Cardinality(Busy \ {c}) = 0
  BY <1>1, <1>2, <1>3 DEF Unfinished
<1>5. Busy \ {c} = {}
  BY <1>2, <1>4, FS_EmptySet
<1> QED BY <1>1, <1>4, <1>5

\* No task gets an event.
Idling ==
  /\ task' \in [Consumers -> TaskType] /\ consumer' \in Consumers \cup {None}
  /\ \A c \in Consumers :
       /\ task'[c].event \in {0, task[c].event}
       /\ task'[c].pc = "handling" => task[c].pc = "handling" /\ task'[c].event = task[c].event

LEMMA Idler ==
  ASSUME TaskInv, Idling,
         UNCHANGED mark, published' \in Nat, published' >= published, published \in Nat
  PROVE  TaskInv' /\ Busy' \subseteq Busy
<1>1. Busy' \subseteq Busy
  BY DEF Busy, Idling
<1>2. IsFiniteSet(Busy')
  BY <1>1, FS_Subset DEF TaskInv
<1> QED BY <1>1, <1>2 DEF TaskInv, Idling

LEMMA EnsureConsumerIdles ==
  ASSUME TaskInv, EnsureConsumer
  PROVE  Idling
<1>1. CASE UNCHANGED <<task, consumer>>
  BY <1>1 DEF TaskInv, Idling
<1>2. ASSUME NEW c \in Consumers, task' = [task EXCEPT ![c] = Waiting], consumer' = c
      PROVE  Idling
  <2>1. task \in [Consumers -> TaskType]
    BY DEF TaskInv
  <2>2. \A d \in Consumers : task'[d] = IF d = c THEN Waiting ELSE task[d]
    BY <1>2, <2>1
  <2>3. task' \in [Consumers -> TaskType]
    BY <1>2, <2>1, OffWaiting
  <2> QED BY <1>2, <2>2, <2>3, OffWaiting DEF Idling
<1> QED BY <1>1, <1>2 DEF EnsureConsumer

LEMMA CancelIdles ==
  ASSUME TaskInv, Cancel, UNCHANGED consumer
  PROVE  Idling
<1>1. task \in [Consumers -> TaskType]
  BY DEF TaskInv
<1>2. CASE consumer = None
  BY <1>1, <1>2 DEF Cancel, TaskInv, Idling
<1>3. CASE consumer # None
  <2>1. consumer \in Consumers
    BY <1>3 DEF TaskInv
  <2> DEFINE t == [task[consumer] EXCEPT !.pc = "cancelled", !.left = {}]
  <2>2. t \in TaskType /\ t.event = task[consumer].event /\ t.pc = "cancelled"
    BY <1>1, <2>1 DEF TaskType
  <2>3. task' = [task EXCEPT ![consumer] = t]
    BY <1>3 DEF Cancel
  <2> HIDE DEF t
  <2>4. task' \in [Consumers -> TaskType]
    BY <1>1, <2>1, <2>2, <2>3
  <2>5. \A c \in Consumers : task'[c] = IF c = consumer THEN t ELSE task[c]
    BY <1>1, <2>3
  <2> QED BY <2>1, <2>2, <2>4, <2>5 DEF Idling
<1> QED BY <1>2, <1>3

LEMMA DrainStep == BusInv /\ DrainInv /\ [Next]_vars => DrainInv'
<1> SUFFICES ASSUME BusInv, DrainInv, [Next]_vars PROVE DrainInv'
  OBVIOUS
<1>0. /\ TaskInv /\ task \in [Consumers -> TaskType] /\ mark \in 0..published
      /\ published \in Nat /\ queue \in Seq(Nat)
  BY DEF DrainInv, TaskInv, BusInv, HandedInv, QueueInv
<1>1. CASE UNCHANGED <<queue, task, consumer, stopping, mark>> /\ published' \in {published, published + 1}
  <2>1. Busy' = Busy
    BY <1>1 DEF Busy
  <2>2. TaskInv'
    BY <1>0, <1>1, <2>1 DEF TaskInv
  <2> QED BY <1>1, <2>1, <2>2 DEF DrainInv, DrainedBeforeCancel
<1>2. CASE Crash
  <2>1. /\ task' = [c \in Consumers |-> Off] /\ consumer' = None /\ stopping' = "no" /\ mark' = 0
        /\ published' = published
    BY <1>2 DEF Crash
  <2>2. /\ task' \in [Consumers -> TaskType]
        /\ \A c \in Consumers : task'[c].event = 0 /\ task'[c].pc = "off"
    BY <2>1, OffWaiting
  <2>3. Busy' = {}
    BY <2>2 DEF Busy
  <2> QED BY <1>0, <2>1, <2>2, <2>3, FS_EmptySet DEF DrainInv, TaskInv, DrainedBeforeCancel
<1>3. CASE Publish
  <2>1. /\ EnsureConsumer \/ UNCHANGED <<task, consumer>>
        /\ queue' \in {queue, Append(queue, published + 1)}
        /\ published' = published + 1 /\ UNCHANGED <<stopping, mark>>
    BY <1>3 DEF Publish
  <2>0. Idling
    <3>1. CASE EnsureConsumer
      BY <1>0, <3>1, EnsureConsumerIdles
    <3>2. CASE UNCHANGED <<task, consumer>>
      BY <1>0, <3>2 DEF TaskInv, Idling
    <3> QED BY <2>1, <3>1, <3>2
  <2>2. TaskInv' /\ Busy' \subseteq Busy
    BY <1>0, <2>0, <2>1, Idler
  <2>3. \A c \in Busy' : task'[c].event = task[c].event
    BY <1>0, <2>0 DEF Busy, Idling
  <2>4. ASSUME NEW e \in ToSet(queue') PROVE e \in ToSet(queue) \/ e = published + 1
    <3>1. CASE queue' = queue
      BY <3>1
    <3>2. CASE queue' = Append(queue, published + 1)
      <4> PICK n \in Nat : n = Len(queue)
        BY <1>0
      <4>1. /\ DOMAIN queue = 1..n /\ DOMAIN queue' = 1..(n + 1)
            /\ queue'[n + 1] = published + 1 /\ \A i \in 1..n : queue'[i] = queue[i]
        BY <1>0, <3>2
      <4> QED BY <4>1 DEF ToSet
    <3> QED BY <2>1, <3>1, <3>2
  <2>5. published + 1 > mark
    BY <1>0
  <2> QED BY <2>1, <2>2, <2>3, <2>4, <2>5 DEF DrainInv, DrainedBeforeCancel
<1>4. CASE Start
  <2>1. EnsureConsumer /\ UNCHANGED <<queue, published, stopping, mark>>
    BY <1>4 DEF Start
  <2>2. TaskInv' /\ Busy' \subseteq Busy
    BY <1>0, <2>1, EnsureConsumerIdles, Idler DEF TaskInv
  <2>3. \A c \in Busy' : task'[c].event = task[c].event
    BY <1>0, <2>1, EnsureConsumerIdles DEF Busy, Idling
  <2> QED BY <2>1, <2>2, <2>3 DEF DrainInv, DrainedBeforeCancel
<1>5. ASSUME NEW c \in Consumers, Take(c) PROVE DrainInv'
  <2> DEFINE e == Head(queue)
             t == [pc |-> "handling", event |-> e, left |-> ToSet(handlers)]
  <2>1. /\ queue # <<>> /\ queue' = Tail(queue) /\ task' = [task EXCEPT ![c] = t]
        /\ UNCHANGED <<consumer, stopping, mark, published>>
    BY <1>5 DEF Take, Took, shared
  <2>2. /\ e \in ToSet(queue) /\ e \in Nat /\ e # 0
        /\ ToSet(queue') \subseteq ToSet(queue)
    <3> PICK n \in Nat : n = Len(queue)
      BY <1>0
    <3>1. /\ DOMAIN queue = 1..n /\ n > 0 /\ e = queue[1]
          /\ DOMAIN Tail(queue) = 1..(n - 1)
          /\ \A i \in 1..(n - 1) : Tail(queue)[i] = queue[i + 1] /\ i + 1 \in 1..n
      BY <1>0, <2>1
    <3>2. e \in 1..published
      BY <3>1 DEF BusInv, QueueInv
    <3>3. e \in ToSet(queue) /\ e \in Nat /\ e # 0
      BY <1>0, <3>1, <3>2 DEF ToSet
    <3> QED BY <2>1, <3>1, <3>3 DEF ToSet
  <2>3. ToSet(handlers) \subseteq Handlers
    BY DEF ToSet, BusInv, StreamInv
  <2>4. t \in TaskType /\ t.event = e
    BY <2>2, <2>3 DEF TaskType
  <2> HIDE DEF t, e
  <2>5. /\ task' \in [Consumers -> TaskType] /\ task'[c].event = e
        /\ \A d \in Consumers : d # c => task'[d] = task[d]
    BY <1>0, <2>1, <2>4
  <2>6. Busy' \subseteq Busy \cup {c}
    BY <2>5 DEF Busy
  <2>7. IsFiniteSet(Busy')
    BY <2>6, FS_AddElement, FS_Subset DEF DrainInv, TaskInv
  <2>8. TaskInv'
    BY <1>0, <2>1, <2>2, <2>5, <2>7 DEF TaskInv
  <2>9. stopping \in {"woken", "cancelling"} => \A d \in Busy' : task'[d].event > mark
    BY <2>2, <2>5, <2>6 DEF DrainInv, DrainedBeforeCancel, Busy
  <2> QED BY <2>1, <2>2, <2>8, <2>9 DEF DrainInv, DrainedBeforeCancel
<1>6. ASSUME NEW c \in Consumers, NEW h \in Handlers, HandlerEnds(c, h) PROVE DrainInv'
  <2>1. /\ task[c].pc = "handling"
        /\ UNCHANGED <<queue, consumer, mark, published>>
    BY <1>6 DEF HandlerEnds, Ended, shared
  <2>2. CASE task[c].left = {h}
    <3>1. task' = [task EXCEPT ![c] = Waiting] /\ TaskDone
      BY <1>6, <2>2 DEF HandlerEnds, Ended
    <3>2. /\ task' \in [Consumers -> TaskType] /\ task'[c].event = 0 /\ task'[c].pc = "waiting"
          /\ \A d \in Consumers : d # c => task'[d] = task[d]
      BY <1>0, <3>1, OffWaiting
    <3>3. TaskInv' /\ Busy' \subseteq Busy \ {c}
      <4>1. Idling
        BY <1>0, <2>1, <3>2 DEF TaskInv, Idling
      <4> QED BY <1>0, <2>1, <3>2, <4>1, Idler DEF Busy
    <3>4. \A d \in Busy' : task'[d] = task[d]
      BY <3>2, <3>3 DEF Busy
    <3>5. CASE stopping' = stopping
      BY <2>1, <3>3, <3>4, <3>5 DEF DrainInv, DrainedBeforeCancel
    <3>6. CASE Unfinished = 1
      <4>1. c \in Busy
        BY <1>0, <2>1 DEF TaskInv, Busy
      <4>2. queue = <<>> /\ Busy' = {}
        BY <1>0, <3>3, <3>6, <4>1, LastUnfinished
      <4> QED BY <2>1, <3>3, <4>2 DEF DrainInv, DrainedBeforeCancel, ToSet
    <3> QED BY <3>1, <3>5, <3>6 DEF TaskDone
  <2>3. CASE task[c].left # {h}
    <3> DEFINE t == [task[c] EXCEPT !.left = @ \ {h}]
    <3>1. task' = [task EXCEPT ![c] = t] /\ UNCHANGED stopping
      BY <1>6, <2>3 DEF HandlerEnds, Ended
    <3>2. t \in TaskType /\ t.event = task[c].event /\ t.pc = task[c].pc
      BY <1>0 DEF TaskType
    <3> HIDE DEF t
    <3>3. /\ task' \in [Consumers -> TaskType]
          /\ \A d \in Consumers : task'[d].event = task[d].event /\ task'[d].pc = task[d].pc
      BY <1>0, <3>1, <3>2
    <3>4. TaskInv' /\ Busy' \subseteq Busy
      BY <1>0, <2>1, <3>3, Idler DEF TaskInv, Idling
    <3> QED BY <2>1, <3>1, <3>3, <3>4 DEF DrainInv, DrainedBeforeCancel, Busy
  <2> QED BY <2>2, <2>3
<1>7. CASE Stop
  <2>1. /\ mark' = published
        /\ stopping = "no" /\ UNCHANGED <<queue, consumer, published>>
        /\ \/ Unfinished = 0 /\ Cancel
           \/ stopping' = "draining" /\ UNCHANGED <<task, dying>>
    BY <1>7 DEF Stop
  <2>2. CASE Unfinished = 0 /\ Cancel
    <3>1. queue = <<>> /\ Busy = {}
      BY <1>0, <2>2, NothingUnfinished
    <3>2. Idling
      BY <1>0, <2>1, <2>2, CancelIdles
    <3>3. Busy' = {}
      BY <1>0, <3>1, <3>2 DEF Busy, Idling
    <3>4. \A c \in Consumers : task'[c].pc = "handling" => task'[c].event # 0
      BY <1>0, <3>2 DEF TaskInv, Idling
    <3> QED BY <1>0, <2>1, <3>1, <3>2, <3>3, <3>4, FS_EmptySet DEF Idling, DrainInv, TaskInv, DrainedBeforeCancel, ToSet
  <2>3. CASE stopping' = "draining" /\ UNCHANGED <<task, dying>>
    <3>1. Busy' = Busy
      BY <2>3 DEF Busy
    <3> QED BY <1>0, <2>1, <2>3, <3>1 DEF DrainInv, TaskInv, DrainedBeforeCancel
  <2> QED BY <2>1, <2>2, <2>3
<1>8. CASE StopCancels
  <2>1. stopping = "woken" /\ Cancel /\ UNCHANGED <<queue, consumer, mark, published>>
    BY <1>8 DEF StopCancels
  <2>2. TaskInv' /\ Busy' \subseteq Busy
    BY <1>0, <2>1, CancelIdles, Idler
  <2>3. \A c \in Busy' : task'[c].event = task[c].event
    BY <1>0, <2>1, CancelIdles DEF Busy, Idling
  <2> QED BY <2>1, <2>2, <2>3 DEF DrainInv, DrainedBeforeCancel
<1>9. ASSUME NEW c \in Consumers, ConsumerDies(c) PROVE DrainInv'
  <2>1. /\ task' = [task EXCEPT ![c] = Off]
        /\ UNCHANGED <<queue, consumer, stopping, mark, published>>
    BY <1>9 DEF ConsumerDies
  <2>2. task' \in [Consumers -> TaskType] /\ \A d \in Consumers : task'[d] \in {Off, task[d]}
    BY <1>0, <2>1, OffWaiting
  <2>3. TaskInv' /\ Busy' \subseteq Busy
    BY <1>0, <2>1, <2>2, OffWaiting, Idler DEF TaskInv, Idling
  <2>4. \A d \in Busy' : task'[d].event = task[d].event
    BY <2>2, OffWaiting DEF Busy
  <2> QED BY <2>1, <2>3, <2>4 DEF DrainInv, DrainedBeforeCancel
<1>10. CASE StopEnds
  <2>1. /\ consumer' = None /\ stopping' = "no"
        /\ UNCHANGED <<queue, task, mark, published>>
    BY <1>10 DEF StopEnds
  <2>2. Busy' = Busy
    BY <2>1 DEF Busy
  <2> QED BY <1>0, <2>1, <2>2 DEF DrainInv, TaskInv, DrainedBeforeCancel
<1>11. \/ Crash \/ Publish \/ Start \/ Stop \/ StopCancels \/ StopEnds
       \/ \E c \in Consumers : Take(c) \/ ConsumerDies(c) \/ \E h \in Handlers : HandlerEnds(c, h)
       \/ UNCHANGED <<queue, task, consumer, stopping, mark>>
          /\ published' \in {published, published + 1}
  BY DEF Next, MemoryStep, RedisStep, vars, shared, memoryBus, GetRedisBus, GetMemoryBus,
         Subscribe, XAdd, Read, ReadLost, Call, Return, Ack, AckFails, RedisStop
<1> QED
  BY <1>1, <1>2, <1>3, <1>4, <1>5, <1>6, <1>7, <1>8, <1>9, <1>10, <1>11

\* InMemoryBus.stop (bus.py:97): it does not cancel the consumer before every event that
\* was published before the call has been handled, whoever publishes meanwhile and however
\* many consumers are left running.
THEOREM DrainedTheorem == Spec => []DrainedBeforeCancel
<1>1. Init => DrainInv
  <2> SUFFICES ASSUME Init PROVE DrainInv
    OBVIOUS
  <2>1. /\ task = [c \in Consumers |-> Off] /\ consumer = None /\ stopping = "no" /\ mark = 0
        /\ published = 0
    BY DEF Init
  <2>2. /\ task \in [Consumers -> TaskType] /\ Busy = {}
        /\ \A c \in Consumers : task[c].pc = "off"
    BY <2>1, OffWaiting DEF Busy
  <2> QED BY <2>1, <2>2, FS_EmptySet DEF DrainInv, TaskInv, DrainedBeforeCancel
<1>2. Spec => [](BusInv /\ DrainInv)
  BY <1>1, InitOrdered, StepOrdered, DrainStep, PTL DEF Spec
<1>3. DrainInv => DrainedBeforeCancel
  BY DEF DrainInv
<1> QED BY <1>2, <1>3, PTL
=============================================================================
