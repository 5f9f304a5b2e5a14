------------------------------ MODULE EventBus ------------------------------
(***************************************************************************)
(* The event bus (src/core/bus.py): get_bus hands every caller the same    *)
(* bus, RedisStreamBus when a Redis url is given and Redis answers, and    *)
(* InMemoryBus otherwise.  One event type; an event is its number in the   *)
(* order of publication.  Redis itself (stream, group, cursor) survives    *)
(* the process, and other processes publish on it.                         *)
(* history, delivered and errors, which only tests read, are left out, and *)
(* so is the trimming of the stream at 100 000 messages.  get_bus is one   *)
(* step: its callers come one after the other (two that overlap would get  *)
(* a bus each, because it awaits start before it keeps the bus).           *)
(***************************************************************************)
EXTENDS Integers, Sequences, FiniteSets, SequencesExt

CONSTANTS
  Handlers,     \* handlers that subscribe, each once
  Consumers,    \* _consume tasks of the memory bus, the finished ones reused
  None,
  BatchSize,    \* count of xreadgroup
  MaxEvents,    \* bound of the model: events published
  MaxStops,     \* bound of the model: calls of stop
  MaxCrashes    \* bound of the model: restarts

ASSUME BusAssumption ==
  /\ None \notin Consumers
  /\ BatchSize \in Nat \ {0}
  /\ {MaxEvents, MaxStops, MaxCrashes} \subseteq Nat

VARIABLES
  backend,    \* the bus of get_bus: "none" before the first call
  handlers,   \* _handlers, in the order of subscription
  published,  \* events published so far
  handed,     \* history: the events each handler was called with, by backend
  stops, crashes,

  \* InMemoryBus
  queue,      \* _queue
  task,       \* of each consumer: its pc, its event, the handlers it waits for
  consumer,   \* _consumer
  stopping,   \* stop: "no", "draining", "woken" from the join, "cancelling"
  dying,      \* the consumer stop has cancelled and awaits
  mark,       \* history: events published when stop was called

  \* RedisStreamBus
  stream,     \* events of the Redis stream
  cursor,     \* the group's last delivered event, NoGroup before it is created
  batch,      \* messages read and not yet acknowledged
  pos,        \* handler of the first of them that runs or comes next
  rpc,        \* pc of _consume
  acked       \* messages acknowledged

shared == <<backend, handlers, stops, crashes>>
memoryBus == <<queue, task, consumer, stopping, dying, mark>>
redisBus == <<stream, cursor, batch, pos, rpc, acked>>
vars == <<shared, published, handed, memoryBus, redisBus>>

NoGroup == -1
Off == [pc |-> "off", event |-> 0, left |-> {}]
Waiting == [Off EXCEPT !.pc = "waiting"]

\* asyncio.Queue's count of unfinished events, which join waits for
Busy == {c \in Consumers : task[c].event # 0}
Pending == Len(queue)     \* mutant: the events taken off the queue do not count
Unfinished == Len(queue) + Cardinality(Busy)

Unread == {e \in stream : e > cursor}

Init ==
  /\ backend = "none" /\ handlers = <<>> /\ published = 0
  /\ handed = [s \in {"memory", "redis"} \X Handlers |-> <<>>]
  /\ stops = 0 /\ crashes = 0
  /\ queue = <<>> /\ task = [c \in Consumers |-> Off] /\ consumer = None
  /\ stopping = "no" /\ dying = None /\ mark = 0
  /\ stream = {} /\ cursor = NoGroup /\ batch = <<>> /\ pos = 1 /\ rpc = "off"
  /\ acked = {}

-----------------------------------------------------------------------------
(* get_bus, subscribe, and the end of the process *)

\* RedisStreamBus.start creates the group at "$", the end of the stream, or finds it
\* where it was
GetRedisBus ==
  /\ backend = "none"
  /\ backend' = "redis"
  /\ cursor' = IF cursor = NoGroup THEN published ELSE cursor
  /\ rpc' = "read"
  /\ UNCHANGED <<handlers, published, handed, stops, crashes, memoryBus, stream, batch, pos,
                 acked>>

\* No url, or Redis did not answer
GetMemoryBus ==
  /\ backend = "none"
  /\ backend' = "memory"
  /\ UNCHANGED <<handlers, published, handed, stops, crashes, memoryBus, redisBus>>

Subscribe(h) ==
  /\ backend # "none" /\ h \notin ToSet(handlers)
  /\ handlers' = Append(handlers, h)
  /\ UNCHANGED <<backend, published, handed, stops, crashes, memoryBus, redisBus>>

Crash ==
  /\ backend # "none" /\ crashes < MaxCrashes
  /\ crashes' = crashes + 1
  /\ backend' = "none" /\ handlers' = <<>>
  /\ queue' = <<>> /\ task' = [c \in Consumers |-> Off] /\ consumer' = None
  /\ stopping' = "no" /\ dying' = None /\ mark' = 0
  /\ batch' = <<>> /\ pos' = 1 /\ rpc' = "off"
  /\ UNCHANGED <<published, handed, stops, stream, cursor, acked>>

-----------------------------------------------------------------------------
(* InMemoryBus *)

\* _ensure_consumer: a new task when there is none or it has finished
EnsureConsumer ==
  IF consumer # None /\ task[consumer] # Off
  THEN UNCHANGED <<task, consumer>>
  ELSE \E c \in Consumers \ {dying} :
         /\ task[c] = Off
         /\ task' = [task EXCEPT ![c] = Waiting]
         /\ consumer' = c

\* publish: an event nobody subscribes to is dropped
Publish ==
  /\ backend = "memory" /\ published < MaxEvents
  /\ published' = published + 1
  /\ IF handlers = <<>> THEN UNCHANGED <<queue, task, consumer>>
     ELSE queue' = Append(queue, published') /\ EnsureConsumer
  /\ UNCHANGED <<shared, handed, stopping, dying, mark, redisBus>>

\* start
Start ==
  /\ backend = "memory" /\ EnsureConsumer
  /\ UNCHANGED <<shared, published, handed, queue, stopping, dying, mark, redisBus>>

\* A consumer takes an event off the queue and calls its handlers all at once
Took(c, event, rest) ==
  /\ task[c] = Waiting /\ queue # <<>>
  /\ queue' = rest
  /\ task' = [task EXCEPT ![c] = [pc |-> "handling", event |-> event, left |-> ToSet(handlers)]]
  /\ handed' = [s \in DOMAIN handed |->
                  IF s[1] = "memory" /\ s[2] \in ToSet(handlers)
                  THEN Append(handed[s], event) ELSE handed[s]]
  /\ UNCHANGED <<shared, published, consumer, stopping, dying, mark, redisBus>>

TakeNewest(c) == Took(c, Last(queue), Front(queue))     \* mutant: the queue is a LifoQueue

Take(c) == Took(c, Head(queue), Tail(queue))

\* task_done wakes the join when no event is unfinished
TaskDone == stopping' = IF stopping = "draining" /\ Unfinished = 1 THEN "woken" ELSE stopping

\* A handler returns or raises; after the last of them the consumer goes on
Ended(c, h, next) ==
  /\ task[c].pc = "handling" /\ h \in task[c].left
  /\ IF task[c].left = {h}
     THEN task' = [task EXCEPT ![c] = next] /\ TaskDone
     ELSE task' = [task EXCEPT ![c].left = @ \ {h}] /\ UNCHANGED stopping
  /\ UNCHANGED <<shared, published, handed, queue, consumer, dying, mark, redisBus>>

HandlerKills(c, h) ==     \* mutant: gather without return_exceptions, an error ends the task
  \E next \in {Waiting, Off} : Ended(c, h, next)

HandlerEnds(c, h) == Ended(c, h, Waiting)

\* stop, after the join: the consumer is cancelled and awaited
Cancel ==
  IF consumer = None THEN stopping' = "no" /\ UNCHANGED <<task, dying>>
  ELSE /\ task' = [task EXCEPT ![consumer] = [@ EXCEPT !.pc = "cancelled", !.left = {}]]
       /\ stopping' = "cancelling" /\ dying' = consumer

Stop ==
  /\ backend = "memory" /\ stopping = "no" /\ stops < MaxStops
  /\ stops' = stops + 1 /\ mark' = published
  /\ IF Unfinished = 0 THEN Cancel ELSE stopping' = "draining" /\ UNCHANGED <<task, dying>>
  /\ UNCHANGED <<backend, handlers, crashes, published, handed, queue, consumer, redisBus>>

\* join returns once woken, whatever was published since
StopCancels ==
  /\ stopping = "woken" /\ Cancel
  /\ UNCHANGED <<shared, published, handed, queue, consumer, mark, redisBus>>

ConsumerDies(c) ==
  /\ task[c].pc = "cancelled"
  /\ task' = [task EXCEPT ![c] = Off]
  /\ UNCHANGED <<shared, published, handed, queue, consumer, stopping, dying, mark, redisBus>>

\* Whatever _consumer names by now is forgotten
StopEnds ==
  /\ stopping = "cancelling" /\ task[dying] = Off
  /\ consumer' = None /\ stopping' = "no" /\ dying' = None
  /\ UNCHANGED <<shared, published, handed, queue, task, mark, redisBus>>

-----------------------------------------------------------------------------
(* RedisStreamBus *)

\* publish, of this process or of another one
XAdd ==
  /\ backend # "memory" /\ published < MaxEvents
  /\ published' = published + 1 /\ stream' = stream \cup {published'}
  /\ UNCHANGED <<shared, handed, memoryBus, cursor, batch, pos, rpc, acked>>

\* xreadgroup: the first messages that the group has not been given, BatchSize at most
FirstUnread(n, read) ==
  /\ \A i, j \in 1..n : i < j => read[i] < read[j]
  /\ ToSet(read) = {e \in Unread : e <= read[n]}
  /\ n = BatchSize \/ ToSet(read) = Unread

Read ==
  /\ rpc = "read"
  /\ \E n \in 1..BatchSize : \E read \in [1..n -> Unread] :
       FirstUnread(n, read) /\ batch' = read /\ cursor' = read[n]
  /\ pos' = 1 /\ rpc' = "call"
  /\ UNCHANGED <<shared, published, handed, memoryBus, stream, acked>>

\* The answer of xreadgroup is lost: the group's cursor has moved, and ">" never asks for
\* these messages again
ReadLost ==
  /\ rpc = "read"
  /\ \E n \in 1..BatchSize : \E read \in [1..n -> Unread] :
       FirstUnread(n, read) /\ cursor' = read[n]
  /\ UNCHANGED <<shared, published, handed, memoryBus, stream, batch, pos, rpc, acked>>

\* The next handler of the list as it is now, or the end of it
Call ==
  /\ rpc = "call"
  /\ IF pos > Len(handlers) THEN rpc' = "ack" /\ UNCHANGED handed
     ELSE rpc' = "wait" /\ handed' = [handed EXCEPT ![<<"redis", handlers[pos]>>] = Append(@, Head(batch))]
  /\ UNCHANGED <<shared, published, memoryBus, stream, cursor, batch, pos, acked>>

\* A handler that raises ends the list
Return ==
  /\ rpc = "wait"
  /\ \/ rpc' = "call" /\ pos' = pos + 1
     \/ rpc' = "ack" /\ UNCHANGED pos
  /\ UNCHANGED <<shared, published, handed, memoryBus, stream, cursor, batch, acked>>

Ack ==
  /\ rpc = "ack"
  /\ acked' = acked \cup {Head(batch)}
  /\ batch' = Tail(batch) /\ pos' = 1
  /\ rpc' = IF Len(batch) = 1 THEN "read" ELSE "call"
  /\ UNCHANGED <<shared, published, handed, memoryBus, stream, cursor>>

\* xack is outside the try: its error ends the task
AckFails ==
  /\ rpc = "ack" /\ rpc' = "dead"
  /\ UNCHANGED <<shared, published, handed, memoryBus, stream, cursor, batch, pos, acked>>

RedisStop ==
  /\ backend = "redis" /\ stops < MaxStops /\ rpc # "off"
  /\ stops' = stops + 1 /\ rpc' = "off"
  /\ UNCHANGED <<backend, handlers, crashes, published, handed, memoryBus, stream, cursor,
                 batch, pos, acked>>

-----------------------------------------------------------------------------
MemoryStep ==
  \/ \E c \in Consumers : Take(c) \/ ConsumerDies(c) \/ \E h \in Handlers : HandlerEnds(c, h)
  \/ StopCancels \/ StopEnds
RedisStep == Read \/ Call \/ Return \/ Ack

Next ==
  \/ GetRedisBus \/ GetMemoryBus \/ (\E h \in Handlers : Subscribe(h)) \/ Crash
  \/ Publish \/ Start \/ Stop \/ MemoryStep
  \/ XAdd \/ RedisStep \/ ReadLost \/ AckFails \/ RedisStop

\* The event loop runs what is ready, Redis answers in the end and handlers end
Spec == Init /\ [][Next]_vars /\ WF_vars(MemoryStep) /\ WF_vars(RedisStep)

-----------------------------------------------------------------------------
(* Properties *)

\* Both backends deliver in order and at most once, over stops that race with
\* publications (even when two consumers are left running) and over restarts.
Promise == INSTANCE Delivery WITH Subscribers <- {"memory", "redis"} \X Handlers
Delivers == Promise!Spec

\* The inductive invariants behind Delivers.  Nothing that waits in the memory bus was
\* published before what a handler was last called with; and a handler that the Redis
\* task has not called for its current message was last called with an earlier one.
LastHanded(s) == IF handed[s] = <<>> THEN 0 ELSE handed[s][Len(handed[s])]

HandedInv ==
  /\ published \in Nat
  /\ handed \in [{"memory", "redis"} \X Handlers -> Seq(Nat)]
  /\ \A s \in DOMAIN handed : LastHanded(s) \in 0..published

QueueInv ==
  /\ queue \in Seq(Nat)
  /\ \A i \in DOMAIN queue : queue[i] \in 1..published
  /\ \A i, j \in DOMAIN queue : i < j => queue[i] < queue[j]
  /\ \A i \in DOMAIN queue, h \in Handlers : LastHanded(<<"memory", h>>) < queue[i]

StreamInv ==
  /\ stream \subseteq 1..published /\ cursor \in NoGroup..published
  /\ handlers \in Seq(Handlers)
  /\ \A i, j \in DOMAIN handlers : handlers[i] = handlers[j] => i = j
  /\ \A h \in Handlers : LastHanded(<<"redis", h>>) <= cursor \/ LastHanded(<<"redis", h>>) = 0

\* The handlers of the list up to the last one called for the current message
Called == IF rpc = "call" THEN 1..pos - 1 ELSE 1..pos

BatchInv ==
  rpc \in {"call", "wait", "ack"} =>
    /\ pos \in Nat \ {0} /\ batch \in Seq(Nat) /\ batch # <<>>
    /\ \A i \in DOMAIN batch : batch[i] \in 1..cursor
    /\ \A i, j \in DOMAIN batch : i < j => batch[i] < batch[j]
    /\ \A h \in Handlers :
         /\ LastHanded(<<"redis", h>>) <= batch[1]
         /\ rpc # "ack" /\ (\A i \in Called \cap DOMAIN handlers : handlers[i] # h)
              => LastHanded(<<"redis", h>>) < batch[1]

\* "Attende la consegna di tutti gli eventi in coda" (bus.py:98): when stop cancels the
\* consumer, no event published before stop was called is waiting or half handled.
DrainedBeforeCancel ==
  stopping \in {"woken", "cancelling"} =>
    /\ \A e \in ToSet(queue) : e > mark
    /\ \A c \in Busy : task[c].event > mark

\* A queued or unread event leaves the queue or is given to the group in the end, unless the
\* bus was stopped, the process died, or the Redis task is dead of a failed xack.  On Redis
\* this is reading: the answer may still be lost, and a handler that raises ends its list.
EventTaken ==
  \A e \in 1..MaxEvents :
    (e \in ToSet(queue) \/ (e \in Unread /\ rpc # "off"))
      ~> (e \notin ToSet(queue) \cup Unread \/ stops > 0 \/ crashes > 0 \/ rpc = "dead")
=============================================================================
