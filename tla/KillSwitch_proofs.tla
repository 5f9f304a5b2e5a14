-------------------------- MODULE KillSwitch_proofs --------------------------
(***************************************************************************)
(* Proofs about the kill switch, for any number of tasks, calls, failed    *)
(* transactions and restarts.                                              *)
(***************************************************************************)
EXTENDS KillSwitch, FiniteSetTheorems, SequenceTheorems, TLAPS

(***************************************************************************)
(* The inductive invariant.  What the properties say of a quiet switch is  *)
(* true of a busy one only once the transactions that wait for the lock    *)
(* are accounted for: the lock serves its waiters in the order of their    *)
(* calls, so the last waiter that has still to write decides the state,    *)
(* and the waiters together decide whether a row will be open.             *)
(***************************************************************************)

Jobs ==
  [op : {"trigger"}, arg : Reasons, stage : {"write", "audit"}] \cup
  [op : {"clear"}, arg : {"RUNNING"}, stage : {"write", "audit"}] \cup
  [op : {"set"}, arg : Settable, stage : {"write", "audit"}] \cup
  [op : {"load"}, arg : {None}, stage : {"write"}] \cup
  {Idle}

Entries == {"trigger", "clear", "set"} \X (Reasons \cup States)

TypeInv ==
  /\ reason \in Reasons \cup {None} /\ state \in States
  /\ rows \in Seq(Reasons) /\ dbState \in States
  /\ trail \in Seq(Entries) /\ emitted \in Seq(Reasons)
  /\ lock \in Seq(Tasks) /\ job \in [Tasks -> Jobs]
  /\ seen \in (Reasons \cup {None}) \X (States \cup {"unread"})
  /\ calls \in Nat /\ faults \in Nat /\ crashes \in Nat
  /\ synced \in {"yes", "no", "fresh"} /\ resumed \in BOOLEAN

Queue == 1..Len(lock)
At(i) == job[lock[i]]

\* A task is at the lock exactly while it has a call, and once.
QueueInv ==
  /\ \A i, j \in Queue : lock[i] = lock[j] => i = j
  /\ \A t \in Tasks : job[t] # Idle <=> \E i \in Queue : lock[i] = t

\* What has been read was read by the holder, and is still so.
LastRow == IF rows = <<>> THEN None ELSE rows[Len(rows)]

ReadInv ==
  seen # NotRead => lock # <<>> /\ At(1).op = "load" /\ seen = <<LastRow, dbState>>

Writes(i) == At(i).stage = "write" /\ At(i).op # "load"
Clears(i) == Writes(i) /\ At(i).op = "clear"
Kills(i) == Writes(i) /\ At(i).op = "trigger"

\* After a restart nobody but a load is at the lock until one has ended; and while
\* memory and database are in step no load waits before a write.
LoadInv ==
  /\ synced = "fresh" => reason = None /\ \A i \in Queue : At(i).op = "load"
  /\ synced = "yes" => \A i, j \in Queue : Writes(i) /\ At(j).op = "load" => i < j

StateOf(op, arg) == IF op = "trigger" THEN "KILLED" ELSE arg

\* Will a row be open when the waiters have written
RowsToCome ==
  \/ rows # <<>> /\ \A i \in Queue : ~Clears(i)
  \/ \E i \in Queue : Kills(i) /\ \A j \in Queue : i < j => ~Clears(j)

\* The memory is what the database will be when the waiters have written.
AgreeInv ==
  synced = "yes" =>
    /\ \A i \in Queue : Writes(i) /\ (\A j \in Queue : i < j => ~Writes(j)) =>
         state = StateOf(At(i).op, At(i).arg)
    /\ (\A i \in Queue : ~Writes(i)) => state = dbState
    /\ reason # None => RowsToCome
    /\ RowsToCome /\ ~resumed => reason # None

Audits(i) == At(i).stage = "audit"

\* The kills announced are those audited, in their order.
Announced ==
  /\ Len(emitted) = Cardinality(AuditedKills(Len(trail)))
  /\ \A n \in AuditedKills(Len(trail)) :
       emitted[Cardinality(AuditedKills(n))] = trail[n][2]

\* The state in the database is the one the last audit row will tell of.
AuditInv ==
  faults = 0 /\ crashes = 0 =>
    /\ \A i \in Queue : Audits(i) /\ (\A j \in Queue : i < j => ~Audits(j)) =>
         dbState = StateOf(At(i).op, At(i).arg)
    /\ (\A i \in Queue : ~Audits(i)) /\ trail # <<>> =>
         dbState = StateOf(trail[Len(trail)][1], trail[Len(trail)][2])
    /\ Announced

SwitchInv == TypeInv /\ QueueInv /\ ReadInv /\ LoadInv /\ AgreeInv /\ AuditInv

(***************************************************************************)
(* The three ways a call changes the queue of the lock: a task joins at    *)
(* the end, the holder leaves, or the holder goes back to the end.         *)
(***************************************************************************)
Joined(t, j) ==
  job[t] = Idle /\ lock' = Append(lock, t) /\ job' = [job EXCEPT ![t] = j]

Left(t) == Holds(t) /\ lock' = Tail(lock) /\ job' = [job EXCEPT ![t] = Idle]

Requeued(t, j) ==
  Holds(t) /\ lock' = Append(Tail(lock), t) /\ job' = [job EXCEPT ![t] = j]

\* Where everyone is, and what everyone is doing, after a task has joined.
LEMMA JoinedQueue ==
  ASSUME TypeInv, QueueInv, NEW t \in Tasks, NEW j \in Jobs, Joined(t, j)
  PROVE  /\ lock' \in Seq(Tasks) /\ job' \in [Tasks -> Jobs]
         /\ Len(lock) \in Nat /\ Len(lock') = Len(lock) + 1
         /\ lock'[Len(lock) + 1] = t
         /\ \A i \in Nat : i = Len(lock) + 1 => At(i)' = j
         /\ \A i \in Queue : lock'[i] = lock[i] /\ lock[i] # t /\ At(i)' = At(i)
<1> USE DEF TypeInv
<1>1. /\ lock' \in Seq(Tasks) /\ job' \in [Tasks -> Jobs]
      /\ Len(lock) \in Nat /\ Len(lock') = Len(lock) + 1
      /\ lock'[Len(lock) + 1] = t
      /\ \A i \in Queue : lock'[i] = lock[i]
  BY DEF Joined, Queue
<1>2. \A i \in Queue : lock[i] # t /\ lock[i] \in Tasks
  BY DEF Joined, QueueInv, Queue
<1>3. \A i \in Nat : i = Len(lock) + 1 => At(i)' = j
  BY <1>1 DEF At, Joined
<1>4. \A i \in Queue : At(i)' = At(i)
  BY <1>1, <1>2 DEF At, Joined
<1> QED BY <1>1, <1>2, <1>3, <1>4

\* The holder stands first, nowhere else, and has something to do.
LEMMA HolderFirst ==
  ASSUME TypeInv, QueueInv, NEW t \in Tasks, Holds(t)
  PROVE  /\ Len(lock) \in Nat /\ Len(lock) >= 1 /\ 1 \in Queue
         /\ lock[1] = t /\ At(1) = job[t] /\ job[t] # Idle
         /\ \A i \in Queue : i # 1 => lock[i] # t
<1>1. Len(lock) \in Nat /\ Len(lock) >= 1 /\ 1 \in Queue /\ lock[1] = t
  BY DEF TypeInv, Holds, Queue
<1> QED BY <1>1 DEF QueueInv, At

\* After the holder has left, everyone has moved up by one.
LEMMA LeftQueue ==
  ASSUME TypeInv, QueueInv, NEW t \in Tasks, Left(t)
  PROVE  /\ lock' \in Seq(Tasks) /\ job' \in [Tasks -> Jobs]
         /\ Len(lock) \in Nat /\ Len(lock) >= 1 /\ Len(lock') = Len(lock) - 1
         /\ \A i \in 1..(Len(lock) - 1) :
              /\ i + 1 \in Queue /\ lock'[i] = lock[i + 1] /\ lock'[i] # t
              /\ At(i)' = At(i + 1)
<1>1. /\ Len(lock) \in Nat /\ Len(lock) >= 1 /\ \A i \in Queue : i # 1 => lock[i] # t
  BY HolderFirst DEF Left
<1>2. lock \in Seq(Tasks) /\ lock # <<>>
  BY <1>1 DEF TypeInv
<1>3. /\ lock' \in Seq(Tasks) /\ Len(lock') = Len(lock) - 1
      /\ \A i \in 1..(Len(lock) - 1) : lock'[i] = lock[i + 1]
  BY <1>2, HeadTailProperties DEF Left
<1>4. Idle \in Jobs
  BY DEF Jobs
<1>5. job' \in [Tasks -> Jobs]
  BY <1>4 DEF Left, TypeInv
<1>6. ASSUME NEW i \in 1..(Len(lock) - 1)
      PROVE  /\ i + 1 \in Queue /\ lock'[i] = lock[i + 1] /\ lock'[i] # t
             /\ At(i)' = At(i + 1)
  <2>1. i + 1 \in Queue /\ i + 1 # 1
    BY <1>1 DEF Queue
  <2>2. lock'[i] = lock[i + 1] /\ lock'[i] # t
    BY <1>1, <1>3, <2>1
  <2>3. lock[i + 1] \in Tasks
    BY <2>1, ElementOfSeq DEF TypeInv, Queue
  <2>4. At(i)' = At(i + 1)
    BY <2>2, <2>3 DEF At, Left, TypeInv
  <2> QED BY <2>1, <2>2, <2>4
<1> QED BY <1>1, <1>3, <1>5, <1>6

\* After the holder has gone to the end, everyone else has moved up by one.
LEMMA RequeuedQueue ==
  ASSUME TypeInv, QueueInv, NEW t \in Tasks, NEW j \in Jobs, Requeued(t, j)
  PROVE  /\ lock' \in Seq(Tasks) /\ job' \in [Tasks -> Jobs]
         /\ Len(lock) \in Nat /\ Len(lock) >= 1 /\ Len(lock') = Len(lock)
         /\ lock'[Len(lock)] = t
         /\ \A i \in Nat : i = Len(lock) => At(i)' = j
         /\ \A i \in 1..(Len(lock) - 1) :
              /\ i + 1 \in Queue /\ lock'[i] = lock[i + 1] /\ lock'[i] # t
              /\ At(i)' = At(i + 1)
<1>1. /\ Len(lock) \in Nat /\ Len(lock) >= 1 /\ \A i \in Queue : i # 1 => lock[i] # t
  BY HolderFirst DEF Requeued
<1>2. lock \in Seq(Tasks) /\ lock # <<>>
  BY <1>1 DEF TypeInv
<1> DEFINE rest == Tail(lock)
<1>3. /\ rest \in Seq(Tasks) /\ Len(rest) = Len(lock) - 1
      /\ \A i \in 1..(Len(lock) - 1) : rest[i] = lock[i + 1]
  BY <1>2, HeadTailProperties
<1>4. lock' = Append(rest, t)
  BY DEF Requeued
<1> HIDE DEF rest
<1>5. /\ lock' \in Seq(Tasks) /\ Len(lock') = Len(lock)
      /\ lock'[Len(lock)] = t
      /\ \A i \in 1..(Len(lock) - 1) : lock'[i] = lock[i + 1]
  BY <1>1, <1>3, <1>4
<1>6. job' \in [Tasks -> Jobs] /\ \A i \in Nat : i = Len(lock) => At(i)' = j
  BY <1>5 DEF Requeued, TypeInv, At
<1>7. ASSUME NEW i \in 1..(Len(lock) - 1)
      PROVE  /\ i + 1 \in Queue /\ lock'[i] = lock[i + 1] /\ lock'[i] # t
             /\ At(i)' = At(i + 1)
  <2>1. i + 1 \in Queue /\ i + 1 # 1
    BY <1>1 DEF Queue
  <2>2. lock'[i] = lock[i + 1] /\ lock'[i] # t
    BY <1>1, <1>5, <2>1
  <2>3. lock[i + 1] \in Tasks
    BY <2>1, ElementOfSeq DEF TypeInv, Queue
  <2>4. At(i)' = At(i + 1)
    BY <2>2, <2>3 DEF At, Requeued, TypeInv
  <2> QED BY <2>1, <2>2, <2>4
<1> QED BY <1>1, <1>5, <1>6, <1>7

\* Joining keeps the queue of the lock well formed ...
LEMMA JoinedKeepsQueue ==
  ASSUME TypeInv, QueueInv, NEW t \in Tasks, NEW j \in Jobs, j # Idle, Joined(t, j)
  PROVE  QueueInv'
<1> USE DEF TypeInv
<1> DEFINE n == Len(lock) + 1
<1>1. /\ n \in Nat /\ Len(lock') = n /\ lock'[n] = t
      /\ \A i \in Queue : lock'[i] = lock[i] /\ lock[i] # t
  BY JoinedQueue
<1>2. \A i \in 1..n : i \in Queue \/ i = n
  BY <1>1 DEF Queue
<1> HIDE DEF n
<1>3. \A i, k \in 1..n : lock'[i] = lock'[k] => i = k
  <2> SUFFICES ASSUME NEW i \in 1..n, NEW k \in 1..n, lock'[i] = lock'[k] PROVE i = k
    OBVIOUS
  <2>1. CASE i \in Queue /\ k \in Queue
    BY <2>1, <1>1 DEF QueueInv
  <2>2. CASE i = n \/ k = n
    BY <2>2, <1>1, <1>2
  <2> QED BY <2>1, <2>2, <1>2
<1>4. ASSUME NEW u \in Tasks
      PROVE  job'[u] # Idle <=> \E i \in 1..n : lock'[i] = u
  <2>1. CASE u = t
    <3>1. job'[t] = j
      BY DEF Joined
    <3>2. n \in 1..n
      BY <1>1, JoinedQueue DEF n
    <3> QED BY <2>1, <3>1, <3>2, <1>1
  <2>2. CASE u # t
    <3>1. job'[u] = job[u]
      BY <2>2 DEF Joined
    <3>2. \A i \in Queue : i \in 1..n
      BY JoinedQueue DEF n, Queue
    <3>3. (\E i \in 1..n : lock'[i] = u) <=> \E i \in Queue : lock[i] = u
      BY <1>1, <1>2, <2>2, <3>2
    <3> QED BY <3>1, <3>3 DEF QueueInv
  <2> QED BY <2>1, <2>2
<1> QED BY <1>1, <1>3, <1>4 DEF QueueInv, Queue

\* ... and so does leaving it ...
LEMMA LeftKeepsQueue ==
  ASSUME TypeInv, QueueInv, NEW t \in Tasks, Left(t)
  PROVE  QueueInv'
<1> DEFINE n == Len(lock) - 1
<1>0. Len(lock) \in Nat /\ Len(lock) >= 1 /\ Len(lock') = Len(lock) - 1
  BY LeftQueue
<1>1. /\ n \in Nat /\ Len(lock') = n
      /\ \A i \in 1..n : i + 1 \in Queue /\ lock'[i] = lock[i + 1] /\ lock'[i] # t
  <2>1. n \in Nat /\ Len(lock') = n
    BY <1>0
  <2>2. \A i \in 1..n : i + 1 \in Queue /\ lock'[i] = lock[i + 1] /\ lock'[i] # t
    BY LeftQueue
  <2> QED BY <2>1, <2>2
<1>2. lock[1] = t /\ \A i \in Queue : i # 1 => i - 1 \in 1..n /\ (i - 1) + 1 = i
  BY HolderFirst DEF Left, Queue
<1> HIDE DEF n
<1>3. \A i, k \in 1..n : lock'[i] = lock'[k] => i = k
  <2> SUFFICES ASSUME NEW i \in 1..n, NEW k \in 1..n, lock'[i] = lock'[k] PROVE i = k
    OBVIOUS
  <2>1. i + 1 = k + 1
    BY <1>1 DEF QueueInv
  <2> QED BY <2>1, <1>1
<1>4. ASSUME NEW u \in Tasks
      PROVE  job'[u] # Idle <=> \E i \in 1..n : lock'[i] = u
  <2>1. CASE u = t
    BY <2>1, <1>1 DEF Left, TypeInv
  <2>2. CASE u # t
    <3>1. job'[u] = job[u]
      BY <2>2 DEF Left
    <3>2. ASSUME NEW i \in Queue, lock[i] = u
          PROVE  i - 1 \in 1..n /\ lock'[i - 1] = u
      <4>1. i # 1
        BY <3>2, <2>2, <1>2
      <4> QED BY <4>1, <3>2, <1>1, <1>2
    <3>3. (\E i \in 1..n : lock'[i] = u) <=> \E i \in Queue : lock[i] = u
      BY <1>1, <3>2
    <3> QED BY <3>1, <3>3 DEF QueueInv
  <2> QED BY <2>1, <2>2
<1> QED BY <1>1, <1>3, <1>4 DEF QueueInv, Queue

\* ... and going back to its end.
LEMMA RequeuedKeepsQueue ==
  ASSUME TypeInv, QueueInv, NEW t \in Tasks, NEW j \in Jobs, j # Idle, Requeued(t, j)
  PROVE  QueueInv'
<1> USE DEF TypeInv
<1> DEFINE n == Len(lock)
<1>1. /\ n \in Nat /\ n >= 1 /\ Len(lock') = n /\ lock'[n] = t
      /\ \A i \in 1..(n - 1) : i + 1 \in Queue /\ lock'[i] = lock[i + 1] /\ lock'[i] # t
  BY RequeuedQueue
<1>2. lock[1] = t /\ \A i \in Queue : i # 1 => i - 1 \in 1..(n - 1) /\ (i - 1) + 1 = i
  BY HolderFirst DEF Requeued, Queue
<1>3. Queue = 1..n
  BY DEF Queue
<1> HIDE DEF n
<1>4. \A i \in 1..n : i # n => i \in 1..(n - 1)
  BY <1>1
<1>5. \A i, k \in 1..n : lock'[i] = lock'[k] => i = k
  <2> SUFFICES ASSUME NEW i \in 1..n, NEW k \in 1..n, lock'[i] = lock'[k] PROVE i = k
    OBVIOUS
  <2>1. CASE i = n \/ k = n
    BY <2>1, <1>1, <1>4
  <2>2. CASE i # n /\ k # n
    <3>1. i + 1 = k + 1
      BY <2>2, <1>1, <1>4 DEF QueueInv
    <3> QED BY <3>1, <1>1
  <2> QED BY <2>1, <2>2
<1>6. ASSUME NEW u \in Tasks
      PROVE  job'[u] # Idle <=> \E i \in 1..n : lock'[i] = u
  <2>1. CASE u = t
    <3>1. job'[t] = j /\ n \in 1..n
      BY <1>1 DEF Requeued
    <3> QED BY <2>1, <3>1, <1>1
  <2>2. CASE u # t
    <3>1. job'[u] = job[u]
      BY <2>2 DEF Requeued
    <3>2. ASSUME NEW i \in Queue, lock[i] = u
          PROVE  i - 1 \in 1..n /\ lock'[i - 1] = u
      <4>1. i # 1
        BY <3>2, <2>2, <1>2
      <4>2. i - 1 \in 1..(n - 1)
        BY <4>1, <1>2
      <4> QED BY <4>1, <4>2, <3>2, <1>1, <1>2
    <3>3. ASSUME NEW i \in 1..n, lock'[i] = u
          PROVE  i + 1 \in Queue /\ lock[i + 1] = u
      <4>1. i # n
        BY <3>3, <2>2, <1>1
      <4> QED BY <4>1, <3>3, <1>1, <1>4
    <3>4. (\E i \in 1..n : lock'[i] = u) <=> \E i \in Queue : lock[i] = u
      BY <3>2, <3>3
    <3> QED BY <3>1, <3>4 DEF QueueInv
  <2> QED BY <2>1, <2>2
<1> QED BY <1>1, <1>5, <1>6 DEF QueueInv, Queue

(***************************************************************************)
(* The same three changes as the invariants about the waiters see them.    *)
(***************************************************************************)
LEMMA JoinedView ==
  ASSUME TypeInv, QueueInv, NEW t \in Tasks, NEW j \in Jobs, Joined(t, j)
  PROVE  \E n \in Nat :
           /\ n >= 1 /\ Queue = 1..(n - 1) /\ Queue' = 1..n /\ At(n)' = j
           /\ \A i \in 1..(n - 1) : At(i)' = At(i)
<1>0. PICK n \in Nat : n = Len(lock) + 1
  BY JoinedQueue
<1>1. n >= 1 /\ n - 1 = Len(lock) /\ Len(lock') = n
  BY <1>0, JoinedQueue
<1>2. Queue = 1..(n - 1) /\ Queue' = 1..n
  BY <1>1 DEF Queue
<1>3. At(n)' = j
  BY <1>0, JoinedQueue
<1>4. \A i \in Queue : At(i)' = At(i)
  BY JoinedQueue
<1> QED BY <1>1, <1>2, <1>3, <1>4

LEMMA LeftView ==
  ASSUME TypeInv, QueueInv, NEW t \in Tasks, Left(t)
  PROVE  \E n \in Nat :
           /\ n >= 1 /\ Queue = 1..n /\ Queue' = 1..(n - 1) /\ At(1) = job[t]
           /\ \A i \in 1..(n - 1) : At(i)' = At(i + 1)
<1>0. PICK n \in Nat : n = Len(lock)
  BY LeftQueue
<1>1. n >= 1 /\ Len(lock') = n - 1
  BY <1>0, LeftQueue
<1>2. Queue = 1..n /\ Queue' = 1..(n - 1)
  BY <1>0, <1>1 DEF Queue
<1>3. \A i \in 1..(n - 1) : At(i)' = At(i + 1)
  BY <1>0, LeftQueue
<1>4. At(1) = job[t]
  BY HolderFirst DEF Left
<1> QED BY <1>1, <1>2, <1>3, <1>4

LEMMA RequeuedView ==
  ASSUME TypeInv, QueueInv, NEW t \in Tasks, NEW j \in Jobs, Requeued(t, j)
  PROVE  \E n \in Nat :
           /\ n >= 1 /\ Queue = 1..n /\ Queue' = 1..n /\ At(1) = job[t] /\ At(n)' = j
           /\ \A i \in 1..(n - 1) : At(i)' = At(i + 1)
<1>0. PICK n \in Nat : n = Len(lock)
  BY RequeuedQueue
<1>1. n >= 1 /\ Len(lock') = n
  BY <1>0, RequeuedQueue
<1>2. Queue = 1..n /\ Queue' = 1..n
  BY <1>0, <1>1 DEF Queue
<1>3. \A i \in 1..(n - 1) : At(i)' = At(i + 1)
  BY <1>0, RequeuedQueue
<1>4. At(1) = job[t]
  BY HolderFirst DEF Requeued
<1>5. At(n)' = j
  BY <1>0, RequeuedQueue
<1> QED BY <1>1, <1>2, <1>3, <1>4, <1>5

(***************************************************************************)
(* The invariants about the waiters, one lemma for each way they change.   *)
(***************************************************************************)

\* The memory changes when the call joins the queue, and the queue with it.
LEMMA CallKeeps ==
  ASSUME SwitchInv, NEW t \in Tasks, NEW j \in Jobs, Joined(t, j),
         j.stage = "write", j.op \in {"trigger", "clear", "set"},
         UNCHANGED <<rows, dbState, trail, emitted, faults, crashes>>,
         synced' = IF synced = "yes" /\ ~Loading THEN "yes" ELSE "no",
         state' = StateOf(j.op, j.arg),
         j.op = "trigger" => reason' # None,
         j.op = "clear" => reason' = None,
         j.op = "set" => \/ reason' = None /\ resumed' = TRUE
                         \/ reason' = reason /\ resumed' = resumed
  PROVE  LoadInv' /\ AgreeInv' /\ AuditInv'
<1>0. TypeInv /\ QueueInv /\ LoadInv /\ AgreeInv /\ AuditInv
  BY DEF SwitchInv
<1>1. PICK n \in Nat :
        /\ n >= 1 /\ Queue = 1..(n - 1) /\ Queue' = 1..n /\ At(n)' = j
        /\ \A i \in 1..(n - 1) : At(i)' = At(i)
  BY <1>0, JoinedView
<1>2. \A i \in 1..n : i = n \/ i \in 1..(n - 1)
  BY <1>1
<1>3. /\ Writes(n)' /\ ~Audits(n)'
      /\ Clears(n)' <=> j.op = "clear"
      /\ Kills(n)' <=> j.op = "trigger"
  BY <1>1 DEF Writes, Audits, Clears, Kills
<1>4. \A i \in 1..(n - 1) : /\ Writes(i)' <=> Writes(i)
                            /\ Audits(i)' <=> Audits(i)
                            /\ Clears(i)' <=> Clears(i)
                            /\ Kills(i)' <=> Kills(i)
  BY <1>1 DEF Writes, Audits, Clears, Kills
<1>5. LoadInv'
  <2>1. synced' # "fresh"
    OBVIOUS
  <2>2. ASSUME synced' = "yes", NEW i \in 1..n, NEW k \in 1..n, At(k)'.op = "load"
        PROVE  FALSE
    <3>1. k \in Queue /\ At(k).op = "load"
      BY <2>2, <1>1, <1>2
    <3>2. lock[k] \in Tasks
      BY <3>1, <1>0, ElementOfSeq DEF TypeInv, Queue
    <3> QED BY <3>1, <3>2, <2>2 DEF Loading, At
  <2> QED BY <2>1, <2>2, <1>1 DEF LoadInv
<1>6. AgreeInv'
  <2> SUFFICES ASSUME synced = "yes" PROVE AgreeInv'
    BY DEF AgreeInv
  <2>1. ASSUME NEW i \in 1..n, Writes(i)', \A k \in 1..n : i < k => ~Writes(k)'
        PROVE  state' = StateOf(At(i)'.op, At(i)'.arg)
    <3>1. i = n
      BY <2>1, <1>1, <1>2, <1>3
    <3> QED BY <3>1, <1>1
  <2>2. n \in 1..n /\ Writes(n)'
    BY <1>1, <1>3
  <2>3. RowsToCome' <=> j.op = "trigger" \/ (j.op = "set" /\ RowsToCome)
    <3> DEFINE open == \/ rows # <<>> /\ \A i \in 1..n : ~Clears(i)'
                       \/ \E i \in 1..n : Kills(i)' /\ \A k \in 1..n : i < k => ~Clears(k)'
               was == \/ rows # <<>> /\ \A i \in 1..(n - 1) : ~Clears(i)
                      \/ \E i \in 1..(n - 1) :
                           Kills(i) /\ \A k \in 1..(n - 1) : i < k => ~Clears(k)
    <3>1. (RowsToCome' <=> open) /\ (RowsToCome <=> was)
      BY <1>1 DEF RowsToCome
    <3>2. n \in 1..n /\ \A i \in 1..(n - 1) : i \in 1..n /\ i < n
      BY <1>1
    <3>3. \A i \in 1..n : ~(n < i)
      BY <1>1
    <3>4. CASE j.op = "trigger"
      BY <3>1, <3>2, <3>3, <3>4, <1>3
    <3>5. CASE j.op = "clear"
      BY <3>1, <3>2, <3>5, <1>2, <1>3
    <3>6. CASE j.op = "set"
      BY <3>1, <3>2, <3>6, <1>2, <1>3, <1>4
    <3> QED BY <3>4, <3>5, <3>6
  <2>4. reason' # None => RowsToCome'
    BY <2>3, <1>0 DEF AgreeInv
  <2>5. RowsToCome' /\ ~resumed' => reason' # None
    BY <2>3, <1>0 DEF AgreeInv
  <2> QED BY <2>1, <2>2, <2>4, <2>5, <1>1 DEF AgreeInv
<1>7. AuditInv'
  <2> SUFFICES ASSUME faults = 0, crashes = 0 PROVE AuditInv'
    BY DEF AuditInv
  <2>1. ASSUME NEW i \in 1..n, Audits(i)', \A k \in 1..n : i < k => ~Audits(k)'
        PROVE  dbState' = StateOf(At(i)'.op, At(i)'.arg)
    <3>1. i \in Queue /\ Audits(i) /\ At(i)' = At(i)
      BY <2>1, <1>1, <1>2, <1>3, <1>4
    <3>2. \A k \in Queue : i < k => ~Audits(k)
      BY <2>1, <1>1, <1>4
    <3> QED BY <3>1, <3>2, <1>0 DEF AuditInv
  <2>2. (\A i \in 1..n : ~Audits(i)') => \A i \in Queue : ~Audits(i)
    BY <1>1, <1>4
  <2>3. \A k : AuditedKills(k)' = AuditedKills(k)
    BY DEF AuditedKills
  <2> QED BY <2>1, <2>2, <2>3, <1>0, <1>1 DEF AuditInv, Announced, AuditedKills
<1> QED BY <1>5, <1>6, <1>7

\* A load that joins changes nothing else.
LEMMA LoadCallKeeps ==
  ASSUME SwitchInv, NEW t \in Tasks, NEW j \in Jobs, Joined(t, j), j.op = "load",
         UNCHANGED <<memory, rows, dbState, trail, emitted, faults, crashes, synced, resumed>>
  PROVE  LoadInv' /\ AgreeInv' /\ AuditInv'
<1>0. TypeInv /\ QueueInv /\ LoadInv /\ AgreeInv /\ AuditInv
  BY DEF SwitchInv
<1>1. PICK n \in Nat :
        /\ n >= 1 /\ Queue = 1..(n - 1) /\ Queue' = 1..n /\ At(n)' = j
        /\ \A i \in 1..(n - 1) : At(i)' = At(i)
  BY <1>0, JoinedView
<1>2. \A i \in 1..n : i = n \/ i \in 1..(n - 1)
  BY <1>1
<1>3. ~Writes(n)' /\ ~Audits(n)' /\ ~Clears(n)' /\ ~Kills(n)'
  <2>1. j.stage = "write"
    BY DEF Jobs, Idle
  <2> QED BY <2>1, <1>1 DEF Writes, Audits, Clears, Kills
<1>4. \A i \in 1..(n - 1) : /\ i \in 1..n /\ i < n
                            /\ Writes(i)' <=> Writes(i)
                            /\ Audits(i)' <=> Audits(i)
                            /\ Clears(i)' <=> Clears(i)
                            /\ Kills(i)' <=> Kills(i)
  BY <1>1 DEF Writes, Audits, Clears, Kills
<1>5. LoadInv'
  <2>1. synced' = "fresh" => reason' = None /\ \A i \in 1..n : At(i)'.op = "load"
    BY <1>0, <1>1, <1>2 DEF LoadInv, memory
  <2>2. ASSUME synced' = "yes", NEW i \in 1..n, NEW k \in 1..n, Writes(i)', At(k)'.op = "load"
        PROVE  i < k
    <3>1. i \in 1..(n - 1) /\ Writes(i)
      BY <2>2, <1>2, <1>3, <1>4
    <3>2. CASE k = n
      BY <3>1, <3>2
    <3>3. CASE k \in 1..(n - 1)
      BY <3>1, <3>3, <2>2, <1>0, <1>1 DEF LoadInv
    <3> QED BY <3>2, <3>3, <1>2
  <2> QED BY <2>1, <2>2, <1>1 DEF LoadInv
<1>6. AgreeInv'
  <2> SUFFICES ASSUME synced = "yes" PROVE AgreeInv'
    BY DEF AgreeInv
  <2>1. ASSUME NEW i \in 1..n, Writes(i)', \A k \in 1..n : i < k => ~Writes(k)'
        PROVE  state' = StateOf(At(i)'.op, At(i)'.arg)
    <3>1. i \in Queue /\ Writes(i) /\ At(i)' = At(i)
      BY <2>1, <1>1, <1>2, <1>3, <1>4
    <3>2. \A k \in Queue : i < k => ~Writes(k)
      BY <2>1, <1>1, <1>4
    <3> QED BY <3>1, <3>2, <1>0 DEF AgreeInv, memory
  <2>2. (\A i \in 1..n : ~Writes(i)') => state' = dbState'
    BY <1>0, <1>1, <1>4 DEF AgreeInv, memory
  <2>3. RowsToCome' <=> RowsToCome
    <3> DEFINE open == \/ rows # <<>> /\ \A i \in 1..n : ~Clears(i)'
                       \/ \E i \in 1..n : Kills(i)' /\ \A k \in 1..n : i < k => ~Clears(k)'
               was == \/ rows # <<>> /\ \A i \in 1..(n - 1) : ~Clears(i)
                      \/ \E i \in 1..(n - 1) :
                           Kills(i) /\ \A k \in 1..(n - 1) : i < k => ~Clears(k)
    <3>1. (RowsToCome' <=> open) /\ (RowsToCome <=> was)
      BY <1>1 DEF RowsToCome
    <3> QED BY <3>1, <1>2, <1>3, <1>4
  <2> QED BY <2>1, <2>2, <2>3, <1>0, <1>1 DEF AgreeInv, memory
<1>7. AuditInv'
  <2> SUFFICES ASSUME faults = 0, crashes = 0 PROVE AuditInv'
    BY DEF AuditInv
  <2>1. ASSUME NEW i \in 1..n, Audits(i)', \A k \in 1..n : i < k => ~Audits(k)'
        PROVE  dbState' = StateOf(At(i)'.op, At(i)'.arg)
    <3>1. i \in Queue /\ Audits(i) /\ At(i)' = At(i)
      BY <2>1, <1>1, <1>2, <1>3, <1>4
    <3>2. \A k \in Queue : i < k => ~Audits(k)
      BY <2>1, <1>1, <1>4
    <3> QED BY <3>1, <3>2, <1>0 DEF AuditInv
  <2>2. (\A i \in 1..n : ~Audits(i)') => \A i \in Queue : ~Audits(i)
    BY <1>1, <1>4
  <2> QED BY <2>1, <2>2, <1>0, <1>1 DEF AuditInv, Announced, AuditedKills
<1> QED BY <1>5, <1>6, <1>7

\* Who leaves without a transaction of its own to write leaves memory and database as
\* close as they were.
LEMMA LeavingKeeps ==
  ASSUME SwitchInv, NEW t \in Tasks, Left(t), ~Writes(1), UNCHANGED <<rows, dbState>>
  PROVE  /\ RowsToCome' <=> RowsToCome
         /\ UNCHANGED <<reason, synced>> => LoadInv'
         /\ UNCHANGED <<memory, synced, resumed>> => AgreeInv'
<1>0. TypeInv /\ QueueInv /\ LoadInv /\ AgreeInv
  BY DEF SwitchInv
<1>1. PICK n \in Nat :
        /\ n >= 1 /\ Queue = 1..n /\ Queue' = 1..(n - 1) /\ At(1) = job[t]
        /\ \A i \in 1..(n - 1) : At(i)' = At(i + 1)
  BY <1>0, LeftView
<1>2. \A i \in 1..(n - 1) : /\ i + 1 \in 1..n
                            /\ Writes(i)' <=> Writes(i + 1)
                            /\ Clears(i)' <=> Clears(i + 1)
                            /\ Kills(i)' <=> Kills(i + 1)
  BY <1>1 DEF Writes, Clears, Kills
<1>3. \A i \in 1..n : i = 1 \/ (i - 1 \in 1..(n - 1) /\ (i - 1) + 1 = i)
  BY <1>1
<1>4. ~Writes(1) /\ ~Clears(1) /\ ~Kills(1)
  BY DEF Clears, Kills
<1>5. RowsToCome' <=> RowsToCome
  <2>1. RowsToCome' => RowsToCome
    <3>1. CASE rows # <<>> /\ \A i \in Queue' : ~Clears(i)'
      <4>1. ASSUME NEW i \in Queue, i # 1 PROVE ~Clears(i)
        <5>1. i - 1 \in 1..(n - 1) /\ (i - 1) + 1 = i
          BY <4>1, <1>1, <1>3
        <5> QED BY <5>1, <3>1, <1>1, <1>2
      <4> QED BY <4>1, <3>1, <1>4 DEF RowsToCome
    <3>2. ASSUME NEW i \in Queue', Kills(i)', \A k \in Queue' : i < k => ~Clears(k)'
          PROVE  RowsToCome
      <4>1. i + 1 \in Queue /\ Kills(i + 1)
        BY <3>2, <1>1, <1>2
      <4>2. ASSUME NEW k \in Queue, i + 1 < k PROVE ~Clears(k)
        <5>1. k - 1 \in 1..(n - 1) /\ (k - 1) + 1 = k /\ i < k - 1
          BY <4>2, <3>2, <1>1, <1>3
        <5> QED BY <5>1, <3>2, <1>1, <1>2
      <4> QED BY <4>1, <4>2 DEF RowsToCome
    <3> QED BY <3>1, <3>2 DEF RowsToCome
  <2>2. RowsToCome => RowsToCome'
    <3>1. CASE rows # <<>> /\ \A i \in Queue : ~Clears(i)
      <4>1. \A i \in Queue' : ~Clears(i)'
        BY <3>1, <1>1, <1>2
      <4> QED BY <4>1, <3>1 DEF RowsToCome
    <3>2. ASSUME NEW i \in Queue, Kills(i), \A k \in Queue : i < k => ~Clears(k)
          PROVE  RowsToCome'
      <4>1. i - 1 \in Queue' /\ (i - 1) + 1 = i
        BY <3>2, <1>1, <1>3, <1>4
      <4>2. Kills(i - 1)'
        BY <4>1, <3>2, <1>1, <1>2
      <4>3. \A k \in Queue' : i - 1 < k => ~Clears(k)'
        BY <4>1, <3>2, <1>1, <1>2
      <4> QED BY <4>1, <4>2, <4>3 DEF RowsToCome
    <3> QED BY <3>1, <3>2 DEF RowsToCome
  <2> QED BY <2>1, <2>2
<1>6. ASSUME UNCHANGED <<reason, synced>> PROVE LoadInv'
  <2>1. synced' = "fresh" => reason' = None /\ \A i \in Queue' : At(i)'.op = "load"
    BY <1>6, <1>0, <1>1, <1>2 DEF LoadInv
  <2>2. ASSUME synced' = "yes", NEW i \in Queue', NEW k \in Queue',
               Writes(i)', At(k)'.op = "load"
        PROVE  i < k
    <3>1. i + 1 < k + 1
      BY <2>2, <1>6, <1>0, <1>1, <1>2 DEF LoadInv
    <3> QED BY <3>1, <1>1
  <2> QED BY <2>1, <2>2 DEF LoadInv
<1>7. ASSUME UNCHANGED <<memory, synced, resumed>> PROVE AgreeInv'
  <2> SUFFICES ASSUME synced = "yes" PROVE AgreeInv'
    BY <1>7 DEF AgreeInv
  <2>1. ASSUME NEW i \in Queue', Writes(i)', \A k \in Queue' : i < k => ~Writes(k)'
        PROVE  state' = StateOf(At(i)'.op, At(i)'.arg)
    <3>1. i + 1 \in Queue /\ Writes(i + 1) /\ At(i)' = At(i + 1)
      BY <2>1, <1>1, <1>2
    <3>2. ASSUME NEW k \in Queue, i + 1 < k PROVE ~Writes(k)
      <4>1. k - 1 \in Queue' /\ (k - 1) + 1 = k /\ i < k - 1
        BY <3>2, <2>1, <1>1, <1>3
      <4> QED BY <4>1, <2>1, <1>1, <1>2
    <3> QED BY <3>1, <3>2, <1>0, <1>7 DEF AgreeInv, memory
  <2>2. ASSUME \A i \in Queue' : ~Writes(i)' PROVE state' = dbState'
    <3>1. ASSUME NEW i \in Queue, i # 1 PROVE ~Writes(i)
      <4>1. i - 1 \in 1..(n - 1) /\ (i - 1) + 1 = i
        BY <3>1, <1>1, <1>3
      <4> QED BY <4>1, <2>2, <1>1, <1>2
    <3> QED BY <3>1, <1>0, <1>4, <1>7 DEF AgreeInv, memory
  <2> QED BY <2>1, <2>2, <1>5, <1>0, <1>7 DEF AgreeInv, memory
<1> QED BY <1>5, <1>6, <1>7

\* The holder writes what the memory has said since its call, and goes back to the end
\* of the queue for its audit row.
LEMMA CommitKeeps ==
  ASSUME SwitchInv, NEW t \in Tasks,
         job[t].stage = "write", job[t].op \in {"trigger", "clear", "set"},
         Requeued(t, [job[t] EXCEPT !.stage = "audit"]),
         rows' = Written(job[t]).rows, dbState' = Written(job[t]).state,
         UNCHANGED <<memory, trail, emitted, faults, crashes, synced, resumed>>
  PROVE  LoadInv' /\ AgreeInv' /\ AuditInv'
<1>0. TypeInv /\ QueueInv /\ LoadInv /\ AgreeInv /\ AuditInv
  BY DEF SwitchInv
<1> DEFINE j == [job[t] EXCEPT !.stage = "audit"]
<1>1. /\ job[t] \in Jobs /\ j \in Jobs /\ j.stage = "audit"
      /\ j.op = job[t].op /\ j.arg = job[t].arg
  <2>1. job[t] \in Jobs
    BY <1>0 DEF TypeInv
  <2>2. CASE job[t].op = "trigger"
    BY <2>1, <2>2 DEF Jobs, Idle
  <2>3. CASE job[t].op = "clear"
    BY <2>1, <2>3 DEF Jobs, Idle
  <2>4. CASE job[t].op = "set"
    BY <2>1, <2>4 DEF Jobs, Idle
  <2> QED BY <2>1, <2>2, <2>3, <2>4
<1> HIDE DEF j
<1>2. PICK n \in Nat :
        /\ n >= 1 /\ Queue = 1..n /\ Queue' = 1..n /\ At(1) = job[t] /\ At(n)' = j
        /\ \A i \in 1..(n - 1) : At(i)' = At(i + 1)
  BY <1>0, <1>1, RequeuedView DEF j
<1>3. \A i \in 1..(n - 1) : /\ i + 1 \in 1..n /\ i \in 1..n
                            /\ Writes(i)' <=> Writes(i + 1)
                            /\ Audits(i)' <=> Audits(i + 1)
                            /\ Clears(i)' <=> Clears(i + 1)
                            /\ Kills(i)' <=> Kills(i + 1)
  BY <1>2 DEF Writes, Audits, Clears, Kills
<1>4. \A i \in 1..n : /\ i = 1 \/ (i - 1 \in 1..(n - 1) /\ (i - 1) + 1 = i)
                      /\ i = n \/ i \in 1..(n - 1)
  BY <1>2
<1>5. /\ Writes(1)
      /\ Clears(1) <=> job[t].op = "clear"
      /\ Kills(1) <=> job[t].op = "trigger"
  BY <1>2 DEF Writes, Clears, Kills
<1>6. Audits(n)' /\ ~Writes(n)' /\ ~Clears(n)' /\ ~Kills(n)' /\ n \in 1..n
  BY <1>1, <1>2 DEF Audits, Writes, Clears, Kills
<1>7. /\ dbState' = StateOf(job[t].op, job[t].arg)
      /\ job[t].op = "trigger" => rows' # <<>>
      /\ job[t].op = "clear" => rows' = <<>>
      /\ job[t].op = "set" => rows' = rows
  <2>1. rows \in Seq(Reasons)
    BY <1>0 DEF TypeInv
  <2>2. job[t].op = "trigger" => rows' = Append(rows, job[t].arg) /\ dbState' = "KILLED"
    BY DEF Written
  <2>3. job[t].op = "clear" => rows' = <<>> /\ dbState' = "RUNNING" /\ job[t].arg = "RUNNING"
    BY <1>1 DEF Written, Jobs, Idle
  <2>4. job[t].op = "set" => rows' = rows /\ dbState' = job[t].arg
    BY DEF Written
  <2>5. job[t].op = "trigger" => job[t].arg \in Reasons
    BY <1>1 DEF Jobs, Idle
  <2>6. job[t].op = "trigger" => rows' # <<>>
    BY <2>1, <2>2, <2>5
  <2> QED BY <2>2, <2>3, <2>4, <2>6 DEF StateOf
<1>8. RowsToCome' <=> RowsToCome
  <2>1. ASSUME RowsToCome' PROVE RowsToCome
    <3>1. CASE rows' # <<>> /\ \A i \in Queue' : ~Clears(i)'
      <4>1. ASSUME NEW i \in Queue, i # 1 PROVE ~Clears(i)
        <5>1. i - 1 \in 1..(n - 1) /\ (i - 1) + 1 = i
          BY <4>1, <1>2, <1>4
        <5> QED BY <5>1, <3>1, <1>2, <1>3
      <4>2. 1 \in Queue /\ \A i \in Queue : 1 < i => ~Clears(i)
        BY <4>1, <1>2
      <4>3. CASE job[t].op = "trigger"
        BY <4>2, <4>3, <1>5 DEF RowsToCome
      <4>4. CASE job[t].op = "set"
        BY <4>1, <4>4, <3>1, <1>5, <1>7 DEF RowsToCome
      <4>5. CASE job[t].op = "clear"
        BY <4>5, <3>1, <1>7
      <4> QED BY <4>3, <4>4, <4>5
    <3>2. ASSUME NEW i \in Queue', Kills(i)', \A k \in Queue' : i < k => ~Clears(k)'
          PROVE  RowsToCome
      <4>1. i \in 1..(n - 1) /\ i + 1 \in Queue /\ Kills(i + 1)
        BY <3>2, <1>2, <1>3, <1>4, <1>6
      <4>2. ASSUME NEW k \in Queue, i + 1 < k PROVE ~Clears(k)
        <5>1. k - 1 \in 1..(n - 1) /\ (k - 1) + 1 = k /\ i < k - 1
          BY <4>1, <4>2, <1>2, <1>4
        <5> QED BY <5>1, <3>2, <1>2, <1>3
      <4> QED BY <4>1, <4>2 DEF RowsToCome
    <3> QED BY <2>1, <3>1, <3>2 DEF RowsToCome
  <2>2. ASSUME RowsToCome PROVE RowsToCome'
    <3>1. ASSUME \A i \in Queue : i # 1 => ~Clears(i)
          PROVE  \A i \in Queue' : ~Clears(i)'
      <4> SUFFICES ASSUME NEW i \in 1..n PROVE ~Clears(i)'
        BY <1>2
      <4>1. CASE i = n
        BY <4>1, <1>6
      <4>2. CASE i \in 1..(n - 1)
        <5>1. i + 1 # 1 /\ i + 1 \in Queue
          BY <4>2, <1>2, <1>3
        <5> QED BY <4>2, <5>1, <3>1, <1>3
      <4> QED BY <4>1, <4>2, <1>4
    <3>2. CASE rows # <<>> /\ \A i \in Queue : ~Clears(i)
      <4>1. rows' # <<>>
        BY <3>2, <1>2, <1>5, <1>7
      <4> QED BY <3>1, <3>2, <4>1 DEF RowsToCome
    <3>3. ASSUME NEW i \in Queue, Kills(i), \A k \in Queue : i < k => ~Clears(k)
          PROVE  RowsToCome'
      <4>1. CASE i = 1
        <5>1. rows' # <<>>
          BY <3>3, <4>1, <1>5, <1>7
        <5>2. \A k \in Queue : k # 1 => ~Clears(k)
          BY <3>3, <4>1, <1>2
        <5> QED BY <3>1, <5>1, <5>2 DEF RowsToCome
      <4>2. CASE i # 1
        <5>1. i - 1 \in 1..(n - 1) /\ (i - 1) + 1 = i
          BY <4>2, <1>2, <1>4
        <5>2. Kills(i - 1)' /\ i - 1 \in Queue'
          BY <5>1, <3>3, <1>2, <1>3
        <5>3. ASSUME NEW k \in Queue', i - 1 < k PROVE ~Clears(k)'
          <6>1. CASE k = n
            BY <6>1, <1>6
          <6>2. CASE k \in 1..(n - 1)
            BY <6>2, <5>1, <5>3, <3>3, <1>2, <1>3
          <6> QED BY <6>1, <6>2, <1>2, <1>4
        <5> QED BY <5>2, <5>3 DEF RowsToCome
      <4> QED BY <4>1, <4>2
    <3> QED BY <2>2, <3>2, <3>3 DEF RowsToCome
  <2> QED BY <2>1, <2>2
<1>9. LoadInv'
  <2>1. synced # "fresh"
    BY <1>0, <1>2 DEF LoadInv
  <2>2. ASSUME synced = "yes", NEW i \in 1..n, NEW k \in 1..n, Writes(i)', At(k)'.op = "load"
        PROVE  i < k
    <3>1. i \in 1..(n - 1) /\ k \in 1..(n - 1)
      BY <2>2, <1>1, <1>2, <1>4, <1>6
    <3>2. Writes(i + 1) /\ At(k + 1).op = "load" /\ i + 1 \in Queue /\ k + 1 \in Queue
      BY <2>2, <3>1, <1>2, <1>3
    <3>3. i + 1 < k + 1
      BY <2>2, <3>2, <1>0 DEF LoadInv
    <3> QED BY <3>1, <3>3
  <2> QED BY <2>1, <2>2, <1>2 DEF LoadInv
<1>10. AgreeInv'
  <2> SUFFICES ASSUME synced = "yes" PROVE AgreeInv'
    BY DEF AgreeInv
  <2>1. ASSUME NEW i \in 1..n, Writes(i)', \A k \in 1..n : i < k => ~Writes(k)'
        PROVE  state' = StateOf(At(i)'.op, At(i)'.arg)
    <3>1. i \in 1..(n - 1)
      BY <2>1, <1>4, <1>6
    <3>2. i + 1 \in Queue /\ Writes(i + 1) /\ At(i)' = At(i + 1)
      BY <2>1, <3>1, <1>2, <1>3
    <3>3. ASSUME NEW k \in Queue, i + 1 < k PROVE ~Writes(k)
      <4>1. k - 1 \in 1..(n - 1) /\ (k - 1) + 1 = k /\ i < k - 1
        BY <3>1, <3>3, <1>2, <1>4
      <4> QED BY <4>1, <2>1, <1>2, <1>3
    <3> QED BY <3>2, <3>3, <1>0 DEF AgreeInv, memory
  <2>2. ASSUME \A i \in 1..n : ~Writes(i)' PROVE state' = dbState'
    <3>1. ASSUME NEW k \in Queue, 1 < k PROVE ~Writes(k)
      <4>1. k - 1 \in 1..(n - 1) /\ (k - 1) + 1 = k
        BY <3>1, <1>2, <1>4
      <4> QED BY <4>1, <2>2, <1>2, <1>3
    <3>2. state = StateOf(At(1).op, At(1).arg)
      BY <3>1, <1>0, <1>2, <1>5 DEF AgreeInv
    <3> QED BY <3>2, <1>2, <1>7 DEF memory
  <2> QED BY <2>1, <2>2, <1>0, <1>2, <1>8 DEF AgreeInv, memory
<1>11. AuditInv'
  <2> SUFFICES ASSUME faults = 0, crashes = 0 PROVE AuditInv'
    BY DEF AuditInv
  <2>1. ASSUME NEW i \in 1..n, Audits(i)', \A k \in 1..n : i < k => ~Audits(k)'
        PROVE  dbState' = StateOf(At(i)'.op, At(i)'.arg)
    <3>1. i = n
      BY <2>1, <1>2, <1>6
    <3> QED BY <3>1, <1>1, <1>2, <1>7
  <2>2. ~(\A i \in Queue' : ~Audits(i)')
    BY <1>2, <1>6
  <2> QED BY <2>1, <2>2, <1>0, <1>2 DEF AuditInv, Announced, AuditedKills
<1> QED BY <1>9, <1>10, <1>11

\* The kills among the first n entries are finitely many, at most n, and the number does
\* not fall with n.
LEMMA AuditedKillsFinite ==
  ASSUME NEW n \in Nat
  PROVE  /\ IsFiniteSet(AuditedKills(n)) /\ Cardinality(AuditedKills(n)) \in Nat
         /\ \A m \in 1..n : Cardinality(AuditedKills(m)) <= Cardinality(AuditedKills(n))
         /\ \A m \in AuditedKills(n) : Cardinality(AuditedKills(m)) >= 1
<1>1. ASSUME NEW m \in Nat
      PROVE  IsFiniteSet(AuditedKills(m)) /\ Cardinality(AuditedKills(m)) \in Nat
  <2>1. IsFiniteSet(1..m) /\ AuditedKills(m) \subseteq 1..m
    BY FS_Interval DEF AuditedKills
  <2> QED BY <2>1, FS_Subset, FS_CardinalityType
<1>2. ASSUME NEW m \in 1..n PROVE Cardinality(AuditedKills(m)) <= Cardinality(AuditedKills(n))
  <2>1. AuditedKills(m) \subseteq AuditedKills(n)
    BY DEF AuditedKills
  <2> QED BY <2>1, <1>1, FS_Subset
<1>3. ASSUME NEW m \in AuditedKills(n) PROVE Cardinality(AuditedKills(m)) >= 1
  <2>1. m \in Nat /\ m \in AuditedKills(m)
    BY DEF AuditedKills
  <2>2. Cardinality(AuditedKills(m)) # 0
    BY <2>1, <1>1, FS_EmptySet
  <2> QED BY <2>1, <2>2, <1>1
<1> QED BY <1>1, <1>2, <1>3

\* An audit row and its announcement keep the two in step.
LEMMA AuditedAnnounced ==
  ASSUME TypeInv, Announced, NEW e \in Entries, e[1] = "trigger" => e[2] \in Reasons,
         trail' = Append(trail, e),
         emitted' = IF e[1] = "trigger" THEN Append(emitted, e[2]) ELSE emitted
  PROVE  Announced'
<1>1. PICK n \in Nat : n = Len(trail)
  BY DEF TypeInv
<1>2. /\ n + 1 \in Nat /\ Len(trail') = n + 1 /\ trail'[n + 1] = e
      /\ \A k \in 1..n : trail'[k] = trail[k]
  BY <1>1 DEF TypeInv
<1> DEFINE kills == AuditedKills(n)
<1>3. \A k \in 1..n : AuditedKills(k)' = AuditedKills(k)
  BY <1>2 DEF AuditedKills
<1>4. CASE e[1] # "trigger"
  <2>1. AuditedKills(n + 1)' = kills
    <3>1. ASSUME NEW k PROVE k \in AuditedKills(n + 1)' <=> k \in kills
      <4>1. k \in 1..(n + 1) <=> k \in 1..n \/ k = n + 1
        OBVIOUS
      <4> QED BY <4>1, <1>2, <1>4 DEF AuditedKills
    <3> QED BY <3>1
  <2>2. \A k \in kills : k \in 1..n
    BY DEF AuditedKills
  <2> QED BY <2>1, <2>2, <1>1, <1>2, <1>3, <1>4 DEF Announced
<1>5. CASE e[1] = "trigger"
  <2>1. AuditedKills(n + 1)' = kills \cup {n + 1}
    <3>1. ASSUME NEW k PROVE k \in AuditedKills(n + 1)' <=> k \in kills \/ k = n + 1
      <4>1. k \in 1..(n + 1) <=> k \in 1..n \/ k = n + 1
        OBVIOUS
      <4> QED BY <4>1, <1>2, <1>5 DEF AuditedKills
    <3> QED BY <3>1
  <2>2. IsFiniteSet(kills) /\ Cardinality(kills) \in Nat /\ n + 1 \notin kills
    BY AuditedKillsFinite DEF AuditedKills
  <2> HIDE DEF kills
  <2>3. Cardinality(kills \cup {n + 1}) = Cardinality(kills) + 1
    BY <2>2, FS_AddElement
  <2>4. Len(emitted) = Cardinality(kills) /\ emitted \in Seq(Reasons)
    BY <1>1 DEF Announced, TypeInv, kills
  <2>5. /\ Len(emitted') = Cardinality(kills) + 1
        /\ emitted'[Cardinality(kills) + 1] = e[2]
        /\ \A i \in 1..Cardinality(kills) : emitted'[i] = emitted[i]
    BY <2>4, <1>5
  <2>6. ASSUME NEW k \in kills
        PROVE  emitted'[Cardinality(AuditedKills(k)')] = trail'[k][2]
    <3>1. k \in 1..n /\ k \in AuditedKills(n) /\ k \in Nat
      BY DEF kills, AuditedKills
    <3>2. Cardinality(AuditedKills(k)) \in 1..Cardinality(kills)
      BY <3>1, <2>2, AuditedKillsFinite DEF kills
    <3>3. emitted[Cardinality(AuditedKills(k))] = trail[k][2]
      BY <3>1, <1>1 DEF Announced
    <3> QED BY <3>1, <3>2, <3>3, <1>2, <1>3, <2>5
  <2>7. emitted'[Cardinality(AuditedKills(n + 1)')] = trail'[n + 1][2]
    BY <2>1, <2>3, <2>5, <1>2
  <2> QED BY <2>1, <2>3, <2>5, <2>6, <2>7, <1>2 DEF Announced
<1> QED BY <1>4, <1>5

\* The audit row of the holder, who leaves.
LEMMA AuditKeeps ==
  ASSUME SwitchInv, NEW t \in Tasks, Audit(t)
  PROVE  LoadInv' /\ AgreeInv' /\ AuditInv'
<1>0. TypeInv /\ QueueInv /\ LoadInv /\ AgreeInv /\ AuditInv /\ Left(t)
  BY DEF SwitchInv, Audit, Audited, Left
<1>1. PICK n \in Nat :
        /\ n >= 1 /\ Queue = 1..n /\ Queue' = 1..(n - 1) /\ At(1) = job[t]
        /\ \A i \in 1..(n - 1) : At(i)' = At(i + 1)
  BY <1>0, LeftView
<1>2. LoadInv' /\ AgreeInv'
  <2>1. ~Writes(1)
    BY <1>1 DEF Writes, Audit, Audited
  <2> QED BY <2>1, <1>0, LeavingKeeps DEF Audit, Audited, memory
<1>3. AuditInv'
  <2> SUFFICES ASSUME faults = 0, crashes = 0 PROVE AuditInv'
    BY DEF AuditInv, Audit, Audited
  <2> DEFINE e == <<job[t].op, job[t].arg>>
  <2>1. Audits(1) /\ job[t] \in Jobs /\ job[t].stage = "audit"
    BY <1>0, <1>1 DEF Audits, Audit, Audited, TypeInv
  <2>2. /\ e \in Entries /\ (e[1] = "trigger" => e[2] \in Reasons)
        /\ e[1] = job[t].op /\ e[2] = job[t].arg
    BY <2>1 DEF Jobs, Idle, Entries, States, Settable
  <2>3. /\ trail' = Append(trail, e)
        /\ emitted' = IF e[1] = "trigger" THEN Append(emitted, e[2]) ELSE emitted
        /\ dbState' = dbState
    BY DEF Audit, Audited
  <2> HIDE DEF e
  <2>4. Announced'
    BY <1>0, <2>2, <2>3, AuditedAnnounced DEF AuditInv
  <2>5. trail'[Len(trail')] = e
    BY <1>0, <2>2, <2>3 DEF TypeInv
  <2>6. ASSUME NEW i \in Queue', Audits(i)', \A k \in Queue' : i < k => ~Audits(k)'
        PROVE  dbState' = StateOf(At(i)'.op, At(i)'.arg)
    <3>1. i \in 1..(n - 1) /\ i + 1 \in Queue /\ Audits(i + 1) /\ At(i)' = At(i + 1)
      BY <2>6, <1>1 DEF Audits
    <3>2. ASSUME NEW k \in Queue, i + 1 < k PROVE ~Audits(k)
      <4>1. k - 1 \in 1..(n - 1) /\ (k - 1) + 1 = k /\ i < k - 1
        BY <3>1, <3>2, <1>1
      <4> QED BY <4>1, <2>6, <1>1 DEF Audits
    <3> QED BY <3>1, <3>2, <1>0, <2>3 DEF AuditInv
  <2>7. ASSUME \A i \in Queue' : ~Audits(i)'
        PROVE  dbState' = StateOf(e[1], e[2])
    <3>1. ASSUME NEW k \in Queue, 1 < k PROVE ~Audits(k)
      <4>1. k - 1 \in 1..(n - 1) /\ (k - 1) + 1 = k
        BY <3>1, <1>1
      <4> QED BY <4>1, <2>7, <1>1 DEF Audits
    <3>2. dbState = StateOf(At(1).op, At(1).arg)
      BY <3>1, <1>0, <1>1, <2>1 DEF AuditInv
    <3> QED BY <3>2, <1>1, <2>2, <2>3
  <2> QED BY <2>4, <2>5, <2>6, <2>7 DEF AuditInv
<1> QED BY <1>2, <1>3

\* A load that has read writes the memory and leaves.
LEMMA LoadedKeeps ==
  ASSUME SwitchInv, NEW t \in Tasks, Loaded(t)
  PROVE  LoadInv' /\ AgreeInv' /\ AuditInv'
<1>0. TypeInv /\ QueueInv /\ ReadInv /\ LoadInv /\ AgreeInv /\ AuditInv /\ Left(t)
  BY DEF SwitchInv, Loaded, Left
<1>1. PICK n \in Nat :
        /\ n >= 1 /\ Queue = 1..n /\ Queue' = 1..(n - 1) /\ At(1) = job[t]
        /\ \A i \in 1..(n - 1) : At(i)' = At(i + 1)
  BY <1>0, LeftView
<1>2. At(1).op = "load" /\ 1 \in Queue /\ ~Writes(1) /\ job[t] \in Jobs
  BY <1>0, <1>1 DEF Writes, Loaded, TypeInv
<1>3. ~Audits(1)
  BY <1>1, <1>2 DEF Audits, Jobs, Idle
<1>4. seen = <<LastRow, dbState>>
  BY <1>0 DEF Loaded, ReadInv
<1>5. \A i \in 1..(n - 1) : /\ i + 1 \in Queue
                            /\ Writes(i)' <=> Writes(i + 1)
                            /\ Audits(i)' <=> Audits(i + 1)
  BY <1>1 DEF Writes, Audits
<1>6. state' = dbState /\ reason' = IF LastRow # None THEN LastRow ELSE reason
  BY <1>4 DEF Loaded
<1>7. LastRow # None <=> rows # <<>>
  <2>1. rows # <<>> => rows[Len(rows)] \in Reasons
    BY <1>0 DEF TypeInv
  <2> QED BY <2>1, KillSwitchAssumption DEF LastRow
<1>8. synced # "no" => \A i \in Queue : ~Writes(i)
  <2>1. CASE synced = "fresh"
    BY <2>1, <1>0 DEF LoadInv, Writes
  <2>2. CASE synced = "yes"
    <3>1. ASSUME NEW i \in Queue, Writes(i) PROVE FALSE
      <4>1. i < 1
        BY <2>2, <3>1, <1>0, <1>2 DEF LoadInv
      <4> QED BY <4>1, <1>1
    <3> QED BY <3>1
  <2> QED BY <2>1, <2>2, <1>0 DEF TypeInv
<1>9. synced # "no" => \A i \in Queue' : ~Writes(i)'
  BY <1>1, <1>5, <1>8
<1>10. synced' = IF synced = "fresh" THEN "yes" ELSE synced
  BY DEF Loaded
<1>11. LoadInv'
  BY <1>0, <1>9, <1>10 DEF LoadInv, TypeInv
<1>12. AgreeInv'
  <2> SUFFICES ASSUME synced # "no" PROVE AgreeInv'
    BY <1>10 DEF AgreeInv
  <2>1. \A i \in Queue' : ~Writes(i)' /\ ~Kills(i)' /\ ~Clears(i)'
    BY <1>9 DEF Kills, Clears
  <2>2. RowsToCome' <=> rows # <<>>
    BY <2>1 DEF RowsToCome, Loaded, database
  <2>3. reason # None => rows # <<>>
    <3>1. CASE synced = "fresh"
      BY <3>1, <1>0 DEF LoadInv
    <3>2. CASE synced = "yes"
      <4>1. \A i \in Queue : ~Kills(i)
        BY <1>8 DEF Kills
      <4> QED BY <3>2, <4>1, <1>0 DEF AgreeInv, RowsToCome
    <3> QED BY <3>1, <3>2, <1>0 DEF TypeInv
  <2>4. dbState' = dbState
    BY DEF Loaded, database
  <2> QED BY <2>1, <2>2, <2>3, <2>4, <1>6, <1>7 DEF AgreeInv
<1>13. AuditInv'
  <2> SUFFICES ASSUME faults = 0, crashes = 0 PROVE AuditInv'
    BY DEF AuditInv, Loaded
  <2>1. ASSUME NEW i \in Queue', Audits(i)', \A k \in Queue' : i < k => ~Audits(k)'
        PROVE  dbState' = StateOf(At(i)'.op, At(i)'.arg)
    <3>1. i \in 1..(n - 1) /\ i + 1 \in Queue /\ Audits(i + 1) /\ At(i)' = At(i + 1)
      BY <2>1, <1>1, <1>5
    <3>2. ASSUME NEW k \in Queue, i + 1 < k PROVE ~Audits(k)
      <4>1. k - 1 \in 1..(n - 1) /\ (k - 1) + 1 = k /\ i < k - 1
        BY <3>1, <3>2, <1>1
      <4> QED BY <4>1, <2>1, <1>1, <1>5
    <3> QED BY <3>1, <3>2, <1>0 DEF AuditInv, Loaded, database
  <2>2. ASSUME \A i \in Queue' : ~Audits(i)' PROVE \A i \in Queue : ~Audits(i)
    <3>1. ASSUME NEW i \in Queue, i # 1 PROVE ~Audits(i)
      <4>1. i - 1 \in 1..(n - 1) /\ (i - 1) + 1 = i
        BY <3>1, <1>1
      <4> QED BY <4>1, <2>2, <1>1, <1>5
    <3> QED BY <3>1, <1>3
  <2>3. UNCHANGED <<dbState, trail, emitted>>
    BY DEF Loaded, database
  <2>4. Announced'
    BY <2>3, <1>0 DEF AuditInv, Announced, AuditedKills
  <2> QED BY <2>1, <2>2, <2>3, <2>4, <1>0 DEF AuditInv
<1> QED BY <1>11, <1>12, <1>13

\* A transaction that fails: the holder leaves, or, in trigger, goes on to its audit
\* row.  Only the failure of a write parts memory and database.
LEMMA FailsKeeps ==
  ASSUME SwitchInv, NEW t \in Tasks, Fails(t)
  PROVE  LoadInv' /\ AgreeInv' /\ AuditInv'
<1>0. TypeInv /\ QueueInv /\ Holds(t)
  BY DEF SwitchInv, Fails, Failed
<1>1. AuditInv'
  BY <1>0 DEF AuditInv, Fails, Failed, TypeInv
<1>2. UNCHANGED <<memory, rows, dbState, resumed>>
  BY DEF Fails, Failed, memory, database
<1>3. CASE job[t].op = "load" \/ job[t].stage = "audit"
  <2>1. job[t] \in Jobs
    BY <1>0 DEF TypeInv
  <2>2. Left(t) /\ synced' = synced
    BY <1>0, <1>3, <2>1 DEF Left, Fails, Failed, Jobs, Idle
  <2>3. ~Writes(1)
    BY <1>0, <1>3, HolderFirst DEF Writes
  <2> QED BY <1>1, <1>2, <2>2, <2>3, LeavingKeeps DEF memory
<1>4. CASE ~(job[t].op = "load" \/ job[t].stage = "audit")
  <2>1. synced' = "no"
    BY <1>4 DEF Fails, Failed
  <2> QED BY <1>1, <2>1 DEF LoadInv, AgreeInv
<1> QED BY <1>3, <1>4

(***************************************************************************)
(* Every step keeps the invariant: the type and the queue first, then what *)
(* has been read, then the three invariants about the waiters.             *)
(***************************************************************************)

\* What the calls that write join the queue with.
LEMMA WriteJobs ==
  /\ \A r \in Reasons : [op |-> "trigger", arg |-> r, stage |-> "write"] \in Jobs
  /\ [op |-> "clear", arg |-> "RUNNING", stage |-> "write"] \in Jobs
  /\ \A s \in Settable : [op |-> "set", arg |-> s, stage |-> "write"] \in Jobs
  /\ [op |-> "load", arg |-> None, stage |-> "write"] \in Jobs
BY DEF Jobs

LEMMA CallTypeQueue ==
  ASSUME TypeInv, QueueInv, ReadInv, NEW t \in Tasks, NEW op, NEW arg, Call(t, op, arg),
         [op |-> op, arg |-> arg, stage |-> "write"] \in Jobs, op # "none",
         reason' \in Reasons \cup {None}, state' \in States, resumed' \in BOOLEAN
  PROVE  TypeInv' /\ QueueInv' /\ ReadInv'
<1> DEFINE j == [op |-> op, arg |-> arg, stage |-> "write"]
<1>1. Joined(t, j) /\ j # Idle
  BY DEF Call, Joined, Idle
<1>2. QueueInv'
  BY <1>1, JoinedKeepsQueue
<1>3. TypeInv'
  <2>1. lock' \in Seq(Tasks) /\ job' \in [Tasks -> Jobs]
    BY <1>1, JoinedQueue
  <2>2. synced' \in {"yes", "no", "fresh"} /\ calls' \in Nat
    BY DEF Call, TypeInv
  <2> QED BY <2>1, <2>2 DEF Call, TypeInv, database
<1>4. ReadInv'
  <2> SUFFICES ASSUME seen # NotRead PROVE ReadInv'
    BY DEF ReadInv, Call, NotRead
  <2>1. 1 \in Queue
    BY DEF ReadInv, TypeInv, Queue
  <2>2. At(1)' = At(1) /\ Len(lock') = Len(lock) + 1 /\ lock' \in Seq(Tasks)
    BY <1>1, <2>1, JoinedQueue
  <2>3. lock' # <<>>
    BY <2>2 DEF TypeInv
  <2> QED BY <2>2, <2>3 DEF ReadInv, Call, database, LastRow
<1> QED BY <1>2, <1>3, <1>4

LEMMA TriggerKeeps ==
  ASSUME SwitchInv, NEW t \in Tasks, NEW r \in Reasons, Trigger(t, r)
  PROVE  SwitchInv'
<1> DEFINE j == [op |-> "trigger", arg |-> r, stage |-> "write"]
<1>1. TypeInv' /\ QueueInv' /\ ReadInv'
  BY WriteJobs, CallTypeQueue DEF SwitchInv, Trigger, States
<1>2. Joined(t, j) /\ j \in Jobs
  BY WriteJobs DEF Trigger, Call, Joined
<1>3. /\ UNCHANGED <<rows, dbState, trail, emitted, faults, crashes>>
      /\ synced' = IF synced = "yes" /\ ~Loading THEN "yes" ELSE "no"
      /\ state' = StateOf(j.op, j.arg) /\ reason' # None
  BY KillSwitchAssumption DEF Trigger, Call, database, StateOf
<1>4. j.stage = "write" /\ j.op = "trigger"
  OBVIOUS
<1> HIDE DEF j
<1>5. LoadInv' /\ AgreeInv' /\ AuditInv'
  BY <1>2, <1>3, <1>4, CallKeeps
<1> QED BY <1>1, <1>5 DEF SwitchInv

LEMMA ClearKeeps ==
  ASSUME SwitchInv, NEW t \in Tasks, NEW by \in Callers, Clear(t, by)
  PROVE  SwitchInv'
<1> DEFINE j == [op |-> "clear", arg |-> "RUNNING", stage |-> "write"]
<1>1. TypeInv' /\ QueueInv' /\ ReadInv'
  BY WriteJobs, CallTypeQueue DEF SwitchInv, Clear, States
<1>2. Joined(t, j) /\ j \in Jobs
  BY WriteJobs DEF Clear, Call, Joined
<1>3. /\ UNCHANGED <<rows, dbState, trail, emitted, faults, crashes>>
      /\ synced' = IF synced = "yes" /\ ~Loading THEN "yes" ELSE "no"
      /\ state' = StateOf(j.op, j.arg) /\ reason' = None
  BY DEF Clear, Call, database, StateOf
<1>4. j.stage = "write" /\ j.op = "clear"
  OBVIOUS
<1> HIDE DEF j
<1>5. LoadInv' /\ AgreeInv' /\ AuditInv'
  BY <1>2, <1>3, <1>4, CallKeeps
<1> QED BY <1>1, <1>5 DEF SwitchInv

LEMMA SetStateKeeps ==
  ASSUME SwitchInv, NEW t \in Tasks, NEW s \in Settable, SetState(t, s)
  PROVE  SwitchInv'
<1> DEFINE j == [op |-> "set", arg |-> s, stage |-> "write"]
<1>1. TypeInv' /\ QueueInv' /\ ReadInv'
  BY WriteJobs, CallTypeQueue DEF SwitchInv, TypeInv, SetState, States, Settable
<1>2. Joined(t, j) /\ j \in Jobs
  BY WriteJobs DEF SetState, Call, Joined
<1>3. /\ UNCHANGED <<rows, dbState, trail, emitted, faults, crashes>>
      /\ synced' = IF synced = "yes" /\ ~Loading THEN "yes" ELSE "no"
      /\ state' = StateOf(j.op, j.arg)
      /\ \/ reason' = None /\ resumed' = TRUE
         \/ reason' = reason /\ resumed' = resumed
  BY DEF SetState, Call, database, StateOf
<1>4. j.stage = "write" /\ j.op = "set"
  OBVIOUS
<1> HIDE DEF j
<1>5. LoadInv' /\ AgreeInv' /\ AuditInv'
  BY <1>2, <1>3, <1>4, CallKeeps
<1> QED BY <1>1, <1>5 DEF SwitchInv

LEMMA LoadKeeps ==
  ASSUME SwitchInv, NEW t \in Tasks, Load(t)
  PROVE  SwitchInv'
<1> DEFINE j == [op |-> "load", arg |-> None, stage |-> "write"]
<1>1. TypeInv' /\ QueueInv' /\ ReadInv'
  BY WriteJobs, CallTypeQueue DEF SwitchInv, TypeInv, Load, memory
<1>2. Joined(t, j) /\ j \in Jobs
  BY WriteJobs DEF Load, Call, Joined
<1>3. UNCHANGED <<memory, rows, dbState, trail, emitted, faults, crashes, synced, resumed>>
  BY DEF Load, Call, database
<1>4. j.op = "load"
  OBVIOUS
<1> HIDE DEF j
<1>5. LoadInv' /\ AgreeInv' /\ AuditInv'
  BY <1>2, <1>3, <1>4, LoadCallKeeps
<1> QED BY <1>1, <1>5 DEF SwitchInv

LEMMA CommitSwitch ==
  ASSUME SwitchInv, NEW t \in Tasks, Commit(t)
  PROVE  SwitchInv'
<1> DEFINE j == [job[t] EXCEPT !.stage = "audit"]
<1>0. TypeInv /\ QueueInv /\ ReadInv /\ Holds(t) /\ job[t] \in Jobs
  BY DEF SwitchInv, Commit, Committed, TypeInv
<1>1. /\ job[t].stage = "write" /\ job[t].op \in {"trigger", "clear", "set"}
      /\ Requeued(t, j) /\ rows' = Written(job[t]).rows /\ dbState' = Written(job[t]).state
      /\ UNCHANGED <<memory, trail, emitted, faults, crashes, synced, resumed, seen, calls>>
  BY <1>0 DEF Commit, Committed, Requeued, Jobs, Idle
<1>2. LoadInv' /\ AgreeInv' /\ AuditInv'
  BY <1>1, CommitKeeps
<1>3. j \in Jobs /\ j # Idle
  <2>1. CASE job[t].op = "trigger"
    BY <2>1, <1>0 DEF Jobs, Idle
  <2>2. CASE job[t].op = "clear"
    BY <2>2, <1>0 DEF Jobs, Idle
  <2>3. CASE job[t].op = "set"
    BY <2>3, <1>0 DEF Jobs, Idle
  <2> QED BY <2>1, <2>2, <2>3, <1>1
<1> HIDE DEF j
<1>4. QueueInv'
  BY <1>0, <1>1, <1>3, RequeuedKeepsQueue
<1>5. TypeInv'
  <2>1. lock' \in Seq(Tasks) /\ job' \in [Tasks -> Jobs]
    BY <1>0, <1>1, <1>3, RequeuedQueue
  <2>2. rows' \in Seq(Reasons) /\ dbState' \in States
    <3>1. CASE job[t].op = "trigger"
      <4>1. job[t].arg \in Reasons
        BY <3>1, <1>0 DEF Jobs, Idle
      <4>2. rows' = Append(rows, job[t].arg) /\ dbState' = "KILLED"
        BY <3>1, <1>1 DEF Written
      <4>3. rows \in Seq(Reasons)
        BY <1>0 DEF TypeInv
      <4> QED BY <4>1, <4>2, <4>3 DEF States
    <3>2. CASE job[t].op = "clear"
      <4>1. rows' = <<>> /\ dbState' = "RUNNING"
        BY <3>2, <1>1 DEF Written
      <4> QED BY <4>1 DEF States
    <3>3. CASE job[t].op = "set"
      <4>1. job[t].arg \in States
        BY <3>3, <1>0 DEF Jobs, Idle, Settable
      <4> QED BY <3>3, <4>1, <1>0, <1>1 DEF Written, TypeInv
    <3> QED BY <3>1, <3>2, <3>3, <1>1
  <2> QED BY <2>1, <2>2, <1>0, <1>1 DEF TypeInv, memory
<1>6. ReadInv'
  <2>1. seen = NotRead
    <3>1. At(1) = job[t]
      BY <1>0, HolderFirst
    <3> QED BY <3>1, <1>0, <1>1 DEF ReadInv
  <2> QED BY <2>1, <1>1 DEF ReadInv, NotRead
<1> QED BY <1>2, <1>4, <1>5, <1>6 DEF SwitchInv

\* Who leaves forgets what it has read.
LEMMA LeavingTypeQueue ==
  ASSUME TypeInv, QueueInv, ReadInv, NEW t \in Tasks, Left(t), seen' = NotRead,
         reason' \in Reasons \cup {None}, state' \in States,
         trail' \in Seq(Entries), emitted' \in Seq(Reasons), faults' \in Nat,
         synced' \in {"yes", "no", "fresh"},
         UNCHANGED <<rows, dbState, calls, crashes, resumed>>
  PROVE  TypeInv' /\ QueueInv' /\ ReadInv'
<1>1. lock' \in Seq(Tasks) /\ job' \in [Tasks -> Jobs]
  BY LeftQueue
<1>2. seen' \in (Reasons \cup {None}) \X (States \cup {"unread"})
  BY DEF NotRead
<1>3. TypeInv'
  BY <1>1, <1>2 DEF TypeInv
<1>4. ReadInv'
  BY DEF ReadInv, NotRead
<1> QED BY <1>3, <1>4, LeftKeepsQueue

LEMMA AuditSwitch ==
  ASSUME SwitchInv, NEW t \in Tasks, Audit(t)
  PROVE  SwitchInv'
<1>0. TypeInv /\ QueueInv /\ ReadInv /\ Left(t) /\ job[t] \in Jobs /\ job[t].stage = "audit"
  BY DEF SwitchInv, Audit, Audited, Left, TypeInv
<1>1. LoadInv' /\ AgreeInv' /\ AuditInv'
  BY AuditKeeps
<1>2. seen = NotRead
  <2>1. At(1) = job[t]
    BY <1>0, HolderFirst DEF Left
  <2> QED BY <2>1, <1>0 DEF ReadInv, Jobs, Idle
<1>3. /\ <<job[t].op, job[t].arg>> \in Entries
      /\ job[t].op = "trigger" => job[t].arg \in Reasons
  BY <1>0 DEF Jobs, Idle, Entries, States, Settable
<1>4. trail' \in Seq(Entries) /\ emitted' \in Seq(Reasons)
  BY <1>0, <1>3 DEF Audit, Audited, TypeInv
<1>5. TypeInv' /\ QueueInv' /\ ReadInv'
  <2>1. /\ seen' = NotRead /\ UNCHANGED <<memory, rows, dbState, calls, crashes, resumed,
                                           faults, synced>>
    BY <1>2 DEF Audit, Audited
  <2> QED BY <2>1, <1>0, <1>4, LeavingTypeQueue DEF TypeInv, memory
<1> QED BY <1>1, <1>5 DEF SwitchInv

LEMMA ReadBackSwitch ==
  ASSUME SwitchInv, NEW t \in Tasks, ReadBack(t)
  PROVE  SwitchInv'
<1>0. /\ TypeInv /\ QueueInv /\ ReadInv /\ LoadInv /\ AgreeInv /\ AuditInv
      /\ Holds(t) /\ job[t].op = "load"
  BY DEF SwitchInv, ReadBack
<1>1. UNCHANGED <<memory, database, emitted, lock, job, calls, faults, crashes, synced, resumed>>
  BY DEF ReadBack
<1>2. seen' = <<LastRow, dbState>> /\ LastRow \in Reasons \cup {None}
  BY <1>0 DEF ReadBack, LastRow, TypeInv
<1>3. TypeInv'
  BY <1>0, <1>1, <1>2 DEF TypeInv, memory, database
<1>4. QueueInv'
  BY <1>0, <1>1 DEF QueueInv, Queue
<1>5. ReadInv'
  <2>1. At(1) = job[t]
    BY <1>0, HolderFirst
  <2> QED BY <2>1, <1>0, <1>1, <1>2 DEF ReadInv, LastRow, database, At, Holds
<1>6. \A i : At(i)' = At(i)
  BY <1>1 DEF At
<1>7. Queue' = Queue
  BY <1>1 DEF Queue
<1>8. LoadInv'
  BY <1>0, <1>1, <1>6, <1>7 DEF LoadInv, Writes, memory
<1>9. AgreeInv'
  BY <1>0, <1>1, <1>6, <1>7 DEF AgreeInv, RowsToCome, Writes, Kills, Clears, memory, database
<1>10. AuditInv'
  BY <1>0, <1>1, <1>6, <1>7 DEF AuditInv, Announced, AuditedKills, Audits, database
<1> QED BY <1>3, <1>4, <1>5, <1>8, <1>9, <1>10 DEF SwitchInv

LEMMA LoadedSwitch ==
  ASSUME SwitchInv, NEW t \in Tasks, Loaded(t)
  PROVE  SwitchInv'
<1>0. TypeInv /\ QueueInv /\ ReadInv /\ Left(t) /\ seen = <<LastRow, dbState>>
  BY DEF SwitchInv, Loaded, Left, ReadInv
<1>1. LoadInv' /\ AgreeInv' /\ AuditInv'
  BY LoadedKeeps
<1>2. reason' \in Reasons \cup {None} /\ state' \in States
  BY <1>0 DEF Loaded, TypeInv, LastRow
<1>3. TypeInv' /\ QueueInv' /\ ReadInv'
  <2>1. /\ seen' = NotRead /\ synced' \in {"yes", "no", "fresh"}
        /\ UNCHANGED <<database, emitted, calls, faults, crashes, resumed>>
    BY <1>0 DEF Loaded, TypeInv
  <2> QED BY <2>1, <1>0, <1>2, LeavingTypeQueue DEF TypeInv, database
<1> QED BY <1>1, <1>3 DEF SwitchInv

LEMMA FailsSwitch ==
  ASSUME SwitchInv, NEW t \in Tasks, Fails(t)
  PROVE  SwitchInv'
<1>0. TypeInv /\ QueueInv /\ ReadInv /\ Holds(t) /\ job[t] \in Jobs
  BY DEF SwitchInv, Fails, Failed, TypeInv
<1>1. LoadInv' /\ AgreeInv' /\ AuditInv'
  BY FailsKeeps
<1>2. /\ seen' = NotRead /\ faults' \in Nat /\ synced' \in {"yes", "no", "fresh"}
      /\ UNCHANGED <<memory, database, emitted, calls, crashes, resumed>>
  BY <1>0 DEF Fails, Failed, TypeInv
<1>3. CASE job[t].op = "trigger" /\ job[t].stage = "write"
  <2> DEFINE j == [job[t] EXCEPT !.stage = "audit"]
  <2>1. Requeued(t, j) /\ j \in Jobs /\ j # Idle
    BY <1>0, <1>3 DEF Fails, Failed, Requeued, Jobs, Idle
  <2> HIDE DEF j
  <2>2. QueueInv' /\ lock' \in Seq(Tasks) /\ job' \in [Tasks -> Jobs]
    BY <1>0, <2>1, RequeuedKeepsQueue, RequeuedQueue
  <2>3. seen' \in (Reasons \cup {None}) \X (States \cup {"unread"})
    BY <1>2 DEF NotRead
  <2>4. TypeInv'
    BY <1>0, <1>2, <2>2, <2>3 DEF TypeInv, memory, database
  <2>5. ReadInv'
    BY <1>2 DEF ReadInv, NotRead
  <2> QED BY <1>1, <2>2, <2>4, <2>5 DEF SwitchInv
<1>4. CASE ~(job[t].op = "trigger" /\ job[t].stage = "write")
  <2>1. Left(t)
    BY <1>0, <1>4 DEF Fails, Failed, Left
  <2>2. TypeInv' /\ QueueInv' /\ ReadInv'
    BY <1>0, <1>2, <2>1, LeavingTypeQueue DEF TypeInv, memory, database
  <2> QED BY <1>1, <2>2 DEF SwitchInv
<1> QED BY <1>3, <1>4

\* A restart leaves nobody at the lock.
LEMMA RestartSwitch ==
  ASSUME SwitchInv, Restart
  PROVE  SwitchInv'
<1>0. TypeInv
  BY DEF SwitchInv
<1>1. TypeInv'
  BY <1>0 DEF Restart, TypeInv, States, Jobs, NotRead, database
<1>2. Queue' = {} /\ \A t \in Tasks : job'[t] = Idle
  BY DEF Restart, Queue
<1>3. QueueInv' /\ ReadInv' /\ LoadInv' /\ AgreeInv'
  BY <1>2 DEF Restart, QueueInv, ReadInv, LoadInv, AgreeInv, NotRead
<1>4. AuditInv'
  BY <1>0 DEF Restart, AuditInv, TypeInv
<1> QED BY <1>1, <1>3, <1>4 DEF SwitchInv

LEMMA SwitchInit == Init => SwitchInv
<1> SUFFICES ASSUME Init PROVE SwitchInv
  OBVIOUS
<1>1. TypeInv
  <2>1. job \in [Tasks -> Jobs]
    BY DEF Init, Jobs
  <2>2. rows \in Seq(Reasons) /\ trail \in Seq(Entries) /\ emitted \in Seq(Reasons)
        /\ lock \in Seq(Tasks)
    BY DEF Init
  <2>3. seen \in (Reasons \cup {None}) \X (States \cup {"unread"})
    BY DEF Init, NotRead
  <2> QED BY <2>1, <2>2, <2>3 DEF Init, TypeInv, States
<1>2. Queue = {} /\ \A t \in Tasks : job[t] = Idle
  BY DEF Init, Queue
<1>3. QueueInv /\ ReadInv /\ LoadInv
  BY <1>2 DEF Init, QueueInv, ReadInv, LoadInv, NotRead
<1>4. AgreeInv
  BY <1>2 DEF Init, AgreeInv, RowsToCome
<1>5. AuditInv
  <2>1. AuditedKills(0) = {}
    BY DEF AuditedKills
  <2>2. Cardinality({}) = 0
    BY FS_EmptySet
  <2> QED BY <1>2, <2>1, <2>2 DEF Init, AuditInv, Announced
<1> QED BY <1>1, <1>3, <1>4, <1>5 DEF SwitchInv

LEMMA SwitchStep == SwitchInv /\ [Next]_vars => SwitchInv'
<1> SUFFICES ASSUME SwitchInv, [Next]_vars PROVE SwitchInv'
  OBVIOUS
<1>1. ASSUME NEW t \in Tasks, NEW r \in Reasons, Trigger(t, r) PROVE SwitchInv'
  BY <1>1, TriggerKeeps
<1>2. ASSUME NEW t \in Tasks, NEW by \in Callers, Clear(t, by) PROVE SwitchInv'
  BY <1>2, ClearKeeps
<1>3. ASSUME NEW t \in Tasks, NEW s \in Settable, SetState(t, s) PROVE SwitchInv'
  BY <1>3, SetStateKeeps
<1>4. ASSUME NEW t \in Tasks, Load(t) PROVE SwitchInv'
  BY <1>4, LoadKeeps
<1>5. ASSUME NEW t \in Tasks, Serve(t) PROVE SwitchInv'
  BY <1>5, CommitSwitch, AuditSwitch, ReadBackSwitch, LoadedSwitch DEF Serve
<1>6. ASSUME NEW t \in Tasks, Fails(t) PROVE SwitchInv'
  BY <1>6, FailsSwitch
<1>7. CASE Restart
  BY <1>7, RestartSwitch
<1>8. CASE UNCHANGED vars
  <2>1. /\ UNCHANGED <<reason, state, rows, dbState, trail, emitted, lock, job, seen>>
        /\ UNCHANGED <<calls, faults, crashes, synced, resumed>>
    BY <1>8 DEF vars
  <2>2. Queue' = Queue /\ \A i : At(i)' = At(i)
    BY <2>1 DEF Queue, At
  <2>3. TypeInv' /\ QueueInv' /\ ReadInv' /\ LoadInv'
    BY <2>1, <2>2 DEF SwitchInv, TypeInv, QueueInv, ReadInv, LoadInv, LastRow, NotRead, Writes
  <2>4. AgreeInv'
    BY <2>1, <2>2 DEF SwitchInv, AgreeInv, RowsToCome, Writes, Kills, Clears
  <2>5. AuditInv'
    BY <2>1, <2>2 DEF SwitchInv, AuditInv, Announced, AuditedKills, Audits
  <2> QED BY <2>3, <2>4, <2>5 DEF SwitchInv
<1> QED BY <1>1, <1>2, <1>3, <1>4, <1>5, <1>6, <1>7, <1>8 DEF Next

LEMMA SwitchCorrect == Spec => []SwitchInv
<1> QED BY SwitchInit, SwitchStep, PTL DEF Spec

(***************************************************************************)
(* The theorems: what the invariant says of a quiet switch.                *)
(***************************************************************************)

\* Memory and database agree whenever no call is under way, for any number of tasks,
\* calls, failures and restarts (kill_switch.py:51-105).
THEOREM MemoryTheorem == Spec => []MemoryAgreesWithDb
<1>1. SwitchInv => MemoryAgreesWithDb
  <2> SUFFICES ASSUME SwitchInv, Quiet, synced = "yes" PROVE MemoryAgreesWithDb
    BY DEF MemoryAgreesWithDb
  <2>1. Queue = {}
    BY DEF Quiet, Queue
  <2>2. RowsToCome <=> rows # <<>>
    BY <2>1 DEF RowsToCome
  <2> QED BY <2>1, <2>2 DEF SwitchInv, AgreeInv, MemoryAgreesWithDb
<1> QED BY <1>1, SwitchCorrect, PTL

\* Without failures and restarts the audit trail tells of every change in its order, and
\* the bus of every kill (kill_switch.py:56-67, audit.py:47).
THEOREM AuditTheorem == Spec => []AuditTellsState
<1>1. SwitchInv => AuditTellsState
  <2> SUFFICES ASSUME SwitchInv, faults = 0, crashes = 0 PROVE AuditTellsState
    BY DEF AuditTellsState
  <2>1. Announced
    BY DEF SwitchInv, AuditInv
  <2>2. ASSUME Quiet, trail # <<>>
        PROVE  dbState = StateOf(trail[Len(trail)][1], trail[Len(trail)][2])
    <3>1. Queue = {}
      BY <2>2 DEF Quiet, Queue
    <3> QED BY <3>1, <2>2 DEF SwitchInv, AuditInv
  <2> QED BY <2>1, <2>2 DEF AuditTellsState, Announced, StateOf
<1> QED BY <1>1, SwitchCorrect, PTL
=============================================================================
