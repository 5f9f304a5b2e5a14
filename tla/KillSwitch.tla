----------------------------- MODULE KillSwitch -----------------------------
(***************************************************************************)
(* The kill switch (src/risk/kill_switch.py) over the database session it  *)
(* persists itself with (src/core/db.py) and the audit trail               *)
(* (src/core/audit.py).  Several tasks of the process call it.  A call     *)
(* changes the memory at once and then waits for the process-wide write    *)
(* lock, an asyncio.Lock that serves its waiters first come first served;  *)
(* the audit row is a second transaction, for which the task queues again. *)
(* A transaction may fail, and the process may die and be restarted.       *)
(***************************************************************************)
EXTENDS Integers, Sequences, FiniteSets

CONSTANTS
  Tasks,         \* tasks that call the switch
  Reasons,       \* KillSwitchReason
  None,          \* no reason (Python's None)
  Callers,       \* the values of "by"
  Machines,      \* the callers whose name begins with llm, agent or system
  MaxCalls,      \* bound of the model: calls
  MaxFaults,     \* bound of the model: transactions that fail
  MaxCrashes     \* bound of the model: restarts

ASSUME KillSwitchAssumption ==
  /\ None \notin Reasons
  /\ Machines \subseteq Callers
  /\ {MaxCalls, MaxFaults, MaxCrashes} \subseteq Nat

VARIABLES
  reason,   \* KillSwitch._active
  state,    \* KillSwitch._state
  rows,     \* kill_switch_events not cleared, oldest first
  dbState,  \* the system_state row (absent: RUNNING)
  trail,    \* audit_log
  emitted,  \* KILL_SWITCH_TRIGGERED events handed to the bus
  lock,     \* the write lock: its holder, then its waiters in order
  job,      \* what each task is doing
  seen,     \* what the load holding the lock has read
  calls, faults, crashes,  \* counters of the bounds
  synced,   \* history: does the memory still owe its content to the database
  resumed   \* history: the last word was set_state(RUNNING)

memory == <<reason, state>>
database == <<rows, dbState, trail>>
vars == <<reason, state, rows, dbState, trail, emitted, lock, job, seen, calls,
          faults, crashes, synced, resumed>>

States == {"RUNNING", "PAUSED", "STOPPED", "KILLED"}
Settable == States \ {"KILLED"}

Idle == [op |-> "none", arg |-> None, stage |-> "idle"]
NotRead == <<None, "unread">>

Holds(t) == lock # <<>> /\ Head(lock) = t
Loading == \E t \in Tasks : job[t].op = "load"
Quiet == lock = <<>>

Init ==
  /\ reason = None /\ state = "RUNNING"
  /\ rows = <<>> /\ dbState = "RUNNING" /\ trail = <<>> /\ emitted = <<>>
  /\ lock = <<>> /\ job = [t \in Tasks |-> Idle] /\ seen = NotRead
  /\ calls = 0 /\ faults = 0 /\ crashes = 0
  /\ synced = "yes" /\ resumed = FALSE

\* The part of every call up to its first await: it joins the queue of the lock.
\* (history) A call over a running load, or on a memory no load has filled since
\* the restart, leaves memory and database free to differ.
Call(t, op, arg) ==
  /\ job[t] = Idle /\ calls < MaxCalls
  /\ calls' = calls + 1
  /\ job' = [job EXCEPT ![t] = [op |-> op, arg |-> arg, stage |-> "write"]]
  /\ lock' = Append(lock, t)
  /\ synced' = IF op = "load" THEN synced
               ELSE IF synced = "yes" /\ ~Loading THEN "yes" ELSE "no"
  /\ UNCHANGED <<database, emitted, seen, faults, crashes>>

\* trigger: a reason already active returns at once
Trigger(t, r) ==
  /\ reason # r
  /\ reason' = r /\ state' = "KILLED" /\ resumed' = FALSE
  /\ Call(t, "trigger", r)

\* clear: refused to a machine by the name it gives
Clear(t, by) ==
  /\ by \notin Machines
  /\ reason' = None /\ state' = "RUNNING" /\ resumed' = FALSE
  /\ Call(t, "clear", "RUNNING")

\* set_state: RUNNING also forgets the reason, in memory only
SetState(t, s) ==
  /\ state' = s
  /\ reason' = IF s = "RUNNING" THEN None ELSE reason
  /\ resumed' = IF s = "RUNNING" THEN TRUE ELSE resumed
  /\ Call(t, "set", s)

Load(t) ==
  /\ Call(t, "load", None)
  /\ UNCHANGED <<memory, resumed>>

\* What the transaction of a call writes when it commits
Written(j) ==
  CASE j.op = "trigger" -> [rows |-> Append(rows, j.arg), state |-> "KILLED"]
    [] j.op = "clear"   -> [rows |-> <<>>, state |-> "RUNNING"]
    [] OTHER            -> [rows |-> rows, state |-> j.arg]

\* The holder commits, releases the lock and queues again for its audit row
Committed(t) ==
  /\ Holds(t) /\ job[t].stage = "write" /\ job[t].op # "load"
  /\ rows' = Written(job[t]).rows
  /\ dbState' = Written(job[t]).state
  /\ lock' = Append(Tail(lock), t)
  /\ job' = [job EXCEPT ![t].stage = "audit"]
  /\ UNCHANGED <<trail, emitted, seen, calls, faults, crashes, synced, resumed>>

CommitThenForget(t) ==     \* mutant: clear resets the memory once its rows are written
  /\ Committed(t)
  /\ reason' = IF job[t].op = "clear" THEN None ELSE reason
  /\ UNCHANGED state

Commit(t) == Committed(t) /\ UNCHANGED memory

\* audit() commits, trigger then emits its event with no await in between; "rest" is
\* who is left at the lock
Audited(t, rest) ==
  /\ job[t].stage = "audit"
  /\ trail' = Append(trail, <<job[t].op, job[t].arg>>)
  /\ emitted' = IF job[t].op = "trigger" THEN Append(emitted, job[t].arg) ELSE emitted
  /\ lock' = rest
  /\ job' = [job EXCEPT ![t] = Idle]
  /\ UNCHANGED <<memory, rows, dbState, seen, calls, faults, crashes, synced, resumed>>

AuditUnlocked(t) ==     \* mutant: the row does not wait for the lock
  LET Other(u) == u # t IN Audited(t, SelectSeq(lock, Other))

Audit(t) == Holds(t) /\ Audited(t, Tail(lock))

\* load reads inside its transaction ...
ReadBack(t) ==
  /\ Holds(t) /\ job[t].op = "load" /\ seen = NotRead
  /\ seen' = <<IF rows = <<>> THEN None ELSE rows[Len(rows)], dbState>>
  /\ UNCHANGED <<memory, database, emitted, lock, job, calls, faults, crashes, synced,
                 resumed>>

\* ... and writes the memory after it: a reason is set if there was one, never unset
Loaded(t) ==
  /\ Holds(t) /\ job[t].op = "load" /\ seen # NotRead
  /\ reason' = IF seen[1] # None THEN seen[1] ELSE reason
  /\ state' = seen[2]
  /\ seen' = NotRead
  /\ lock' = Tail(lock)
  /\ job' = [job EXCEPT ![t] = Idle]
  /\ synced' = IF synced = "fresh" THEN "yes" ELSE synced
  /\ UNCHANGED <<database, emitted, calls, faults, crashes, resumed>>

\* The holder's transaction raises and is rolled back; "rest" is who is left at the
\* lock.  trigger swallows the error of its own transaction and goes on to the audit,
\* load swallows it and ends; the error of clear, of set_state and of the audit ends
\* the call.
Failed(t, rest) ==
  /\ Holds(t) /\ faults < MaxFaults
  /\ faults' = faults + 1
  /\ seen' = NotRead
  /\ LET goesOn == job[t].op = "trigger" /\ job[t].stage = "write"
     IN /\ lock' = IF goesOn THEN Append(rest, t) ELSE rest
        /\ job' = [job EXCEPT ![t] = IF goesOn THEN [@ EXCEPT !.stage = "audit"] ELSE Idle]
  /\ synced' = IF job[t].op = "load" \/ job[t].stage = "audit" THEN synced ELSE "no"
  /\ UNCHANGED <<memory, database, emitted, calls, crashes, resumed>>

FailsLocked(t) == Failed(t, lock)     \* mutant: the error path does not release the lock

Fails(t) == Failed(t, Tail(lock))

\* The process dies; the next one starts from KillSwitch.__init__ and the database
Restart ==
  /\ crashes < MaxCrashes
  /\ crashes' = crashes + 1
  /\ reason' = None /\ state' = "RUNNING"
  /\ lock' = <<>> /\ job' = [t \in Tasks |-> Idle] /\ seen' = NotRead
  /\ synced' = "fresh"
  /\ UNCHANGED <<database, emitted, calls, faults, resumed>>

Serve(t) == Commit(t) \/ Audit(t) \/ ReadBack(t) \/ Loaded(t)

Next ==
  \/ \E t \in Tasks :
       \/ \E r \in Reasons : Trigger(t, r)
       \/ \E by \in Callers : Clear(t, by)
       \/ \E s \in Settable : SetState(t, s)
       \/ Load(t)
       \/ Serve(t)
       \/ Fails(t)
  \/ Restart

\* A task that holds the lock goes on: the event loop resumes it when its query ends
Spec == Init /\ [][Next]_vars /\ \A t \in Tasks : WF_vars(Serve(t))

-----------------------------------------------------------------------------
(* Properties *)

\* Once every call has ended, memory and database tell the same story, provided no
\* transaction failed, no load overlapped another call, and after a restart a load
\* came first: the same state, a reason in memory only over an open row, and an open
\* row only under a reason, unless the last word was set_state(RUNNING), which leaves
\* the rows of kill_switch_events open (kill_switch.py:83-90).
MemoryAgreesWithDb ==
  Quiet /\ synced = "yes" =>
    /\ state = dbState
    /\ reason # None => rows # <<>>
    /\ rows # <<>> /\ ~resumed => reason # None

\* The kills among the first n entries of the audit trail
AuditedKills(n) == {k \in 1..n : trail[k][1] = "trigger"}

\* The audit trail is in the order of the changes although it is written by later
\* transactions (audit.py:47): with no failure and no restart its last entry is the
\* state in the database, and the n-th kill it tells of is the n-th announced on the
\* bus, where nothing else is announced.
AuditTellsState ==
  faults = 0 /\ crashes = 0 =>
    /\ Quiet /\ trail # <<>> =>
         LET entry == trail[Len(trail)]
         IN dbState = IF entry[1] = "trigger" THEN "KILLED" ELSE entry[2]
    /\ Len(emitted) = Cardinality(AuditedKills(Len(trail)))
    /\ \A n \in AuditedKills(Len(trail)) :
         emitted[Cardinality(AuditedKills(n))] = trail[n][2]

\* Whoever queues for the write lock is served, or dies with the process: no call of
\* the switch asks for the lock while it holds it (db.py:74).
WriterServed == \A t \in Tasks : (job[t] # Idle) ~> (job[t] = Idle)

=============================================================================
