-------------------------------- MODULE LlmClient --------------------------------
(***************************************************************************)
(* The LLM client (src/intelligence/llm.py) as the catalyst judge uses it: *)
(* complete with a schema and no tools, under the role's timeout, and the  *)
(* budget its calls share.  An action is the code from one await to the    *)
(* next: the post, the sleep between two posts, and the database write     *)
(* that logs a decision.  The budget's lock is never held across an await, *)
(* so check and record are part of the action that runs them.              *)
(*                                                                         *)
(* The unit of money is what one answer of the provider costs.             *)
(***************************************************************************)
EXTENDS Integers, FiniteSets, FiniteSetsExt

CONSTANTS
  Calls,        \* coroutines that may be inside complete at the same time
  Retries,      \* max_structured_retries
  MaxPosts,     \* attempts of _post (4)
  MaxLonger,    \* retries with a doubled max_output_tokens (2)
  Budget,       \* daily_budget_usd
  MaxPerHour    \* max_calls_per_hour

ASSUME LlmAssumption ==
  /\ IsFiniteSet(Calls)
  /\ Retries \in Nat /\ MaxPosts \in Nat \ {0} /\ MaxLonger \in Nat
  /\ Budget \in Nat /\ MaxPerHour \in Nat

VARIABLES
  spent,        \* budget._spent_today
  newDay,       \* budget._day is not today any more
  recent,       \* calls of budget._calls made within the last hour
  pc,           \* of each call: where it awaits
  attempt,      \* the loop variable of _post, from 1
  turns,        \* turns
  retriesLeft,  \* retries_left
  longer,       \* length_retries
  schemaTool,   \* use_schema_tool
  cost,         \* total_cost
  ended         \* how the call ends, once it is past its loop

\* Kept for the properties only.
VARIABLES
  today,        \* answers the provider charged for since midnight, in this process
  costRows      \* rows written for each call that carry its cost

budgetVars == <<spent, newDay, recent>>
loopVars   == <<attempt, turns, retriesLeft, longer, schemaTool>>
vars       == <<budgetVars, pc, loopVars, cost, ended, today, costRows>>

PCs     == {"idle", "posting", "backoff", "persisting", "persist_timeout"}
Endings == {"none", "ok", "output_error", "error", "timeout"}
Running == {c \in Calls : pc[c] \in {"posting", "backoff"}}

AllCalls(v) == [c \in Calls |-> v]

Init ==
  /\ spent = 0 /\ newDay = FALSE /\ recent = 0
  /\ pc = AllCalls("idle") /\ ended = AllCalls("none")
  /\ attempt = AllCalls(0) /\ turns = AllCalls(0) /\ retriesLeft = AllCalls(0)
  /\ longer = AllCalls(0) /\ schemaTool = AllCalls(FALSE)
  /\ cost = AllCalls(0) /\ costRows = AllCalls(0) /\ today = 0

Goto(c, place) == pc' = [pc EXCEPT ![c] = place]

(***************************************************************************)
(* LLMBudget.check, before anything else is done.                          *)
(***************************************************************************)
SpentToday == IF newDay THEN 0 ELSE spent

Resets == spent' = SpentToday /\ newDay' = FALSE

MayBegin == SpentToday <= Budget /\ recent < MaxPerHour

\* A role whose model takes no JSON schema starts with the schema as a tool.
Begin(c) ==
  /\ pc[c] = "idle" /\ MayBegin
  /\ \E tool \in BOOLEAN : schemaTool' = [schemaTool EXCEPT ![c] = tool]
  /\ Resets /\ recent' = recent + 1
  /\ Goto(c, "posting") /\ attempt' = [attempt EXCEPT ![c] = 1]
  /\ turns' = [turns EXCEPT ![c] = 1] /\ retriesLeft' = [retriesLeft EXCEPT ![c] = Retries]
  /\ costRows' = [costRows EXCEPT ![c] = 0]
  /\ UNCHANGED <<longer, cost, ended, today>>

\* Refused before the try: nothing is recorded, nothing logged.
Refuse(c) ==
  /\ pc[c] = "idle" /\ ~MayBegin
  /\ Resets
  /\ UNCHANGED <<recent, pc, loopVars, cost, ended, costRows, today>>

(***************************************************************************)
(* _complete: the loop, as one role without tools runs it (max_turns 1).   *)
(***************************************************************************)

\* The locals of _complete die with the call, except what its row still needs.
LoopOver(c) ==
  /\ attempt' = [attempt EXCEPT ![c] = 0] /\ turns' = [turns EXCEPT ![c] = 0]
  /\ longer' = [longer EXCEPT ![c] = 0] /\ schemaTool' = [schemaTool EXCEPT ![c] = FALSE]

FinallyOnSuccess(c, how, paid) ==  \* mutant: only a successful call is charged
  /\ Goto(c, "persisting") /\ ended' = [ended EXCEPT ![c] = how]
  /\ cost' = [cost EXCEPT ![c] = paid] /\ LoopOver(c)
  /\ spent' = IF how = "ok" THEN spent + paid ELSE spent
  /\ UNCHANGED <<newDay, recent, costRows>>

\* The call is over, by a return or an exception: its cost is recorded, and the row that
\* logs it is on its way to the database.
Finally(c, how, paid) ==
  /\ Goto(c, "persisting") /\ ended' = [ended EXCEPT ![c] = how]
  /\ cost' = [cost EXCEPT ![c] = paid] /\ LoopOver(c)
  /\ spent' = spent + paid
  /\ UNCHANGED <<newDay, recent, costRows>>

\* Another turn of the loop, with another post.
Again(c) ==
  /\ Goto(c, "posting") /\ attempt' = [attempt EXCEPT ![c] = 1]
  /\ UNCHANGED <<budgetVars, ended, costRows>>

\* The provider answered, and charges for it.
Answered(c) == pc[c] = "posting" /\ today' = today + 1

Valid(c) ==
  /\ Answered(c) /\ Finally(c, "ok", cost[c] + 1) /\ UNCHANGED retriesLeft

\* An answer that does not fit the schema.  The loop goes on while
\* turns < max_turns + retries_left + 1, and such an answer moves both sides of that.
MoreTurns(t, left) == t < 1 + left + 1

Invalid(c) ==
  LET left == retriesLeft[c] - 1
  IN  /\ Answered(c) /\ retriesLeft' = [retriesLeft EXCEPT ![c] = left]
      /\ IF left >= 0 /\ MoreTurns(turns[c], left)
         THEN /\ Again(c) /\ cost' = [cost EXCEPT ![c] = @ + 1]
              /\ turns' = [turns EXCEPT ![c] = @ + 1] /\ UNCHANGED <<longer, schemaTool>>
         ELSE Finally(c, "output_error", cost[c] + 1)

TruncatedUnbounded(c) ==           \* mutant: length_retries is not tested
  /\ Answered(c)
  /\ Again(c) /\ cost' = [cost EXCEPT ![c] = @ + 1]
  /\ longer' = [longer EXCEPT ![c] = @ + 1]
  /\ UNCHANGED <<turns, retriesLeft, schemaTool>>

\* Cut off at max_tokens: asked again with twice the room, outside the count of turns.  A
\* third answer cut off is read like any other.
Truncated(c) ==
  /\ Answered(c) /\ longer[c] < MaxLonger
  /\ Again(c) /\ cost' = [cost EXCEPT ![c] = @ + 1]
  /\ longer' = [longer EXCEPT ![c] = @ + 1]
  /\ UNCHANGED <<turns, retriesLeft, schemaTool>>

\* The model asks for a tool it was not given.
UnknownTool(c) ==
  /\ Answered(c) /\ Finally(c, "error", cost[c] + 1) /\ UNCHANGED retriesLeft

SchemaRejectedAgain(c) ==          \* mutant: the fallback is tried again when it is rejected
  /\ pc[c] = "posting"
  /\ Again(c) /\ schemaTool' = [schemaTool EXCEPT ![c] = TRUE]
  /\ UNCHANGED <<turns, retriesLeft, longer, cost, today>>

\* A provider that rejects the schema is asked again with the schema as a tool.
SchemaRejected(c) ==
  /\ pc[c] = "posting" /\ ~schemaTool[c]
  /\ Again(c) /\ schemaTool' = [schemaTool EXCEPT ![c] = TRUE]
  /\ UNCHANGED <<turns, retriesLeft, longer, cost, today>>

\* A status or an error that is final, or a body that is not JSON.
Fatal(c) ==
  /\ pc[c] = "posting" /\ Finally(c, "error", cost[c])
  /\ UNCHANGED <<retriesLeft, today>>

\* A timeout of the post, a transport error, a status or an error worth a retry.
Transient(c) ==
  /\ pc[c] = "posting" /\ Goto(c, "backoff")
  /\ UNCHANGED <<budgetVars, loopVars, cost, ended, today, costRows>>

\* The sleep is over; the last attempt sleeps too.
Backoff(c) ==
  /\ pc[c] = "backoff"
  /\ IF attempt[c] < MaxPosts
     THEN /\ Goto(c, "posting") /\ attempt' = [attempt EXCEPT ![c] = @ + 1]
          /\ UNCHANGED <<budgetVars, turns, longer, schemaTool, cost, ended, costRows>>
     ELSE Finally(c, "error", cost[c])
  /\ UNCHANGED <<retriesLeft, today>>

(***************************************************************************)
(* _persist, whose errors are swallowed, and the role's timeout, which     *)
(* cancels _complete wherever it awaits.                                   *)
(***************************************************************************)
Return(c) ==
  /\ Goto(c, "idle") /\ ended' = [ended EXCEPT ![c] = "none"]
  /\ cost' = [cost EXCEPT ![c] = 0] /\ retriesLeft' = [retriesLeft EXCEPT ![c] = 0]

\* The row is written, or it is not.
Row(c) == UNCHANGED costRows \/ costRows' = [costRows EXCEPT ![c] = @ + 1]

Persist(c) ==
  /\ pc[c] = "persisting" /\ Row(c)
  /\ IF ended[c] = "timeout"
     THEN Goto(c, "persist_timeout") /\ UNCHANGED <<ended, cost, retriesLeft>>
     ELSE Return(c)
  /\ UNCHANGED <<budgetVars, attempt, turns, longer, schemaTool, today>>

\* The cancelled call runs its finally.
TimeoutInLoop(c) ==
  /\ pc[c] \in {"posting", "backoff"} /\ Finally(c, "timeout", cost[c])
  /\ UNCHANGED <<retriesLeft, today>>

\* An answer that came in time is lost to a timeout while it is being logged.
TimeoutInPersist(c) ==
  /\ pc[c] = "persisting" /\ ended[c] # "timeout"
  /\ Row(c) /\ Goto(c, "persist_timeout") /\ ended' = [ended EXCEPT ![c] = "timeout"]
  /\ UNCHANGED <<budgetVars, loopVars, cost, today>>

PersistTimeoutWithCost(c) ==       \* mutant: the timeout's own row repeats the cost
  /\ pc[c] = "persist_timeout" /\ Return(c) /\ Row(c)
  /\ UNCHANGED <<budgetVars, attempt, turns, longer, schemaTool, today>>

\* complete logs the timeout with a row of its own, at no cost.
PersistTimeout(c) ==
  /\ pc[c] = "persist_timeout" /\ Return(c)
  /\ UNCHANGED <<budgetVars, attempt, turns, longer, schemaTool, today, costRows>>

(***************************************************************************)
(* Time, and the end of the process.                                       *)
(***************************************************************************)
Midnight ==
  /\ newDay' = TRUE /\ today' = 0
  /\ UNCHANGED <<spent, recent, pc, loopVars, cost, ended, costRows>>

HourPasses ==
  /\ recent > 0 /\ recent' = recent - 1
  /\ UNCHANGED <<spent, newDay, pc, loopVars, cost, ended, today, costRows>>

\* The process dies and is started again.  Nothing calls sync_from_db: the new budget
\* starts the day from zero, and so does its count of calls.
Restart ==
  /\ spent' = 0 /\ newDay' = FALSE /\ recent' = 0
  /\ pc' = AllCalls("idle") /\ ended' = AllCalls("none")
  /\ attempt' = AllCalls(0) /\ turns' = AllCalls(0) /\ retriesLeft' = AllCalls(0)
  /\ longer' = AllCalls(0) /\ schemaTool' = AllCalls(FALSE)
  /\ cost' = AllCalls(0) /\ costRows' = AllCalls(0) /\ today' = 0

\* What a call that is inside complete does next, unless its timeout strikes.
Progress(c) ==
  \/ Valid(c) \/ Invalid(c) \/ Truncated(c) \/ UnknownTool(c) \/ SchemaRejected(c)
  \/ Fatal(c) \/ Transient(c) \/ Backoff(c) \/ Persist(c) \/ PersistTimeout(c)

Next ==
  \/ Midnight \/ HourPasses \/ Restart
  \/ \E c \in Calls :
       Begin(c) \/ Refuse(c) \/ Progress(c) \/ TimeoutInLoop(c) \/ TimeoutInPersist(c)

\* Every await ends: a post by its own timeout, a write by the database's.  The role's
\* timeout need not strike.
Spec == Init /\ [][Next]_vars /\ \A c \in Calls : WF_vars(Progress(c))

(***************************************************************************)
(* Properties.                                                             *)
(***************************************************************************)

\* Every variable keeps its type.
TypeOK ==
  /\ spent \in Nat /\ newDay \in BOOLEAN /\ recent \in 0 .. MaxPerHour
  /\ pc \in [Calls -> PCs] /\ ended \in [Calls -> Endings]
  /\ attempt \in [Calls -> 0 .. MaxPosts] /\ turns \in [Calls -> 0 .. Retries + 1]
  /\ retriesLeft \in [Calls -> -1 .. Retries] /\ longer \in [Calls -> 0 .. MaxLonger]
  /\ schemaTool \in [Calls -> BOOLEAN] /\ cost \in [Calls -> Nat]
  /\ today \in Nat /\ costRows \in [Calls -> Nat]

\* What a process can spend in a day.  The check is made once, before the first answer,
\* and the cost recorded after the last, so the calls in flight can exceed the budget; and
\* a call in flight at midnight is charged to the day that the next check throws away.
MaxAnswers == Min({Retries + 1, (Retries + 3) \div 2}) + MaxLonger
InFlight   == Cardinality(Calls) * MaxAnswers
DaySpending == today <= Budget + 2 * InFlight

\* What the log says was spent was spent: a call that times out may leave two rows, one
\* written by the call and one on its behalf, but its cost is in one of them only.
LoggedOnce == \A c \in Calls : costRows[c] <= 1

\* The inductive invariants behind TypeOK and LoggedOnce: a call in its loop has not used
\* up its retries, and no row carries the cost of a call before the call writes its own.
RetriesInv == \A c \in Running : retriesLeft[c] >= 0

RowsInv == \A c \in Calls :
  /\ costRows[c] <= 1
  /\ pc[c] \in {"posting", "backoff", "persisting"} => costRows[c] = 0

\* Every call ends, and gives its caller a result or an error.
CallEnds == \A c \in Calls : pc[c] # "idle" ~> pc[c] = "idle"

=============================================================================
