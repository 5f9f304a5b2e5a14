---------------------------- MODULE LlmClient_proofs ----------------------------
(***************************************************************************)
(* Theorems about the LLM client, for any number of concurrent calls and   *)
(* any limits.  A step concerns one call, or the clock, or all of them at  *)
(* once when the process is restarted.                                     *)
(***************************************************************************)
EXTENDS LlmClient, FiniteSetTheorems, TLAPS

TypeInv == TypeOK /\ RetriesInv

\* Nothing counted yet is within every limit.
LEMMA Zero == /\ 0 \in 0 .. MaxPosts /\ 0 \in 0 .. Retries + 1 /\ 0 \in -1 .. Retries
              /\ 0 \in 0 .. MaxLonger /\ 0 \in 0 .. MaxPerHour
BY LlmAssumption

\* A new process has its types.
LEMMA InitTyped == Init => TypeInv /\ RowsInv
<1> SUFFICES ASSUME Init PROVE TypeInv /\ RowsInv
  OBVIOUS
<1>1. TypeOK
  BY Zero DEF Init, AllCalls, TypeOK, PCs, Endings
<1>2. Running = {} /\ \A c \in Calls : costRows[c] = 0
  BY DEF Init, AllCalls, Running
<1> QED
  BY <1>1, <1>2 DEF TypeInv, RetriesInv, RowsInv

\* The end of the loop leaves the types alone, whatever the call was paid for.
LEMMA FinallyTyped ==
  ASSUME TypeInv, NEW c \in Calls, NEW how \in Endings, NEW paid \in Nat, Finally(c, how, paid)
  PROVE  /\ spent' \in Nat /\ newDay' \in BOOLEAN /\ recent' \in 0 .. MaxPerHour
         /\ pc' \in [Calls -> PCs] /\ ended' \in [Calls -> Endings]
         /\ attempt' \in [Calls -> 0 .. MaxPosts] /\ turns' \in [Calls -> 0 .. Retries + 1]
         /\ longer' \in [Calls -> 0 .. MaxLonger] /\ schemaTool' \in [Calls -> BOOLEAN]
         /\ cost' \in [Calls -> Nat] /\ costRows' \in [Calls -> Nat]
         /\ Running' = Running \ {c}
<1>1. /\ spent' \in Nat /\ newDay' \in BOOLEAN /\ recent' \in 0 .. MaxPerHour
      /\ pc' \in [Calls -> PCs] /\ ended' \in [Calls -> Endings]
      /\ cost' \in [Calls -> Nat] /\ costRows' \in [Calls -> Nat]
  BY DEF TypeInv, TypeOK, Finally, Goto, PCs
<1>2. /\ attempt' \in [Calls -> 0 .. MaxPosts] /\ turns' \in [Calls -> 0 .. Retries + 1]
      /\ longer' \in [Calls -> 0 .. MaxLonger] /\ schemaTool' \in [Calls -> BOOLEAN]
  BY LlmAssumption DEF TypeInv, TypeOK, Finally, LoopOver
<1>3. Running' = Running \ {c}
  BY DEF TypeInv, TypeOK, Finally, Goto, Running
<1> QED
  BY <1>1, <1>2, <1>3

\* Another turn posts again, and changes nothing but the first attempt.
LEMMA AgainTyped ==
  ASSUME TypeInv, NEW c \in Calls, pc[c] = "posting", Again(c)
  PROVE  /\ pc' \in [Calls -> PCs] /\ attempt' \in [Calls -> 0 .. MaxPosts]
         /\ Running' = Running /\ UNCHANGED <<spent, newDay, recent, ended, costRows>>
BY LlmAssumption DEF TypeInv, TypeOK, Again, Goto, PCs, Running, budgetVars

\* What a call in its loop does keeps the types: the retries are used up only by the
\* answer that ends the loop, and turns never pass the retries configured.
LEMMA LoopTyped ==
  ASSUME TypeInv, NEW c \in Calls,
         \/ Valid(c) \/ Invalid(c) \/ Truncated(c) \/ UnknownTool(c) \/ SchemaRejected(c)
         \/ Fatal(c) \/ Transient(c) \/ Backoff(c) \/ TimeoutInLoop(c)
  PROVE  TypeInv'
<1> USE DEF TypeInv, RetriesInv
<1>1. CASE Valid(c)
  BY <1>1, FinallyTyped DEF Valid, Answered, TypeOK, Endings
<1>2. CASE UnknownTool(c) \/ Fatal(c) \/ TimeoutInLoop(c)
  BY <1>2, FinallyTyped DEF UnknownTool, Fatal, TimeoutInLoop, Answered, TypeOK, Endings
<1>3. CASE Invalid(c)
  <2> DEFINE left == retriesLeft[c] - 1
  <2>1. left \in -1 .. Retries /\ today' \in Nat /\ cost[c] + 1 \in Nat
    BY <1>3, LlmAssumption DEF Invalid, Answered, TypeOK, Running
  <2>2. retriesLeft' \in [Calls -> -1 .. Retries]
    BY <1>3, <2>1 DEF Invalid, TypeOK
  <2>3. CASE left >= 0 /\ MoreTurns(turns[c], left)
    <3>1. /\ Again(c) /\ pc[c] = "posting" /\ cost' \in [Calls -> Nat]
          /\ turns' \in [Calls -> 0 .. Retries + 1] /\ UNCHANGED <<longer, schemaTool>>
      BY <1>3, <2>1, <2>3, LlmAssumption DEF Invalid, Answered, MoreTurns, TypeOK
    <3>2. \A d \in Running : retriesLeft'[d] >= 0
      BY <1>3, <2>3 DEF Invalid, TypeOK, Running
    <3> QED
      BY <2>1, <2>2, <3>1, <3>2, AgainTyped DEF TypeOK
  <2>4. CASE ~(left >= 0 /\ MoreTurns(turns[c], left))
    <3>1. Finally(c, "output_error", cost[c] + 1)
      BY <1>3, <2>4 DEF Invalid
    <3>2. \A d \in Running \ {c} : retriesLeft'[d] >= 0
      BY <1>3 DEF Invalid, TypeOK, Running
    <3> QED
      BY <2>1, <2>2, <3>1, <3>2, FinallyTyped DEF TypeOK, Endings
  <2> QED
    BY <2>3, <2>4
<1>4. CASE Truncated(c)
  <2>1. /\ Again(c) /\ pc[c] = "posting" /\ today' \in Nat /\ cost' \in [Calls -> Nat]
        /\ longer' \in [Calls -> 0 .. MaxLonger] /\ UNCHANGED <<turns, retriesLeft, schemaTool>>
    BY <1>4, LlmAssumption DEF Truncated, Answered, TypeOK
  <2> QED
    BY <2>1, AgainTyped DEF TypeOK
<1>5. CASE SchemaRejected(c)
  <2>1. /\ Again(c) /\ pc[c] = "posting" /\ schemaTool' \in [Calls -> BOOLEAN]
        /\ UNCHANGED <<turns, retriesLeft, longer, cost, today>>
    BY <1>5 DEF SchemaRejected, TypeOK
  <2> QED
    BY <2>1, AgainTyped DEF TypeOK
<1>6. CASE Transient(c)
  BY <1>6 DEF Transient, Goto, TypeOK, PCs, Running, budgetVars, loopVars
<1>7. CASE Backoff(c)
  <2>1. CASE attempt[c] < MaxPosts
    BY <1>7, <2>1, LlmAssumption DEF Backoff, Goto, TypeOK, PCs, Running, budgetVars
  <2>2. CASE ~(attempt[c] < MaxPosts)
    BY <1>7, <2>2, FinallyTyped DEF Backoff, TypeOK, Endings
  <2> QED
    BY <2>1, <2>2
<1> QED
  BY <1>1, <1>2, <1>3, <1>4, <1>5, <1>6, <1>7

\* The types hold from one action to the next.
LEMMA StepTyped == TypeInv /\ [Next]_vars => TypeInv'
<1> SUFFICES ASSUME TypeInv, [Next]_vars PROVE TypeInv'
  OBVIOUS
<1>1. CASE Midnight \/ HourPasses
  <2>1. newDay' \in BOOLEAN /\ today' \in Nat /\ recent' \in 0 .. MaxPerHour
    <3>1. CASE Midnight
      BY <3>1 DEF Midnight, TypeInv, TypeOK
    <3>2. CASE HourPasses
      BY <3>2, LlmAssumption DEF HourPasses, TypeInv, TypeOK
    <3> QED
      BY <1>1, <3>1, <3>2
  <2>2. UNCHANGED <<spent, pc, attempt, turns, retriesLeft, longer, schemaTool, cost, ended, costRows>>
    BY <1>1 DEF Midnight, HourPasses, loopVars
  <2> QED
    BY <2>1, <2>2 DEF TypeInv, TypeOK, RetriesInv, Running
<1>2. CASE Restart
  <2>1. TypeOK'
    BY <1>2, Zero DEF Restart, AllCalls, TypeOK, PCs, Endings
  <2>2. Running' = {}
    BY <1>2 DEF Restart, AllCalls, Running
  <2> QED
    BY <2>1, <2>2 DEF TypeInv, RetriesInv
<1>3. CASE UNCHANGED vars
  BY <1>3 DEF vars, budgetVars, loopVars, TypeInv, TypeOK, RetriesInv, Running
<1>4. ASSUME NEW c \in Calls, Begin(c)
      PROVE  TypeInv'
  <2>1. /\ spent' \in Nat /\ newDay' \in BOOLEAN /\ recent' \in 0 .. MaxPerHour
    <3>1. spent' \in Nat /\ newDay' \in BOOLEAN
      BY <1>4 DEF Begin, Resets, SpentToday, TypeInv, TypeOK
    <3>2. recent' = recent + 1 /\ recent < MaxPerHour
      BY <1>4 DEF Begin, MayBegin
    <3> QED
      BY <3>1, <3>2, LlmAssumption DEF TypeInv, TypeOK
  <2>2. /\ pc' \in [Calls -> PCs] /\ attempt' \in [Calls -> 0 .. MaxPosts]
        /\ turns' \in [Calls -> 0 .. Retries + 1] /\ retriesLeft' \in [Calls -> -1 .. Retries]
        /\ costRows' \in [Calls -> Nat] /\ schemaTool' \in [Calls -> BOOLEAN]
        /\ UNCHANGED <<longer, cost, ended, today>>
    BY <1>4, LlmAssumption DEF Begin, Goto, PCs, TypeInv, TypeOK
  <2>3. RetriesInv'
    BY <1>4, LlmAssumption DEF Begin, Goto, TypeInv, TypeOK, RetriesInv, Running
  <2> QED
    BY <2>1, <2>2, <2>3 DEF TypeInv, TypeOK
<1>5. ASSUME NEW c \in Calls, Refuse(c)
      PROVE  TypeInv'
  BY <1>5 DEF Refuse, Resets, SpentToday, TypeInv, TypeOK, RetriesInv, Running, loopVars
<1>6. ASSUME NEW c \in Calls, Persist(c) \/ TimeoutInPersist(c) \/ PersistTimeout(c)
      PROVE  TypeInv'
  <2>1. costRows' \in [Calls -> Nat] /\ UNCHANGED <<spent, newDay, recent, attempt, turns,
                                                    longer, schemaTool, today>>
    BY <1>6 DEF Persist, TimeoutInPersist, PersistTimeout, Row, TypeInv, TypeOK, budgetVars, loopVars
  <2>2. /\ pc' \in [Calls -> PCs] /\ ended' \in [Calls -> Endings] /\ cost' \in [Calls -> Nat]
        /\ retriesLeft' \in [Calls -> -1 .. Retries]
    BY <1>6, LlmAssumption DEF Persist, TimeoutInPersist, PersistTimeout, Return, Goto, PCs, Endings,
                               TypeInv, TypeOK, loopVars
  <2>3. Running' = Running /\ \A d \in Running : retriesLeft'[d] = retriesLeft[d]
    BY <1>6 DEF Persist, TimeoutInPersist, PersistTimeout, Return, Goto, Running, TypeInv, TypeOK, loopVars
  <2> QED
    BY <2>1, <2>2, <2>3 DEF TypeInv, TypeOK, RetriesInv
<1> QED
  BY <1>1, <1>2, <1>3, <1>4, <1>5, <1>6, LoopTyped DEF Next, Progress

\* LLMClient: every variable keeps its type; in particular a call takes back no more
\* retries than it has, and posts no more often than _post allows.
THEOREM LlmTypeCorrect == Spec => []TypeOK
<1>1. TypeInv => TypeOK
  BY DEF TypeInv
<1> QED
  BY <1>1, InitTyped, StepTyped, PTL DEF Spec

-----------------------------------------------------------------------------
\* A step of one call inside its loop writes no row.
LEMMA LoopWritesNoRow ==
  ASSUME TypeOK, NEW c \in Calls,
         \/ Valid(c) \/ Invalid(c) \/ Truncated(c) \/ UnknownTool(c) \/ SchemaRejected(c)
         \/ Fatal(c) \/ Transient(c) \/ Backoff(c) \/ TimeoutInLoop(c)
  PROVE  /\ pc[c] \in {"posting", "backoff"} /\ UNCHANGED costRows
         /\ \E place \in PCs : pc' = [pc EXCEPT ![c] = place]
<1> USE DEF PCs, Goto
<1>1. CASE Valid(c) \/ UnknownTool(c) \/ Fatal(c) \/ TimeoutInLoop(c)
  BY <1>1 DEF Valid, UnknownTool, Fatal, TimeoutInLoop, Answered, Finally
<1>2. CASE Invalid(c)
  BY <1>2 DEF Invalid, Answered, Finally, Again
<1>3. CASE Truncated(c) \/ SchemaRejected(c)
  BY <1>3 DEF Truncated, SchemaRejected, Answered, Again
<1>4. CASE Transient(c)
  BY <1>4 DEF Transient
<1>5. CASE Backoff(c)
  BY <1>5 DEF Backoff, Finally
<1> QED
  BY <1>1, <1>2, <1>3, <1>4, <1>5

\* The rows stay in step with where their calls are.
LEMMA StepLogged == TypeOK /\ RowsInv /\ [Next]_vars => RowsInv'
<1> SUFFICES ASSUME TypeOK, RowsInv, [Next]_vars PROVE RowsInv'
  OBVIOUS
<1> USE DEF TypeOK, RowsInv, PCs
<1>1. CASE Midnight \/ HourPasses \/ Restart \/ UNCHANGED vars
  BY <1>1 DEF Midnight, HourPasses, Restart, AllCalls, vars
<1>2. ASSUME NEW c \in Calls, Begin(c) \/ Refuse(c)
      PROVE  RowsInv'
  BY <1>2 DEF Begin, Refuse, Goto
<1>3. ASSUME NEW c \in Calls, Persist(c) \/ TimeoutInPersist(c) \/ PersistTimeout(c)
      PROVE  RowsInv'
  <2>1. CASE PersistTimeout(c)
    BY <1>3, <2>1 DEF PersistTimeout, Return, Goto
  <2>2. CASE Persist(c) \/ TimeoutInPersist(c)
    <3>1. pc[c] = "persisting" /\ Row(c) /\ (pc' = [pc EXCEPT ![c] = "idle"] \/ pc' = [pc EXCEPT ![c] = "persist_timeout"])
      BY <2>2 DEF Persist, TimeoutInPersist, Return, Goto
    <3> QED
      BY <3>1 DEF Row
  <2> QED
    BY <1>3, <2>1, <2>2
<1>4. ASSUME NEW c \in Calls,
             \/ Valid(c) \/ Invalid(c) \/ Truncated(c) \/ UnknownTool(c) \/ SchemaRejected(c)
             \/ Fatal(c) \/ Transient(c) \/ Backoff(c) \/ TimeoutInLoop(c)
      PROVE  RowsInv'
  BY <1>4, LoopWritesNoRow
<1> QED
  BY <1>1, <1>2, <1>3, <1>4 DEF Next, Progress

\* LLMClient._persist: the cost of a call is in one row of the log at most, whenever its
\* timeout strikes, for any number of calls and restarts.
THEOREM LoggedTheorem == Spec => []LoggedOnce
<1>1. RowsInv => LoggedOnce
  BY DEF RowsInv, LoggedOnce
<1> QED
  BY <1>1, InitTyped, StepLogged, LlmTypeCorrect, PTL DEF Spec

-----------------------------------------------------------------------------
(* What a day costs *)

\* A call in its loop has paid for the answers that did not fit the schema and for the ones
\* cut off; a call that has not begun, for none.
CostInv == \A c \in Calls :
  /\ c \in Running =>
       LET used == Retries - retriesLeft[c]
       IN /\ turns[c] = used + 1 /\ 2 * used <= Retries + 1
          /\ cost[c] = used + longer[c]
  /\ c \notin Running => longer[c] = 0
  /\ pc[c] = "idle" => cost[c] = 0

\* Each call has MaxAnswers places, one for an answer.  Paid: the places of the answers
\* that calls in their loop have had, which no one has recorded.  Used: those, and every
\* place of the calls that are out of it.
Paid == {p \in Running \X (1 .. MaxAnswers) : p[2] <= cost[p[1]]}
Used == {p \in Calls \X (1 .. MaxAnswers) : p[1] \in Running => p[2] <= cost[p[1]]}

\* From midnight to the next check no call begins, so what is paid since midnight has a
\* place.  After the check it is recorded, or paid by a call in its loop, or went into the
\* record that the check threw away; and a call begins only within the budget.
SpendInv ==
  /\ newDay => today <= Cardinality(Used)
  /\ ~newDay =>
       /\ today <= InFlight + spent + Cardinality(Paid)
       /\ spent + Cardinality(Running) * MaxAnswers <= Budget + InFlight

LEMMA MinOfTwo ==
  ASSUME NEW a \in Nat, NEW b \in Nat
  PROVE  Min({a, b}) \in {a, b} /\ Min({a, b}) <= a /\ Min({a, b}) <= b
<1>1. \E x \in {a, b} : \A y \in {a, b} : x <= y
  OBVIOUS
<1>2. Min({a, b}) \in {a, b} /\ \A y \in {a, b} : Min({a, b}) <= y
  BY <1>1 DEF Min
<1> QED BY <1>2

\* There is room for one answer more whenever a call is in its loop.
LEMMA OneMoreAnswer ==
  ASSUME TypeInv, CostInv
  PROVE  /\ MaxAnswers \in Nat
         /\ \A c \in Running : cost[c] \in Nat /\ cost[c] + 1 <= MaxAnswers
<1>0. Retries \in Nat /\ MaxLonger \in Nat
  BY LlmAssumption
<1> DEFINE half == (Retries + 3) \div 2
           m == Min({Retries + 1, half})
<1>1. half \in Nat /\ 2 * half >= Retries + 2
  BY <1>0
<1>2. m \in {Retries + 1, half}
  BY <1>0, <1>1, MinOfTwo
<1>3. m \in Nat /\ MaxAnswers = m + MaxLonger
  BY <1>0, <1>1, <1>2 DEF MaxAnswers
<1>4. ASSUME NEW c \in Running PROVE cost[c] \in Nat /\ cost[c] + 1 <= MaxAnswers
  <2> DEFINE used == Retries - retriesLeft[c]
  <2>1. c \in Calls /\ cost[c] \in Nat /\ longer[c] \in 0 .. MaxLonger
        /\ retriesLeft[c] \in 0 .. Retries
    BY <1>0 DEF Running, TypeInv, TypeOK, RetriesInv
  <2>2. 2 * used <= Retries + 1 /\ cost[c] = used + longer[c]
    BY <2>1 DEF CostInv
  <2>3. used \in Nat /\ used <= Retries
    BY <1>0, <2>1
  <2> HIDE DEF half, m, used
  <2>4. used + 1 <= half /\ used + 1 <= Retries + 1
    BY <1>0, <1>1, <2>2, <2>3
  <2>5. used + 1 <= m
    BY <1>2, <2>4
  <2> QED BY <1>0, <1>3, <2>1, <2>2, <2>3, <2>5
<1> HIDE DEF half, m
<1>5. MaxAnswers \in Nat
  BY <1>0, <1>3
<1> QED BY <1>4, <1>5

\* The sets of places are finite, and no larger than what they are taken from.
LEMMA Places ==
  ASSUME TypeInv, CostInv
  PROVE  /\ IsFiniteSet(Running) /\ Cardinality(Running) \in Nat
         /\ Cardinality(Running) <= Cardinality(Calls) /\ Cardinality(Calls) \in Nat
         /\ IsFiniteSet(Paid) /\ Cardinality(Paid) \in Nat
         /\ Cardinality(Paid) <= Cardinality(Running) * MaxAnswers
         /\ IsFiniteSet(Used) /\ Cardinality(Used) \in Nat /\ Cardinality(Used) <= InFlight
         /\ InFlight \in Nat
<1>1. IsFiniteSet(Calls) /\ Cardinality(Calls) \in Nat
  BY LlmAssumption, FS_CardinalityType
<1>2. IsFiniteSet(Running) /\ Cardinality(Running) \in Nat
      /\ Cardinality(Running) <= Cardinality(Calls)
  BY <1>1, FS_Subset, FS_CardinalityType DEF Running
<1>3. MaxAnswers \in Nat
  BY OneMoreAnswer
<1> PICK m \in Nat : m = MaxAnswers
  BY <1>3
<1>4. IsFiniteSet(1 .. m) /\ Cardinality(1 .. m) = m
  BY FS_Interval
<1>5. /\ IsFiniteSet(Running \X (1 .. m))
      /\ Cardinality(Running \X (1 .. m)) = Cardinality(Running) * m
  BY <1>2, <1>4, FS_Product
<1>6. /\ IsFiniteSet(Calls \X (1 .. m))
      /\ Cardinality(Calls \X (1 .. m)) = Cardinality(Calls) * m
  BY <1>1, <1>4, FS_Product
<1>7. Paid \subseteq Running \X (1 .. m) /\ Used \subseteq Calls \X (1 .. m)
  BY DEF Paid, Used
<1>8. /\ IsFiniteSet(Paid) /\ Cardinality(Paid) \in Nat
      /\ Cardinality(Paid) <= Cardinality(Running) * m
  BY <1>5, <1>7, FS_Subset, FS_CardinalityType
<1>9. /\ IsFiniteSet(Used) /\ Cardinality(Used) \in Nat
      /\ Cardinality(Used) <= Cardinality(Calls) * m
  BY <1>6, <1>7, FS_Subset, FS_CardinalityType
<1>10. InFlight = Cardinality(Calls) * m /\ Cardinality(Calls) * m \in Nat
  BY <1>1 DEF InFlight
<1> QED BY <1>1, <1>2, <1>8, <1>9, <1>10

\* An answer the loop goes on after takes one place.
LEMMA AnswerTakesPlace ==
  ASSUME TypeInv, CostInv, NEW c \in Running,
         Running' = Running, cost' = [cost EXCEPT ![c] = @ + 1]
  PROVE  /\ Cardinality(Paid)' = Cardinality(Paid) + 1
         /\ Cardinality(Used)' = Cardinality(Used) + 1
<1> DEFINE place == <<c, cost[c] + 1>>
<1>1. c \in Calls /\ cost \in [Calls -> Nat] /\ Running \subseteq Calls
  BY DEF Running, TypeInv, TypeOK
<1> PICK n \in Nat, m \in Nat : n = cost[c] /\ m = MaxAnswers /\ n + 1 <= m
  BY <1>1, OneMoreAnswer
<1>2. \A d \in Calls : cost'[d] = IF d = c THEN n + 1 ELSE cost[d]
  BY <1>1
<1>3. \A i \in 1 .. m : i <= n + 1 <=> i <= n \/ i = n + 1
  OBVIOUS
<1>4. n + 1 \in 1 .. m
  OBVIOUS
<1>5. Paid' = Paid \cup {place}
  <2>1. Paid' = {p \in Running \X (1 .. m) : p[2] <= cost'[p[1]]}
    BY DEF Paid, MaxAnswers
  <2>2. Paid = {p \in Running \X (1 .. m) : p[2] <= cost[p[1]]}
    BY DEF Paid
  <2>3. ASSUME NEW d \in Running, NEW i \in 1 .. m
        PROVE  <<d, i>> \in Paid' <=> <<d, i>> \in Paid \/ <<d, i>> = place
    <3>1. CASE d = c
      BY <1>1, <1>2, <1>3, <2>1, <2>2, <3>1
    <3>2. CASE d # c
      BY <1>1, <1>2, <2>1, <2>2, <3>2
    <3> QED BY <3>1, <3>2
  <2>4. place \in Running \X (1 .. m)
    BY <1>4
  <2> QED BY <2>1, <2>2, <2>3, <2>4
<1>6. Used' = Used \cup {place}
  <2>1. Used' = {p \in Calls \X (1 .. m) : p[1] \in Running => p[2] <= cost'[p[1]]}
    BY DEF Used, MaxAnswers
  <2>2. Used = {p \in Calls \X (1 .. m) : p[1] \in Running => p[2] <= cost[p[1]]}
    BY DEF Used
  <2>3. ASSUME NEW d \in Calls, NEW i \in 1 .. m
        PROVE  <<d, i>> \in Used' <=> <<d, i>> \in Used \/ <<d, i>> = place
    <3>1. CASE d = c
      BY <1>1, <1>2, <1>3, <2>1, <2>2, <3>1
    <3>2. CASE d # c
      BY <1>1, <1>2, <2>1, <2>2, <3>2
    <3> QED BY <3>1, <3>2
  <2>4. place \in Calls \X (1 .. m)
    BY <1>1, <1>4
  <2> QED BY <2>1, <2>2, <2>3, <2>4
<1>7. place \notin Paid /\ place \notin Used
  <2>1. ~(n + 1 <= cost[c])
    OBVIOUS
  <2> QED BY <2>1 DEF Paid, Used
<1>8. IsFiniteSet(Paid) /\ IsFiniteSet(Used)
  BY Places
<1> QED BY <1>5, <1>6, <1>7, <1>8, FS_AddElement

LEMMA SliceCount ==
  ASSUME NEW c, NEW n \in Nat
  PROVE  /\ IsFiniteSet(1 .. n)
         /\ IsFiniteSet({c} \X (1 .. n)) /\ Cardinality({c} \X (1 .. n)) = n
<1>1. IsFiniteSet({c}) /\ Cardinality({c}) = 1
  BY FS_Singleton
<1>2. IsFiniteSet(1 .. n) /\ Cardinality(1 .. n) = IF 1 > n THEN 0 ELSE n - 1 + 1
  BY FS_Interval
<1>3. Cardinality(1 .. n) = n
  BY <1>2
<1>4. /\ IsFiniteSet({c} \X (1 .. n))
      /\ Cardinality({c} \X (1 .. n)) = Cardinality({c}) * Cardinality(1 .. n)
  BY <1>1, <1>2, FS_Product
<1> QED BY <1>1, <1>2, <1>3, <1>4

\* The end of a loop, after an answer or without one, gives up the call's places, and
\* what they cost is in its record.
LEMMA EndGivesUp ==
  ASSUME TypeInv, CostInv, CostInv', TypeInv', NEW c \in Running, Running' = Running \ {c},
         NEW paid \in {cost[c], cost[c] + 1}, cost' = [cost EXCEPT ![c] = paid]
  PROVE  /\ Cardinality(Paid)' = Cardinality(Paid) - cost[c]
         /\ Cardinality(Used)' >= Cardinality(Used) + (paid - cost[c])
<1>1. c \in Calls /\ cost \in [Calls -> Nat] /\ Running \subseteq Calls
  BY DEF Running, TypeInv, TypeOK
<1> PICK n \in Nat, m \in Nat : n = cost[c] /\ m = MaxAnswers /\ n + 1 <= m
  BY <1>1, OneMoreAnswer
<1>2. \A d \in Calls : d # c => cost'[d] = cost[d]
  BY <1>1
<1>3. Cardinality(Paid)' = Cardinality(Paid) - n
  <2> DEFINE slice == {c} \X (1 .. n)
  <2>1. IsFiniteSet(slice) /\ Cardinality(slice) = n
    BY SliceCount
  <2>2. Paid = {p \in Running \X (1 .. m) : p[2] <= cost[p[1]]}
    BY DEF Paid
  <2>3. Paid' = {p \in (Running \ {c}) \X (1 .. m) : p[2] <= cost'[p[1]]}
    BY DEF Paid, MaxAnswers
  <2>4. \A i : i \in 1 .. n <=> i \in 1 .. m /\ i <= n
    OBVIOUS
  <2>5. ASSUME NEW d \in Running, NEW i \in 1 .. m
        PROVE  <<d, i>> \in Paid <=> <<d, i>> \in Paid' \/ <<d, i>> \in slice
    <3>1. CASE d = c
      BY <2>2, <2>3, <2>4, <3>1
    <3>2. CASE d # c
      BY <1>1, <1>2, <2>2, <2>3, <3>2
    <3> QED BY <3>1, <3>2
  <2>6. slice \subseteq Running \X (1 .. m)
    BY <2>4
  <2>7. Paid = Paid' \cup slice
    <3>1. Paid \subseteq Running \X (1 .. m) /\ Paid' \subseteq Running \X (1 .. m)
      BY <2>2, <2>3
    <3> HIDE DEF slice
    <3> QED BY <2>5, <2>6, <3>1
  <2>8. Paid' \cap slice = {}
    BY <2>3
  <2>9. IsFiniteSet(Paid') /\ Cardinality(Paid)' \in Nat
    <3>1. IsFiniteSet(Paid) /\ Paid' \subseteq Paid
      BY <2>7, Places
    <3> QED BY <3>1, FS_Subset, FS_CardinalityType
  <2> HIDE DEF slice
  <2>10. Cardinality(Paid) = Cardinality(Paid') + Cardinality(slice) - Cardinality(Paid' \cap slice)
    BY <2>1, <2>7, <2>9, FS_Union
  <2>11. Cardinality(Paid' \cap slice) = 0
    BY <2>8, FS_EmptySet
  <2> QED BY <2>1, <2>9, <2>10, <2>11
<1>4. Cardinality(Used)' >= Cardinality(Used) + (paid - n)
  <2> DEFINE place == <<c, n + 1>>
  <2>1. Used = {p \in Calls \X (1 .. m) : p[1] \in Running => p[2] <= cost[p[1]]}
    BY DEF Used
  <2>2. Used' = {p \in Calls \X (1 .. m) : p[1] \in Running \ {c} => p[2] <= cost'[p[1]]}
    BY DEF Used, MaxAnswers
  <2>3. ASSUME NEW p \in Used PROVE p \in Used'
    <3>1. PICK d \in Calls, i \in 1 .. m : p = <<d, i>>
      BY <2>1
    <3> QED BY <1>2, <2>1, <2>2, <3>1
  <2>4. place \in Used' /\ place \notin Used
    <3>1. n + 1 \in 1 .. m /\ ~(n + 1 <= cost[c])
      OBVIOUS
    <3> QED BY <1>1, <2>1, <2>2, <3>1
  <2>5. IsFiniteSet(Used) /\ Cardinality(Used) \in Nat
    BY Places
  <2>6. IsFiniteSet(Used') /\ Cardinality(Used)' \in Nat
    <3>1. Used' \subseteq Calls \X (1 .. m)
      BY <2>2
    <3>2. IsFiniteSet(Calls \X (1 .. m))
      <4>1. IsFiniteSet(Calls) /\ IsFiniteSet(1 .. m)
        BY LlmAssumption, SliceCount
      <4> QED BY <4>1, FS_Product
    <3> QED BY <3>1, <3>2, FS_Subset, FS_CardinalityType
  <2>7. Cardinality(Used \cup {place}) = Cardinality(Used) + 1
    BY <2>4, <2>5, FS_AddElement
  <2> HIDE DEF place
  <2>8. Used \cup {place} \subseteq Used'
    BY <2>3, <2>4
  <2>9. Cardinality(Used \cup {place}) <= Cardinality(Used')
    BY <2>6, <2>8, FS_Subset
  <2>10. paid - n \in {0, 1}
    OBVIOUS
  <2> QED BY <2>5, <2>6, <2>7, <2>9, <2>10
<1> QED BY <1>3, <1>4

\* The three things a step of a call may do to what is paid: end its loop, go on after an
\* answer, or nothing.
Ends(c) ==
  /\ c \in Running /\ Running' = Running \ {c}
  /\ \E paid \in {cost[c], cost[c] + 1} :
       /\ cost' = [cost EXCEPT ![c] = paid]
       /\ spent' = spent + paid /\ today' = today + (paid - cost[c])
       /\ UNCHANGED newDay

Answers(c) ==
  /\ c \in Running /\ Running' = Running
  /\ cost' = [cost EXCEPT ![c] = @ + 1] /\ today' = today + 1
  /\ UNCHANGED <<spent, newDay>>

Quiet ==
  /\ UNCHANGED <<spent, newDay, today, Running>>
  /\ \A c \in Running : cost'[c] = cost[c]

\* What Finally does, for the accounts.
LEMMA FinallyEnds ==
  ASSUME TypeInv, NEW c \in Running, NEW how \in Endings,
         NEW paid \in {cost[c], cost[c] + 1}, Finally(c, how, paid),
         today' = today + (paid - cost[c])
  PROVE  Ends(c)
<1>1. c \in Calls /\ paid \in Nat
  BY DEF Running, TypeInv, TypeOK
<1>2. Running' = Running \ {c}
  BY <1>1, FinallyTyped
<1> QED BY <1>2 DEF Ends, Finally

LEMMA AnsweredEnds ==
  ASSUME TypeInv, NEW c \in Running, NEW how \in Endings, Finally(c, how, cost[c] + 1),
         today' = today + 1
  PROVE  Ends(c)
<1>1. c \in Calls /\ cost[c] \in Nat
  BY DEF Running, TypeInv, TypeOK
<1>2. PICK paid \in {cost[c], cost[c] + 1} : paid = cost[c] + 1
  OBVIOUS
<1>3. Running' = Running \ {c}
  BY <1>1, FinallyTyped
<1>4. paid - cost[c] = 1
  BY <1>1, <1>2
<1>5. Finally(c, how, paid) /\ today' = today + (paid - cost[c])
  BY <1>2, <1>4
<1> QED BY <1>3, <1>5 DEF Ends, Finally

LEMMA LoopKinds ==
  ASSUME TypeInv, NEW c \in Calls,
         \/ Valid(c) \/ Invalid(c) \/ Truncated(c) \/ UnknownTool(c) \/ SchemaRejected(c)
         \/ Fatal(c) \/ Transient(c) \/ Backoff(c) \/ TimeoutInLoop(c)
  PROVE  Ends(c) \/ Answers(c) \/ Quiet
<1>0. cost[c] \in Nat /\ today \in Nat
  BY DEF TypeInv, TypeOK
<1>1. CASE Valid(c)
  <2>1. c \in Running /\ Finally(c, "ok", cost[c] + 1) /\ today' = today + 1
    BY <1>1 DEF Valid, Answered, Running
  <2> QED BY <2>1, AnsweredEnds DEF Endings
<1>2. CASE UnknownTool(c)
  <2>1. c \in Running /\ Finally(c, "error", cost[c] + 1) /\ today' = today + 1
    BY <1>2 DEF UnknownTool, Answered, Running
  <2> QED BY <2>1, AnsweredEnds DEF Endings
<1>3. CASE Fatal(c)
  <2>1. c \in Running /\ Finally(c, "error", cost[c]) /\ today' = today + (cost[c] - cost[c])
    BY <1>0, <1>3 DEF Fatal, Running
  <2> QED BY <2>1, FinallyEnds DEF Endings
<1>4. CASE TimeoutInLoop(c)
  <2>1. c \in Running /\ Finally(c, "timeout", cost[c]) /\ today' = today + (cost[c] - cost[c])
    BY <1>0, <1>4 DEF TimeoutInLoop, Running
  <2> QED BY <2>1, FinallyEnds DEF Endings
<1>5. CASE Invalid(c)
  <2>1. c \in Running /\ pc[c] = "posting" /\ today' = today + 1
    BY <1>5 DEF Invalid, Answered, Running
  <2>2. CASE Finally(c, "output_error", cost[c] + 1)
    BY <2>1, <2>2, AnsweredEnds DEF Endings
  <2>3. CASE Again(c) /\ cost' = [cost EXCEPT ![c] = @ + 1]
    <3>1. Running' = Running /\ UNCHANGED <<spent, newDay>>
      BY <2>1, <2>3, AgainTyped
    <3> QED BY <2>1, <2>3, <3>1 DEF Answers
  <2> QED BY <1>5, <2>2, <2>3 DEF Invalid
<1>6. CASE Truncated(c)
  <2>1. /\ c \in Running /\ pc[c] = "posting" /\ today' = today + 1
        /\ Again(c) /\ cost' = [cost EXCEPT ![c] = @ + 1]
    BY <1>6 DEF Truncated, Answered, Running
  <2>2. Running' = Running /\ UNCHANGED <<spent, newDay>>
    BY <2>1, AgainTyped
  <2> QED BY <2>1, <2>2 DEF Answers
<1>7. CASE SchemaRejected(c)
  <2>1. pc[c] = "posting" /\ Again(c) /\ UNCHANGED <<cost, today>>
    BY <1>7 DEF SchemaRejected
  <2> QED BY <2>1, AgainTyped DEF Quiet
<1>8. CASE Transient(c)
  BY <1>8 DEF Transient, Goto, Running, Quiet, budgetVars, TypeInv, TypeOK
<1>9. CASE Backoff(c)
  <2>1. CASE attempt[c] < MaxPosts
    BY <1>9, <2>1 DEF Backoff, Goto, Running, Quiet, budgetVars, TypeInv, TypeOK
  <2>2. CASE ~(attempt[c] < MaxPosts)
    <3>1. c \in Running /\ Finally(c, "error", cost[c]) /\ today' = today + (cost[c] - cost[c])
      BY <1>0, <1>9, <2>2 DEF Backoff, Running
    <3> QED BY <3>1, FinallyEnds DEF Endings
  <2> QED BY <2>1, <2>2
<1> QED BY <1>1, <1>2, <1>3, <1>4, <1>5, <1>6, <1>7, <1>8, <1>9

\* The end of the loop forgets its locals, and a call that has ended is not idle yet.
LEMMA FinallyCost ==
  ASSUME TypeInv, CostInv, NEW c \in Calls, NEW how \in Endings, NEW paid \in Nat,
         Finally(c, how, paid), \A d \in Calls \ {c} : retriesLeft'[d] = retriesLeft[d]
  PROVE  CostInv'
<1>1. Running' = Running \ {c}
  BY FinallyTyped
<1>2. \A d \in Calls : /\ longer'[d] = IF d = c THEN 0 ELSE longer[d]
                       /\ d # c => /\ turns'[d] = turns[d] /\ cost'[d] = cost[d]
                                   /\ pc'[d] = pc[d] /\ retriesLeft'[d] = retriesLeft[d]
                       /\ pc'[c] = "persisting"
  BY DEF Finally, LoopOver, Goto, TypeInv, TypeOK
<1> QED BY <1>1, <1>2 DEF CostInv

LEMMA CostStep == TypeInv /\ CostInv /\ [Next]_vars => CostInv'
<1> SUFFICES ASSUME TypeInv, CostInv, [Next]_vars PROVE CostInv'
  OBVIOUS
<1>0. Retries \in Nat
  BY LlmAssumption
<1> USE DEF TypeInv
<1>1. CASE Midnight \/ HourPasses \/ UNCHANGED vars
  BY <1>1 DEF Midnight, HourPasses, vars, loopVars, CostInv, Running
<1>2. CASE Restart
  BY <1>2 DEF Restart, AllCalls, CostInv, Running
<1>3. ASSUME NEW c \in Calls, Begin(c) PROVE CostInv'
  <2>1. /\ \A d \in Calls \ {c} : /\ pc'[d] = pc[d] /\ turns'[d] = turns[d]
                                  /\ retriesLeft'[d] = retriesLeft[d]
        /\ pc'[c] = "posting" /\ turns'[c] = 1 /\ retriesLeft'[c] = Retries
        /\ UNCHANGED <<longer, cost>> /\ pc[c] = "idle"
    BY <1>3 DEF Begin, Goto, TypeOK
  <2>2. cost[c] = 0 /\ longer[c] = 0
    BY <2>1 DEF CostInv, Running
  <2>3. \A d \in Calls : d # c => (d \in Running' <=> d \in Running)
    BY <2>1 DEF Running
  <2>4. Retries - Retries = 0 /\ 2 * 0 <= Retries + 1
    BY <1>0
  <2> QED BY <2>1, <2>2, <2>3, <2>4 DEF CostInv
<1>4. ASSUME NEW c \in Calls, Refuse(c) PROVE CostInv'
  BY <1>4 DEF Refuse, loopVars, CostInv, Running
<1>5. ASSUME NEW c \in Calls, Valid(c) \/ UnknownTool(c) \/ Fatal(c) \/ TimeoutInLoop(c)
      PROVE  CostInv'
  BY <1>5, FinallyCost DEF Valid, UnknownTool, Fatal, TimeoutInLoop, TypeOK, Endings
<1>6. ASSUME NEW c \in Calls, Invalid(c) PROVE CostInv'
  <2> DEFINE left == retriesLeft[c] - 1
             used == Retries - retriesLeft[c]
  <2>1. \A d \in Calls \ {c} : retriesLeft'[d] = retriesLeft[d]
    BY <1>6 DEF Invalid, TypeOK
  <2>2. CASE left >= 0 /\ MoreTurns(turns[c], left)
    <3>1. /\ pc[c] = "posting" /\ Again(c) /\ retriesLeft' = [retriesLeft EXCEPT ![c] = left]
          /\ cost' = [cost EXCEPT ![c] = @ + 1] /\ turns' = [turns EXCEPT ![c] = @ + 1]
          /\ UNCHANGED longer
      BY <1>6, <2>2 DEF Invalid, Answered
    <3>2. Running' = Running /\ c \in Running
      BY <3>1, AgainTyped DEF Running
    <3>3. \A d \in Calls : d # c => pc'[d] = pc[d]
      BY <3>1 DEF Again, Goto, TypeOK
    <3>4. pc'[c] = "posting"
      BY <3>1 DEF Again, Goto, TypeOK
    <3>5. /\ retriesLeft[c] \in 0 .. Retries /\ cost[c] \in Nat /\ turns[c] \in Nat
          /\ longer[c] \in Nat
      BY <1>0, <3>2 DEF TypeOK, RetriesInv
    <3>6. turns[c] = used + 1 /\ cost[c] = used + longer[c]
      BY <3>2 DEF CostInv
    <3>7. turns[c] < 1 + left + 1
      BY <2>2 DEF MoreTurns
    <3>8. /\ Retries - left = used + 1 /\ 2 * (used + 1) <= Retries + 1
          /\ turns[c] + 1 = (used + 1) + 1 /\ cost[c] + 1 = (used + 1) + longer[c]
      BY <1>0, <3>5, <3>6, <3>7
    <3> HIDE DEF left, used
    <3>9. /\ retriesLeft'[c] = left /\ cost'[c] = cost[c] + 1 /\ turns'[c] = turns[c] + 1
          /\ longer'[c] = longer[c]
          /\ \A d \in Calls : d # c => /\ cost'[d] = cost[d] /\ turns'[d] = turns[d]
                                       /\ longer'[d] = longer[d]
      BY <3>1 DEF TypeOK
    <3>10. ASSUME NEW d \in Calls
           PROVE  /\ d \in Running =>
                       LET u == Retries - retriesLeft'[d]
                       IN /\ turns'[d] = u + 1 /\ 2 * u <= Retries + 1
                          /\ cost'[d] = u + longer'[d]
                  /\ d \notin Running => longer'[d] = 0
                  /\ pc'[d] = "idle" => cost'[d] = 0
      <4>1. CASE d = c
        BY <3>2, <3>4, <3>8, <3>9, <4>1
      <4>2. CASE d # c
        BY <2>1, <3>3, <3>9, <4>2 DEF CostInv
      <4> QED BY <4>1, <4>2
    <3> QED BY <3>2, <3>10 DEF CostInv
  <2>3. CASE ~(left >= 0 /\ MoreTurns(turns[c], left))
    <3>1. Finally(c, "output_error", cost[c] + 1) /\ cost[c] + 1 \in Nat
      BY <1>6, <2>3 DEF Invalid, TypeOK
    <3> QED BY <2>1, <3>1, FinallyCost DEF Endings
  <2> QED BY <2>2, <2>3
<1>7. ASSUME NEW c \in Calls, Truncated(c) PROVE CostInv'
  <2>1. /\ pc[c] = "posting" /\ Again(c) /\ cost' = [cost EXCEPT ![c] = @ + 1]
        /\ longer' = [longer EXCEPT ![c] = @ + 1] /\ UNCHANGED <<turns, retriesLeft>>
    BY <1>7 DEF Truncated, Answered
  <2>2. Running' = Running /\ c \in Running
    BY <2>1, AgainTyped DEF Running
  <2>3. pc'[c] = "posting" /\ \A d \in Calls : d # c => pc'[d] = pc[d]
    BY <2>1 DEF Again, Goto, TypeOK
  <2>4. /\ cost'[c] = cost[c] + 1 /\ longer'[c] = longer[c] + 1
        /\ \A d \in Calls : d # c => cost'[d] = cost[d] /\ longer'[d] = longer[d]
    BY <2>1 DEF TypeOK
  <2>5. cost[c] \in Nat /\ longer[c] \in Nat /\ retriesLeft[c] \in Int
    BY <1>0 DEF TypeOK
  <2>6. cost'[c] = (Retries - retriesLeft[c]) + longer'[c]
    BY <1>0, <2>2, <2>4, <2>5 DEF CostInv
  <2> QED BY <2>1, <2>2, <2>3, <2>4, <2>6 DEF CostInv
<1>8. ASSUME NEW c \in Calls, SchemaRejected(c) PROVE CostInv'
  <2>1. /\ pc[c] = "posting" /\ Again(c) /\ UNCHANGED <<cost, longer, turns, retriesLeft>>
    BY <1>8 DEF SchemaRejected
  <2>2. Running' = Running
    BY <2>1, AgainTyped
  <2>3. pc'[c] = "posting" /\ \A d \in Calls : d # c => pc'[d] = pc[d]
    BY <2>1 DEF Again, Goto, TypeOK
  <2> QED BY <2>1, <2>2, <2>3 DEF CostInv
<1>9. ASSUME NEW c \in Calls, Transient(c) PROVE CostInv'
  <2>1. /\ pc' = [pc EXCEPT ![c] = "backoff"] /\ pc[c] = "posting"
        /\ UNCHANGED <<cost, longer, turns, retriesLeft>>
    BY <1>9 DEF Transient, Goto, loopVars
  <2> QED BY <2>1 DEF CostInv, Running, TypeOK
<1>10. ASSUME NEW c \in Calls, Backoff(c) PROVE CostInv'
  <2>1. CASE attempt[c] < MaxPosts
    <3>1. /\ pc' = [pc EXCEPT ![c] = "posting"] /\ pc[c] = "backoff"
          /\ UNCHANGED <<cost, longer, turns, retriesLeft>>
      BY <1>10, <2>1 DEF Backoff, Goto
    <3> QED BY <3>1 DEF CostInv, Running, TypeOK
  <2>2. CASE ~(attempt[c] < MaxPosts)
    BY <1>10, <2>2, FinallyCost DEF Backoff, TypeOK, Endings
  <2> QED BY <2>1, <2>2
<1>11. ASSUME NEW c \in Calls, Persist(c) \/ TimeoutInPersist(c) \/ PersistTimeout(c)
       PROVE  CostInv'
  <2>1. /\ pc[c] \notin {"posting", "backoff"}
        /\ \E place \in {"idle", "persist_timeout"} :
             /\ pc' = [pc EXCEPT ![c] = place]
             /\ \/ cost' = [cost EXCEPT ![c] = 0] /\ retriesLeft' = [retriesLeft EXCEPT ![c] = 0]
                \/ place # "idle" /\ UNCHANGED <<cost, retriesLeft>>
        /\ UNCHANGED <<longer, turns>>
    BY <1>11 DEF Persist, TimeoutInPersist, PersistTimeout, Return, Goto, loopVars
  <2>2. PICK place \in {"idle", "persist_timeout"} :
             /\ pc' = [pc EXCEPT ![c] = place]
             /\ \/ cost' = [cost EXCEPT ![c] = 0] /\ retriesLeft' = [retriesLeft EXCEPT ![c] = 0]
                \/ place # "idle" /\ UNCHANGED <<cost, retriesLeft>>
    BY <2>1
  <2>3. /\ c \notin Running /\ Running' = Running
        /\ pc'[c] = place /\ (place = "idle" => cost'[c] = 0)
        /\ \A d \in Calls : d # c => /\ pc'[d] = pc[d] /\ cost'[d] = cost[d]
                                     /\ retriesLeft'[d] = retriesLeft[d]
    BY <2>1, <2>2 DEF Running, TypeOK
  <2> QED BY <2>1, <2>3 DEF CostInv
<1> QED
  BY <1>1, <1>2, <1>3, <1>4, <1>5, <1>6, <1>7, <1>8, <1>9, <1>10, <1>11 DEF Next, Progress

\* One place of a running call more or less, in the budget's bound.
LEMMA TimesOne ==
  ASSUME NEW n \in Nat, NEW m \in Nat
  PROVE  (n + 1) * m = n * m + m /\ n * m \in Nat
OBVIOUS

LEMMA SpendStep == TypeInv /\ CostInv /\ SpendInv /\ [Next]_vars => SpendInv'
<1> SUFFICES ASSUME TypeInv, CostInv, SpendInv, [Next]_vars PROVE SpendInv'
  OBVIOUS
<1>0. TypeInv' /\ CostInv'
  BY StepTyped, CostStep
<1> PICK m \in Nat, f \in Nat : m = MaxAnswers /\ f = InFlight
  BY OneMoreAnswer, Places
<1> PICK r \in Nat, p \in Nat, u \in Nat :
      r = Cardinality(Running) /\ p = Cardinality(Paid) /\ u = Cardinality(Used)
  BY Places
<1>1. /\ IsFiniteSet(Running) /\ p <= r * m /\ u <= f /\ r <= Cardinality(Calls)
      /\ f = Cardinality(Calls) * m /\ Cardinality(Calls) \in Nat
  BY Places DEF InFlight
<1>2. /\ spent \in Nat /\ today \in Nat /\ newDay \in BOOLEAN /\ newDay' \in BOOLEAN
      /\ Budget \in Nat
  BY <1>0, LlmAssumption DEF TypeInv, TypeOK
<1>3. /\ Cardinality(Running)' \in Nat /\ Cardinality(Paid)' \in Nat /\ Cardinality(Used)' \in Nat
      /\ MaxAnswers' = MaxAnswers /\ InFlight' = InFlight
  <2>1. Running' \subseteq Calls /\ Paid' \subseteq Calls \X (1 .. m)
        /\ Used' \subseteq Calls \X (1 .. m)
    BY DEF Running, Paid, Used, MaxAnswers
  <2>2. IsFiniteSet(Calls) /\ IsFiniteSet(Calls \X (1 .. m))
    <3>1. IsFiniteSet(Calls) /\ IsFiniteSet(1 .. m)
      BY LlmAssumption, SliceCount
    <3> QED BY <3>1, FS_Product
  <2>3. IsFiniteSet(Running') /\ IsFiniteSet(Paid') /\ IsFiniteSet(Used')
    BY <2>1, <2>2, FS_Subset
  <2> QED BY <2>3, FS_CardinalityType DEF InFlight, MaxAnswers
<1>4. /\ newDay => today <= u
      /\ ~newDay => today <= f + spent + p /\ spent + r * m <= Budget + f
  BY DEF SpendInv
<1>5. r * m <= f
  <2>1. PICK k \in Nat : Cardinality(Calls) = r + k
    <3>1. Cardinality(Calls) - r \in Nat /\ Cardinality(Calls) = r + (Cardinality(Calls) - r)
      BY <1>1
    <3> QED BY <3>1
  <2>2. (r + k) * m = r * m + k * m /\ k * m \in Nat /\ r * m \in Nat
    OBVIOUS
  <2> QED BY <1>1, <2>1, <2>2
<1>6. CASE Midnight
  BY <1>2, <1>3, <1>6 DEF Midnight, SpendInv
<1>7. CASE Restart
  <2>1. Running' = {}
    BY <1>7 DEF Restart, AllCalls, Running
  <2>2. Cardinality(Running)' = 0
    BY <2>1, FS_EmptySet
  <2>3. newDay' = FALSE /\ spent' = 0 /\ today' = 0
    BY <1>7 DEF Restart
  <2>4. 0 * m = 0
    OBVIOUS
  <2> QED BY <1>2, <1>3, <2>2, <2>3, <2>4 DEF SpendInv
<1>8. CASE Quiet
  <2>1. Running' = Running /\ \A c \in Running : cost'[c] = cost[c]
    BY <1>8 DEF Quiet
  <2>2. Paid' = Paid
    BY <1>3, <2>1 DEF Paid
  <2>3. Used' = Used
    BY <1>3, <2>1 DEF Used
  <2> QED BY <1>3, <1>8, <2>2, <2>3 DEF Quiet, SpendInv
<1>9. ASSUME NEW c \in Calls, Answers(c) PROVE SpendInv'
  <2>1. c \in Running /\ Running' = Running /\ today' = today + 1 /\ UNCHANGED <<spent, newDay>>
    BY <1>9 DEF Answers
  <2>2. Cardinality(Paid)' = p + 1 /\ Cardinality(Used)' = u + 1
    BY <1>9, <2>1, AnswerTakesPlace DEF Answers
  <2>3. Cardinality(Running)' = r
    BY <2>1
  <2> QED BY <1>2, <1>3, <1>4, <2>1, <2>2, <2>3 DEF SpendInv
<1>10. ASSUME NEW c \in Calls, Ends(c) PROVE SpendInv'
  <2>1. PICK paid \in {cost[c], cost[c] + 1} :
          /\ cost' = [cost EXCEPT ![c] = paid]
          /\ spent' = spent + paid /\ today' = today + (paid - cost[c])
          /\ UNCHANGED newDay
    BY <1>10 DEF Ends
  <2>2. c \in Running /\ Running' = Running \ {c}
    BY <1>10 DEF Ends
  <2>3. PICK n \in Nat : n = cost[c] /\ n + 1 <= m
    BY <2>2, OneMoreAnswer
  <2>4. Cardinality(Paid)' = p - n /\ Cardinality(Used)' >= u + (paid - n)
    BY <1>0, <2>1, <2>2, <2>3, EndGivesUp
  <2>5. Cardinality(Running)' = r - 1 /\ r - 1 \in Nat
    BY <1>1, <1>3, <2>2, FS_RemoveElement
  <2>6. r * m = (r - 1) * m + m /\ (r - 1) * m \in Nat
    <3> PICK k \in Nat : k = r - 1
      BY <2>5
    <3>1. r = k + 1
      OBVIOUS
    <3> QED BY <3>1, TimesOne
  <2>7. paid \in Nat /\ paid - n \in {0, 1} /\ paid <= m
    BY <2>3
  <2>8. CASE newDay
    BY <1>2, <1>3, <1>4, <2>1, <2>3, <2>4, <2>7, <2>8 DEF SpendInv
  <2>9. CASE ~newDay
    <3>1. today' <= f + spent' + Cardinality(Paid)'
      BY <1>2, <1>3, <1>4, <2>1, <2>3, <2>4, <2>7, <2>9
    <3>2. spent' + (r - 1) * m <= Budget + f
      BY <1>2, <1>4, <2>1, <2>6, <2>7, <2>9
    <3> QED BY <1>3, <2>1, <2>5, <2>9, <3>1, <3>2 DEF SpendInv
  <2> QED BY <1>2, <2>8, <2>9
<1>11. ASSUME Resets, today' = today PROVE today <= f + spent' + p /\ spent' + r * m <= SpentToday + r * m
  <2>1. spent' = SpentToday /\ SpentToday \in Nat /\ r * m \in Nat
    BY <1>2, <1>11 DEF Resets, SpentToday
  <2>2. today <= f + spent' + p
    BY <1>1, <1>2, <1>4, <2>1 DEF SpentToday
  <2> QED BY <2>1, <2>2
<1>12. ASSUME NEW c \in Calls, Refuse(c) PROVE SpendInv'
  <2>1. Resets /\ today' = today /\ pc' = pc /\ cost' = cost
    BY <1>12 DEF Refuse
  <2>2. UNCHANGED <<Running, Paid>>
    BY <1>3, <2>1 DEF Running, Paid
  <2>3. newDay' = FALSE /\ spent' = SpentToday
    BY <2>1 DEF Resets
  <2>4. spent' + r * m <= Budget + f
    <3>1. CASE newDay
      BY <1>2, <1>5, <2>3, <3>1 DEF SpentToday
    <3>2. CASE ~newDay
      BY <1>2, <1>4, <2>3, <3>2 DEF SpentToday
    <3> QED BY <1>2, <3>1, <3>2
  <2>5. today' <= f + spent' + p
    BY <1>11, <2>1
  <2> QED BY <1>3, <2>2, <2>3, <2>4, <2>5 DEF SpendInv
<1>13. ASSUME NEW c \in Calls, Begin(c) PROVE SpendInv'
  <2>1. /\ Resets /\ MayBegin /\ today' = today /\ cost' = cost
        /\ pc[c] = "idle" /\ pc' = [pc EXCEPT ![c] = "posting"]
    BY <1>13 DEF Begin, Goto
  <2>2. c \notin Running /\ Running' = Running \cup {c}
    BY <2>1 DEF Running, TypeInv, TypeOK
  <2>3. Cardinality(Running)' = r + 1
    BY <1>1, <1>3, <2>2, FS_AddElement
  <2>4. Paid' = Paid
    <3>1. cost[c] = 0
      BY <2>1 DEF CostInv
    <3>2. \A i \in 1 .. m : ~(i <= 0)
      OBVIOUS
    <3> QED BY <1>3, <2>1, <2>2, <3>1, <3>2 DEF Paid
  <2>5. newDay' = FALSE /\ spent' = SpentToday /\ SpentToday <= Budget /\ SpentToday \in Nat
    BY <1>2, <2>1 DEF Resets, MayBegin, SpentToday
  <2>6. (r + 1) * m <= f
    <3>1. Running' \subseteq Calls /\ IsFiniteSet(Calls)
      BY LlmAssumption DEF Running
    <3>2. r + 1 <= Cardinality(Calls)
      BY <2>3, <3>1, FS_Subset
    <3>3. PICK k \in Nat : Cardinality(Calls) = (r + 1) + k
      <4>1. /\ Cardinality(Calls) - (r + 1) \in Nat
            /\ Cardinality(Calls) = (r + 1) + (Cardinality(Calls) - (r + 1))
        BY <1>1, <3>2
      <4> QED BY <4>1
    <3>4. ((r + 1) + k) * m = (r + 1) * m + k * m /\ k * m \in Nat /\ (r + 1) * m \in Nat
      OBVIOUS
    <3> QED BY <1>1, <3>3, <3>4
  <2>7. (r + 1) * m \in Nat
    OBVIOUS
  <2>8. spent' + (r + 1) * m <= Budget + f
    BY <1>2, <2>5, <2>6, <2>7
  <2>9. today' <= f + spent' + p
    BY <1>11, <2>1
  <2> QED BY <1>3, <2>3, <2>4, <2>5, <2>8, <2>9 DEF SpendInv
<1>14. ASSUME NEW c \in Calls, Persist(c) \/ TimeoutInPersist(c) \/ PersistTimeout(c)
       PROVE  Quiet
  <2>1. /\ UNCHANGED <<spent, newDay, today>> /\ pc[c] \notin {"posting", "backoff"}
        /\ \E place \in {"idle", "persist_timeout"} : pc' = [pc EXCEPT ![c] = place]
        /\ cost' = cost \/ cost' = [cost EXCEPT ![c] = 0]
    BY <1>14 DEF Persist, TimeoutInPersist, PersistTimeout, Return, Goto, budgetVars
  <2> QED BY <2>1 DEF Quiet, Running, TypeInv, TypeOK
<1>15. CASE HourPasses \/ UNCHANGED vars
  <2>1. Quiet
    BY <1>15 DEF HourPasses, vars, budgetVars, Quiet, Running
  <2> QED BY <1>8, <2>1
<1> QED
  BY <1>6, <1>7, <1>8, <1>9, <1>10, <1>12, <1>13, <1>14, <1>15, LoopKinds DEF Next, Progress

\* LLMBudget: the answers of one day cost at most the budget and two full calls for each
\* concurrent one (those in flight when the budget is passed, and those in flight at
\* midnight, whose record the next check throws away), for any number of concurrent calls,
\* retries and limits.
THEOREM SpendingTheorem == Spec => []DaySpending
<1>1. Init => CostInv
  BY DEF Init, AllCalls, CostInv, Running
<1>2. Init => SpendInv
  <2> SUFFICES ASSUME Init PROVE SpendInv
    OBVIOUS
  <2>1. TypeInv /\ CostInv
    BY <1>1, InitTyped
  <2>2. Running = {}
    BY DEF Init, AllCalls, Running
  <2>3. Cardinality(Running) = 0
    BY <2>2, FS_EmptySet
  <2> PICK m \in Nat, f \in Nat : m = MaxAnswers /\ f = InFlight
    BY <2>1, OneMoreAnswer, Places
  <2>4. Cardinality(Paid) \in Nat /\ 0 * m = 0 /\ Budget \in Nat
    BY <2>1, Places, LlmAssumption
  <2> QED BY <2>3, <2>4 DEF Init, SpendInv
<1>3. Spec => [](TypeInv /\ CostInv /\ SpendInv)
  BY InitTyped, StepTyped, <1>1, CostStep, <1>2, SpendStep, PTL DEF Spec
<1>4. TypeInv /\ CostInv /\ SpendInv => DaySpending
  <2> SUFFICES ASSUME TypeInv, CostInv, SpendInv PROVE DaySpending
    OBVIOUS
  <2> PICK m \in Nat, f \in Nat : m = MaxAnswers /\ f = InFlight
    BY OneMoreAnswer, Places
  <2> PICK r \in Nat, p \in Nat, u \in Nat :
        r = Cardinality(Running) /\ p = Cardinality(Paid) /\ u = Cardinality(Used)
    BY Places
  <2>1. p <= r * m /\ u <= f /\ r * m \in Nat
    BY Places
  <2>2. /\ newDay => today <= u
        /\ ~newDay => today <= f + spent + p /\ spent + r * m <= Budget + f
    BY DEF SpendInv
  <2>3. spent \in Nat /\ today \in Nat /\ newDay \in BOOLEAN /\ Budget \in Nat
    BY LlmAssumption DEF TypeInv, TypeOK
  <2>4. today <= Budget + 2 * f
    BY <2>1, <2>2, <2>3
  <2> QED BY <2>4 DEF DaySpending
<1> QED BY <1>3, <1>4, PTL
=============================================================================
