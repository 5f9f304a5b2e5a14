---------------------- MODULE LoopAndPredictions_proofs ----------------------
(***************************************************************************)
(* Proofs about two parts that have nothing to do with each other, each    *)
(* too small for a module of its own: the main loop (TradingDay), and the  *)
(* predictions and what became of them (Predictions).                      *)
(***************************************************************************)
EXTENDS TradingDay, Predictions, FiniteSetTheorems, SequenceTheorems, TLAPS

(***************************************************************************)
(* The main loop.                                                          *)
(***************************************************************************)

\* Each step of the loop, of the clock and of the process keeps every variable's type.
THEOREM DayTypeCorrect == Spec => []TypeOK
<1> USE DayAssumption DEF TypeOK, Days, Slots
<1>1. Init => TypeOK
  BY DEF Init
<1>2. TypeOK /\ [Next]_vars => TypeOK'
  <2> SUFFICES ASSUME TypeOK, [Next]_vars PROVE TypeOK'
    OBVIOUS
  <2>1. UtcDate \in Days /\ Tomorrow \in Days
    BY DEF UtcDate, Tomorrow
  <2>2. CASE Loop
    BY <2>1, <2>2 DEF Loop, StartTimeStop, StartCycle, SkipIteration, EndCycle, EndTimeStop, Wake,
                      clockVars
  <2>3. CASE OpenPosition \/ Crash \/ ClosedElsewhere
    BY <2>3 DEF OpenPosition, Crash, ClosedElsewhere, clockVars
  <2>4. CASE Tick
    BY <2>1, <2>4 DEF Tick, NextSlot
  <2>5. CASE UNCHANGED vars
    BY <2>5 DEF vars
  <2>6. QED
    BY <2>2, <2>3, <2>4, <2>5 DEF Next
<1>3. QED
  BY <1>1, <1>2, PTL DEF Spec

(***************************************************************************)
(* The night.  By the time the loop has gone round once in the evening, a  *)
(* time-stop is done for tomorrow's UTC date and nothing was opened since; *)
(* so the marker is never more than a day old, and is never mistaken.      *)
(***************************************************************************)
Rested == slot = "evening" /\ lag = 0

NightInv ==
  /\ TypeOK
  /\ pc = "cycle" => Weekday /\ (slot \in {"open", "late"} \/ (slot = "post" /\ lag >= 1))
  /\ pc = "stopping" => slot \in {"late", "post", "evening"} /\ today \in {day, UtcDate}
  /\ doneFor \in {Never, day, UtcDate}
  /\ Rested => account # "new"
  /\ Rested => IF pc = "stopping" THEN today = Tomorrow ELSE doneFor = Tomorrow
  /\ pc = "stopping" \/ (slot = "evening" /\ doneFor = Tomorrow) => account # "new"
  /\ slot = "pre" => account # "new"

LEMMA NightStep ==
  ASSUME NightInv, TypeOK', [Next]_vars
  PROVE  NightInv'
<1> USE DayAssumption DEF NightInv, TypeOK, Days, Slots, Rested, UtcDate, Weekday, clockVars
<1>1. Tomorrow \in Days /\ Tomorrow # day
  BY DEF Tomorrow
<1>2. CASE StartTimeStop
  BY <1>1, <1>2 DEF StartTimeStop, TimeStopDue, IsTimeStop, Tomorrow
<1>3. CASE StartCycle \/ SkipIteration
  <2>1. CASE StartCycle
    BY <1>1, <1>3, <2>1 DEF StartCycle, TimeStopDue, IsTimeStop, IsMarketOpen, Tomorrow
  <2>2. CASE SkipIteration
    BY <1>1, <1>3, <2>2 DEF SkipIteration, TimeStopDue, IsTimeStop, Tomorrow
  <2>3. QED
    BY <1>3, <2>1, <2>2
<1>4. CASE EndCycle \/ Wake
  BY <1>1, <1>4 DEF EndCycle, Wake, Tomorrow
<1>5. CASE EndTimeStop
  BY <1>1, <1>5 DEF EndTimeStop, Tomorrow
<1>6. CASE OpenPosition \/ ClosedElsewhere
  BY <1>1, <1>6 DEF OpenPosition, ClosedElsewhere, Tomorrow
<1>7. CASE Crash
  BY <1>1, <1>7 DEF Crash, Tomorrow
<1>8. CASE Tick
  <2>1. /\ lag = 0 \/ (lag = 1 /\ slot = "late")
        /\ lag' = lag + 1 /\ UNCHANGED <<pc, today, doneFor, account>>
    BY <1>8 DEF Tick
  <2>2. CASE slot = "evening"
    <3>1. slot' = "pre" /\ day' = Tomorrow /\ pc # "stopping"
      BY <1>8, <2>2 DEF Tick, NextSlot
    <3>2. QED
      BY <1>1, <2>1, <2>2, <3>1 DEF Tomorrow
  <2>3. CASE slot # "evening"
    <3>1. slot' = NextSlot[slot] /\ slot' # "pre" /\ day' = day
      BY <1>8, <2>3 DEF Tick, NextSlot
    <3>2. QED
      BY <1>1, <2>1, <2>3, <3>1 DEF NextSlot, Tomorrow
  <2>4. QED
    BY <2>2, <2>3
<1>9. CASE UNCHANGED vars
  BY <1>9 DEF vars, Tomorrow
<1>10. QED
  BY <1>2, <1>3, <1>4, <1>5, <1>6, <1>7, <1>8, <1>9 DEF Next, Loop

LEMMA NightCorrect == Spec => []NightInv
<1>1. Init => NightInv
  BY DayAssumption DEF Init, NightInv, TypeOK, Days, Slots, Rested, UtcDate, Weekday
<1>2. NightInv /\ TypeOK' /\ [Next]_vars => NightInv'
  BY NightStep
<1> QED BY <1>1, <1>2, DayTypeCorrect, PTL DEF Spec

\* What a cycle opened has been found by a time-stop before the next morning, on every day,
\* after every restart, and also when a cycle ran from before TIME_STOP past the close.
THEOREM NightTheorem == Spec => []AskedByMorning
<1>1. NightInv => AskedByMorning
  BY DEF NightInv, AskedByMorning
<1> QED BY <1>1, NightCorrect, PTL

(***************************************************************************)
(* Least and greatest elements, and the oldest rows of a query.            *)
(***************************************************************************)
NatLess == {ss \in Nat \X Nat : ss[1] < ss[2]}

\* A set of naturals has a least element, and Min finds it.
LEMMA MinIsLeast ==
  ASSUME NEW T, T \subseteq Nat, T # {}
  PROVE  Min(T) \in T /\ \A y \in T : Min(T) <= y
<1>1. IsWellFoundedOn(NatLess, Nat)
  BY NatLessThanWellFounded DEF OpToRel, NatLess
<1>2. PICK x \in T : \A y \in T : ~ (<<y, x>> \in NatLess)
  BY <1>1, WFMin
<1>3. ASSUME NEW y \in T PROVE x <= y
  <2>1. x \in Nat /\ y \in Nat
    OBVIOUS
  <2>2. ~ (y < x)
    BY <1>2, <2>1 DEF NatLess
  <2> QED BY <2>1, <2>2
<1> QED BY <1>2, <1>3 DEF Min

\* A bounded set of naturals has a greatest element, and Max finds it.
LEMMA MaxIsGreatest ==
  ASSUME NEW n \in Nat, NEW T, T \subseteq 0 .. n, T # {}
  PROVE  Max(T) \in T /\ \A y \in T : Max(T) >= y
<1> DEFINE mirror == {n - y : y \in T}
<1>1. mirror \subseteq Nat /\ mirror # {}
  <2>1. \A y \in T : n - y \in Nat
    OBVIOUS
  <2> QED BY <2>1
<1>2. Min(mirror) \in mirror /\ \A z \in mirror : Min(mirror) <= z
  BY <1>1, MinIsLeast
<1>3. PICK x \in T : Min(mirror) = n - x
  BY <1>2
<1>4. \A y \in T : n - x <= n - y
  BY <1>2, <1>3
<1>5. \A y \in T : x >= y
  BY <1>4
<1> QED BY <1>5 DEF Max

\* A query with a limit returns rows that were asked for, and no more than the limit.
LEMMA OldestWithinLimit ==
  ASSUME NEW rows, rows \subseteq Nat, IsFiniteSet(rows), NEW n \in Nat
  PROVE  /\ Oldest(rows, n) \subseteq rows /\ IsFiniteSet(Oldest(rows, n))
         /\ Cardinality(Oldest(rows, n)) <= n
<1> DEFINE before(i) == {j \in rows : j < i}
           f == [i \in Oldest(rows, n) |-> Cardinality(before(i))]
<1>1. Oldest(rows, n) \subseteq rows
  BY DEF Oldest
<1>2. ASSUME NEW i \in rows PROVE IsFiniteSet(before(i)) /\ Cardinality(before(i)) \in Nat
  BY FS_Subset, FS_CardinalityType
<1>3. \A i \in Oldest(rows, n) : f[i] \in 0 .. (n - 1)
  BY <1>1, <1>2 DEF Oldest
<1>4. ASSUME NEW i \in rows, NEW k \in rows, i < k
      PROVE  Cardinality(before(i)) < Cardinality(before(k))
  <2>0. i \in Nat /\ k \in Nat /\ \A j \in rows : j \in Nat
    OBVIOUS
  <2>1. before(i) \subseteq before(k)
    <3>1. \A j \in rows : j < i => j < k
      BY <1>4, <2>0
    <3> QED BY <3>1
  <2>2. i \in before(k) /\ i \notin before(i)
    BY <1>4, <2>0
  <2> QED BY <1>2, <2>1, <2>2, FS_Subset
<1>5. \A i, k \in Oldest(rows, n) : f[i] = f[k] => i = k
  <2> SUFFICES ASSUME NEW i \in Oldest(rows, n), NEW k \in Oldest(rows, n), f[i] = f[k], i # k
               PROVE  FALSE
    OBVIOUS
  <2>1. i \in rows /\ k \in rows /\ i \in Nat /\ k \in Nat
    BY <1>1
  <2>2. Cardinality(before(i)) = Cardinality(before(k)) /\ (i < k \/ k < i)
    BY <2>1
  <2> HIDE DEF before
  <2> QED BY <1>2, <1>4, <2>1, <2>2
<1>6. f \in Injection(Oldest(rows, n), 0 .. (n - 1))
  <2>1. f \in [Oldest(rows, n) -> 0 .. (n - 1)]
    BY <1>3
  <2>2. IsInjective(f)
    BY <1>5 DEF IsInjective
  <2> QED BY <2>1, <2>2 DEF Injection
<1>7. IsFiniteSet(0 .. (n - 1)) /\ Cardinality(0 .. (n - 1)) = n
  BY FS_Interval
<1>8. Cardinality(Oldest(rows, n)) <= n
  BY <1>6, <1>7, FS_Injection
<1> QED BY <1>1, <1>8, FS_Subset
(***************************************************************************)
(* The predictions: types.                                                 *)
(***************************************************************************)
\* The rows are numbered, and there are finitely many.
LEMMA RowNumbers ==
  ASSUME RowsTypeOK
  PROVE  DOMAIN table = 1 .. Len(table) /\ DOMAIN table \subseteq Nat /\ IsFiniteSet(DOMAIN table)
<1>1. DOMAIN table = 1 .. Len(table) /\ Len(table) \in Nat
  BY DEF RowsTypeOK
<1>2. DOMAIN table \subseteq Nat
  BY <1>1
<1> QED BY <1>1, <1>2, FS_Interval

\* The row a run is at is one of those it has left.
LEMMA CurrentRow ==
  ASSUME RowsTypeOK, NEW r \in Resolvers, Running(r)
  PROVE  Current(r) \in job[r].pending /\ Current(r) \in DOMAIN table
<1>1. job[r].pending \subseteq DOMAIN table /\ job[r].pending # {}
  BY DEF RowsTypeOK, Running
<1>2. Min(job[r].pending) \in job[r].pending
  BY <1>1, RowNumbers, MinIsLeast
<1> QED BY <1>1, <1>2 DEF Current

\* The prices of a measurable row: where the comparison starts, and where it ends.
LEMMA MeasurePrices ==
  ASSUME RowsTypeOK, NEW i \in DOMAIN table, Measurable(i)
  PROVE  LET from == {t \in Series(i) : t >= table[i].ts}
         IN  /\ Series(i) \subseteq 0 .. MaxTime /\ Series(i) # {} /\ UpToHorizon(i) # {}
             /\ Entry(i) \in Series(i)
             /\ from # {} => Entry(i) \in from /\ \A t \in from : Entry(i) <= t
             /\ Max(UpToHorizon(i)) \in UpToHorizon(i)
             /\ \A t \in UpToHorizon(i) : Max(UpToHorizon(i)) >= t
<1> DEFINE from == {t \in Series(i) : t >= table[i].ts}
<1>1. Series(i) \subseteq 0 .. MaxTime /\ MaxTime \in Nat
  BY PredictionsAssumption DEF Series, RowsTypeOK, Moments
<1>2. UpToHorizon(i) # {} /\ UpToHorizon(i) \subseteq Series(i)
  BY DEF Measurable, UpToHorizon
<1>3. Series(i) \subseteq Nat /\ from \subseteq Nat
  BY <1>1
<1>4. Min(Series(i)) \in Series(i)
  BY <1>2, <1>3, MinIsLeast
<1>5. from # {} => Min(from) \in from /\ \A t \in from : Min(from) <= t
  BY <1>3, MinIsLeast
<1>6. Entry(i) = Min(IF from = {} THEN Series(i) ELSE from)
  BY DEF Entry
<1>7. Max(UpToHorizon(i)) \in UpToHorizon(i) /\ \A t \in UpToHorizon(i) : Max(UpToHorizon(i)) >= t
  BY <1>1, <1>2, MaxIsGreatest
<1>8. Entry(i) \in Series(i)
  BY <1>4, <1>5, <1>6
<1> QED BY <1>1, <1>2, <1>5, <1>6, <1>7, <1>8

LEMMA MeasureType ==
  ASSUME RowsTypeOK, NEW i \in DOMAIN table, Measurable(i)
  PROVE  Measure(i) \in Outcomes
BY MeasurePrices DEF Measure, Outcomes, Moments, UpToHorizon

\* A row left out by a run, or by the failure of one, and the same rows with an outcome.
LEMMA JobsKept ==
  ASSUME RowsTypeOK, NEW r \in Resolvers, job' = [job EXCEPT ![r] = job'[r]],
         job'[r].pending \subseteq DOMAIN table, Cardinality(job'[r].pending) <= PendingLimit,
         job'[r].outcome # None => job'[r].pending # {},
         job'[r] \in [pending : SUBSET DOMAIN table, outcome : Outcomes \cup {None}],
         UNCHANGED <<now, ticks, sample>>, faults' \in 0 .. MaxFaults,
         table' \in Seq(Prediction), Len(table') = Len(table), DOMAIN table' = DOMAIN table
  PROVE  RowsTypeOK'
<1>1. job' \in [Resolvers -> [pending : SUBSET DOMAIN table', outcome : Outcomes \cup {None}]]
  BY DEF RowsTypeOK
<1>2. \A q \in Resolvers : q # r => job'[q] = job[q]
  BY DEF RowsTypeOK
<1>3. \A q \in Resolvers :
        /\ Cardinality(job'[q].pending) <= PendingLimit
        /\ job'[q].outcome # None => job'[q].pending # {}
  BY <1>2 DEF RowsTypeOK
<1> QED BY <1>1, <1>3 DEF RowsTypeOK

\* A run that leaves its row behind.
LEMMA BehindType ==
  ASSUME RowsTypeOK, NEW r \in Resolvers, Running(r)
  PROVE  /\ Behind(r) \in [pending : SUBSET DOMAIN table, outcome : Outcomes \cup {None}]
         /\ Behind(r).pending = job[r].pending \ {Current(r)} /\ Behind(r).outcome = None
         /\ Behind(r).pending \subseteq DOMAIN table
         /\ Cardinality(Behind(r).pending) <= PendingLimit
<1>1. job[r].pending \subseteq DOMAIN table /\ Cardinality(job[r].pending) <= PendingLimit
  BY DEF RowsTypeOK
<1>2. IsFiniteSet(job[r].pending)
  BY <1>1, RowNumbers, FS_Subset
<1>3. /\ IsFiniteSet(job[r].pending \ {Current(r)})
      /\ Cardinality(job[r].pending \ {Current(r)}) <= Cardinality(job[r].pending)
  BY <1>2, FS_Subset
<1>4. /\ Cardinality(job[r].pending) \in Nat /\ Cardinality(job[r].pending \ {Current(r)}) \in Nat
      /\ PendingLimit \in Nat
  BY <1>2, <1>3, FS_CardinalityType, PredictionsAssumption
<1>5. Behind(r) = [pending |-> job[r].pending \ {Current(r)}, outcome |-> None]
  BY DEF Behind, Idle
<1> QED BY <1>1, <1>3, <1>4, <1>5

\* A row gets its outcome, and the table stays what it was otherwise.
LEMMA ResolveRow ==
  ASSUME RowsTypeOK, NEW r \in Resolvers, Resolve(r)
  PROVE  /\ Running(r) /\ Current(r) \in DOMAIN table
         /\ table' \in Seq(Prediction) /\ Len(table') = Len(table) /\ DOMAIN table' = DOMAIN table
         /\ \A i \in DOMAIN table : table'[i].ts = table[i].ts
         /\ \A i \in DOMAIN table : i # Current(r) => table'[i] = table[i]
         /\ table'[Current(r)].outcome = job[r].outcome
<1>1. Running(r) /\ job[r].outcome # None
  BY DEF Resolve, RowsTypeOK, Running
<1>2. Current(r) \in DOMAIN table /\ DOMAIN table = 1 .. Len(table)
  BY <1>1, CurrentRow, RowNumbers
<1> DEFINE row == [table[Current(r)] EXCEPT !.outcome = job[r].outcome]
<1>3. table \in Seq(Prediction) /\ job[r].outcome \in Outcomes \cup {None}
  BY DEF RowsTypeOK
<1>4. row \in Prediction /\ row.ts = table[Current(r)].ts /\ row.outcome = job[r].outcome
  <2>1. table[Current(r)] \in Prediction
    BY <1>2, <1>3
  <2> QED BY <1>3, <2>1 DEF Prediction
<1>5. table' = [table EXCEPT ![Current(r)] = row]
  BY DEF Resolve
<1> HIDE DEF row
<1>6. table' \in Seq(Prediction) /\ Len(table') = Len(table)
  BY <1>2, <1>3, <1>4, <1>5, ExceptSeq
<1>7. DOMAIN table' = DOMAIN table
  BY <1>5
<1>8. \A i \in DOMAIN table : table'[i] = IF i = Current(r) THEN row ELSE table[i]
  BY <1>5
<1> QED BY <1>1, <1>2, <1>4, <1>6, <1>7, <1>8
LEMMA RowsStep ==
  ASSUME RowsTypeOK, [LearningNext]_learningVars
  PROVE  RowsTypeOK'
<1>1. CASE Record
  <2>1. PICK tradable \in BOOLEAN :
          table' = Append(table, [ts |-> now, tradable |-> tradable, outcome |-> None])
    BY <1>1 DEF Record, AddPrediction
  <2> DEFINE row == [ts |-> now, tradable |-> tradable, outcome |-> None]
  <2>2. row \in Prediction /\ table \in Seq(Prediction)
    BY DEF Prediction, RowsTypeOK
  <2>3. table' = Append(table, row)
    BY <2>1
  <2> HIDE DEF row
  <2>4. table' \in Seq(Prediction) /\ Len(table') = Len(table) + 1
    BY <2>2, <2>3
  <2>5. DOMAIN table' = 1 .. Len(table') /\ DOMAIN table \subseteq DOMAIN table'
    BY <2>2, <2>4
  <2>6. Len(table') <= MaxPredictions
    BY <1>1, <2>2, <2>4, PredictionsAssumption DEF Record
  <2>7. UNCHANGED <<now, ticks, job, sample, faults>>
    BY <1>1 DEF Record
  <2>8. job \in [Resolvers -> [pending : SUBSET DOMAIN table', outcome : Outcomes \cup {None}]]
    BY <2>5 DEF RowsTypeOK
  <2>9. sample \subseteq DOMAIN table'
    BY <2>5 DEF RowsTypeOK
  <2> QED BY <2>4, <2>6, <2>7, <2>8, <2>9 DEF RowsTypeOK
<1>2. CASE Pass
  BY <1>2, PredictionsAssumption DEF Pass, RowsTypeOK, Moments
<1>3. CASE Calibrate
  <2>1. Sample \subseteq DOMAIN table
    BY DEF Sample, Resolved, Oldest
  <2> QED BY <1>3, <2>1 DEF Calibrate, SaveCalibration, RowsTypeOK
<1>4. ASSUME NEW r \in Resolvers, Start(r) PROVE RowsTypeOK'
  <2> DEFINE rows == Unresolved(PendingLimit)
  <2>1. rows \subseteq DOMAIN table /\ Cardinality(rows) <= PendingLimit
    <3>1. {i \in DOMAIN table : IsPending(i)} \subseteq Nat /\ IsFiniteSet({i \in DOMAIN table : IsPending(i)})
      BY RowNumbers, FS_Subset
    <3> QED BY <3>1, PredictionsAssumption, OldestWithinLimit DEF Unresolved
  <2>2. job' = [job EXCEPT ![r].pending = rows] /\ UNCHANGED <<now, ticks, table, sample, faults>>
    BY <1>4 DEF Start
  <2>3. job[r].outcome = None /\ job[r] \in [pending : SUBSET DOMAIN table, outcome : Outcomes \cup {None}]
    BY <1>4 DEF Start, Running, RowsTypeOK
  <2> HIDE DEF rows
  <2>4. job'[r] = [pending |-> rows, outcome |-> None] /\ job' = [job EXCEPT ![r] = job'[r]]
    BY <2>2, <2>3 DEF RowsTypeOK
  <2> QED BY <2>1, <2>2, <2>4, JobsKept DEF RowsTypeOK
<1>5. ASSUME NEW r \in Resolvers, Skip(r) PROVE RowsTypeOK'
  <2>1. Running(r) /\ job' = [job EXCEPT ![r] = Behind(r)] /\ UNCHANGED <<now, ticks, table, sample, faults>>
    BY <1>5 DEF Skip
  <2>2. job'[r] = Behind(r)
    BY <2>1 DEF RowsTypeOK
  <2>3. job' = [job EXCEPT ![r] = job'[r]]
    BY <2>1, <2>2
  <2>4. table \in Seq(Prediction) /\ faults \in 0 .. MaxFaults
    BY DEF RowsTypeOK
  <2> QED BY <2>1, <2>2, <2>3, <2>4, BehindType, JobsKept
<1>6. ASSUME NEW r \in Resolvers, Look(r) PROVE RowsTypeOK'
  <2> DEFINE o == Measure(Current(r))
  <2>1. /\ Running(r) /\ Measurable(Current(r)) /\ job' = [job EXCEPT ![r].outcome = o]
        /\ UNCHANGED <<now, ticks, table, sample, faults>>
    BY <1>6 DEF Look
  <2>2. o \in Outcomes
    BY <2>1, CurrentRow, MeasureType
  <2> HIDE DEF o
  <2>3. /\ job[r] \in [pending : SUBSET DOMAIN table, outcome : Outcomes \cup {None}]
        /\ job[r].pending # {} /\ Cardinality(job[r].pending) <= PendingLimit
    BY <2>1 DEF Running, RowsTypeOK
  <2>4. job'[r] = [pending |-> job[r].pending, outcome |-> o] /\ job' = [job EXCEPT ![r] = job'[r]]
    BY <2>1, <2>3 DEF RowsTypeOK
  <2> QED BY <2>1, <2>2, <2>3, <2>4, JobsKept DEF RowsTypeOK
<1>7. ASSUME NEW r \in Resolvers, Resolve(r) PROVE RowsTypeOK'
  <2>1. job' = [job EXCEPT ![r] = Behind(r)] /\ UNCHANGED <<now, ticks, sample, faults>>
    BY <1>7 DEF Resolve
  <2>2. job'[r] = Behind(r)
    BY <2>1 DEF RowsTypeOK
  <2>3. faults' \in 0 .. MaxFaults
    BY <2>1 DEF RowsTypeOK
  <2>4. job' = [job EXCEPT ![r] = job'[r]] /\ Running(r)
    BY <1>7, <2>1, <2>2, ResolveRow
  <2>5. table' \in Seq(Prediction) /\ Len(table') = Len(table) /\ DOMAIN table' = DOMAIN table
    BY <1>7, ResolveRow
  <2> QED BY <2>1, <2>2, <2>3, <2>4, <2>5, BehindType, JobsKept
<1>8. ASSUME NEW r \in Resolvers, Fail(r) PROVE RowsTypeOK'
  <2>1. job' = [job EXCEPT ![r] = Idle] /\ UNCHANGED <<now, ticks, table, sample>>
    BY <1>8 DEF Fail
  <2>2. job'[r] = Idle
    BY <2>1 DEF RowsTypeOK
  <2>3. faults' \in 0 .. MaxFaults
    BY <1>8, PredictionsAssumption DEF Fail, RowsTypeOK
  <2>4. Cardinality({}) <= PendingLimit
    BY FS_EmptySet, PredictionsAssumption
  <2> QED BY <2>1, <2>2, <2>3, <2>4, JobsKept DEF Idle, RowsTypeOK
<1>9. CASE UNCHANGED learningVars
  BY <1>9 DEF learningVars, RowsTypeOK
<1> QED BY <1>1, <1>2, <1>3, <1>4, <1>5, <1>6, <1>7, <1>8, <1>9 DEF LearningNext, Progress

LEMMA RowsInitial == LearningInit => RowsTypeOK
<1> SUFFICES ASSUME LearningInit PROVE RowsTypeOK
  OBVIOUS
<1>1. now \in Moments /\ ticks \in SUBSET Moments
  BY PredictionsAssumption DEF LearningInit, Moments
<1>2. table \in Seq(Prediction) /\ Len(table) <= MaxPredictions /\ sample = {}
  BY PredictionsAssumption DEF LearningInit
<1>3. job = [r \in Resolvers |-> [pending |-> {}, outcome |-> None]] /\ faults \in 0 .. MaxFaults
  BY PredictionsAssumption DEF LearningInit, Idle
<1>4. Cardinality({}) = 0
  BY FS_EmptySet
<1>5. job \in [Resolvers -> [pending : SUBSET DOMAIN table, outcome : Outcomes \cup {None}]]
  BY <1>3
<1>6. \A r \in Resolvers :
        /\ Cardinality(job[r].pending) <= PendingLimit
        /\ job[r].outcome # None => job[r].pending # {}
  <2>1. \A r \in Resolvers : job[r].pending = {} /\ job[r].outcome = None
    BY <1>3
  <2>2. Cardinality({}) <= PendingLimit
    BY <1>4, PredictionsAssumption
  <2> QED BY <2>1, <2>2
<1> QED BY <1>1, <1>2, <1>3, <1>5, <1>6 DEF RowsTypeOK

\* The table, the runs and the sample keep their types, and no run holds more rows than its
\* query may return.
THEOREM RowsTypeCorrect == LearningSpec => []RowsTypeOK
<1> QED BY RowsInitial, RowsStep, PTL DEF LearningSpec
(***************************************************************************)
(* The outcomes.  Once the horizon of a row has passed, no price within it *)
(* can be added; so an outcome a run has measured and not yet written is   *)
(* as good as one in the table, and whoever writes it writes the same.     *)
(***************************************************************************)
Within(i)  == {t \in ticks : table[i].ts <= t /\ t <= table[i].ts + Horizon}
Elapsed(i) == now >= table[i].ts + Horizon
Forward(i, outcome) == Within(i) # {} => outcome = <<Min(Within(i)), Max(Within(i))>>

OutcomeInv ==
  /\ RowsTypeOK
  /\ \A i \in DOMAIN table : IsResolved(i) => Elapsed(i) /\ Forward(i, table[i].outcome)
  /\ \A r \in Resolvers : job[r].outcome # None =>
       Elapsed(Current(r)) /\ Forward(Current(r), job[r].outcome)

\* What a run measures lies within the horizon, if anything does: neither the prices before
\* the prediction nor those after the horizon are in the way.
LEMMA MeasuredWithin ==
  ASSUME RowsTypeOK, NEW i \in DOMAIN table, Measurable(i)
  PROVE  Elapsed(i) /\ Forward(i, Measure(i))
<1>1. /\ table[i].ts \in Nat /\ ticks \subseteq Nat
      /\ Horizon \in Nat /\ Lead \in Nat /\ Lag \in Nat
  <2>1. table[i] \in Prediction
    BY DEF RowsTypeOK
  <2>2. table[i].ts \in Nat /\ ticks \subseteq Nat
    BY <2>1, PredictionsAssumption DEF Prediction, Moments, RowsTypeOK
  <2>3. Horizon \in Nat /\ Lead \in Nat /\ Lag \in Nat
    BY PredictionsAssumption
  <2> QED BY <2>2, <2>3
<1>2. Elapsed(i)
  BY DEF Measurable, Elapsed
<1>3. SUFFICES ASSUME Within(i) # {} PROVE Measure(i) = <<Min(Within(i)), Max(Within(i))>>
  BY <1>2 DEF Forward
<1> DEFINE from == {t \in Series(i) : t >= table[i].ts}
<1>4. Within(i) \subseteq Series(i) /\ Within(i) \subseteq Nat
  <2>1. ASSUME NEW t \in ticks, table[i].ts <= t, t <= table[i].ts + Horizon
        PROVE  t \in Nat /\ t + Lead >= table[i].ts /\ t <= table[i].ts + Horizon + Lag
    BY <1>1, <2>1
  <2> QED BY <2>1 DEF Within, Series
<1>5. Within(i) \subseteq from /\ Within(i) \subseteq UpToHorizon(i)
  BY <1>1, <1>4 DEF Within, UpToHorizon
<1>6. /\ Entry(i) \in from /\ \A t \in from : Entry(i) <= t
      /\ Max(UpToHorizon(i)) \in UpToHorizon(i)
      /\ \A t \in UpToHorizon(i) : Max(UpToHorizon(i)) >= t
      /\ Series(i) \subseteq 0 .. MaxTime
  BY <1>3, <1>5, MeasurePrices
<1>7. PICK w \in Within(i) : w \in Nat /\ table[i].ts <= w /\ w <= table[i].ts + Horizon
  BY <1>1, <1>3 DEF Within
<1>8. Entry(i) \in Within(i)
  <2>1. Entry(i) \in from /\ w \in from
    BY <1>5, <1>6, <1>7
  <2>2. Entry(i) <= w
    BY <1>6, <2>1
  <2>3. from \subseteq ticks /\ \A t \in from : t >= table[i].ts
    BY DEF Series
  <2> HIDE DEF from
  <2>4. Entry(i) \in ticks /\ table[i].ts <= Entry(i)
    BY <2>1, <2>3
  <2>5. ticks \subseteq Nat /\ table[i].ts \in Nat /\ Horizon \in Nat
    BY <1>1
  <2>6. Entry(i) \in Nat
    BY <2>4, <2>5, Zenon
  <2>7. Entry(i) <= table[i].ts + Horizon
    BY <1>7, <2>2, <2>5, <2>6
  <2> QED BY <2>4, <2>7 DEF Within
<1>9. Max(UpToHorizon(i)) \in Within(i)
  <2>1. /\ Max(UpToHorizon(i)) \in ticks /\ Max(UpToHorizon(i)) <= table[i].ts + Horizon
        /\ Max(UpToHorizon(i)) >= w
    BY <1>5, <1>6, <1>7 DEF Series, UpToHorizon
  <2>2. ticks \subseteq Nat /\ table[i].ts \in Nat
    BY <1>1
  <2>3. Max(UpToHorizon(i)) \in Nat
    BY <2>1, <2>2, Zenon
  <2>4. table[i].ts <= Max(UpToHorizon(i))
    BY <1>7, <2>1, <2>2, <2>3
  <2> QED BY <2>1, <2>4 DEF Within
<1>10. Min(Within(i)) = Entry(i)
  <2>1. Min(Within(i)) \in Within(i) /\ \A t \in Within(i) : Min(Within(i)) <= t
    BY <1>3, <1>4, MinIsLeast
  <2>2. Min(Within(i)) <= Entry(i) /\ Entry(i) <= Min(Within(i))
    BY <1>5, <1>6, <1>8, <2>1
  <2> QED BY <1>4, <1>8, <2>1, <2>2
<1>11. Max(Within(i)) = Max(UpToHorizon(i))
  <2>1. Within(i) \subseteq 0 .. MaxTime /\ MaxTime \in Nat
    BY <1>4, <1>6, PredictionsAssumption
  <2>2. Max(Within(i)) \in Within(i) /\ \A t \in Within(i) : Max(Within(i)) >= t
    BY <1>3, <2>1, MaxIsGreatest
  <2>3. Max(Within(i)) >= Max(UpToHorizon(i)) /\ Max(UpToHorizon(i)) >= Max(Within(i))
    BY <1>5, <1>6, <1>9, <2>2
  <2> QED BY <1>4, <1>9, <2>2, <2>3
<1> QED BY <1>10, <1>11 DEF Measure

\* A row whose horizon has passed keeps its prices.
LEMMA WithinSettled ==
  ASSUME RowsTypeOK, NEW i \in DOMAIN table, Elapsed(i), table'[i].ts = table[i].ts,
         \/ UNCHANGED <<now, ticks>>
         \/ now' = now + 1 /\ ticks' \in {ticks, ticks \cup {now + 1}}
  PROVE  Elapsed(i)' /\ Within(i)' = Within(i)
<1>1. table[i].ts \in Nat /\ Horizon \in Nat /\ now \in Nat
  <2>1. table[i] \in Prediction
    BY DEF RowsTypeOK
  <2> QED BY <2>1, PredictionsAssumption DEF Prediction, Moments, RowsTypeOK
<1>2. ~(now + 1 <= table[i].ts + Horizon) /\ now + 1 >= table[i].ts + Horizon
  BY <1>1 DEF Elapsed
<1>3. Elapsed(i)'
  BY <1>2 DEF Elapsed
<1>4. Within(i)' = Within(i)
  BY <1>2 DEF Within
<1> QED BY <1>3, <1>4
LEMMA OutcomeStep ==
  ASSUME OutcomeInv, [LearningNext]_learningVars
  PROVE  OutcomeInv'
<1>1. RowsTypeOK /\ RowsTypeOK'
  BY RowsStep DEF OutcomeInv
<1>2. \A q \in Resolvers : job[q].outcome # None => Running(q) /\ Current(q) \in DOMAIN table
  BY <1>1, CurrentRow DEF RowsTypeOK, Running
<1>3. ASSUME NEW i \in DOMAIN table, NEW o, Elapsed(i), Forward(i, o), table'[i].ts = table[i].ts,
             \/ UNCHANGED <<now, ticks>>
             \/ now' = now + 1 /\ ticks' \in {ticks, ticks \cup {now + 1}}
      PROVE  /\ Elapsed(i)'
             /\ Within(i)' # {} => o = <<Min(Within(i)'), Max(Within(i)')>>
  BY <1>1, <1>3, WithinSettled DEF Forward
<1>4. ASSUME NEW q \in Resolvers, job'[q].outcome # None, job'[q] = job[q],
             \A i \in DOMAIN table : table'[i].ts = table[i].ts,
             \/ UNCHANGED <<now, ticks>>
             \/ now' = now + 1 /\ ticks' \in {ticks, ticks \cup {now + 1}}
      PROVE  Elapsed(Current(q))' /\ Forward(Current(q), job[q].outcome)'
  <2>1. PICK i \in DOMAIN table : i = Current(q)
    BY <1>2, <1>4
  <2>2. Current(q)' = i
    BY <1>4, <2>1 DEF Current
  <2>3. Elapsed(i) /\ Forward(i, job[q].outcome)
    BY <1>4, <2>1 DEF OutcomeInv
  <2>4. /\ Elapsed(i)'
        /\ Within(i)' # {} => job[q].outcome = <<Min(Within(i)'), Max(Within(i)')>>
    BY <1>3, <1>4, <2>3
  <2> QED BY <1>4, <2>2, <2>4 DEF Elapsed, Forward, Within
\* The rows, when nothing is written: time passes, or a row is added.
<1>5. ASSUME \A i \in DOMAIN table : table'[i] = table[i],
             \A i \in DOMAIN table' : i \in DOMAIN table \/ table'[i].outcome = None,
             \/ UNCHANGED <<now, ticks>>
             \/ now' = now + 1 /\ ticks' \in {ticks, ticks \cup {now + 1}}
      PROVE  \A i \in DOMAIN table' : IsResolved(i)' => Elapsed(i)' /\ Forward(i, table[i].outcome)'
  <2> SUFFICES ASSUME NEW i \in DOMAIN table', IsResolved(i)'
               PROVE  Elapsed(i)' /\ Forward(i, table[i].outcome)'
    OBVIOUS
  <2>1. i \in DOMAIN table /\ table'[i] = table[i] /\ IsResolved(i)
    BY <1>5 DEF IsResolved
  <2>2. Elapsed(i) /\ Forward(i, table[i].outcome)
    BY <2>1 DEF OutcomeInv
  <2>3. /\ Elapsed(i)'
        /\ Within(i)' # {} => table[i].outcome = <<Min(Within(i)'), Max(Within(i)')>>
    BY <1>3, <1>5, <2>1, <2>2
  <2> QED BY <2>1, <2>3 DEF Forward
<1>6. CASE Record \/ Pass \/ Calibrate \/ UNCHANGED learningVars
  <2>1. /\ UNCHANGED job
        /\ \/ UNCHANGED <<now, ticks>>
           \/ now' = now + 1 /\ ticks' \in {ticks, ticks \cup {now + 1}}
        /\ \/ UNCHANGED table
           \/ \E tradable \in BOOLEAN :
                table' = Append(table, [ts |-> now, tradable |-> tradable, outcome |-> None])
    BY <1>6 DEF Record, AddPrediction, Pass, Calibrate, learningVars
  <2>2. /\ \A i \in DOMAIN table : table'[i] = table[i]
        /\ \A i \in DOMAIN table' : i \in DOMAIN table \/ table'[i].outcome = None
    <3>1. CASE UNCHANGED table
      BY <3>1
    <3>2. ASSUME NEW tradable \in BOOLEAN,
                 table' = Append(table, [ts |-> now, tradable |-> tradable, outcome |-> None])
          PROVE  /\ \A i \in DOMAIN table : table'[i] = table[i]
                 /\ \A i \in DOMAIN table' : i \in DOMAIN table \/ table'[i].outcome = None
      <4> DEFINE row == [ts |-> now, tradable |-> tradable, outcome |-> None]
      <4>1. table \in Seq(Prediction) /\ table' = Append(table, row) /\ row.outcome = None
        BY <1>1, <3>2 DEF RowsTypeOK
      <4> HIDE DEF row
      <4>2. /\ DOMAIN table = 1 .. Len(table) /\ DOMAIN table' = 1 .. Len(table) + 1
            /\ \A i \in 1 .. Len(table) : table'[i] = table[i]
            /\ table'[Len(table) + 1] = row
        BY <4>1
      <4>3. \A i \in 1 .. Len(table) + 1 : i \in 1 .. Len(table) \/ i = Len(table) + 1
        BY <4>1
      <4> QED BY <4>1, <4>2, <4>3
    <3> QED BY <2>1, <3>1, <3>2
  <2>3. \A i \in DOMAIN table' : IsResolved(i)' => Elapsed(i)' /\ Forward(i, table[i].outcome)'
    BY <1>5, <2>1, <2>2
  <2>4. \A q \in Resolvers : job'[q].outcome # None =>
          Elapsed(Current(q))' /\ Forward(Current(q), job[q].outcome)'
    BY <1>4, <2>1, <2>2
  <2> QED BY <1>1, <2>3, <2>4 DEF OutcomeInv
\* A run that starts, skips or fails has measured nothing.
<1>7. ASSUME NEW r \in Resolvers, Start(r) \/ Skip(r) \/ Fail(r) PROVE OutcomeInv'
  <2>1. UNCHANGED <<now, ticks, table>>
    BY <1>7 DEF Start, Skip, Fail
  <2>2. job'[r].outcome = None /\ \A q \in Resolvers : q # r => job'[q] = job[q]
    <3>1. job \in [Resolvers -> [pending : SUBSET DOMAIN table, outcome : Outcomes \cup {None}]]
      BY <1>1 DEF RowsTypeOK
    <3>2. ~Running(r) => job[r].outcome = None
      BY <1>1 DEF RowsTypeOK, Running
    <3> QED BY <1>7, <3>1, <3>2 DEF Start, Skip, Fail, Behind, Idle
  <2>3. \A i \in DOMAIN table' : IsResolved(i)' => Elapsed(i)' /\ Forward(i, table[i].outcome)'
    BY <1>5, <2>1
  <2>4. \A q \in Resolvers : job'[q].outcome # None =>
          Elapsed(Current(q))' /\ Forward(Current(q), job[q].outcome)'
    BY <1>4, <2>1, <2>2
  <2> QED BY <1>1, <2>3, <2>4 DEF OutcomeInv
<1>8. ASSUME NEW r \in Resolvers, Look(r) PROVE OutcomeInv'
  <2>1. /\ Running(r) /\ Measurable(Current(r)) /\ UNCHANGED <<now, ticks, table>>
        /\ job' = [job EXCEPT ![r].outcome = Measure(Current(r))]
    BY <1>8 DEF Look
  <2>2. PICK i \in DOMAIN table : i = Current(r)
    BY <1>1, <2>1, CurrentRow
  <2>3. /\ job'[r].outcome = Measure(i) /\ job'[r].pending = job[r].pending
        /\ \A q \in Resolvers : q # r => job'[q] = job[q]
    BY <1>1, <2>1, <2>2 DEF RowsTypeOK
  <2>4. Elapsed(i) /\ Forward(i, Measure(i))
    BY <1>1, <2>1, <2>2, MeasuredWithin
  <2>5. Current(r)' = i /\ Elapsed(i)' /\ Within(i)' = Within(i)
    BY <2>1, <2>2, <2>3, <2>4 DEF Current, Elapsed, Within
  <2>6. Elapsed(Current(r))' /\ Forward(Current(r), job[r].outcome)'
    BY <2>3, <2>4, <2>5 DEF Elapsed, Forward, Within
  <2>7. \A k \in DOMAIN table' : IsResolved(k)' => Elapsed(k)' /\ Forward(k, table[k].outcome)'
    BY <1>5, <2>1
  <2>8. \A q \in Resolvers : job'[q].outcome # None =>
          Elapsed(Current(q))' /\ Forward(Current(q), job[q].outcome)'
    BY <1>4, <2>1, <2>3, <2>6
  <2> QED BY <1>1, <2>7, <2>8 DEF OutcomeInv
<1>9. ASSUME NEW r \in Resolvers, Resolve(r) PROVE OutcomeInv'
  <2>1. /\ UNCHANGED <<now, ticks>> /\ job[r].outcome # None
        /\ job' = [job EXCEPT ![r] = Behind(r)]
    BY <1>9 DEF Resolve
  <2>2. PICK c \in DOMAIN table : c = Current(r)
    BY <1>2, <2>1
  <2>3. /\ DOMAIN table' = DOMAIN table /\ \A i \in DOMAIN table : table'[i].ts = table[i].ts
        /\ \A i \in DOMAIN table : i # c => table'[i] = table[i]
        /\ table'[c].outcome = job[r].outcome
    BY <1>1, <1>9, <2>2, ResolveRow
  <2>4. job'[r].outcome = None /\ \A q \in Resolvers : q # r => job'[q] = job[q]
    BY <1>1, <2>1 DEF RowsTypeOK, Behind, Idle
  <2>5. ASSUME NEW i \in DOMAIN table', IsResolved(i)'
        PROVE  Elapsed(i)' /\ Forward(i, table[i].outcome)'
    <3>1. i \in DOMAIN table /\ table'[i].ts = table[i].ts
      BY <2>3
    <3>2. PICK o : o = table'[i].outcome
      OBVIOUS
    <3>3. Elapsed(i) /\ Forward(i, o)
      <4>1. CASE i = c
        BY <2>1, <2>2, <2>3, <3>2, <4>1 DEF OutcomeInv
      <4>2. CASE i # c
        BY <2>3, <2>5, <3>1, <3>2, <4>2 DEF OutcomeInv, IsResolved
      <4> QED BY <4>1, <4>2
    <3>4. /\ Elapsed(i)'
          /\ Within(i)' # {} => o = <<Min(Within(i)'), Max(Within(i)')>>
      BY <1>3, <2>1, <3>1, <3>3
    <3> QED BY <3>2, <3>4 DEF Forward
  <2>6. \A q \in Resolvers : job'[q].outcome # None =>
          Elapsed(Current(q))' /\ Forward(Current(q), job[q].outcome)'
    BY <1>4, <2>1, <2>3, <2>4
  <2> QED BY <1>1, <2>5, <2>6 DEF OutcomeInv
<1> QED BY <1>6, <1>7, <1>8, <1>9 DEF LearningNext, Progress

\* Whichever run measures a row, and however late, its outcome is the first and the last
\* price within the horizon, if there was a price there.
THEOREM MeasuredForwardTheorem == LearningSpec => []MeasuredForward
<1>1. LearningInit => OutcomeInv
  <2> SUFFICES ASSUME LearningInit PROVE OutcomeInv
    OBVIOUS
  <2>1. DOMAIN table = {} /\ \A r \in Resolvers : job[r].outcome = None
    BY DEF LearningInit, Idle
  <2> QED BY <2>1, RowsInitial DEF OutcomeInv
<1>2. OutcomeInv /\ [LearningNext]_learningVars => OutcomeInv'
  BY OutcomeStep
<1>3. OutcomeInv => MeasuredForward
  BY DEF OutcomeInv, MeasuredForward, IsResolved, Forward, Within
<1> QED BY <1>1, <1>2, <1>3, PTL DEF LearningSpec
=============================================================================
