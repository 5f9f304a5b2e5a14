---------------------------- MODULE Predictions ----------------------------
(***************************************************************************)
(* Predictions compared with what happened: intelligence/reliability.py    *)
(* records them and resolves them once the market has had time to move,    *)
(* evaluation/calibration.py and reliability_table learn from the resolved *)
(* ones.                                                                   *)
(*                                                                         *)
(* A price series is the set of moments at which there was a price, and an *)
(* outcome is the pair of moments whose prices it compares: the sign of    *)
(* the return is a function of the two.  All predictions are about one     *)
(* instrument; those about others do not interact, except through the      *)
(* limits of the queries.  No module of src/ schedules these jobs: Learned *)
(* says what follows if somebody does.                                     *)
(***************************************************************************)
EXTENDS Integers, Sequences, FiniteSets, FiniteSetsExt

CONSTANTS
  Resolvers,       \* runs of resolve_pending_predictions that may overlap
  Horizon,         \* the horizon and the minimum age: 900 s, both
  Lead, Lag,       \* how far the series reaches before ts and after the horizon
  PendingLimit,    \* unresolved_predictions, limit: 2000 rows
  SampleLimit,     \* resolved_predictions, limit: 5000 or 20000 rows
  MaxPredictions, MaxTime, MaxFaults,  \* bounds of the model
  None

ASSUME PredictionsAssumption ==
  /\ {Horizon, PendingLimit, SampleLimit} \subseteq Nat \ {0}
  /\ {Lead, Lag, MaxPredictions, MaxTime, MaxFaults} \subseteq Nat
  /\ None \notin Nat \X Nat

VARIABLES
  now,
  ticks,    \* when there was a price
  table,    \* the table predictions, in the order of ts
  job,      \* the resolver runs: the rows left of `pending', the outcome to write
  sample,   \* what the newest calibration was computed from
  faults

learningVars == <<now, ticks, table, job, sample, faults>>

Moments == 0 .. MaxTime
Outcomes == Moments \X Moments
\* `tradable': the prediction names an instrument and a direction.
Prediction == [ts : Moments, tradable : BOOLEAN, outcome : Outcomes \cup {None}]
Idle == [pending |-> {}, outcome |-> None]

RowsTypeOK ==
  /\ now \in Moments
  /\ ticks \in SUBSET Moments
  /\ table \in Seq(Prediction) /\ Len(table) <= MaxPredictions
  /\ job \in [Resolvers -> [pending : SUBSET DOMAIN table, outcome : Outcomes \cup {None}]]
  /\ \A r \in Resolvers :
       /\ Cardinality(job[r].pending) <= PendingLimit
       /\ job[r].outcome # None => job[r].pending # {}
  /\ sample \in SUBSET DOMAIN table
  /\ faults \in 0 .. MaxFaults

LearningInit ==
  /\ now = 0 /\ ticks \in SUBSET {0} /\ table = << >>
  /\ job = [r \in Resolvers |-> Idle]
  /\ sample = {} /\ faults = 0

-----------------------------------------------------------------------------
\* ORDER BY ts LIMIT n
Oldest(selected, n) == {i \in selected : Cardinality({j \in selected : j < i}) < n}

IsResolved(i) == table[i].outcome # None
IsPending(i) == table[i].outcome = None

\* Repository.unresolved_predictions, resolved_predictions
Unresolved(limit) == Oldest({i \in DOMAIN table : IsPending(i)}, limit)
Resolved(limit) == Oldest({i \in DOMAIN table : IsResolved(i)}, limit)

\* price_series as resolve_pending_predictions asks for it.
Series(i) == {t \in ticks : t + Lead >= table[i].ts /\ t <= table[i].ts + Horizon + Lag}

\* mutant: the entry is the first price of the series
EntryFirst(i) == Min(Series(i))

\* The first price from ts on, otherwise the first of the series.
Entry(i) ==
  LET from == {t \in Series(i) : t >= table[i].ts} IN Min(IF from = {} THEN Series(i) ELSE from)

\* returns_after: the last price up to the horizon.
UpToHorizon(i) == {t \in Series(i) : t <= table[i].ts + Horizon}

Measurable(i) ==
  /\ table[i].tradable
  /\ now >= table[i].ts + Horizon
  /\ Cardinality(Series(i)) >= 2
  /\ UpToHorizon(i) # {}

Measure(i) == <<Entry(i), Max(UpToHorizon(i))>>

-----------------------------------------------------------------------------
AddPrediction(tradable) ==
  table' = Append(table, [ts |-> now, tradable |-> tradable, outcome |-> None])

\* record_model_prediction
Record ==
  /\ Len(table) < MaxPredictions
  /\ \E tradable \in BOOLEAN : AddPrediction(tradable)
  /\ UNCHANGED <<now, ticks, job, sample, faults>>

\* Time passes, and there is a price at the next moment or there is none.
Pass ==
  /\ now < MaxTime /\ now' = now + 1
  /\ ticks' \in {ticks, ticks \cup {now + 1}}
  /\ UNCHANGED <<table, job, sample, faults>>

\* The rows are taken in the order of ts.
Running(r) == job[r].pending # {}
Current(r) == Min(job[r].pending)
Behind(r) == [Idle EXCEPT !.pending = job[r].pending \ {Current(r)}]

\* mutant: the query is read without its limit
StartUnlimited(r) ==
  /\ ~Running(r)
  /\ job' = [job EXCEPT ![r].pending = Unresolved(Len(table))]
  /\ UNCHANGED <<now, ticks, table, sample, faults>>

\* A run reads what is pending, and closes the session.
Start(r) ==
  /\ ~Running(r)
  /\ job' = [job EXCEPT ![r].pending = Unresolved(PendingLimit)]
  /\ UNCHANGED <<now, ticks, table, sample, faults>>

\* The next one has no instrument, is too young, or has no prices to compare.
Skip(r) ==
  /\ Running(r) /\ job[r].outcome = None /\ ~Measurable(Current(r))
  /\ job' = [job EXCEPT ![r] = Behind(r)]
  /\ UNCHANGED <<now, ticks, table, sample, faults>>

\* price_series has answered: the outcome is known, and not yet written.
Look(r) ==
  /\ Running(r) /\ job[r].outcome = None /\ Measurable(Current(r))
  /\ job' = [job EXCEPT ![r].outcome = Measure(Current(r))]
  /\ UNCHANGED <<now, ticks, table, sample, faults>>

\* mutant: the outcome is written to the row behind
ResolveBehind(r) ==
  /\ job[r].outcome # None
  /\ table' = IF Behind(r).pending = {} THEN table
              ELSE [table EXCEPT ![Min(Behind(r).pending)].outcome = job[r].outcome]
  /\ job' = [job EXCEPT ![r] = Behind(r)]
  /\ UNCHANGED <<now, ticks, sample, faults>>

\* resolve_prediction, in a transaction of its own: the row is written
\* whatever another run has made of it since it was read.
Resolve(r) ==
  /\ job[r].outcome # None
  /\ table' = [table EXCEPT ![Current(r)].outcome = job[r].outcome]
  /\ job' = [job EXCEPT ![r] = Behind(r)]
  /\ UNCHANGED <<now, ticks, sample, faults>>

\* price_series or the database raises: the run ends where it is, and the rows
\* behind are left to the next.
Fail(r) ==
  /\ Running(r)
  /\ faults < MaxFaults /\ faults' = faults + 1
  /\ job' = [job EXCEPT ![r] = Idle]
  /\ UNCHANGED <<now, ticks, table, sample>>

\* reliability_table: what the scopes are judged by.
Sample == Resolved(SampleLimit)

\* save_calibration; calibration_for reads the newest.  Without buckets there is
\* nothing to save.
SaveCalibration(rows) == sample' = IF rows = {} THEN sample ELSE rows

\* update_calibration: read and written in one transaction.
Calibrate ==
  /\ SaveCalibration(Sample)
  /\ UNCHANGED <<now, ticks, table, job, faults>>

Progress(r) == Skip(r) \/ Look(r) \/ Resolve(r)

LearningNext ==
  \/ Record \/ Pass \/ Calibrate
  \/ \E r \in Resolvers : Start(r) \/ Progress(r) \/ Fail(r)

LearningSpec ==
  LearningInit /\ [][LearningNext]_learningVars /\ \A r \in Resolvers : WF_learningVars(Progress(r))

-----------------------------------------------------------------------------
(* Properties *)

\* An outcome compares the first price after the prediction with the last one
\* within the horizon, forwards in time and whichever run measured it and
\* when, provided there was a price in between at all.  Without one the code
\* compares a price from before the prediction, possibly with one from after
\* the horizon and in the wrong order.
MeasuredForward ==
  \A i \in DOMAIN table : table[i].outcome # None =>
    LET within == {t \in ticks : table[i].ts <= t /\ t <= table[i].ts + Horizon}
    IN  within # {} => table[i].outcome = <<Min(within), Max(within)>>

\* The older rows that the query returns for ever before i.
Blocking(i) == {j \in 1 .. i - 1 : IsPending(j) /\ ~Measurable(j)}

\* If the resolver and the calibration are run again and again, a prediction
\* that can be measured is learned from, through overlapping runs and failures,
\* and past older predictions that cannot.  These must be fewer than
\* PendingLimit, and all predictions no more than SampleLimit: both queries
\* return the oldest rows, so the rest is never looked at.  That only MaxFaults
\* runs fail is a premise too: a row whose price_series raises every time ends
\* every run at it, and the rows behind it are never learned from.
Scheduled == (\A r \in Resolvers : WF_learningVars(Start(r))) /\ WF_learningVars(Calibrate)
Learned == Scheduled => \A i \in 1 .. MaxPredictions :
  (i \in DOMAIN table /\ Measurable(i) /\ Cardinality(Blocking(i)) < PendingLimit) ~> (i \in sample)
=============================================================================
