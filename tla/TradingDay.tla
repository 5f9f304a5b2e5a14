------------------------------- MODULE TradingDay -------------------------------
(***************************************************************************)
(* The main loop of the runner (src/workers/etoro_runner.py, main): which  *)
(* job each iteration starts, against the New York clock, and the time-    *)
(* stop's once-a-day marker, which is a UTC date.                          *)
(*                                                                         *)
(* A New York day is cut where the loop's decisions change:                *)
(*   pre      from midnight to MARKET_OPEN (9:30)                          *)
(*   open     to TIME_STOP (15:40)                                         *)
(*   late     to MARKET_CLOSE (16:00)                                      *)
(*   post     to midnight UTC (19:00 or 20:00)                             *)
(*   evening  to midnight in New York: the UTC date is already tomorrow's  *)
(* Jobs are those of EtoroRunner, seen from here: a cycle may send orders, *)
(* a time-stop asks to close everything it finds.                          *)
(***************************************************************************)
EXTENDS Integers

CONSTANTS
  MaxCrashes,  \* bound of the model: crashes in one behaviour
  Never        \* no time-stop yet in this process

Days  == 0 .. 13     \* two weeks, over and over; day 0 is a Monday
Slots == {"pre", "open", "late", "post", "evening"}

ASSUME DayAssumption ==
  /\ MaxCrashes \in Nat
  /\ Never \notin Days

VARIABLES
  day, slot,   \* the New York day, and where in it
  pc,          \* loop, cycle, stopping, wait
  today,       \* today of the iteration: the UTC date at its start
  doneFor,     \* already_time_stopped_today
  account,     \* flat; new: something was opened since a time-stop last read the
               \* positions; asked: a time-stop has read all there is
  crashes      \* crashes so far

\* Kept for the assumption on time, and for the properties.
VARIABLES
  lag,         \* boundaries passed since the latest iteration started
  lateStop     \* today, if a time-stop was started between TIME_STOP and MARKET_CLOSE

clockVars == <<day, slot>>
vars      == <<day, slot, pc, today, doneFor, account, crashes, lag, lateStop>>

Tomorrow == (day + 1) % 14
Weekday  == day % 7 < 5

UtcDate == IF slot = "evening" THEN Tomorrow ELSE day

IsMarketOpen == Weekday /\ slot \in {"open", "late"}

IsTimeStopClosing == slot = "late"      \* mutant: the time-stop ends with the market
IsTimeStop        == slot \in {"late", "post", "evening"}

Init ==
  /\ day \in 0 .. 6 /\ slot = "pre" /\ pc = "loop" /\ today = day
  /\ doneFor = Never /\ account = "flat" /\ crashes = 0 /\ lag = 0 /\ lateStop = Never

(***************************************************************************)
(* One iteration.  now is read once, when it starts.                       *)
(***************************************************************************)
TimeStopDueOnce == IsTimeStop /\ doneFor = Never   \* mutant: the marker is never outdated
TimeStopDue     == IsTimeStop /\ doneFor # UtcDate

StartTimeStop ==
  /\ pc = "loop" /\ TimeStopDue
  /\ pc' = "stopping" /\ today' = UtcDate /\ lag' = 0
  /\ account' = IF account = "new" THEN "asked" ELSE account
  /\ lateStop' = IF slot = "late" THEN day ELSE lateStop
  /\ UNCHANGED <<clockVars, doneFor, crashes>>

StartCycle ==
  /\ pc = "loop" /\ ~TimeStopDue /\ IsMarketOpen
  /\ pc' = "cycle" /\ today' = UtcDate /\ lag' = 0
  /\ UNCHANGED <<clockVars, doneFor, account, crashes, lateStop>>

SkipIteration ==
  /\ pc = "loop" /\ ~TimeStopDue /\ ~IsMarketOpen
  /\ pc' = "wait" /\ today' = UtcDate /\ lag' = 0
  /\ UNCHANGED <<clockVars, doneFor, account, crashes, lateStop>>

\* run_cycle sends an order that the broker takes.
OpenPosition ==
  /\ pc = "cycle"
  /\ account' = "new"
  /\ UNCHANGED <<clockVars, pc, today, doneFor, crashes, lag, lateStop>>

\* run_cycle returns, or raises: main logs and goes on.
EndCycle ==
  /\ pc = "cycle" /\ pc' = "wait"
  /\ UNCHANGED <<clockVars, today, doneFor, account, crashes, lag, lateStop>>

\* time_stop_close_all returns: the broker closed everything, or refused some of it.
EndTimeStop ==
  /\ pc = "stopping" /\ pc' = "wait"
  /\ doneFor' = today /\ account' \in {"flat", account}
  /\ UNCHANGED <<clockVars, today, crashes, lag, lateStop>>

\* The wait of SCAN_INTERVAL_S.
Wake ==
  /\ pc = "wait" /\ pc' = "loop"
  /\ UNCHANGED <<clockVars, today, doneFor, account, crashes, lag, lateStop>>

(***************************************************************************)
(* Around the loop.                                                        *)
(***************************************************************************)

\* The process dies (a time-stop that raises kills it) and is started again, in time for
\* the loop to go round as Tick asks; in the evening, before midnight.  The marker is
\* lost; a time-stop cut short asked for nothing that can be relied on.
Crash ==
  /\ crashes < MaxCrashes /\ crashes' = crashes + 1
  /\ pc' = "loop" /\ doneFor' = Never
  /\ lag' = IF slot = "evening" THEN 1 ELSE lag
  /\ account' = IF pc = "stopping" /\ account = "asked" THEN "new" ELSE account
  /\ UNCHANGED <<clockVars, today, lateStop>>

\* A stop, a target or the user closes what is held.
ClosedElsewhere ==
  /\ account # "flat" /\ account' = "flat"
  /\ UNCHANGED <<clockVars, pc, today, doneFor, crashes, lag, lateStop>>

NextSlot == [pre |-> "open", open |-> "late", late |-> "post", post |-> "evening", evening |-> "pre"]

\* Time passes.  Timeliness: an iteration outlasts no whole slot but the one between
\* TIME_STOP and MARKET_CLOSE, whose twenty minutes the judgements of one cycle may exceed
\* (ten calls of up to 180 s, then SCAN_INTERVAL_S); so it crosses one boundary, or the two
\* around that slot.  And no time-stop begun in the evening lasts until midnight.
Tick ==
  /\ lag = 0 \/ (lag = 1 /\ slot = "late")
  /\ lag' = lag + 1
  /\ slot = "evening" => pc # "stopping"
  /\ slot' = NextSlot[slot]
  /\ IF slot = "evening"
     THEN day' = Tomorrow /\ lateStop' = Never
     ELSE UNCHANGED <<day, lateStop>>
  /\ UNCHANGED <<pc, today, doneFor, account, crashes>>

Loop == StartTimeStop \/ StartCycle \/ SkipIteration \/ EndCycle \/ EndTimeStop \/ Wake

Next == Loop \/ OpenPosition \/ Crash \/ ClosedElsewhere \/ Tick

\* The loop goes round, and the clock goes on.  Nothing obliges a cycle to order anything.
Spec == Init /\ [][Next]_vars /\ WF_vars(Loop) /\ WF_vars(Tick)

(***************************************************************************)
(* Properties.                                                             *)
(***************************************************************************)

\* Every variable keeps its type.
TypeOK ==
  /\ day \in Days /\ slot \in Slots /\ pc \in {"loop", "cycle", "stopping", "wait"}
  /\ today \in Days /\ doneFor \in Days \cup {Never}
  /\ account \in {"flat", "new", "asked"} /\ crashes \in 0 .. MaxCrashes
  /\ lag \in 0 .. 2 /\ lateStop \in Days \cup {Never}

\* What a cycle opened does not see another morning without a time-stop having read it,
\* although the cycles between TIME_STOP and the close run after that day's time-stop:
\* the change of the UTC date, in the evening, makes a second one due.
AskedByMorning == slot = "pre" => account # "new"

\* Whatever is opened is eventually found by a time-stop, or closed otherwise.
AskedEventually == account = "new" ~> account # "new"

(***************************************************************************)
(* What the repository says, and the code does not do.                     *)
(***************************************************************************)


=============================================================================
