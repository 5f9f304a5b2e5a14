------------------------------ MODULE EtoroRunner ------------------------------
(***************************************************************************)
(* One trading process (src/workers/etoro_runner.py): run_cycle with its   *)
(* momentum loop and its pairs phase, and time_stop_close_all.             *)
(*                                                                         *)
(* The coroutine gives up control only where it awaits, so an action is    *)
(* the code from one await to the next.  Between two actions the broker    *)
(* may fill, refuse or stop out, the kill switch may be thrown, and the    *)
(* process may die and be restarted by its supervisor.                     *)
(***************************************************************************)
EXTENDS EtoroGateway, Sequences

CONSTANTS
  MaxJudged,     \* MAX_JUDGED_PER_CYCLE
  MaxPairs,      \* MAX_PAIRS_TRIED_PER_CYCLE
  Quotes,        \* quotes the rates endpoint may return: records of bid and offer
  Ages,          \* seconds a quote may have aged when it is evaluated
  Equities,      \* equity the balances call may return
  Briefs,        \* contents recent_news_brief may return
  Unseen,        \* no brief seen yet for the instrument; also: no quote returned
  MaxCycles,     \* bound of the model: cycles run in one behaviour
  MaxCrashes,    \* bound of the model: crashes in one behaviour
  MaxHalts       \* bound of the model: times the kill switch is thrown

ASSUME RunnerAssumption ==
  /\ MaxJudged \in Nat /\ MaxPairs \in Nat
  /\ MaxCycles \in Nat /\ MaxCrashes \in Nat /\ MaxHalts \in Nat
  /\ Quotes \subseteq QuoteType
  /\ Ages \subseteq Nat /\ Equities \subseteq Nat
  /\ Unseen \notin Briefs /\ Unseen \notin Quotes /\ Unseen \notin Instruments

VARIABLES
  pc,        \* where the coroutine awaits
  snap,      \* positions, as the cycle read them
  equity,    \* account.equity of the cycle
  todo,      \* momentum candidates still to be handled
  closing,   \* positions, as the time-stop read them and has still to close
  quote,     \* quote_by_id
  cur,       \* the candidate being judged: its instrument and brief
  legs,      \* approved orders waiting to be sent, in order
  signals,   \* pair signals still to be tried
  lastNews,  \* _last_news_seen
  halted     \* the kill switch is active, or the system paused

\* Kept for the properties only.
VARIABLES
  cycle,     \* cycles started
  crashes,   \* crashes so far
  halts,     \* times the kill switch was thrown
  sent,      \* orders handed to the gateway by the latest job
  judged,    \* the brief each instrument was last judged with
  afterHalt, \* orders sent since the kill switch was thrown
  ending     \* how the latest job ended

runnerVars  == <<pc, snap, equity, todo, closing, quote, cur, legs, signals, lastNews, halted>>
boundVars   == <<cycle, crashes, halts>>
historyVars == <<boundVars, sent, judged, afterHalt, ending>>
vars        == <<brokerVars, runnerVars, historyVars>>

Endings == {"none", "cycle", "time_stop", "time_stop_refused", "raised", "crashed"}

PCs == {"idle", "positions", "universe", "quotes", "balances", "momentum", "judge",
        "momentum_order", "pairs", "pair_a", "pair_b", "stop_positions", "closing"}

NoQuotes == [i \in Instruments |-> Unseen]
NoCur    == [inst |-> Unseen, brief |-> Unseen]

PairSignal == {[a |-> a, b |-> b, dir |-> d] : a \in Instruments, b \in Instruments, d \in Directions}

\* find_pair_signals: at most one signal per pair of different instruments.
SignalSets ==
  {S \in SUBSET {s \in PairSignal : s.a # s.b} :
     /\ Cardinality(S) <= MaxPairs
     /\ \A s, t \in S : {s.a, s.b} = {t.a, t.b} => s = t}

Init ==
  /\ BrokerInit
  /\ pc = "idle" /\ snap = {} /\ equity = 0 /\ todo = {} /\ closing = {} /\ quote = NoQuotes
  /\ cur = NoCur /\ legs = <<>> /\ signals = {}
  /\ lastNews = [i \in Instruments |-> Unseen] /\ halted = FALSE
  /\ cycle = 0 /\ crashes = 0 /\ halts = 0 /\ sent = {} /\ judged = [i \in Instruments |-> Unseen]
  /\ afterHalt = 0 /\ ending = "none"

\* The locals of a job die with it; but at the end of a cycle snap and equity keep their
\* values for the properties (Keep), until the next job.
Leave(how) ==
  /\ pc' = "idle" /\ todo' = {} /\ closing' = {} /\ quote' = NoQuotes /\ cur' = NoCur
  /\ legs' = <<>> /\ signals' = {} /\ ending' = how

Keep   == UNCHANGED <<snap, equity>>
Forget == snap' = {} /\ equity' = 0

ContextEmpty ==                   \* mutant: the engine is not told of the open positions
  [equity |-> equity, positions |-> {}, pnl_today |-> 0, peak_equity |-> equity,
   trades_today |-> 0, rejected_streak |-> 0]

\* The context is built once, before the first candidate: an empty loss record, a peak
\* equal to today's equity, no trades, no refusals, and the positions of the snapshot.
Context ==
  [equity |-> equity, positions |-> snap, pnl_today |-> 0, peak_equity |-> equity,
   trades_today |-> 0, rejected_streak |-> 0]

(***************************************************************************)
(* run_cycle up to the momentum loop.                                      *)
(***************************************************************************)
\* kill_switch.guard() passes: no reason is active, and the system is neither stopped nor
\* paused.
Guard == ~halted

StartCycle ==
  /\ pc = "idle" /\ Guard /\ cycle < MaxCycles
  /\ pc' = "positions" /\ cycle' = cycle + 1 /\ sent' = {} /\ ending' = "none" /\ Forget
  /\ UNCHANGED <<brokerVars, todo, closing, quote, cur, legs, signals,
                 lastNews, halted, crashes, halts, judged, afterHalt>>

ReadPositions ==
  /\ pc = "positions" /\ PositionsReady
  /\ pc' = "universe" /\ snap' = held
  /\ UNCHANGED <<brokerVars, equity, todo, closing, quote, cur, legs, signals, lastNews,
                 halted, historyVars>>

\* evaluate_momentum on the candle histories: any instruments may qualify, and the first
\* MaxJudged of them are kept.
Candidates == {S \in SUBSET Instruments : Cardinality(S) <= MaxJudged}

Scan ==
  /\ pc = "universe"
  /\ pc' = "quotes" /\ todo' \in Candidates
  /\ UNCHANGED <<brokerVars, snap, equity, closing, quote, cur, legs, signals, lastNews,
                 halted, historyVars>>

\* quotes_for: an instrument the endpoint leaves out has no quote in this cycle.
ReadQuotes ==
  /\ pc = "quotes"
  /\ pc' = "balances"
  /\ \E q \in [todo -> Quotes \cup {Unseen}] :
       quote' = [i \in Instruments |-> IF i \in todo THEN q[i] ELSE Unseen]
  /\ UNCHANGED <<brokerVars, snap, equity, todo, closing, cur, legs, signals, lastNews,
                 halted, historyVars>>

ReadBalances ==
  /\ pc = "balances"
  /\ pc' = "momentum" /\ equity' \in Equities
  /\ UNCHANGED <<brokerVars, snap, todo, closing, quote, cur, legs, signals, lastNews,
                 halted, historyVars>>

(***************************************************************************)
(* The momentum loop.                                                      *)
(***************************************************************************)
SkipUnquotedMarked(m) ==          \* mutant: the brief is marked before the quote is looked up
  /\ pc = "momentum" /\ m \in todo /\ quote[m] = Unseen
  /\ todo' = todo \ {m} /\ \E n \in Briefs : lastNews' = [lastNews EXCEPT ![m] = n]
  /\ UNCHANGED <<brokerVars, pc, snap, equity, closing, quote, cur, legs, signals,
                 halted, historyVars>>

SkipUnquotedStuck(m) ==           \* mutant: the candidate is not taken off the list
  /\ pc = "momentum" /\ m \in todo /\ quote[m] = Unseen
  /\ UNCHANGED vars

SkipUnquoted(m) ==
  /\ pc = "momentum" /\ m \in todo /\ quote[m] = Unseen
  /\ todo' = todo \ {m}
  /\ UNCHANGED <<brokerVars, pc, snap, equity, closing, quote, cur, legs, signals, lastNews,
                 halted, historyVars>>

SkipSeenNews(m) ==
  /\ pc = "momentum" /\ m \in todo /\ quote[m] # Unseen
  /\ lastNews[m] \in Briefs               \* the lookup returned the same brief again
  /\ todo' = todo \ {m}
  /\ UNCHANGED <<brokerVars, pc, snap, equity, closing, quote, cur, legs, signals, lastNews,
                 halted, historyVars>>

\* The brief is marked as seen before the judge is awaited.
AskJudge(m, brief) ==
  /\ pc = "momentum" /\ m \in todo /\ quote[m] # Unseen
  /\ brief # lastNews[m]
  /\ lastNews' = [lastNews EXCEPT ![m] = brief]
  /\ cur' = [inst |-> m, brief |-> brief]
  /\ pc' = "judge" /\ todo' = todo \ {m}
  /\ UNCHANGED <<brokerVars, snap, equity, closing, quote, legs, signals, halted, historyVars>>

MomentumSize(age) ==
  Evaluate(BuildTradeProposal(cur.inst, quote[cur.inst], age, equity), Context, halted)

\* The judge answered.  An LLM failure is a verdict of no catalyst; a verdict of a
\* catalyst goes to the risk engine, with the quote fetched before the loop.
Dismiss ==
  /\ pc = "judge"
  /\ pc' = "momentum" /\ cur' = NoCur
  /\ judged' = [judged EXCEPT ![cur.inst] = cur.brief]
  /\ UNCHANGED <<brokerVars, snap, equity, todo, closing, quote, legs, signals, lastNews,
                 halted, boundVars, sent, afterHalt, ending>>

NoCatalyst == Dismiss

RiskReject(age) ==
  Dismiss /\ ~TradeProposalRaises(quote[cur.inst]) /\ MomentumSize(age) = 0

\* A catalyst, and an offer of 0: no proposal can be built, and the cycle is over.
ProposalFails ==
  /\ pc = "judge" /\ TradeProposalRaises(quote[cur.inst])
  /\ Leave("raised") /\ Keep
  /\ judged' = [judged EXCEPT ![cur.inst] = cur.brief]
  /\ UNCHANGED <<brokerVars, lastNews, halted, boundVars, sent, afterHalt>>

Approve(age) ==
  /\ pc = "judge" /\ ~TradeProposalRaises(quote[cur.inst]) /\ MomentumSize(age) > 0
  /\ pc' = "momentum_order" /\ cur' = NoCur
  /\ legs' = <<Order(cur.inst, "BUY", MomentumSize(age), quote[cur.inst].offer, 140)>>
  /\ judged' = [judged EXCEPT ![cur.inst] = cur.brief]
  /\ UNCHANGED <<brokerVars, snap, equity, todo, closing, quote, signals, lastNews,
                 halted, boundVars, sent, afterHalt, ending>>

\* One call of open_market_order, and what the history keeps of it.
Send(why, outcome) ==
  /\ OpenMarketOrder(Head(legs), outcome)
  /\ sent' = sent \cup {[order |-> Head(legs), why |-> why, outcome |-> outcome]}
  /\ afterHalt' = IF halted THEN afterHalt + 1 ELSE afterHalt
  /\ UNCHANGED <<lastNews, halted, boundVars, judged>>

SendMomentumAgain(outcome) ==     \* mutant: a call that raised is made again
  /\ pc = "momentum_order" /\ Send("momentum", outcome)
  /\ IF outcome = "RAISED"
     THEN UNCHANGED <<pc, legs>>
     ELSE pc' = "momentum" /\ legs' = <<>>
  /\ UNCHANGED <<snap, equity, todo, closing, quote, cur, signals, ending>>

SendMomentum(outcome) ==
  /\ pc = "momentum_order" /\ Send("momentum", outcome)
  /\ IF outcome = "RAISED"
     THEN Leave("raised") /\ Keep
     ELSE /\ pc' = "momentum" /\ legs' = <<>>
          /\ UNCHANGED <<snap, equity, todo, closing, quote, cur, signals, ending>>

\* find_pair_signals on the candle histories of this cycle; the strongest MaxPairs.
EnterPairs ==
  /\ pc = "momentum" /\ todo = {}
  /\ pc' = "pairs" /\ signals' \in SignalSets
  /\ UNCHANGED <<brokerVars, snap, equity, todo, closing, quote, cur, legs, lastNews,
                 halted, historyVars>>

(***************************************************************************)
(* _run_pairs_phase.                                                       *)
(***************************************************************************)
LegSize(inst, dir, q, age) ==
  Evaluate(BuildLegProposal(inst, dir, q, age, equity), Context, halted)

DropPair(s) ==
  /\ pc = "pairs" /\ s \in signals
  /\ signals' = signals \ {s}
  /\ UNCHANGED <<brokerVars, pc, snap, equity, todo, closing, quote, cur, legs, lastNews,
                 halted, historyVars>>

LegUnquoted(s) == DropPair(s)

\* Approval of a pair: the risk engine passes both legs, each on its own.
BothApproved(sizeA, sizeB) == sizeA > 0 /\ sizeB > 0

RejectPair(s, qa, qb, age) ==
  /\ DropPair(s)
  /\ ~BothApproved(LegSize(s.a, s.dir, qa, age), LegSize(s.b, Opposite(s.dir), qb, age))

\* Both legs are evaluated, against the one context, before either is sent.
ApprovePair(s, qa, qb, age) ==
  LET sizeA == LegSize(s.a, s.dir, qa, age)
      sizeB == LegSize(s.b, Opposite(s.dir), qb, age)
  IN  /\ pc = "pairs" /\ s \in signals /\ BothApproved(sizeA, sizeB)
      /\ legs' = <<Order(s.a, s.dir, sizeA, PriceFor(qa, s.dir), 80),
                   Order(s.b, Opposite(s.dir), sizeB, PriceFor(qb, Opposite(s.dir)), 80)>>
      /\ pc' = "pair_a" /\ signals' = signals \ {s}
      /\ UNCHANGED <<brokerVars, snap, equity, todo, closing, quote, cur, lastNews, halted,
                     historyVars>>

SendLegA(outcome) ==
  /\ pc = "pair_a" /\ Send("pair", outcome)
  /\ IF outcome = "RAISED"
     THEN Leave("raised") /\ Keep
     ELSE /\ pc' = "pair_b" /\ legs' = Tail(legs)
          /\ UNCHANGED <<snap, equity, todo, closing, quote, cur, signals, ending>>

\* The first pair sent ends the phase, and the cycle, whatever the broker answered.
SendLegB(outcome) ==
  /\ pc = "pair_b" /\ Send("pair", outcome)
  /\ Leave(IF outcome = "RAISED" THEN "raised" ELSE "cycle") /\ Keep

EndPairs ==
  /\ pc = "pairs" /\ signals = {}
  /\ Leave("cycle") /\ Keep
  /\ UNCHANGED <<brokerVars, lastNews, halted, boundVars, sent, judged, afterHalt>>

\* A read that raises ends the cycle: main logs it and goes on with the next one.
Fail ==
  /\ pc \in {"positions", "universe", "quotes", "balances", "momentum", "pairs"}
  /\ Leave("raised") /\ Keep
  /\ UNCHANGED <<brokerVars, lastNews, halted, boundVars, sent, judged, afterHalt>>

(***************************************************************************)
(* time_stop_close_all.  Nothing in main catches what it raises.           *)
(***************************************************************************)
StartTimeStop ==
  /\ pc = "idle"
  /\ pc' = "stop_positions" /\ sent' = {} /\ ending' = "none" /\ Forget
  /\ UNCHANGED <<brokerVars, todo, closing, quote, cur, legs, signals,
                 lastNews, halted, boundVars, judged, afterHalt>>

ReadStopPositionsLong ==          \* mutant: the short leg of a pair is forgotten
  /\ pc = "stop_positions" /\ PositionsReady
  /\ pc' = "closing" /\ closing' = {p \in held : p.dir = "BUY"}
  /\ UNCHANGED <<brokerVars, snap, equity, todo, quote, cur, legs, signals, lastNews, halted,
                 historyVars>>

ReadStopPositions ==
  /\ pc = "stop_positions" /\ PositionsReady
  /\ pc' = "closing" /\ closing' = held
  /\ UNCHANGED <<brokerVars, snap, equity, todo, quote, cur, legs, signals, lastNews, halted,
                 historyVars>>

\* What the broker answered is logged and not looked at: a refused close is not retried.
CloseNext(p, outcome) ==
  /\ pc = "closing" /\ p \in closing /\ outcome \in {"CONFIRMED", "REJECTED"}
  /\ ClosePosition(p, outcome)
  /\ closing' = closing \ {p}
  /\ ending' = IF outcome = "REJECTED" THEN "time_stop_refused" ELSE ending
  /\ UNCHANGED <<pc, snap, equity, todo, quote, cur, legs, signals, lastNews, halted,
                 boundVars, sent, judged, afterHalt>>

EndTimeStop ==
  /\ pc = "closing" /\ closing = {}
  /\ Leave(IF ending = "none" THEN "time_stop" ELSE ending) /\ Forget
  /\ UNCHANGED <<brokerVars, lastNews, halted, boundVars, sent, judged, afterHalt>>

(***************************************************************************)
(* The process dies, between two jobs, at any await or because             *)
(* time_stop_close_all raised, and scripts/supervise_etoro.sh starts it    *)
(* again: everything in memory is lost, the kill switch included (the      *)
(* runner never calls its load).                                           *)
(***************************************************************************)
Restart ==
  /\ crashes < MaxCrashes /\ crashes' = crashes + 1
  /\ Leave("crashed") /\ Forget
  /\ lastNews' = [i \in Instruments |-> Unseen] /\ judged' = [i \in Instruments |-> Unseen]
  /\ halted' = FALSE /\ afterHalt' = 0 /\ sent' = {}
  /\ UNCHANGED <<cycle, halts>>

Crash == Restart /\ UNCHANGED brokerVars

CloseRaises(p) ==
  /\ pc = "closing" /\ p \in closing
  /\ ClosePosition(p, "RAISED") /\ Restart

(***************************************************************************)
(* The kill switch (src/risk/kill_switch.py): trigger, or set_state to     *)
(* PAUSED; clear, or set_state to RUNNING.                                 *)
(***************************************************************************)
Halt ==
  /\ ~halted /\ halted' = TRUE
  /\ halts < MaxHalts /\ halts' = halts + 1
  /\ UNCHANGED <<brokerVars, pc, snap, equity, todo, closing, quote, cur, legs, signals,
                 lastNews, cycle, crashes, sent, judged, afterHalt, ending>>

Resume ==
  /\ halted /\ halted' = FALSE /\ afterHalt' = 0
  /\ UNCHANGED <<brokerVars, pc, snap, equity, todo, closing, quote, cur, legs, signals,
                 lastNews, boundVars, sent, judged, ending>>

Broker == BrokerStep /\ UNCHANGED <<runnerVars, historyVars>>

Momentum ==
  \/ \E m \in todo : SkipUnquoted(m) \/ SkipSeenNews(m) \/ \E n \in Briefs : AskJudge(m, n)
  \/ NoCatalyst \/ ProposalFails
  \/ \E age \in Ages : RiskReject(age) \/ Approve(age)
  \/ \E o \in Outcomes : SendMomentum(o)

Pairs ==
  \/ \E s \in signals : \/ LegUnquoted(s)
                        \/ \E qa, qb \in Quotes, age \in Ages :
                             RejectPair(s, qa, qb, age) \/ ApprovePair(s, qa, qb, age)
  \/ \E o \in Outcomes : SendLegA(o) \/ SendLegB(o)
  \/ EndPairs

TimeStop ==
  \/ ReadStopPositions
  \/ \E p \in closing : CloseRaises(p) \/ \E o \in Outcomes : CloseNext(p, o)
  \/ EndTimeStop

\* What the coroutine itself does, once a job has been started, unless a read raises.
RunnerStep ==
  ReadPositions \/ Scan \/ ReadQuotes \/ ReadBalances \/ Momentum \/ EnterPairs \/ Pairs \/ TimeStop

Next == StartCycle \/ StartTimeStop \/ RunnerStep \/ Fail \/ Crash \/ Halt \/ Resume \/ Broker

\* Every await of the runner ends: HTTP and LLM calls have timeouts, and a prompt broker
\* settles what it accepted.  Nothing obliges a job to start, a read to raise, the process
\* to die, or anyone to throw the kill switch.
Fairness == WF_vars(RunnerStep) /\ WF_vars(Broker /\ Settle)

Spec == Init /\ [][Next]_vars /\ Fairness

(***************************************************************************)
(* Properties.                                                             *)
(***************************************************************************)
OrderType == [inst : Instruments, dir : Directions, units : Nat, level : Nat, stop : Nat]

PositionType ==
  [id : Nat, inst : Instruments, dir : Directions, units : Nat, level : Nat, stop : Nat]

SentType == [order : OrderType, why : {"momentum", "pair"}, outcome : Outcomes]

\* Every variable keeps its type.
TypeOK ==
  /\ held \subseteq PositionType /\ pending \subseteq PositionType
  /\ leaving \subseteq PositionType /\ nextId \in Nat
  /\ pc \in PCs /\ snap \subseteq PositionType /\ equity \in Nat
  /\ todo \subseteq Instruments /\ closing \subseteq PositionType
  /\ quote \in [Instruments -> Quotes \cup {Unseen}]
  /\ cur \in [inst : Instruments \cup {Unseen}, brief : Briefs \cup {Unseen}]
  /\ legs \in Seq(OrderType) /\ signals \subseteq PairSignal
  /\ lastNews \in [Instruments -> Briefs \cup {Unseen}] /\ halted \in BOOLEAN
  /\ cycle \in Nat /\ crashes \in Nat /\ halts \in Nat
  /\ judged \in [Instruments -> Briefs \cup {Unseen}]
  /\ afterHalt \in Nat /\ ending \in Endings
  /\ sent \subseteq SentType

\* What max_open_positions really bounds.  Every order of a cycle is checked against the
\* positions read at its start, so the orders of one cycle are not counted against each
\* other: the account can exceed the limit by all but one of them, and by no more.
PositionBound == Limits.max_open_positions - 1 + MaxJudged + 2
PositionsBounded == PromptFills => Cardinality(Exposed) <= PositionBound

\* The same of max_positions_per_asset: a cycle can add to one instrument a momentum
\* position and one leg of its only pair, each approved as if it were alone.
AssetBound == Limits.max_positions_per_asset - 1 + 2
PerAssetBounded ==
  PromptFills => \A i \in Instruments : Cardinality(OnAsset(Exposed, i)) <= AssetBound

\* The same of max_open_risk: counted on the snapshot and on everything sent in the
\* cycle, it is exceeded by at most max_risk_per_trade for each order after the first.
SentRisk == MapThenSumSet(LAMBDA s : RiskOf(s.order), sent)
OpenRiskOvershoot ==
  sent # {} =>
    TotalRisk(snap) + SentRisk
      <= equity * (Limits.max_open_risk + (Cardinality(sent) - 1) * Limits.max_risk_per_trade)

\* A kill in the middle of a cycle stops it: only what the risk engine had approved
\* before the kill still goes out, which is one momentum order or the legs of one pair.
KillStopsOrders == afterHalt <= 2

\* A brief is marked as seen only on behalf of the judge: whatever ended a cycle early,
\* the brief that keeps an instrument from being judged again is one the judge was given.
SeenMeansJudged ==
  \A i \in Instruments :
    lastNews[i] = judged[i] \/ (pc = "judge" /\ cur = [inst |-> i, brief |-> lastNews[i]])

\* A time-stop that ends without an error or a refusal leaves nothing on the account that
\* the broker has not agreed to close, if it had no order left to fill when the positions
\* were read.
TimeStopFlattens ==
  PromptFills /\ pc = "idle" /\ ending = "time_stop" => Exposed \subseteq leaving

\* The process keeps the promise of OrderDesk: the desk is away outside a cycle, counts
\* when the positions are read and opens with the balances; its tickets are the orders
\* approved and not yet sent.  Every order is approved against what the cycle read at its
\* start, none while the switch is thrown, and goes out once, whatever fails and whenever
\* the process dies.
Cycling == pc \in {"universe", "quotes", "balances", "momentum", "judge", "momentum_order",
                   "pairs", "pair_a", "pair_b"}
Sending == pc \in {"momentum_order", "pair_a", "pair_b"}
Funded  == pc \in {"momentum", "judge", "momentum_order", "pairs", "pair_a", "pair_b"}
Tickets == IF Sending THEN {legs[k] : k \in DOMAIN legs} ELSE {}
Traded  ==
  IF Funded
  THEN {s.order.inst : s \in {t \in sent : t.why = "momentum"}}
         \cup (IF pc = "momentum_order" THEN {legs[1].inst} ELSE {})
  ELSE {}

Stage   == IF Funded THEN "open" ELSE IF Cycling THEN "counted" ELSE "away"
Base    == IF Cycling THEN snap ELSE {}
Funds   == IF Funded THEN equity ELSE 0
Pairing == pc \in {"pair_a", "pair_b"}

Desk == INSTANCE OrderDesk WITH
  book <- Exposed, stage <- Stage, base <- Base, funds <- Funds, tickets <- Tickets,
  traded <- Traded, paired <- Pairing

DeskPromise == Desk!Spec

\* Every job ends: no order of skips, verdicts, refusals and errors keeps it running.
JobEnds == pc # "idle" ~> pc = "idle"

(***************************************************************************)
(* What the repository says, and the code does not do.                     *)
(***************************************************************************)
PairLegs == {s \in sent : s.why = "pair"}

\* etoro_runner.py:174-176: the two legs of a pair are opened together or not at all.  So,
\* when a cycle has ended and no call of it raised, the broker took both or neither.
PairAllOrNothing ==
  pc = "idle" /\ ending = "cycle" =>
    \A s, t \in PairLegs : s.outcome = t.outcome

(***************************************************************************)
(* The inductive invariants behind TypeOK, PositionsBounded,               *)
(* PerAssetBounded, OpenRiskOvershoot, KillStopsOrders, TimeStopFlattens   *)
(* and DeskPromise.                                                        *)
(***************************************************************************)
New     == Exposed \ snap

\* The candidate before the judge has a quote, and a sender has an order to send.
JobsWellFormed ==
  /\ pc = "judge" => cur.inst \in Instruments /\ quote[cur.inst] \in Quotes
  /\ pc \in {"momentum_order", "pair_b"} => Len(legs) = 1
  /\ pc = "pair_a" => Len(legs) = 2

\* What the account has gained since the snapshot, against what the cycle may still send.
SlotsUsed ==
  /\ pc \in {"universe", "quotes", "balances"} => New = {}
  /\ pc \in {"quotes", "balances", "momentum"} => Cardinality(New) + Cardinality(todo) <= MaxJudged
  /\ pc \in {"judge", "momentum_order"} => Cardinality(New) + Cardinality(todo) < MaxJudged
  /\ pc \in {"pairs", "pair_a"} => Cardinality(New) <= MaxJudged
  /\ pc = "pair_b" => Cardinality(New) <= MaxJudged + 1

\* Whoever sends, or has sent, was approved against a snapshot below the limit.
RoomInSnapshot ==
  Cycling /\ (Sending \/ New # {}) => Cardinality(snap) < Limits.max_open_positions

AllFinite == IsFiniteSet(held) /\ IsFiniteSet(pending) /\ IsFiniteSet(snap)

\* Orders waiting to be sent were approved against the snapshot, each as if it were alone.
RiskInv ==
  /\ AllFinite /\ IsFiniteSet(sent)
  /\ pc \in {"positions", "universe", "quotes", "balances", "stop_positions", "closing"} =>
       sent = {}
  /\ Sending => \A k \in DOMAIN legs :
       /\ TotalRisk(snap) + RiskOf(legs[k]) <= equity * Limits.max_open_risk
       /\ RiskOf(legs[k]) <= equity * Limits.max_risk_per_trade
  /\ OpenRiskOvershoot

\* No order is waiting to be sent that was approved after the kill.
KillInv ==
  /\ ~halted => afterHalt = 0
  /\ pc \in {"momentum_order", "pair_a"} => afterHalt = 0
  /\ pc = "pair_b" => afterHalt <= 1
  /\ KillStopsOrders

\* What an instrument has gained since the snapshot, and what the snapshot had of it.
Gained(i) == Cardinality(OnAsset(New, i))
Before(i) == Cardinality(OnAsset(snap, i))

\* A momentum order on the instrument may still come in this loop.
Awaited(i) ==
  \/ i \in todo
  \/ pc = "judge" /\ cur.inst = i
  \/ pc = "momentum_order" /\ legs[1].inst = i

\* One momentum order on an instrument at most, and one leg of the pair.
AssetSlots(i) ==
  /\ pc \in {"universe", "quotes", "balances"} => Gained(i) = 0
  /\ pc \in {"momentum", "judge", "momentum_order"} =>
       Gained(i) <= IF Awaited(i) THEN 0 ELSE 1
  /\ pc \in {"pairs", "pair_a"} => Gained(i) <= 1
  /\ pc = "pair_b" => Gained(i) <= IF i = legs[1].inst THEN 1 ELSE 2

RoomOnAsset(i) ==
  Cycling /\ (Gained(i) > 0 \/ (Sending /\ \E k \in DOMAIN legs : legs[k].inst = i)) =>
    Before(i) < Limits.max_positions_per_asset

AssetInv ==
  /\ pc = "judge" => cur.inst \notin todo
  /\ pc = "momentum_order" => legs[1].inst \notin todo
  /\ \A i \in Instruments :
       AssetSlots(i) /\ RoomOnAsset(i) /\ Cardinality(OnAsset(Exposed, i)) <= AssetBound

PositionsInv == AllFinite /\ SlotsUsed /\ RoomInSnapshot /\ Cardinality(Exposed) <= PositionBound

\* The instruments a cycle has traded, or may still trade.
Planned == todo \cup Traded \cup (IF pc = "judge" THEN {cur.inst} ELSE {})

\* Every order becomes a position of its own, and every instrument gets one trade.
IdsUsed == \A p \in Exposed : p.id < nextId

DeskInv ==
  /\ IdsUsed
  /\ pc \in {"positions", "universe", "quotes", "balances"} => sent = {}
  /\ Cycling /\ pc # "universe" => Cardinality(Planned) <= MaxJudged
  /\ Funded => Traded \cap todo = {}
  /\ pc = "judge" => cur.inst \notin Traded \cup todo

\* The broker can only close what the time-stop has still to close.
StopInv ==
  PromptFills =>
    /\ pc = "closing" => pending = {} /\ (ending = "none" => held \subseteq closing \cup leaving)
    /\ ending = "time_stop" => pc = "idle" /\ pending = {} /\ held \subseteq leaving

Hedges(o, q) == o.dir # q.dir /\ o.inst # q.inst

\* The second leg hedges the first, before and after the first is sent.
PairInv ==
  /\ \A s \in signals : s.a # s.b
  /\ pc \notin {"idle", "pair_b"} => PairLegs = {}
  /\ pc = "pair_a" => Hedges(legs[1], legs[2])
  /\ pc = "pair_b" => \E s \in sent : PairLegs = {s} /\ Hedges(s.order, legs[1])

=============================================================================
