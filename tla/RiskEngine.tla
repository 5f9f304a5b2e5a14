------------------------------- MODULE RiskEngine -------------------------------
(***************************************************************************)
(* The deterministic risk kernel (src/risk): sizing of one proposal and    *)
(* the verdict of RiskEngine.evaluate on it, for the eToro adapters.       *)
(*                                                                         *)
(* Numbers are exact.  A price or an amount of equity is an integer in     *)
(* account currency.  A fraction is an integer number of 1/One (0.05%, the *)
(* coarsest unit in which every constant of the code is whole).  An amount *)
(* of risk, notional or margin is an integer in 1/One of account currency, *)
(* so an amount times a fraction needs no division.  The 1e-9 tolerances   *)
(* of the code, and its rounding of the stressed margin ratios to four     *)
(* decimals, have no counterpart: they are finer than this unit.           *)
(***************************************************************************)
EXTENDS Integers, FiniteSets, FiniteSetsExt

CONSTANTS
  Limits,     \* RiskLimits: a record, fractions in 1/One
  RealMoney   \* ExecutionMode.uses_real_money

One == 2000

LimitNames ==
  {"max_risk_per_trade", "max_stake_abs", "max_open_risk", "max_event_risk",
   "max_correlated_exposure", "max_daily_loss", "max_weekly_drawdown",
   "max_margin_usage", "min_free_margin", "stress_min_free_margin",
   "max_effective_leverage", "max_asset_exposure", "max_asset_class_exposure",
   "max_currency_exposure", "min_reward_risk", "min_net_alpha",
   "max_public_data_staleness_s", "max_holding_time_s", "max_open_positions",
   "max_positions_per_asset", "max_trades_per_day", "max_rejected_orders_streak"}

\* What the validators of RiskLimits accept.
Fractions   == {"max_risk_per_trade", "max_open_risk", "max_daily_loss", "max_weekly_drawdown",
                "max_event_risk", "max_correlated_exposure"}
MarginNames == {"max_margin_usage", "min_free_margin", "stress_min_free_margin"}
Leverages   == {"max_effective_leverage", "max_asset_exposure", "max_asset_class_exposure",
                "max_currency_exposure"}

ValidLimits ==
  /\ \A name \in Fractions   : Limits[name] \in 1 .. 500          \* a quarter of One
  /\ \A name \in MarginNames : Limits[name] \in 1 .. One
  /\ \A name \in Leverages   : Limits[name] \in 1 .. 10 * One
  /\ Limits.min_reward_risk >= One
  /\ Limits.max_risk_per_trade <= Limits.max_open_risk
  /\ Limits.max_margin_usage + Limits.min_free_margin <= One

ASSUME LimitsAssumption ==
  /\ RealMoney \in BOOLEAN
  /\ DOMAIN Limits = LimitNames
  /\ \A name \in LimitNames : Limits[name] \in Nat
  /\ ValidLimits

Directions == {"BUY", "SELL"}
Opposite(dir) == IF dir = "BUY" THEN "SELL" ELSE "BUY"

\* Quote.price_for: one buys at the offer and sells at the bid.
PriceFor(quote, dir) == IF dir = "BUY" THEN quote.offer ELSE quote.bid

\* What evaluate is given: a live quote, a proposal for one instrument of insts, and the
\* state of an account that holds some of the positions.
QuoteType == [bid : Nat, offer : Nat]

ProposalType(insts) ==
  [inst : insts, dir : Directions, quote : QuoteType, price : Nat, age : Nat, stop : Nat,
   target : Nat, requested : Nat, horizon : Nat]

ContextType(positions) ==
  [equity : Nat, positions : SUBSET positions, pnl_today : Int, peak_equity : Nat,
   trades_today : Nat, rejected_streak : Nat]

\* stress_scenarios_r, and the slippage every adapter puts in its CostEstimate.
StressScenarios == {1, 2}
SlippageCost == 1

(***************************************************************************)
(* Exposures.  A position is a record with inst, dir, units, level (its    *)
(* open rate) and stop (the distance of its stop, as a fraction of the     *)
(* level; 0 if it has none, and then the code too counts no risk).  The    *)
(* runner builds its OpenExposure from them.                               *)
(***************************************************************************)
RiskOf(p)     == p.units * p.level * p.stop
NotionalOf(p) == p.units * p.level * One

TotalRisk(positions)     == MapThenSumSet(RiskOf, positions)
TotalNotional(positions) == MapThenSumSet(NotionalOf, positions)
OnAsset(positions, inst) == {p \in positions : p.inst = inst}

(***************************************************************************)
(* compute_size: the largest whole number of units whose loss at the stop  *)
(* fits the budget.  The adapters give no probability, so the Kelly cap is *)
(* never computed; size_step and min_size are one unit.                    *)
(***************************************************************************)
RiskBudget(p, equity) ==
  LET maxRisk == Min({equity * Limits.max_risk_per_trade, Limits.max_stake_abs * One})
  IN  IF p.requested < maxRisk THEN Max({0, p.requested}) ELSE maxRisk

LossPerUnit(p) == p.price * p.stop

ComputeSize(p, equity) ==
  IF RiskBudget(p, equity) < LossPerUnit(p) THEN 0 ELSE RiskBudget(p, equity) \div LossPerUnit(p)

(***************************************************************************)
(* The checks of evaluate, group by group.  A proposal p has inst, dir,    *)
(* quote, price (quote.price_for), stop, target, requested, horizon and    *)
(* age (of the quote, when it is evaluated).  The context c has equity,    *)
(* positions, pnl_today, peak_equity, trades_today and rejected_streak.    *)
(* direction_valid, entry_type_valid, max_entry_within_slippage and the    *)
(* broker's stop bounds hold of every proposal the adapters build; every   *)
(* eToro quote says it is tradeable; an instrument the jurisdiction blocks *)
(* is never traded, and left out.  No eToro instrument has factor          *)
(* loadings, so correlated_risk is zero.                                   *)
(***************************************************************************)
MarketChecks(p) ==
  /\ p.age <= Limits.max_public_data_staleness_s
  /\ p.quote.bid > 0 /\ p.quote.offer >= p.quote.bid
  /\ ~RealMoney                  \* price_source_is_broker: an eToro quote is not from IG

RewardChecks(p) ==
  /\ p.horizon <= Limits.max_holding_time_s
  /\ p.target * One >= p.stop * Limits.min_reward_risk
  /\ LET net == (p.target - SlippageCost) * p.price - (p.quote.offer - p.quote.bid) * One
     IN  net > 0 /\ net >= Limits.min_net_alpha * p.price

CountChecksNoAsset(p, c) ==       \* mutant: max_positions_per_asset is not tested
  Cardinality(c.positions) < Limits.max_open_positions

CountChecks(p, c) ==
  /\ -c.pnl_today * One < c.equity * Limits.max_daily_loss
  /\ c.peak_equity > 0 => (c.peak_equity - c.equity) * One < c.peak_equity * Limits.max_weekly_drawdown
  /\ Cardinality(c.positions) < Limits.max_open_positions
  /\ Cardinality(OnAsset(c.positions, p.inst)) < Limits.max_positions_per_asset
  /\ c.trades_today < Limits.max_trades_per_day
  /\ c.rejected_streak < Limits.max_rejected_orders_streak

SizeChecks(p, c, size) ==
  LET risk == size * LossPerUnit(p)
  IN  /\ size > 0
      /\ risk <= c.equity * Limits.max_risk_per_trade
      /\ risk <= Limits.max_stake_abs * One
      /\ risk <= p.requested

ExposureChecksNoTotal(p, c, size) ==  \* mutant: max_open_risk tested for the trade alone
  size * LossPerUnit(p) <= c.equity * Limits.max_open_risk

ExposureChecks(p, c, size) ==
  LET risk     == size * LossPerUnit(p)
      notional == size * p.price * One
      total    == TotalNotional(c.positions) + notional
  IN  /\ TotalRisk(c.positions) + risk <= c.equity * Limits.max_open_risk
      /\ risk <= c.equity * Limits.max_event_risk
      /\ risk <= c.equity * Limits.max_correlated_exposure
      /\ c.equity > 0 /\ total <= c.equity * Limits.max_effective_leverage
      /\ TotalNotional(OnAsset(c.positions, p.inst)) + notional <= c.equity * Limits.max_asset_exposure
      /\ total <= c.equity * Limits.max_asset_class_exposure
      /\ total <= c.equity * Limits.max_currency_exposure

\* margin_stress_test.  AccountState.margin_used is never filled in by the gateway.
FreeMarginAfter(equity, loss, margin) ==
  LET left == equity * One - loss
  IN  left > 0 /\ (left - margin) * One >= left * Limits.stress_min_free_margin

MarginChecks(p, c, size) ==
  LET risk   == size * LossPerUnit(p)
      margin == size * p.price * 400           \* margin_factor: 20% of the notional
  IN  /\ margin <= c.equity * Limits.max_margin_usage
      /\ c.equity * One - margin >= c.equity * Limits.min_free_margin
      /\ \A r \in StressScenarios : FreeMarginAfter(c.equity, r * risk, margin)
      /\ FreeMarginAfter(c.equity, risk + TotalRisk(c.positions), margin)

EvaluateUnguarded(p, c, halted) ==    \* mutant: the kill switch is read at the guard only
  LET size == ComputeSize(p, c.equity)
  IN  IF MarketChecks(p) /\ LossPerUnit(p) > 0 /\ RewardChecks(p) /\ CountChecks(p, c)
         /\ SizeChecks(p, c, size) /\ ExposureChecks(p, c, size) /\ MarginChecks(p, c, size)
      THEN size
      ELSE 0

\* evaluate: the size, or 0 when a check fails.  A price that leaves no stop
\* distance makes compute_size raise, which is a rejection too.
Evaluate(p, c, halted) ==
  LET size == ComputeSize(p, c.equity)
  IN  IF /\ ~halted
         /\ MarketChecks(p)
         /\ LossPerUnit(p) > 0
         /\ RewardChecks(p)
         /\ CountChecks(p, c)
         /\ SizeChecks(p, c, size)
         /\ ExposureChecks(p, c, size)
         /\ MarginChecks(p, c, size)
      THEN size
      ELSE 0

(***************************************************************************)
(* The two adapters: a momentum trade, and one leg of a pair.  The first   *)
(* divides by the offer, so it raises when there is none; the second       *)
(* tests its price first.                                                  *)
(***************************************************************************)
HoldingTime == 6 * 3600

TradeProposalRaises(quote) == quote.offer = 0

BuildTradeProposal(inst, quote, age, equity) ==
  [inst |-> inst, dir |-> "BUY", quote |-> quote, price |-> quote.offer, age |-> age,
   stop |-> 140, target |-> 280, requested |-> equity * 40, horizon |-> HoldingTime]

BuildLegProposal(inst, dir, quote, age, equity) ==
  [inst |-> inst, dir |-> dir, quote |-> quote, price |-> PriceFor(quote, dir), age |-> age,
   stop |-> 80, target |-> 140, requested |-> equity * 20, horizon |-> HoldingTime]

=============================================================================
