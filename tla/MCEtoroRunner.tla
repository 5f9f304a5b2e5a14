----------------------------- MODULE MCEtoroRunner -----------------------------
(***************************************************************************)
(* Model values for EtoroRunner: the limits scripts/supervise_etoro.sh     *)
(* sets (the rest are the defaults of core/config.py), except that         *)
(* max_open_positions is small enough to be reached.                       *)
(***************************************************************************)
EXTENDS EtoroRunner, TLC

CONSTANTS i1, i2, i3, n1

SupervisorLimits ==
  [max_risk_per_trade |-> 40, max_stake_abs |-> 10000, max_open_risk |-> 140,
   max_event_risk |-> 40, max_correlated_exposure |-> 140, max_daily_loss |-> 100,
   max_weekly_drawdown |-> 200, max_margin_usage |-> 1600, min_free_margin |-> 400,
   stress_min_free_margin |-> 1000, max_effective_leverage |-> 3000,
   max_asset_exposure |-> 2000, max_asset_class_exposure |-> 2000,
   max_currency_exposure |-> 8000, min_reward_risk |-> 3000, min_net_alpha |-> 1,
   max_public_data_staleness_s |-> 150, max_holding_time_s |-> 28800,
   max_open_positions |-> 2, max_positions_per_asset |-> 1, max_trades_per_day |-> 20,
   max_rejected_orders_streak |-> 8]

\* Open risk, too, may be what stops a trade.
TightRiskLimits == [SupervisorLimits EXCEPT !.max_open_risk = 60]

OneQuote   == {[bid |-> 4, offer |-> 4]}
ZeroQuote  == OneQuote \cup {[bid |-> 0, offer |-> 0]}
OneEquity  == {400}
FreshOrNot == {0, 151}
Symmetry   == Permutations(Instruments)

=============================================================================
