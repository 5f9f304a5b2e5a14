------------------------------ MODULE EtoroGateway ------------------------------
(***************************************************************************)
(* The eToro gateway (src/execution/etoro/gateway.py) and, external to the *)
(* repository, the broker behind it, as far as the gateway's callers can   *)
(* tell: orders the broker took and has not filled yet, positions it holds *)
(* for the account, those of them it agreed to close and has not closed    *)
(* yet, and the calls that change them.                                    *)
(*                                                                         *)
(* A call ends in one of three ways: the broker grants it, the broker      *)
(* answers without granting it, or the call raises.  A call that raised    *)
(* may have reached the broker all the same, because the answer can be     *)
(* lost after the broker acted.                                            *)
(***************************************************************************)
EXTENDS RiskEngine

CONSTANTS
  Instruments,  \* instrument ids; an epic is the id with a prefix
  PromptFills   \* TRUE: the broker settles all it accepted before the next poll, and
                \* closes whatever it agreed to close

ASSUME GatewayAssumption ==
  /\ IsFiniteSet(Instruments)
  /\ PromptFills \in BOOLEAN

VARIABLES
  held,     \* positions the broker holds: positions() returns this set
  pending,  \* market orders accepted and not yet filled or refused
  leaving,  \* positions it accepted to close, and holds still
  nextId    \* next positionID

brokerVars == <<held, pending, leaving, nextId>>

Order(inst, dir, units, level, stop) ==
  [inst |-> inst, dir |-> dir, units |-> units, level |-> level, stop |-> stop]

WithIdUnstopped(order, id) ==     \* mutant: the position is read back without its stop
  [id |-> id, inst |-> order.inst, dir |-> order.dir, units |-> order.units,
   level |-> order.level]

WithId(order, id) ==
  [id |-> id, inst |-> order.inst, dir |-> order.dir, units |-> order.units,
   level |-> order.level, stop |-> order.stop]

Exposed == held \cup pending

BrokerInit == held = {} /\ pending = {} /\ leaving = {} /\ nextId = 1

Outcomes == {"CONFIRMED", "REJECTED", "RAISED"}

(***************************************************************************)
(* The gateway's calls.                                                    *)
(***************************************************************************)

\* open_market_order: CONFIRMED means only that the answer had an orderId.
OpenMarketOrder(order, outcome) ==
  /\ \/ /\ outcome \in {"CONFIRMED", "RAISED"}
        /\ pending' = pending \cup {WithId(order, nextId)}
        /\ nextId' = nextId + 1
     \/ /\ outcome \in {"REJECTED", "RAISED"}
        /\ UNCHANGED <<pending, nextId>>
  /\ UNCHANGED <<held, leaving>>

\* close_position: the whole position, never part of it.  Granted, it is an order like
\* any other: the position is gone when the broker has executed it.
ClosePosition(p, outcome) ==
  /\ \/ outcome \in {"CONFIRMED", "RAISED"} /\ leaving' = leaving \cup (held \cap {p})
     \/ outcome \in {"REJECTED", "RAISED"} /\ UNCHANGED leaving
  /\ UNCHANGED <<held, pending, nextId>>

\* positions: the fill of an order is discovered at this poll.
PositionsReady == PromptFills => pending = {} /\ leaving = {}

(***************************************************************************)
(* The broker's own steps (external).  It opens what the order asked for,  *)
(* with the stop the order asked for.                                      *)
(***************************************************************************)
Fill(o)        == held' = held \cup {o} /\ pending' = pending \ {o} /\ UNCHANGED <<leaving, nextId>>
RefuseFill(o)  == pending' = pending \ {o} /\ UNCHANGED <<held, leaving, nextId>>
Close(p)       == held' = held \ {p} /\ leaving' = leaving \ {p} /\ UNCHANGED <<pending, nextId>>
RefuseClose(p) == ~PromptFills /\ leaving' = leaving \ {p} /\ UNCHANGED <<held, pending, nextId>>

Settle ==
  \/ \E o \in pending : Fill(o) \/ RefuseFill(o)
  \/ \E p \in leaving : Close(p) \/ RefuseClose(p)

\* A stop, a target or the user closes a position.
StopOut    == \E p \in held : Close(p)
BrokerStep == Settle \/ StopOut

=============================================================================
