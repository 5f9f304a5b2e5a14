------------------------------ MODULE OrderDesk ------------------------------
(***************************************************************************)
(* What a trading process promises about its orders, to whoever sees only  *)
(* the account and the kill switch.  The desk counts the positions, reads  *)
(* its funds, and issues tickets: one trade at a time, each on another     *)
(* instrument, and at the end the two legs of a pair.  A ticket is issued  *)
(* only while nobody has thrown the switch, and only within the limits as  *)
(* they apply to the count.  An order goes out on a ticket, once, and the  *)
(* desk takes its open tickets with it when it leaves.                     *)
(*                                                                         *)
(* Not promised: that orders are counted against each other, that a pair   *)
(* is complete, or that the switch is remembered by another process.       *)
(***************************************************************************)
EXTENDS RiskEngine

CONSTANTS
  MaxJudged,   \* trades a session may be judged for
  PromptFills  \* nothing is still to be filled when the desk counts

VARIABLES
  book,     \* what the account holds, and what it will hold when the broker fills it
  halted,   \* the switch is thrown
  stage,    \* of the desk: away, counted, open
  base,     \* the positions as counted
  funds,    \* the equity as read
  tickets,  \* orders that may go out
  traded,   \* instruments of the trades of this session
  paired    \* the pair of this session has its tickets

sessionVars == <<stage, base, funds, tickets, traded, paired>>
vars        == <<book, halted, sessionVars>>

Init ==
  /\ book = {} /\ halted = FALSE
  /\ stage = "away" /\ base = {} /\ funds = 0 /\ tickets = {} /\ traded = {} /\ paired = FALSE

Leave ==
  /\ stage' = "away" /\ base' = {} /\ funds' = 0 /\ tickets' = {} /\ traded' = {}
  /\ paired' = FALSE

Count ==
  /\ stage = "away" /\ stage' = "counted"
  /\ base' \subseteq book /\ (PromptFills => base' = book)
  /\ UNCHANGED <<book, halted, funds, tickets, traded, paired>>

Fund ==
  /\ stage = "counted" /\ stage' = "open" /\ funds' \in Nat
  /\ UNCHANGED <<book, halted, base, tickets, traded, paired>>

\* An order that risks something, at its stop, and no more than the limits leave.
Permitted(o) ==
  /\ RiskOf(o) > 0
  /\ RiskOf(o) <= funds * Limits.max_risk_per_trade
  /\ TotalRisk(base) + RiskOf(o) <= funds * Limits.max_open_risk
  /\ Cardinality(base) < Limits.max_open_positions
  /\ Cardinality(OnAsset(base, o.inst)) < Limits.max_positions_per_asset

Issue ==
  /\ stage = "open" /\ ~halted /\ tickets = {} /\ ~paired
  /\ \A o \in tickets' : Permitted(o)
  /\ UNCHANGED <<book, halted, stage, base, funds>>

IssueTrade ==
  /\ Issue
  /\ \E o \in tickets' : /\ tickets' = {o} /\ o.dir = "BUY"
                         /\ o.inst \notin traded /\ traded' = traded \cup {o.inst}
  /\ Cardinality(traded') <= MaxJudged
  /\ UNCHANGED paired

IssuePair ==
  /\ Issue
  /\ \E o, q \in tickets' : tickets' = {o, q} /\ o.dir # q.dir /\ o.inst # q.inst
  /\ paired' = TRUE
  /\ UNCHANGED traded

\* A position is what its order asked for.
Fulfils(p, o) ==
  /\ p.inst = o.inst /\ p.dir = o.dir
  /\ p.units = o.units /\ p.level = o.level /\ p.stop = o.stop

\* An order goes out, and the broker takes it or not; if the answer is an error nobody
\* knows which, and the desk leaves.
Place ==
  /\ \E o \in tickets :
       /\ UNCHANGED book \/ \E p \in book' \ book : book' = book \cup {p} /\ Fulfils(p, o)
       /\ \/ Leave
          \/ tickets' = tickets \ {o} /\ UNCHANGED <<stage, base, funds, traded, paired>>
  /\ UNCHANGED halted

Quit == stage # "away" /\ Leave /\ UNCHANGED <<book, halted>>

\* A time-stop, a stop or a target closes a position; or an order is not filled.
Close ==
  /\ \E p \in book : book' = book \ {p}
  /\ UNCHANGED <<halted, sessionVars>>

Switch == halted' = ~halted /\ UNCHANGED <<book, sessionVars>>

\* The process dies, or is stopped, and the switch is forgotten.
Die == Leave /\ halted' = FALSE /\ UNCHANGED book

Next == Count \/ Fund \/ IssueTrade \/ IssuePair \/ Place \/ Quit \/ Close \/ Switch \/ Die

Spec == Init /\ [][Next]_vars
=============================================================================
