-------------------------- MODULE EtoroRunner_proofs --------------------------
(***************************************************************************)
(* Proofs about one trading process, for every set of instruments, every   *)
(* limit and every bound of the model: what a verdict of the risk engine   *)
(* guarantees, the invariants of the cycle, and what a time-stop leaves    *)
(* behind when it has ended.                                               *)
(***************************************************************************)
EXTENDS EtoroRunner, FiniteSetTheorems, SequenceTheorems, WellFoundedInduction, TLAPS

(***************************************************************************)
(* Sums of risk.  A sum over a set is a recursion over its subsets, which  *)
(* no induction theorem of the library can be instantiated for; but the    *)
(* recursion has one solution, by a least subset on which two differ, and  *)
(* counting units of weight solves it.  So sums are cardinalities, and     *)
(* what they do when an element is added is a fact about finite sets.      *)
(***************************************************************************)
\* The recursion of MapThenSumSet over the weights w.
SumsUp(g, w, S) ==
  g = [s \in SUBSET S |->
         IF s = {} THEN 0
         ELSE LET x == CHOOSE y \in s : TRUE IN w[x] + g[s \ {x}]]

\* One unit for each unit of weight: what there is to count.
Units(w, s) == UNION {{x} \X (1 .. w[x]) : x \in s}

\* One element contributes its weight.
LEMMA SliceSize ==
  ASSUME NEW x, NEW n \in Nat
  PROVE  IsFiniteSet({x} \X (1 .. n)) /\ Cardinality({x} \X (1 .. n)) = n
<1>1. IsFiniteSet({x}) /\ Cardinality({x}) = 1
  BY FS_Singleton
<1>2. IsFiniteSet(1 .. n) /\ Cardinality(1 .. n) = IF 1 > n THEN 0 ELSE n - 1 + 1
  BY FS_Interval
<1>3. Cardinality(1 .. n) = n
  BY <1>2
<1>4. /\ IsFiniteSet({x} \X (1 .. n))
      /\ Cardinality({x} \X (1 .. n)) = Cardinality({x}) * Cardinality(1 .. n)
  BY <1>1, <1>2, FS_Product
<1> QED BY <1>1, <1>3, <1>4

\* There are finitely many units.
LEMMA UnitsFinite ==
  ASSUME NEW S, IsFiniteSet(S), NEW w, \A x \in S : w[x] \in Nat
  PROVE  IsFiniteSet(Units(w, S)) /\ Cardinality(Units(w, S)) \in Nat
<1> DEFINE Slice(x) == {x} \X (1 .. w[x])
           slices == {Slice(x) : x \in S}
<1>1. \A x \in S : IsFiniteSet(Slice(x))
  BY SliceSize
<1>2. IsFiniteSet(slices)
  <2> DEFINE f == [x \in S |-> Slice(x)]
  <2>1. f \in Surjection(S, slices)
    BY DEF Surjection
  <2> QED BY <2>1, FS_Surjection
<1>3. IsFiniteSet(UNION slices)
  BY <1>1, <1>2, FS_UNION
<1> QED BY <1>3, FS_CardinalityType DEF Units

\* They are those of one element, and those of the others.
LEMMA UnitsAdd ==
  ASSUME NEW S, IsFiniteSet(S), NEW x \in S, NEW w, \A y \in S : w[y] \in Nat
  PROVE  Cardinality(Units(w, S)) = w[x] + Cardinality(Units(w, S \ {x}))
<1> DEFINE rest == Units(w, S \ {x})
           slice == {x} \X (1 .. w[x])
<1>1. Units(w, S) = rest \cup slice /\ rest \cap slice = {}
  BY DEF Units
<1>2. IsFiniteSet(slice) /\ Cardinality(slice) = w[x]
  BY SliceSize
<1>3. IsFiniteSet(rest) /\ Cardinality(rest) \in Nat
  <2>1. rest \subseteq Units(w, S)
    BY <1>1
  <2> QED BY <2>1, UnitsFinite, FS_Subset, FS_CardinalityType
<1> HIDE DEF rest, slice
<1>4. Cardinality(rest \cup slice)
        = Cardinality(rest) + Cardinality(slice) - Cardinality(rest \cap slice)
  BY <1>2, <1>3, FS_Union
<1>5. Cardinality(rest \cap slice) = 0
  BY <1>1, FS_EmptySet
<1>6. w[x] \in Nat
  OBVIOUS
<1> QED BY <1>1, <1>2, <1>3, <1>4, <1>5, <1>6 DEF rest

\* Counting units solves the recursion.
LEMMA CountSumsUp ==
  ASSUME NEW S, IsFiniteSet(S), NEW w, \A x \in S : w[x] \in Nat
  PROVE  SumsUp([s \in SUBSET S |-> Cardinality(Units(w, s))], w, S)
<1> DEFINE g == [s \in SUBSET S |-> Cardinality(Units(w, s))]
<1>1. ASSUME NEW s \in SUBSET S, s # {}, NEW x \in s
      PROVE  g[s] = w[x] + g[s \ {x}]
  <2>1. IsFiniteSet(s) /\ \A y \in s : w[y] \in Nat
    BY FS_Subset
  <2>2. Cardinality(Units(w, s)) = w[x] + Cardinality(Units(w, s \ {x}))
    BY <2>1, UnitsAdd
  <2> QED BY <2>2
<1>2. g[{}] = 0
  BY FS_EmptySet DEF Units
<1>3. ASSUME NEW s \in SUBSET S
      PROVE  g[s] = IF s = {} THEN 0
                    ELSE LET x == CHOOSE y \in s : TRUE IN w[x] + g[s \ {x}]
  <2>1. s # {} => (CHOOSE y \in s : TRUE) \in s
    OBVIOUS
  <2> HIDE DEF g
  <2> QED BY <1>1, <1>2, <2>1
<1>4. g = [s \in SUBSET S |-> g[s]]
  OBVIOUS
<1> HIDE DEF g
<1>5. SumsUp(g, w, S)
  BY <1>3, <1>4 DEF SumsUp
<1> QED BY <1>5 DEF g

\* Nothing else does: there is no smallest subset on which two solutions differ.
LEMMA SumsUpOnce ==
  ASSUME NEW S, IsFiniteSet(S), NEW w, NEW g, NEW h, SumsUp(g, w, S), SumsUp(h, w, S)
  PROVE  g = h
<1> DEFINE Differ == {s \in SUBSET S : g[s] # h[s]}
<1>1. Differ = {}
  <2> SUFFICES ASSUME Differ # {} PROVE FALSE
    OBVIOUS
  <2>1. PICK s \in Differ : \A t \in Differ : ~(<<t, s>> \in StrictSubsetOrdering(S))
    <3>1. IsWellFoundedOn(StrictSubsetOrdering(S), FiniteSubsetsOf(S))
      BY FS_StrictSubsetOrderingWellFounded
    <3>2. Differ \subseteq FiniteSubsetsOf(S)
      BY FS_Subset DEF FiniteSubsetsOf
    <3> HIDE DEF Differ
    <3> QED BY <3>1, <3>2, WFMin
  <2> DEFINE x == CHOOSE y \in s : TRUE
  <2>2. CASE s = {}
    BY <2>2 DEF SumsUp
  <2>3. CASE s # {}
    <3>1. x \in s /\ s \ {x} \in SUBSET S
      BY <2>3
    <3>2. g[s \ {x}] = h[s \ {x}]
      <4>1. <<s \ {x}, s>> \in StrictSubsetOrdering(S)
        <5> HIDE DEF x
        <5> QED BY <3>1 DEF StrictSubsetOrdering
      <4> HIDE DEF x
      <4> QED BY <2>1, <3>1, <4>1
    <3>3. g[s] = w[x] + g[s \ {x}] /\ h[s] = w[x] + h[s \ {x}]
      BY <2>3 DEF SumsUp
    <3> QED BY <3>2, <3>3
  <2> QED BY <2>2, <2>3
<1>2. \A s \in SUBSET S : g[s] = h[s]
  BY <1>1
<1>3. g = [s \in SUBSET S |-> g[s]] /\ h = [s \in SUBSET S |-> h[s]]
  BY DEF SumsUp
<1> QED BY <1>2, <1>3

\* The recursion that TotalRisk is, and the one of the orders sent.
RiskUp(g, S) ==
  g = [s \in SUBSET S |->
         IF s = {} THEN 0
         ELSE LET x == CHOOSE y \in s : TRUE IN RiskOf(x) + g[s \ {x}]]

OrderRiskUp(g, S) ==
  g = [s \in SUBSET S |->
         IF s = {} THEN 0
         ELSE LET x == CHOOSE y \in s : TRUE IN RiskOf(x.order) + g[s \ {x}]]

OrdersRisk(S) == (CHOOSE g : OrderRiskUp(g, S))[S]

LEMMA SentRiskIs == SentRisk = OrdersRisk(sent) /\ SentRisk' = OrdersRisk(sent')
BY DEF SentRisk, OrdersRisk, MapThenSumSet, MapThenFoldSet, OrderRiskUp

\* The risk of a set of positions is a count of units.
LEMMA TotalRiskCounts ==
  ASSUME NEW S, IsFiniteSet(S), NEW w,
         \A x \in S : w[x] = RiskOf(x) /\ w[x] \in Nat
  PROVE  TotalRisk(S) = Cardinality(Units(w, S))
<1> DEFINE count == [s \in SUBSET S |-> Cardinality(Units(w, s))]
           sum   == CHOOSE g : RiskUp(g, S)
<1>1. TotalRisk(S) = sum[S]
  BY DEF TotalRisk, MapThenSumSet, MapThenFoldSet, RiskUp
<1>2. ASSUME NEW g PROVE RiskUp(g, S) <=> SumsUp(g, w, S)
  <2>1. ASSUME NEW s \in SUBSET S
        PROVE  (IF s = {} THEN 0
                ELSE LET x == CHOOSE y \in s : TRUE IN RiskOf(x) + g[s \ {x}])
               = IF s = {} THEN 0
                 ELSE LET x == CHOOSE y \in s : TRUE IN w[x] + g[s \ {x}]
    <3>1. s # {} => (CHOOSE y \in s : TRUE) \in S
      OBVIOUS
    <3> QED BY <3>1
  <2> QED BY <2>1 DEF RiskUp, SumsUp
<1>3. SumsUp(count, w, S)
  BY CountSumsUp
<1>4. SumsUp(sum, w, S)
  <2> HIDE DEF count
  <2> QED BY <1>2, <1>3
<1> HIDE DEF count, sum
<1>5. sum = count
  BY <1>3, <1>4, SumsUpOnce
<1> QED BY <1>1, <1>5 DEF count

\* So is the risk of a set of orders.
LEMMA SentRiskCounts ==
  ASSUME NEW S, IsFiniteSet(S), NEW w,
         \A x \in S : w[x] = RiskOf(x.order) /\ w[x] \in Nat
  PROVE  OrdersRisk(S) = Cardinality(Units(w, S))
<1> DEFINE count == [s \in SUBSET S |-> Cardinality(Units(w, s))]
           sum   == CHOOSE g : OrderRiskUp(g, S)
<1>1. OrdersRisk(S) = sum[S]
  BY DEF OrdersRisk
<1>2. ASSUME NEW g PROVE OrderRiskUp(g, S) <=> SumsUp(g, w, S)
  <2>1. ASSUME NEW s \in SUBSET S
        PROVE  (IF s = {} THEN 0
                ELSE LET x == CHOOSE y \in s : TRUE IN RiskOf(x.order) + g[s \ {x}])
               = IF s = {} THEN 0
                 ELSE LET x == CHOOSE y \in s : TRUE IN w[x] + g[s \ {x}]
    <3>1. s # {} => (CHOOSE y \in s : TRUE) \in S
      OBVIOUS
    <3> QED BY <3>1
  <2> QED BY <2>1 DEF OrderRiskUp, SumsUp
<1>3. SumsUp(count, w, S)
  BY CountSumsUp
<1>4. SumsUp(sum, w, S)
  <2> HIDE DEF count
  <2> QED BY <1>2, <1>3
<1> HIDE DEF count, sum
<1>5. sum = count
  BY <1>3, <1>4, SumsUpOnce
<1> QED BY <1>1, <1>5 DEF count

\* The risk of one position or order, and of a set of positions, is a natural number.
LEMMA RiskTypes ==
  /\ \A p \in PositionType \cup OrderType : RiskOf(p) \in Nat
  /\ \A S \in SUBSET PositionType : IsFiniteSet(S) => TotalRisk(S) \in Nat
<1>1. ASSUME NEW p \in PositionType \cup OrderType PROVE RiskOf(p) \in Nat
  <2>1. p.units \in Nat /\ p.level \in Nat /\ p.stop \in Nat
    BY DEF PositionType, OrderType
  <2>2. \A a, b, c \in Nat : a * b * c \in Nat
    OBVIOUS
  <2> QED BY <2>1, <2>2 DEF RiskOf
<1>2. ASSUME NEW S \in SUBSET PositionType, IsFiniteSet(S) PROVE TotalRisk(S) \in Nat
  <2> DEFINE w == [p \in S |-> RiskOf(p)]
  <2>1. \A p \in S : w[p] = RiskOf(p) /\ w[p] \in Nat
    BY <1>1
  <2> HIDE DEF w
  <2> QED BY <1>2, <2>1, TotalRiskCounts, UnitsFinite
<1> QED BY <1>1, <1>2

(***************************************************************************)
(* The risk engine: what a verdict guarantees, for every proposal, every   *)
(* account and every limits the validators of RiskLimits accept.           *)
(***************************************************************************)

\* The smaller and the larger of two numbers are one of them.
LEMMA MinOfTwo == ASSUME NEW a \in Int, NEW b \in Int PROVE Min({a, b}) \in {a, b}
<1>1. \E x \in {a, b} : \A y \in {a, b} : x <= y
  OBVIOUS
<1>2. QED
  BY <1>1 DEF Min

LEMMA MaxOfTwo == ASSUME NEW a \in Int, NEW b \in Int PROVE Max({a, b}) \in {a, b}
<1>1. \E x \in {a, b} : \A y \in {a, b} : x >= y
  OBVIOUS
<1>2. QED
  BY <1>1 DEF Max

\* A verdict is a size: a natural number, zero for a rejection.
LEMMA EvaluateType ==
  ASSUME NEW p, NEW c, NEW h,
         p.price \in Nat, p.stop \in Nat, p.requested \in Nat, c.equity \in Nat
  PROVE  Evaluate(p, c, h) \in Nat
<1> DEFINE budget == RiskBudget(p, c.equity)
<1>1. Limits.max_risk_per_trade \in Nat /\ Limits.max_stake_abs \in Nat
  BY LimitsAssumption DEF LimitNames
<1>2. budget \in Int
  <2> DEFINE a == c.equity * Limits.max_risk_per_trade
             b == Limits.max_stake_abs * One
  <2>1. a \in Int /\ b \in Int
    BY <1>1 DEF One
  <2> HIDE DEF a, b
  <2>2. Min({a, b}) \in Int
    BY <2>1, MinOfTwo
  <2>3. Max({0, p.requested}) \in Int
    BY MaxOfTwo
  <2>4. QED
    BY <2>2, <2>3 DEF RiskBudget, a, b
<1>3. LossPerUnit(p) \in Int
  BY DEF LossPerUnit
<1>4. CASE LossPerUnit(p) > 0
  <2>1. ComputeSize(p, c.equity) \in Int
    BY <1>2, <1>3, <1>4 DEF ComputeSize
  <2>2. QED
    BY <2>1 DEF Evaluate, SizeChecks
<1>5. CASE ~(LossPerUnit(p) > 0)
  BY <1>5 DEF Evaluate
<1>6. QED
  BY <1>4, <1>5

\* An approval is given only below max_open_positions, on the positions of the context.
LEMMA ApprovedBelowLimit ==
  ASSUME NEW p, NEW c, NEW h, Evaluate(p, c, h) > 0
  PROVE  Cardinality(c.positions) < Limits.max_open_positions
BY DEF Evaluate, CountChecks

\* And below max_positions_per_asset, on those of the proposal's instrument.
LEMMA ApprovedBelowAssetLimit ==
  ASSUME NEW p, NEW c, NEW h, Evaluate(p, c, h) > 0
  PROVE  Cardinality(OnAsset(c.positions, p.inst)) < Limits.max_positions_per_asset
BY DEF Evaluate, CountChecks

(***************************************************************************)
(* Sizing.                                                                 *)
(***************************************************************************)

\* Integer division rounds down, to the last multiple that fits.
LEMMA Division ==
  ASSUME NEW a \in Nat, NEW b \in Nat, b > 0
  PROVE  /\ a \div b \in Nat
         /\ (a \div b) * b <= a
         /\ a < (a \div b + 1) * b
OBVIOUS

\* The smaller of two numbers is not above either.
LEMMA MinBelowBoth == ASSUME NEW a \in Int, NEW b \in Int PROVE Min({a, b}) <= a /\ Min({a, b}) <= b
<1>1. \E x \in {a, b} : \A y \in {a, b} : x <= y
  OBVIOUS
<1>2. QED
  BY <1>1 DEF Min

LEMMA LimitsNat == \A name \in LimitNames : Limits[name] \in Nat
BY LimitsAssumption

\* The budget of a trade is no more than was asked for, and no more than either limit.
LEMMA BudgetBounded ==
  ASSUME NEW p, NEW eq \in Nat, p.requested \in Nat
  PROVE  /\ RiskBudget(p, eq) \in Nat
         /\ RiskBudget(p, eq) <= p.requested
         /\ RiskBudget(p, eq) <= eq * Limits.max_risk_per_trade
         /\ RiskBudget(p, eq) <= Limits.max_stake_abs * One
<1> DEFINE a == eq * Limits.max_risk_per_trade
           b == Limits.max_stake_abs * One
<1>1. a \in Nat /\ b \in Nat
  <2>1. Limits.max_risk_per_trade \in Nat /\ Limits.max_stake_abs \in Nat
    BY LimitsNat DEF LimitNames
  <2> QED
    BY <2>1 DEF One
<1> HIDE DEF a, b
<1>2. Min({a, b}) \in Nat /\ Min({a, b}) <= a /\ Min({a, b}) <= b
  BY <1>1, MinOfTwo, MinBelowBoth
<1>3. Max({0, p.requested}) = p.requested
  <2>1. \E x \in {0, p.requested} : \A y \in {0, p.requested} : x >= y
    OBVIOUS
  <2> QED
    BY <2>1 DEF Max
<1>4. RiskBudget(p, eq) = IF p.requested < Min({a, b}) THEN p.requested ELSE Min({a, b})
  BY <1>3 DEF RiskBudget, a, b
<1> HIDE DEF a, b
<1>5. QED
  BY <1>1, <1>2, <1>4 DEF a, b

\* compute_size returns the largest whole number of units whose loss at the stop fits the
\* budget: not one unit more would (risk/sizing.py:84-96).
THEOREM SizeIsLargest ==
  ASSUME NEW insts, NEW p \in ProposalType(insts), NEW eq \in Nat, LossPerUnit(p) > 0
  PROVE  /\ ComputeSize(p, eq) \in Nat
         /\ ComputeSize(p, eq) * LossPerUnit(p) <= RiskBudget(p, eq)
         /\ RiskBudget(p, eq) < (ComputeSize(p, eq) + 1) * LossPerUnit(p)
<1> DEFINE budget == RiskBudget(p, eq)
           loss   == LossPerUnit(p)
<1>1. p.requested \in Nat /\ p.price \in Nat /\ p.stop \in Nat
  BY DEF ProposalType
<1>2. budget \in Nat /\ loss \in Nat /\ loss > 0
  BY <1>1, BudgetBounded DEF LossPerUnit
<1>3. ComputeSize(p, eq) = IF budget < loss THEN 0 ELSE budget \div loss
  BY DEF ComputeSize
<1> HIDE DEF budget, loss
<1>4. CASE budget < loss
  BY <1>2, <1>3, <1>4 DEF budget, loss
<1>5. CASE ~(budget < loss)
  BY <1>2, <1>3, <1>5, Division DEF budget, loss
<1>6. QED
  BY <1>4, <1>5

\* evaluate measures the size it was given again, against the equity, the absolute stake
\* and the request (risk/engine.py:176-180).  The second look never disagrees with
\* compute_size: it can only fail for a size of zero.
THEOREM RecheckOnlyRefusesZero ==
  ASSUME NEW insts, NEW positions, NEW p \in ProposalType(insts), NEW c \in ContextType(positions),
         LossPerUnit(p) > 0
  PROVE  SizeChecks(p, c, ComputeSize(p, c.equity)) <=> ComputeSize(p, c.equity) > 0
<1> DEFINE size == ComputeSize(p, c.equity)
           risk == size * LossPerUnit(p)
<1>1. c.equity \in Nat /\ p.requested \in Nat /\ p.price \in Nat /\ p.stop \in Nat
  BY DEF ProposalType, ContextType
<1>2. LossPerUnit(p) \in Nat
  BY <1>1 DEF LossPerUnit
<1>3. size \in Nat /\ risk <= RiskBudget(p, c.equity)
  BY <1>1, SizeIsLargest
<1>4. risk \in Nat
  BY <1>2, <1>3
<1>5. Limits.max_risk_per_trade \in Nat /\ Limits.max_stake_abs \in Nat
  BY LimitsNat DEF LimitNames
<1>6. /\ c.equity * Limits.max_risk_per_trade \in Nat
      /\ Limits.max_stake_abs * One \in Nat
  BY <1>1, <1>5 DEF One
<1>7. /\ RiskBudget(p, c.equity) \in Nat
      /\ RiskBudget(p, c.equity) <= p.requested
      /\ RiskBudget(p, c.equity) <= c.equity * Limits.max_risk_per_trade
      /\ RiskBudget(p, c.equity) <= Limits.max_stake_abs * One
  BY <1>1, BudgetBounded
<1> HIDE DEF size, risk
<1>8. /\ risk <= c.equity * Limits.max_risk_per_trade
      /\ risk <= Limits.max_stake_abs * One
      /\ risk <= p.requested
  BY <1>1, <1>3, <1>4, <1>6, <1>7
<1>9. SizeChecks(p, c, size) <=> /\ size > 0
                                 /\ risk <= c.equity * Limits.max_risk_per_trade
                                 /\ risk <= Limits.max_stake_abs * One
                                 /\ risk <= p.requested
  BY DEF SizeChecks, risk
<1>10. QED
  BY <1>8, <1>9 DEF size

(***************************************************************************)
(* An approval.                                                            *)
(***************************************************************************)

\* Limits that RiskLimits accepts never let more than a quarter of the equity be at
\* stake: if every open position and the approved trade are stopped out at their stops,
\* three quarters are left, whatever the values of the limits and whatever is open.
THEOREM QuarterAtStake ==
  ASSUME NEW insts, NEW p \in ProposalType(insts), NEW c \in ContextType(PositionType),
         IsFiniteSet(c.positions), NEW h, Evaluate(p, c, h) > 0
  PROVE  4 * (TotalRisk(c.positions) + Evaluate(p, c, h) * LossPerUnit(p)) <= c.equity * One
<1> DEFINE size == ComputeSize(p, c.equity)
           risk == size * LossPerUnit(p)
<1>1. /\ c.equity \in Nat /\ p.price \in Nat /\ p.stop \in Nat
      /\ TotalRisk(c.positions) \in Nat
  BY RiskTypes DEF ProposalType, ContextType
<1>2. Evaluate(p, c, h) = size /\ LossPerUnit(p) > 0 /\ ExposureChecks(p, c, size)
  BY DEF Evaluate
<1>3. size \in Nat /\ LossPerUnit(p) \in Nat
  BY <1>1, <1>2, SizeIsLargest DEF LossPerUnit
<1>4. risk \in Nat
  BY <1>3
<1>5. Limits.max_open_risk \in Nat /\ Limits.max_open_risk <= 500
  BY LimitsAssumption DEF ValidLimits, Fractions
<1>6. TotalRisk(c.positions) + risk <= c.equity * Limits.max_open_risk
  BY <1>2 DEF ExposureChecks
<1>7. c.equity * Limits.max_open_risk <= c.equity * 500
  BY <1>1, <1>5
<1> HIDE DEF size, risk
<1>8. TotalRisk(c.positions) + risk <= c.equity * 500
  BY <1>1, <1>4, <1>5, <1>6, <1>7
<1>9. 4 * (TotalRisk(c.positions) + risk) <= c.equity * 2000
  BY <1>1, <1>4, <1>8
<1>10. QED
  BY <1>2, <1>9 DEF One, risk


-----------------------------------------------------------------------------

(***************************************************************************)
(* Type correctness.  TypeOK alone is not inductive: that an order sent is *)
(* well formed depends on the candidate having a quote and on the legs     *)
(* that are left, which is what JobsWellFormed adds.                       *)
(***************************************************************************)
TypeInv == TypeOK /\ JobsWellFormed

\* The size of a momentum order, and the price it is placed at, are natural numbers.
LEMMA MomentumSizeType ==
  ASSUME TypeInv, pc = "judge", NEW age \in Ages
  PROVE  MomentumSize(age) \in Nat /\ quote[cur.inst].offer \in Nat /\ cur.inst \in Instruments
<1>1. quote[cur.inst].offer \in Nat /\ cur.inst \in Instruments /\ equity \in Nat
  BY RunnerAssumption DEF TypeInv, TypeOK, JobsWellFormed, QuoteType
<1> DEFINE p == BuildTradeProposal(cur.inst, quote[cur.inst], age, equity)
<1>2. p.price \in Nat /\ p.stop \in Nat /\ p.requested \in Nat
  BY <1>1 DEF BuildTradeProposal
<1>3. Context.equity \in Nat
  BY <1>1 DEF Context
<1> HIDE DEF p
<1>4. Evaluate(p, Context, halted) \in Nat
  BY <1>2, <1>3, EvaluateType
<1>5. QED
  BY <1>1, <1>4 DEF MomentumSize, p

\* The same of a leg of a pair.
LEMMA LegSizeType ==
  ASSUME TypeInv, NEW i, NEW d \in Directions, NEW q \in Quotes, NEW age \in Ages
  PROVE  LegSize(i, d, q, age) \in Nat /\ PriceFor(q, d) \in Nat /\ Opposite(d) \in Directions
<1>1. PriceFor(q, d) \in Nat /\ equity \in Nat
  BY RunnerAssumption DEF TypeInv, TypeOK, PriceFor, QuoteType
<1> DEFINE p == BuildLegProposal(i, d, q, age, equity)
<1>2. p.price \in Nat /\ p.stop \in Nat /\ p.requested \in Nat
  BY <1>1 DEF BuildLegProposal
<1>3. Context.equity \in Nat
  BY <1>1 DEF Context
<1> HIDE DEF p
<1>4. Evaluate(p, Context, halted) \in Nat
  BY <1>2, <1>3, EvaluateType
<1>5. QED
  BY <1>1, <1>4 DEF LegSize, p, Opposite, Directions

\* Taking the first leg off leaves one.
LEMMA TailOfTwo ==
  ASSUME NEW S, NEW q \in Seq(S), Len(q) = 2
  PROVE  Tail(q) \in Seq(S) /\ Len(Tail(q)) = 1
OBVIOUS

LEMMA TypeInit == Init => TypeInv
<1> SUFFICES ASSUME Init PROVE TypeInv
  OBVIOUS
<1> USE DEF Init
<1>1. /\ held \subseteq PositionType /\ pending \subseteq PositionType
      /\ leaving \subseteq PositionType /\ nextId \in Nat
  BY DEF BrokerInit
<1>2. /\ pc \in PCs /\ snap \subseteq PositionType /\ equity \in Nat
      /\ todo \subseteq Instruments /\ closing \subseteq PositionType
  BY DEF PCs
<1>3. quote \in [Instruments -> Quotes \cup {Unseen}]
  BY DEF NoQuotes
<1>4. cur \in [inst : Instruments \cup {Unseen}, brief : Briefs \cup {Unseen}]
  BY DEF NoCur
<1>5. legs \in Seq(OrderType) /\ signals \subseteq PairSignal
  OBVIOUS
<1>6. /\ lastNews \in [Instruments -> Briefs \cup {Unseen}] /\ halted \in BOOLEAN
      /\ judged \in [Instruments -> Briefs \cup {Unseen}]
  OBVIOUS
<1>7. /\ cycle \in Nat /\ crashes \in Nat /\ halts \in Nat /\ afterHalt \in Nat
      /\ ending \in Endings /\ sent = {}
  BY DEF Endings
<1>8. JobsWellFormed
  BY DEF JobsWellFormed
<1>9. QED
  BY <1>1, <1>2, <1>3, <1>4, <1>5, <1>6, <1>7, <1>8 DEF TypeInv, TypeOK

\* A job that ends leaves the variables it resets well typed.
LEMMA LeaveTypes ==
  ASSUME TypeInv, NEW how \in Endings, Leave(how), Keep \/ Forget,
         held' \subseteq PositionType, pending' \subseteq PositionType,
         leaving' \subseteq PositionType, nextId' \in Nat,
         lastNews' \in [Instruments -> Briefs \cup {Unseen}],
         judged' \in [Instruments -> Briefs \cup {Unseen}],
         halted' \in BOOLEAN, cycle' \in Nat, crashes' \in Nat, halts' \in Nat,
         afterHalt' \in Nat, sent' \subseteq SentType
  PROVE  TypeInv'
<1>1. pc' = "idle" /\ pc' \in PCs /\ todo' \subseteq Instruments /\ closing' \subseteq PositionType
  BY DEF Leave, PCs
<1>2. /\ quote' \in [Instruments -> Quotes \cup {Unseen}]
      /\ cur' \in [inst : Instruments \cup {Unseen}, brief : Briefs \cup {Unseen}]
  BY DEF Leave, NoQuotes, NoCur
<1>3. legs' \in Seq(OrderType) /\ signals' \subseteq PairSignal /\ ending' \in Endings
  BY DEF Leave
<1>4. snap' \subseteq PositionType /\ equity' \in Nat
  BY DEF Keep, Forget, TypeInv, TypeOK
<1>5. QED
  BY <1>1, <1>2, <1>3, <1>4 DEF TypeInv, TypeOK, JobsWellFormed

\* The same of a process that died and was started again.
LEMMA RestartTypes ==
  ASSUME TypeInv, Restart, UNCHANGED <<held, pending, nextId>>, leaving' \subseteq leaving \cup held
  PROVE  TypeInv'
<1>1. Leave("crashed") /\ (Keep \/ Forget) /\ "crashed" \in Endings
  BY DEF Restart, Endings
<1>2. /\ held' \subseteq PositionType /\ pending' \subseteq PositionType
      /\ leaving' \subseteq PositionType /\ nextId' \in Nat
  BY DEF TypeInv, TypeOK
<1>3. /\ lastNews' \in [Instruments -> Briefs \cup {Unseen}]
      /\ judged' \in [Instruments -> Briefs \cup {Unseen}]
  BY DEF Restart
<1>4. halted' \in BOOLEAN /\ afterHalt' \in Nat /\ sent' \subseteq SentType
  BY DEF Restart
<1>5. cycle' \in Nat /\ crashes' \in Nat /\ halts' \in Nat
  BY DEF Restart, TypeInv, TypeOK
<1>6. QED
  BY <1>1, <1>2, <1>3, <1>4, <1>5, LeaveTypes

\* Whoever sends has an order left to send.
LEMMA SomethingToSend ==
  ASSUME TypeInv, Sending
  PROVE  Len(legs) > 0
BY DEF TypeInv, JobsWellFormed, Sending

\* Sending a well-formed order keeps the broker and the history well typed.
LEMMA SendTypes ==
  ASSUME TypeInv, NEW why \in {"momentum", "pair"}, NEW o \in Outcomes, Len(legs) > 0,
         Send(why, o)
  PROVE  /\ held' \subseteq PositionType /\ pending' \subseteq PositionType
         /\ leaving' \subseteq PositionType /\ nextId' \in Nat
         /\ sent' \subseteq SentType /\ afterHalt' \in Nat
         /\ lastNews' \in [Instruments -> Briefs \cup {Unseen}] /\ halted' \in BOOLEAN
         /\ judged' \in [Instruments -> Briefs \cup {Unseen}]
         /\ cycle' \in Nat /\ crashes' \in Nat /\ halts' \in Nat
<1>1. Head(legs) \in OrderType
  BY DEF TypeInv, TypeOK
<1>2. WithId(Head(legs), nextId) \in PositionType
  BY <1>1 DEF TypeInv, TypeOK, OrderType, PositionType, WithId
<1>3. [order |-> Head(legs), why |-> why, outcome |-> o] \in SentType
  BY <1>1 DEF SentType
<1>4. QED
  BY <1>2, <1>3 DEF Send, OpenMarketOrder, TypeInv, TypeOK, boundVars

\* Each step of the process, its broker and its kill switch keeps the invariant.
LEMMA TypeStep == TypeInv /\ [Next]_vars => TypeInv'
<1> SUFFICES ASSUME TypeInv, [Next]_vars PROVE TypeInv'
  OBVIOUS
<1> USE DEF TypeInv, TypeOK, JobsWellFormed, PCs, Endings, brokerVars, boundVars, historyVars
<1>1. CASE StartCycle
  BY <1>1 DEF StartCycle, Forget
<1>2. CASE StartTimeStop
  BY <1>2 DEF StartTimeStop, Forget
<1>3. CASE ReadPositions
  BY <1>3 DEF ReadPositions
<1>4. CASE Scan
  BY <1>4 DEF Scan, Candidates
<1>5. CASE ReadQuotes
  BY <1>5 DEF ReadQuotes
<1>6. CASE ReadBalances
  BY <1>6, RunnerAssumption DEF ReadBalances
<1>7. ASSUME NEW m \in todo, SkipUnquoted(m) PROVE TypeInv'
  BY <1>7 DEF SkipUnquoted
<1>8. ASSUME NEW m \in todo, SkipSeenNews(m) PROVE TypeInv'
  BY <1>8 DEF SkipSeenNews
<1>9. ASSUME NEW m \in todo, NEW n \in Briefs, AskJudge(m, n) PROVE TypeInv'
  BY <1>9 DEF AskJudge
<1>10. CASE Dismiss
  BY <1>10 DEF Dismiss, NoCur
<1>11. ASSUME NEW age \in Ages, Approve(age) PROVE TypeInv'
  BY <1>11, MomentumSizeType DEF Approve, NoCur, Order, OrderType, Directions
<1>12. ASSUME NEW o \in Outcomes, SendMomentum(o) PROVE TypeInv'
  <2> HIDE DEF TypeInv, TypeOK, JobsWellFormed
  <2>1. pc = "momentum_order" /\ Len(legs) > 0 /\ Send("momentum", o)
    BY <1>12, SomethingToSend DEF SendMomentum, Sending
  <2>2. CASE o = "RAISED"
    BY <1>12, <2>1, <2>2, SendTypes, LeaveTypes DEF SendMomentum
  <2>3. CASE o # "RAISED"
    BY <1>12, <2>1, <2>3, SendTypes DEF SendMomentum, TypeInv, TypeOK, JobsWellFormed
  <2>4. QED
    BY <2>2, <2>3
<1>13. CASE EnterPairs
  BY <1>13 DEF EnterPairs, SignalSets
<1>14. ASSUME NEW s \in signals, DropPair(s) PROVE TypeInv'
  BY <1>14 DEF DropPair
<1>15. ASSUME NEW s \in signals, NEW qa \in Quotes, NEW qb \in Quotes, NEW age \in Ages,
              ApprovePair(s, qa, qb, age)
       PROVE  TypeInv'
  <2> DEFINE sizeA == LegSize(s.a, s.dir, qa, age)
             sizeB == LegSize(s.b, Opposite(s.dir), qb, age)
             legA  == Order(s.a, s.dir, sizeA, PriceFor(qa, s.dir), 80)
             legB  == Order(s.b, Opposite(s.dir), sizeB, PriceFor(qb, Opposite(s.dir)), 80)
  <2>1. s.a \in Instruments /\ s.b \in Instruments /\ s.dir \in Directions
    BY DEF PairSignal
  <2>2. legA \in OrderType /\ legB \in OrderType
    BY <2>1, LegSizeType DEF Order, OrderType
  <2>3. legs' = <<legA, legB>>
    BY <1>15 DEF ApprovePair
  <2> HIDE DEF legA, legB
  <2>4. legs' \in Seq(OrderType) /\ Len(legs') = 2
    BY <2>2, <2>3
  <2>5. QED
    BY <1>15, <2>4 DEF ApprovePair
<1>16. ASSUME NEW o \in Outcomes, SendLegA(o) PROVE TypeInv'
  <2>1. pc = "pair_a" /\ Len(legs) = 2 /\ Send("pair", o)
    BY <1>16 DEF SendLegA
  <2>2. CASE o = "RAISED"
    BY <1>16, <2>1, <2>2, SendTypes, LeaveTypes DEF SendLegA
  <2>3. CASE o # "RAISED"
    <3>0. legs \in Seq(OrderType) /\ legs' = Tail(legs) /\ pc' = "pair_b"
      BY <1>16, <2>3 DEF SendLegA
    <3>1. legs' \in Seq(OrderType) /\ Len(legs') = 1 /\ pc' = "pair_b"
      BY <3>0, <2>1, TailOfTwo
    <3>2. QED
      BY <1>16, <2>1, <2>3, <3>1, SendTypes DEF SendLegA
  <2>4. QED
    BY <2>2, <2>3
<1>17. ASSUME NEW o \in Outcomes, SendLegB(o) PROVE TypeInv'
  <2> HIDE DEF TypeInv, TypeOK, JobsWellFormed
  <2>1. pc = "pair_b" /\ Len(legs) > 0 /\ Send("pair", o)
    BY <1>17, SomethingToSend DEF SendLegB, Sending
  <2>2. QED
    BY <1>17, <2>1, SendTypes, LeaveTypes DEF SendLegB
<1>18. CASE EndPairs
  BY <1>18, LeaveTypes DEF EndPairs
<1>19. CASE Fail
  BY <1>19, LeaveTypes DEF Fail
<1>20. CASE ReadStopPositions
  BY <1>20 DEF ReadStopPositions
<1>21. ASSUME NEW p \in closing, NEW o \in Outcomes, CloseNext(p, o) PROVE TypeInv'
  BY <1>21 DEF CloseNext, ClosePosition
<1>22. CASE EndTimeStop
  BY <1>22, LeaveTypes DEF EndTimeStop
<1>23. CASE Crash
  BY <1>23, RestartTypes DEF Crash
<1>24. ASSUME NEW p \in closing, CloseRaises(p) PROVE TypeInv'
  BY <1>24, RestartTypes DEF CloseRaises, ClosePosition
<1>25. CASE Halt
  BY <1>25 DEF Halt
<1>26. CASE Resume
  BY <1>26 DEF Resume
<1>27. CASE Broker
  BY <1>27 DEF Broker, BrokerStep, Settle, Fill, RefuseFill, Close, RefuseClose, StopOut,
               runnerVars
<1>28. CASE UNCHANGED vars
  BY <1>28 DEF vars, runnerVars
<1>30. CASE ProposalFails
  <2>1. judged' \in [Instruments -> Briefs \cup {Unseen}]
    BY <1>30 DEF ProposalFails
  <2> HIDE DEF TypeInv, TypeOK, JobsWellFormed
  <2>2. /\ held' \subseteq PositionType /\ pending' \subseteq PositionType
        /\ leaving' \subseteq PositionType /\ nextId' \in Nat
        /\ lastNews' \in [Instruments -> Briefs \cup {Unseen}] /\ halted' \in BOOLEAN
        /\ cycle' \in Nat /\ crashes' \in Nat /\ halts' \in Nat /\ afterHalt' \in Nat
        /\ sent' \subseteq SentType /\ Leave("raised") /\ Keep
    BY <1>30 DEF ProposalFails, TypeInv, TypeOK
  <2> QED BY <2>1, <2>2, LeaveTypes
<1>29. QED
  <2>1. CASE Momentum
    BY <2>1, <1>7, <1>8, <1>9, <1>10, <1>11, <1>12, <1>30 DEF Momentum, NoCatalyst, RiskReject
  <2>2. CASE Pairs
    BY <2>2, <1>14, <1>15, <1>16, <1>17, <1>18 DEF Pairs, LegUnquoted, RejectPair
  <2>3. CASE TimeStop
    BY <2>3, <1>20, <1>21, <1>22, <1>24 DEF TimeStop
  <2>4. CASE RunnerStep
    BY <2>4, <2>1, <2>2, <2>3, <1>3, <1>4, <1>5, <1>6, <1>13 DEF RunnerStep
  <2>5. QED
    BY <2>4, <1>1, <1>2, <1>19, <1>23, <1>25, <1>26, <1>27, <1>28 DEF Next

\* Every variable keeps its type, in every behaviour of the process.
THEOREM TypeCorrect == Spec => []TypeOK
<1>1. TypeInv => TypeOK
  BY DEF TypeInv
<1>2. QED
  BY <1>1, TypeInit, TypeStep, PTL DEF Spec

(***************************************************************************)
(* The bound on positions.  The limit is tested against the snapshot, so   *)
(* the invariant counts what the account gained since the snapshot, New,   *)
(* against the candidates and legs the cycle may still send (SlotsUsed),   *)
(* and remembers that whoever sends was approved on a snapshot below the   *)
(* limit (RoomInSnapshot).                                                 *)
(***************************************************************************)
LEMMA LimitTypes ==
  /\ Limits.max_open_positions \in Nat /\ MaxJudged \in Nat
  /\ PositionBound = Limits.max_open_positions + MaxJudged + 1
<1>1. Limits.max_open_positions \in Nat
  BY LimitsAssumption DEF LimitNames
<1>2. QED
  BY <1>1, RunnerAssumption DEF PositionBound

\* A finite set has at most the elements of another one and those outside it.
LEMMA CountBeside ==
  ASSUME NEW E, NEW S, IsFiniteSet(E), IsFiniteSet(S)
  PROVE  /\ IsFiniteSet(E \ S)
         /\ Cardinality(E) \in Nat /\ Cardinality(E \ S) \in Nat /\ Cardinality(S) \in Nat
         /\ Cardinality(E) <= Cardinality(S) + Cardinality(E \ S)
<1>1. IsFiniteSet(E \ S)
  BY FS_Difference
<1>2. /\ Cardinality(E) \in Nat /\ Cardinality(E \ S) \in Nat /\ Cardinality(S) \in Nat
      /\ Cardinality(S \cap (E \ S)) \in Nat
  BY <1>1, FS_CardinalityType, FS_Intersection
<1>3. /\ IsFiniteSet(S \cup (E \ S))
      /\ Cardinality(S \cup (E \ S))
           = Cardinality(S) + Cardinality(E \ S) - Cardinality(S \cap (E \ S))
  BY <1>1, FS_Union
<1>4. Cardinality(E) <= Cardinality(S \cup (E \ S))
  BY <1>3, FS_Subset
<1>5. QED
  BY <1>1, <1>2, <1>3, <1>4

\* The account holds at most what the snapshot held and what it gained since.
LEMMA GainedSinceSnapshot ==
  /\ AllFinite =>
       /\ IsFiniteSet(Exposed) /\ IsFiniteSet(New)
       /\ Cardinality(Exposed) \in Nat /\ Cardinality(New) \in Nat /\ Cardinality(snap) \in Nat
       /\ Cardinality(Exposed) <= Cardinality(snap) + Cardinality(New)
  /\ AllFinite' =>
       /\ IsFiniteSet(Exposed') /\ IsFiniteSet(New')
       /\ Cardinality(Exposed') \in Nat /\ Cardinality(New') \in Nat /\ Cardinality(snap') \in Nat
       /\ Cardinality(Exposed') <= Cardinality(snap') + Cardinality(New')
<1>1. AllFinite => IsFiniteSet(Exposed) /\ IsFiniteSet(snap)
  BY FS_Union DEF AllFinite, Exposed
<1>2. AllFinite' => IsFiniteSet(Exposed') /\ IsFiniteSet(snap')
  BY FS_Union DEF AllFinite, Exposed
<1>3. QED
  BY <1>1, <1>2, CountBeside DEF New

\* A smaller set of positions and orders is no more, and no newer, than the larger one.
LEMMA Shrinks ==
  ASSUME AllFinite, AllFinite', Exposed' \subseteq Exposed
  PROVE  /\ Cardinality(Exposed') <= Cardinality(Exposed)
         /\ snap' = snap => New' \subseteq New /\ Cardinality(New') <= Cardinality(New)
<1>1. Cardinality(Exposed') <= Cardinality(Exposed)
  BY GainedSinceSnapshot, FS_Subset
<1>2. ASSUME snap' = snap PROVE New' \subseteq New /\ Cardinality(New') <= Cardinality(New)
  <2>1. New' \subseteq New
    BY <1>2 DEF New
  <2>2. QED
    BY <2>1, GainedSinceSnapshot, FS_Subset
<1>3. QED
  BY <1>1, <1>2

\* Sending adds at most one order, whatever the broker answered.
LEMMA SendGrows ==
  ASSUME AllFinite, NEW why, NEW o, Send(why, o), UNCHANGED snap
  PROVE  AllFinite' /\ Cardinality(New') <= Cardinality(New) + 1
<1> DEFINE x == WithId(Head(legs), nextId)
<1>1. UNCHANGED held /\ (pending' = pending \/ pending' = pending \cup {x})
  BY DEF Send, OpenMarketOrder
<1> HIDE DEF x
<1>2. IsFiniteSet(pending')
  BY <1>1, FS_AddElement DEF AllFinite
<1>3. AllFinite'
  BY <1>1, <1>2 DEF AllFinite
<1>4. New' \subseteq New \cup {x}
  BY <1>1 DEF New, Exposed
<1>5. /\ IsFiniteSet(New \cup {x})
      /\ Cardinality(New \cup {x}) = IF x \in New THEN Cardinality(New) ELSE Cardinality(New) + 1
  <2>1. IsFiniteSet(New)
    BY GainedSinceSnapshot
  <2>2. QED
    BY <2>1, FS_AddElement
<1>6. /\ IsFiniteSet(New') /\ Cardinality(New') <= Cardinality(New \cup {x})
      /\ Cardinality(New') \in Nat
  BY <1>4, <1>5, FS_Subset, FS_CardinalityType
<1>7. Cardinality(New) \in Nat
  BY GainedSinceSnapshot
<1>8. QED
  BY <1>3, <1>5, <1>6, <1>7

\* A step that keeps the place and the snapshot, and adds nothing, keeps the invariant.
LEMMA Frame ==
  ASSUME TypeInv, PositionsInv, AllFinite', Exposed' \subseteq Exposed, todo' \subseteq todo,
         UNCHANGED <<pc, snap>>
  PROVE  PositionsInv'
<1>1. /\ Cardinality(Exposed') <= Cardinality(Exposed) /\ Cardinality(New') <= Cardinality(New)
      /\ New' \subseteq New
  BY Shrinks DEF PositionsInv
<1>2. /\ Cardinality(todo') <= Cardinality(todo)
      /\ Cardinality(todo') \in Nat /\ Cardinality(todo) \in Nat
  BY GatewayAssumption, FS_Subset, FS_CardinalityType DEF TypeInv, TypeOK
<1>3. /\ Cardinality(New') \in Nat /\ Cardinality(New) \in Nat
      /\ Cardinality(Exposed') \in Nat /\ Cardinality(Exposed) \in Nat
  BY GainedSinceSnapshot DEF PositionsInv
<1>4. SlotsUsed'
  BY <1>1, <1>2, <1>3, LimitTypes DEF PositionsInv, SlotsUsed
<1>5. RoomInSnapshot'
  BY <1>1 DEF PositionsInv, RoomInSnapshot, Cycling, Sending
<1>6. Cardinality(Exposed') <= PositionBound
  BY <1>1, <1>3, LimitTypes DEF PositionsInv
<1>7. QED
  BY <1>4, <1>5, <1>6, LimitTypes DEF PositionsInv, PositionBound

\* So does one that adds nothing and is outside the part of a cycle that sends.
LEMMA Outside ==
  ASSUME PositionsInv, AllFinite', Exposed' \subseteq Exposed,
         pc' \in {"idle", "positions", "stop_positions", "closing"}
  PROVE  PositionsInv'
<1>1. SlotsUsed' /\ RoomInSnapshot'
  BY DEF SlotsUsed, RoomInSnapshot, Cycling, Sending
<1>2. Cardinality(Exposed') <= Cardinality(Exposed)
  BY Shrinks DEF PositionsInv
<1>3. Cardinality(Exposed') \in Nat /\ Cardinality(Exposed) \in Nat
  BY GainedSinceSnapshot DEF PositionsInv
<1>4. QED
  BY <1>1, <1>2, <1>3, LimitTypes DEF PositionsInv, PositionBound

\* A send leaves the account within the bound: it was approved with room in the snapshot.
LEMMA SendBounded ==
  ASSUME PositionsInv, Sending, NEW why, NEW o, Send(why, o), UNCHANGED snap,
         Cardinality(New) <= MaxJudged + 1
  PROVE  /\ AllFinite' /\ Cardinality(New') <= Cardinality(New) + 1
         /\ Cardinality(snap') < Limits.max_open_positions
         /\ Cardinality(Exposed') <= PositionBound
<1>1. AllFinite' /\ Cardinality(New') <= Cardinality(New) + 1
  BY SendGrows DEF PositionsInv
<1>2. Cardinality(snap) < Limits.max_open_positions
  BY DEF PositionsInv, RoomInSnapshot, Sending, Cycling
<1>3. /\ Cardinality(New') \in Nat /\ Cardinality(New) \in Nat
      /\ Cardinality(snap) \in Nat /\ Cardinality(Exposed') \in Nat
      /\ Cardinality(Exposed') <= Cardinality(snap) + Cardinality(New')
  BY <1>1, GainedSinceSnapshot DEF PositionsInv
<1>4. QED
  BY <1>1, <1>2, <1>3, LimitTypes

LEMMA PositionsInit == Init => PositionsInv
<1> SUFFICES ASSUME Init PROVE PositionsInv
  OBVIOUS
<1>1. held = {} /\ pending = {} /\ snap = {} /\ pc = "idle"
  BY DEF Init, BrokerInit
<1>2. AllFinite /\ Exposed = {} /\ Cardinality(Exposed) = 0
  BY <1>1, FS_EmptySet DEF AllFinite, Exposed
<1>3. SlotsUsed /\ RoomInSnapshot
  BY <1>1 DEF SlotsUsed, RoomInSnapshot, Cycling, Sending
<1>4. QED
  BY <1>2, <1>3, LimitTypes DEF PositionsInv, PositionBound

\* Each step keeps the invariant, if every order is settled before the positions are read.
LEMMA PositionsStep ==
  ASSUME TypeInv, PositionsInv, PromptFills, [Next]_vars
  PROVE  PositionsInv'
<1> USE DEF brokerVars, boundVars, historyVars
<1>1. AllFinite /\ SlotsUsed /\ RoomInSnapshot /\ Cardinality(Exposed) <= PositionBound
  BY DEF PositionsInv
<1>2. /\ Cardinality(New) \in Nat /\ Cardinality(Exposed) \in Nat /\ Cardinality(snap) \in Nat
  BY <1>1, GainedSinceSnapshot
<1>3. IsFiniteSet(todo) /\ Cardinality(todo) \in Nat
  BY GatewayAssumption, FS_Subset, FS_CardinalityType DEF TypeInv, TypeOK
<1>4. MaxJudged \in Nat /\ PositionBound' = PositionBound
  BY LimitTypes DEF PositionBound
<1>5. ASSUME UNCHANGED <<held, pending, snap>>
      PROVE  /\ AllFinite' /\ New' = New /\ Exposed' = Exposed
             /\ Cardinality(Exposed') <= PositionBound
  BY <1>1, <1>5 DEF AllFinite, New, Exposed
<1>6. CASE StartCycle \/ StartTimeStop
  <2>1. /\ pc' \in {"positions", "stop_positions"} /\ snap' = {}
        /\ UNCHANGED <<held, pending>>
    BY <1>6 DEF StartCycle, StartTimeStop, Forget
  <2>2. AllFinite' /\ Exposed' = Exposed
    BY <1>1, <2>1, FS_EmptySet DEF AllFinite, Exposed
  <2> QED
    BY <2>1, <2>2, Outside
<1>8. CASE ReadPositions
  <2>1. pending = {} /\ snap' = held /\ pc' = "universe" /\ UNCHANGED <<held, pending>>
    BY <1>8 DEF ReadPositions, PositionsReady
  <2>2. AllFinite' /\ New' = {} /\ Exposed' = Exposed
    BY <1>1, <2>1 DEF AllFinite, New, Exposed
  <2>3. SlotsUsed' /\ RoomInSnapshot'
    BY <2>1, <2>2 DEF SlotsUsed, RoomInSnapshot, Sending
  <2>4. QED
    BY <1>1, <1>4, <2>2, <2>3 DEF PositionsInv
<1>9. CASE Scan
  <2>1. /\ pc = "universe" /\ pc' = "quotes" /\ UNCHANGED <<held, pending, snap>>
        /\ todo' \subseteq Instruments /\ Cardinality(todo') <= MaxJudged
    BY <1>9 DEF Scan, Candidates
  <2>2. New' = {} /\ Cardinality(New') = 0 /\ Cardinality(todo') \in Nat
    BY <1>1, <1>5, <2>1, FS_EmptySet, GatewayAssumption, FS_Subset, FS_CardinalityType DEF SlotsUsed
  <2>3. SlotsUsed' /\ RoomInSnapshot'
    BY <1>4, <2>1, <2>2 DEF SlotsUsed, RoomInSnapshot, Sending
  <2>4. QED
    BY <1>4, <1>5, <2>1, <2>3 DEF PositionsInv
<1>10. CASE ReadQuotes \/ ReadBalances
  <2>1. /\ pc \in {"quotes", "balances"} /\ pc' \in {"balances", "momentum"}
        /\ UNCHANGED <<held, pending, snap, todo>>
    BY <1>10 DEF ReadQuotes, ReadBalances
  <2>2. SlotsUsed' /\ RoomInSnapshot'
    BY <1>1, <1>5, <2>1 DEF SlotsUsed, RoomInSnapshot, Sending
  <2>3. QED
    BY <1>4, <1>5, <2>1, <2>2 DEF PositionsInv
<1>11. ASSUME NEW m \in todo, SkipUnquoted(m) \/ SkipSeenNews(m) PROVE PositionsInv'
  BY <1>5, <1>11, Frame DEF SkipUnquoted, SkipSeenNews
<1>12. ASSUME NEW m \in todo, NEW n \in Briefs, AskJudge(m, n) PROVE PositionsInv'
  <2>1. /\ pc = "momentum" /\ pc' = "judge" /\ todo' = todo \ {m}
        /\ UNCHANGED <<held, pending, snap>>
    BY <1>12 DEF AskJudge
  <2>2. Cardinality(todo') = Cardinality(todo) - 1
    BY <1>3, <2>1, FS_RemoveElement
  <2>3. SlotsUsed' /\ RoomInSnapshot'
    BY <1>1, <1>2, <1>3, <1>4, <1>5, <2>1, <2>2
    DEF SlotsUsed, RoomInSnapshot, Cycling, Sending
  <2>4. QED
    BY <1>4, <1>5, <2>1, <2>3 DEF PositionsInv
<1>13. CASE Dismiss
  <2>1. pc = "judge" /\ pc' = "momentum" /\ UNCHANGED <<held, pending, snap, todo>>
    BY <1>13 DEF Dismiss
  <2>2. SlotsUsed' /\ RoomInSnapshot'
    BY <1>1, <1>2, <1>3, <1>4, <1>5, <2>1 DEF SlotsUsed, RoomInSnapshot, Cycling, Sending
  <2>3. QED
    BY <1>4, <1>5, <2>1, <2>2 DEF PositionsInv
<1>14. ASSUME NEW age \in Ages, Approve(age) PROVE PositionsInv'
  <2>1. pc = "judge" /\ pc' = "momentum_order" /\ UNCHANGED <<held, pending, snap, todo>>
    BY <1>14 DEF Approve
  <2>2. Cardinality(snap) < Limits.max_open_positions
    BY <1>14, ApprovedBelowLimit DEF Approve, MomentumSize, Context
  <2>3. SlotsUsed' /\ RoomInSnapshot'
    BY <1>1, <1>5, <2>1, <2>2 DEF SlotsUsed, RoomInSnapshot
  <2>4. QED
    BY <1>4, <1>5, <2>1, <2>3 DEF PositionsInv
<1>15. ASSUME NEW o \in Outcomes, SendMomentum(o) PROVE PositionsInv'
  <2>1. /\ pc = "momentum_order" /\ Send("momentum", o) /\ UNCHANGED snap
        /\ \/ pc' = "idle"
           \/ pc' = "momentum" /\ UNCHANGED todo
    BY <1>15 DEF SendMomentum, Leave, Keep
  <2>2. Cardinality(New) + Cardinality(todo) < MaxJudged
    BY <1>1, <2>1 DEF SlotsUsed
  <2>3. /\ AllFinite' /\ Cardinality(New') <= Cardinality(New) + 1
        /\ Cardinality(snap') < Limits.max_open_positions
        /\ Cardinality(Exposed') <= PositionBound
    BY <1>2, <1>3, <1>4, <2>1, <2>2, SendBounded DEF Sending
  <2>4. Cardinality(New') \in Nat
    BY <2>3, GainedSinceSnapshot
  <2>5. SlotsUsed' /\ RoomInSnapshot'
    BY <1>2, <1>3, <1>4, <2>1, <2>2, <2>3, <2>4 DEF SlotsUsed, RoomInSnapshot, Cycling, Sending
  <2>6. QED
    BY <1>4, <2>3, <2>5 DEF PositionsInv
<1>16. CASE EnterPairs
  <2>1. /\ pc = "momentum" /\ pc' = "pairs" /\ todo = {} /\ UNCHANGED <<held, pending, snap>>
    BY <1>16 DEF EnterPairs
  <2>2. SlotsUsed' /\ RoomInSnapshot'
    BY <1>1, <1>2, <1>4, <1>5, <2>1, FS_EmptySet DEF SlotsUsed, RoomInSnapshot, Cycling, Sending
  <2>3. QED
    BY <1>4, <1>5, <2>1, <2>2 DEF PositionsInv
<1>17. ASSUME NEW s \in signals, DropPair(s) PROVE PositionsInv'
  BY <1>5, <1>17, Frame DEF DropPair
<1>18. ASSUME NEW s \in signals, NEW qa \in Quotes, NEW qb \in Quotes, NEW age \in Ages,
              ApprovePair(s, qa, qb, age)
       PROVE  PositionsInv'
  <2>1. pc = "pairs" /\ pc' = "pair_a" /\ UNCHANGED <<held, pending, snap, todo>>
    BY <1>18 DEF ApprovePair
  <2>2. Cardinality(snap) < Limits.max_open_positions
    BY <1>18, ApprovedBelowLimit DEF ApprovePair, BothApproved, LegSize, Context
  <2>3. SlotsUsed' /\ RoomInSnapshot'
    BY <1>1, <1>5, <2>1, <2>2 DEF SlotsUsed, RoomInSnapshot
  <2>4. QED
    BY <1>4, <1>5, <2>1, <2>3 DEF PositionsInv
<1>19. ASSUME NEW o \in Outcomes, SendLegA(o) \/ SendLegB(o) PROVE PositionsInv'
  <2>1. /\ Send("pair", o) /\ UNCHANGED snap
        /\ \/ pc = "pair_a" /\ pc' \in {"idle", "pair_b"}
           \/ pc = "pair_b" /\ pc' = "idle"
    BY <1>19 DEF SendLegA, SendLegB, Leave, Keep
  <2>2. Cardinality(New) <= MaxJudged + 1 /\ (pc = "pair_a" => Cardinality(New) <= MaxJudged)
    BY <1>1, <1>2, <1>4, <2>1 DEF SlotsUsed
  <2>3. /\ AllFinite' /\ Cardinality(New') <= Cardinality(New) + 1
        /\ Cardinality(snap') < Limits.max_open_positions
        /\ Cardinality(Exposed') <= PositionBound
    BY <2>1, <2>2, SendBounded DEF Sending
  <2>4. Cardinality(New') \in Nat
    BY <2>3, GainedSinceSnapshot
  <2>5. SlotsUsed' /\ RoomInSnapshot'
    BY <1>2, <1>4, <2>1, <2>2, <2>3, <2>4 DEF SlotsUsed, RoomInSnapshot, Cycling, Sending
  <2>6. QED
    BY <1>4, <2>3, <2>5 DEF PositionsInv
<1>20. CASE EndPairs \/ Fail \/ ProposalFails
  BY <1>5, <1>20, Outside DEF EndPairs, Fail, ProposalFails, Leave, Keep
<1>21. CASE ReadStopPositions
  <2>1. AllFinite' /\ Exposed' = Exposed /\ pc' = "closing"
    BY <1>1, <1>21 DEF ReadStopPositions, AllFinite, Exposed
  <2>2. QED
    BY <2>1, Outside
<1>22. ASSUME NEW p, NEW o, ClosePosition(p, o), snap' = snap \/ snap' = {},
              pc' \in {"idle", "closing"}
       PROVE  PositionsInv'
  <2>1. held' \subseteq held /\ UNCHANGED pending
    BY <1>22 DEF ClosePosition
  <2>2. AllFinite' /\ Exposed' \subseteq Exposed
    BY <1>1, <1>22, <2>1, FS_Subset, FS_EmptySet DEF AllFinite, Exposed
  <2>3. QED
    BY <1>22, <2>2, Outside
<1>23. ASSUME NEW p \in closing, NEW o \in Outcomes, CloseNext(p, o) PROVE PositionsInv'
  BY <1>22, <1>23 DEF CloseNext
<1>24. ASSUME NEW p \in closing, CloseRaises(p) PROVE PositionsInv'
  BY <1>22, <1>24 DEF CloseRaises, Restart, Leave, Forget
<1>25. CASE EndTimeStop \/ Crash
  <2>1. snap' = {} /\ pc' = "idle" /\ UNCHANGED <<held, pending>>
    BY <1>25 DEF EndTimeStop, Crash, Restart, Leave, Forget
  <2>2. AllFinite' /\ Exposed' = Exposed
    BY <1>1, <2>1, FS_EmptySet DEF AllFinite, Exposed
  <2>3. QED
    BY <2>1, <2>2, Outside
<1>26. CASE Halt \/ Resume \/ UNCHANGED vars
  BY <1>5, <1>26, Frame DEF Halt, Resume, vars, runnerVars
<1>27. CASE Broker
  <2>1. UNCHANGED <<pc, snap, todo>>
    BY <1>27 DEF Broker, runnerVars
  <2>2. /\ Exposed' \subseteq Exposed
        /\ \E x : held' = held \cup {x} \/ held' \subseteq held
        /\ pending' \subseteq pending
    BY <1>27 DEF Broker, BrokerStep, Settle, Fill, RefuseFill, Close, RefuseClose,
               StopOut, Exposed
  <2>3. AllFinite'
    BY <1>1, <2>1, <2>2, FS_AddElement, FS_Subset DEF AllFinite
  <2>4. QED
    BY <2>1, <2>2, <2>3, Frame
<1>28. QED
  <2>1. CASE Momentum
    BY <2>1, <1>11, <1>12, <1>13, <1>14, <1>15, <1>20 DEF Momentum, NoCatalyst, RiskReject
  <2>2. CASE Pairs
    BY <2>2, <1>17, <1>18, <1>19, <1>20 DEF Pairs, LegUnquoted, RejectPair
  <2>3. CASE TimeStop
    BY <2>3, <1>21, <1>23, <1>24, <1>25 DEF TimeStop
  <2>4. CASE RunnerStep
    BY <2>4, <2>1, <2>2, <2>3, <1>8, <1>9, <1>10, <1>16 DEF RunnerStep
  <2>5. QED
    BY <2>4, <1>6, <1>20, <1>25, <1>26, <1>27 DEF Next

\* However a cycle's awaits interleave with the broker, the kill switch and crashes, the
\* account never holds more than the limit, less one, plus a cycle's orders.
THEOREM PositionsTheorem == Spec => []PositionsBounded
<1> DEFINE Inv == TypeInv /\ (PromptFills => PositionsInv)
<1>1. Init => Inv
  BY TypeInit, PositionsInit
<1>2. Inv /\ [Next]_vars => Inv'
  BY TypeStep, PositionsStep
<1>3. Inv => PositionsBounded
  BY DEF PositionsInv, PositionsBounded
<1>4. QED
  BY <1>1, <1>2, <1>3, PTL DEF Spec

(***************************************************************************)
(* The kill switch.                                                        *)
(***************************************************************************)

\* Nothing is approved while the kill switch is active.
LEMMA HaltedApprovesNothing ==
  ASSUME NEW p, NEW c, NEW h, Evaluate(p, c, h) > 0
  PROVE  ~h
BY DEF Evaluate

\* A send counts one order more, and only if the switch is active.
LEMMA SendCounts ==
  ASSUME TypeInv, NEW why, NEW o, Send(why, o)
  PROVE  UNCHANGED halted /\ afterHalt' = (IF halted THEN afterHalt + 1 ELSE afterHalt)
         /\ afterHalt \in Nat
BY DEF Send, TypeInv, TypeOK

LEMMA KillStep ==
  ASSUME TypeInv, KillInv, [Next]_vars
  PROVE  KillInv'
<1> USE DEF KillInv, KillStopsOrders, boundVars, historyVars
<1>1. ASSUME UNCHANGED <<halted, afterHalt>>, pc' \notin {"momentum_order", "pair_a", "pair_b"}
      PROVE  KillInv'
  BY <1>1
<1>2. CASE StartCycle \/ StartTimeStop
  BY <1>1, <1>2 DEF StartCycle, StartTimeStop
<1>3. CASE ReadPositions \/ Scan \/ ReadQuotes \/ ReadBalances
  BY <1>1, <1>3 DEF ReadPositions, Scan, ReadQuotes, ReadBalances
<1>4. ASSUME NEW m \in todo, SkipUnquoted(m) \/ SkipSeenNews(m) \/ \E n \in Briefs : AskJudge(m, n)
      PROVE  KillInv'
  BY <1>1, <1>4 DEF SkipUnquoted, SkipSeenNews, AskJudge
<1>5. CASE Dismiss
  BY <1>1, <1>5 DEF Dismiss
<1>6. ASSUME NEW age \in Ages, Approve(age) PROVE KillInv'
  <2>1. ~halted
    BY <1>6, HaltedApprovesNothing DEF Approve, MomentumSize
  <2>2. QED
    BY <1>6, <2>1 DEF Approve
<1>7. ASSUME NEW o \in Outcomes, SendMomentum(o) PROVE KillInv'
  <2>1. pc = "momentum_order" /\ Send("momentum", o) /\ pc' \in {"idle", "momentum"}
    BY <1>7 DEF SendMomentum, Leave
  <2>2. QED
    BY <2>1, SendCounts
<1>8. ASSUME NEW s \in signals, NEW qa \in Quotes, NEW qb \in Quotes, NEW age \in Ages,
             ApprovePair(s, qa, qb, age)
      PROVE  KillInv'
  <2>1. ~halted
    BY <1>8, HaltedApprovesNothing DEF ApprovePair, BothApproved, LegSize
  <2>2. QED
    BY <1>8, <2>1 DEF ApprovePair
<1>9. ASSUME NEW o \in Outcomes, SendLegA(o) PROVE KillInv'
  <2>1. pc = "pair_a" /\ Send("pair", o) /\ pc' \in {"idle", "pair_b"}
    BY <1>9 DEF SendLegA, Leave
  <2>2. QED
    BY <2>1, SendCounts
<1>10. ASSUME NEW o \in Outcomes, SendLegB(o) PROVE KillInv'
  <2>1. pc = "pair_b" /\ Send("pair", o) /\ pc' = "idle"
    BY <1>10 DEF SendLegB, Leave
  <2>2. QED
    BY <2>1, SendCounts
<1>11. CASE EnterPairs \/ EndPairs \/ Fail \/ EndTimeStop \/ ProposalFails
  BY <1>1, <1>11 DEF EnterPairs, EndPairs, Fail, EndTimeStop, ProposalFails, Leave
<1>12. ASSUME NEW s \in signals, DropPair(s) PROVE KillInv'
  BY <1>1, <1>12 DEF DropPair
<1>13. CASE ReadStopPositions
  BY <1>1, <1>13 DEF ReadStopPositions
<1>14. ASSUME NEW p \in closing, NEW o \in Outcomes, CloseNext(p, o) PROVE KillInv'
  BY <1>1, <1>14 DEF CloseNext
<1>15. CASE Restart
  BY <1>15 DEF Restart, Leave
<1>16. CASE Halt \/ Resume
  BY <1>16 DEF Halt, Resume
<1>17. CASE Broker \/ UNCHANGED vars
  BY <1>17 DEF Broker, vars, runnerVars
<1>18. QED
  <2>1. CASE Momentum
    BY <2>1, <1>4, <1>5, <1>6, <1>7, <1>11 DEF Momentum, NoCatalyst, RiskReject
  <2>2. CASE Pairs
    BY <2>2, <1>8, <1>9, <1>10, <1>11, <1>12 DEF Pairs, LegUnquoted, RejectPair
  <2>3. CASE TimeStop
    BY <2>3, <1>11, <1>13, <1>14, <1>15 DEF TimeStop, CloseRaises
  <2>4. CASE RunnerStep
    BY <2>4, <2>1, <2>2, <2>3, <1>3, <1>11 DEF RunnerStep
  <2>5. QED
    BY <2>4, <1>2, <1>11, <1>15, <1>16, <1>17 DEF Next, Crash

\* Wherever in a cycle the kill switch is thrown, at most two more orders go out.
THEOREM KillTheorem == Spec => []KillStopsOrders
<1>1. Init => TypeInv /\ KillInv
  BY TypeInit DEF Init, KillInv, KillStopsOrders
<1>2. TypeInv /\ KillInv /\ [Next]_vars => (TypeInv /\ KillInv)'
  BY TypeStep, KillStep
<1>3. KillInv => KillStopsOrders
  BY DEF KillInv
<1>4. QED
  BY <1>1, <1>2, <1>3, PTL DEF Spec

(***************************************************************************)
(* The news seen, and the news judged.                                     *)
(***************************************************************************)
\* The candidate before the judge is there with the brief just marked as seen.
SeenInv ==
  /\ SeenMeansJudged
  /\ pc = "judge" => cur.brief = lastNews[cur.inst]

LEMMA SeenStep ==
  ASSUME TypeInv, SeenInv, [Next]_vars
  PROVE  SeenInv'
<1> USE DEF SeenInv, SeenMeansJudged, boundVars, historyVars
<1>1. ASSUME UNCHANGED <<lastNews, judged>>, "judge" \notin {pc, pc'} \/ UNCHANGED <<pc, cur>>
      PROVE  SeenInv'
  BY <1>1
<1>2. CASE StartCycle \/ StartTimeStop
  BY <1>1, <1>2 DEF StartCycle, StartTimeStop
<1>3. CASE ReadPositions \/ Scan \/ ReadQuotes \/ ReadBalances
  BY <1>1, <1>3 DEF ReadPositions, Scan, ReadQuotes, ReadBalances
<1>4. ASSUME NEW m \in todo, SkipUnquoted(m) \/ SkipSeenNews(m) PROVE SeenInv'
  BY <1>1, <1>4 DEF SkipUnquoted, SkipSeenNews
<1>5. ASSUME NEW m \in todo, NEW n \in Briefs, AskJudge(m, n) PROVE SeenInv'
  <2>1. /\ pc = "momentum" /\ pc' = "judge" /\ UNCHANGED judged
        /\ lastNews' = [lastNews EXCEPT ![m] = n] /\ cur' = [inst |-> m, brief |-> n]
    BY <1>5 DEF AskJudge
  <2>2. lastNews \in [Instruments -> Briefs \cup {Unseen}] /\ m \in Instruments
    BY DEF TypeInv, TypeOK
  <2>3. lastNews'[m] = n /\ \A i \in Instruments \ {m} : lastNews'[i] = lastNews[i]
    BY <2>1, <2>2
  <2>4. QED
    BY <2>1, <2>3
<1>6. ASSUME pc = "judge", pc' # "judge", UNCHANGED lastNews, judged' = [judged EXCEPT ![cur.inst] = cur.brief]
      PROVE  SeenInv'
  <2>1. judged \in [Instruments -> Briefs \cup {Unseen}]
    BY DEF TypeInv, TypeOK
  <2>2. QED
    BY <1>6, <2>1
<1>7. CASE Dismiss
  BY <1>6, <1>7 DEF Dismiss
<1>8. ASSUME ProposalFails \/ \E age \in Ages : Approve(age) PROVE SeenInv'
  BY <1>6, <1>8 DEF ProposalFails, Approve, Leave
<1>9. ASSUME NEW o \in Outcomes, SendMomentum(o) \/ SendLegA(o) \/ SendLegB(o)
      PROVE  SeenInv'
  BY <1>1, <1>9 DEF SendMomentum, SendLegA, SendLegB, Send, Leave
<1>10. ASSUME NEW s \in signals,
              \/ DropPair(s)
              \/ \E qa, qb \in Quotes, age \in Ages : ApprovePair(s, qa, qb, age)
       PROVE  SeenInv'
  BY <1>1, <1>10 DEF DropPair, ApprovePair
<1>11. CASE EnterPairs \/ EndPairs \/ Fail \/ EndTimeStop
  BY <1>1, <1>11 DEF EnterPairs, EndPairs, Fail, EndTimeStop, Leave
<1>12. CASE ReadStopPositions
  BY <1>1, <1>12 DEF ReadStopPositions
<1>13. ASSUME NEW p \in closing, NEW o \in Outcomes, CloseNext(p, o) PROVE SeenInv'
  BY <1>1, <1>13 DEF CloseNext
<1>14. CASE Restart
  BY <1>14 DEF Restart, Leave
<1>15. CASE Halt \/ Resume \/ Broker \/ UNCHANGED vars
  BY <1>1, <1>15 DEF Halt, Resume, Broker, vars, runnerVars
<1>16. QED
  <2>1. CASE Momentum
    BY <2>1, <1>4, <1>5, <1>7, <1>8, <1>9 DEF Momentum, NoCatalyst, RiskReject
  <2>2. CASE Pairs
    BY <2>2, <1>9, <1>10, <1>11 DEF Pairs, LegUnquoted, RejectPair
  <2>3. CASE TimeStop
    BY <2>3, <1>11, <1>12, <1>13, <1>14 DEF TimeStop, CloseRaises
  <2>4. CASE RunnerStep
    BY <2>4, <2>1, <2>2, <2>3, <1>3, <1>11 DEF RunnerStep
  <2>5. QED
    BY <2>4, <1>2, <1>11, <1>14, <1>15 DEF Next, Crash

\* Whatever ends a cycle early, the brief that keeps an instrument from being judged again
\* is the one it was last judged with, or the one before the judge.
THEOREM SeenTheorem == Spec => []SeenMeansJudged
<1>1. Init => TypeInv /\ SeenInv
  BY TypeInit DEF Init, SeenInv, SeenMeansJudged
<1>2. TypeInv /\ SeenInv /\ [Next]_vars => (TypeInv /\ SeenInv)'
  BY TypeStep, SeenStep
<1>3. SeenInv => SeenMeansJudged
  BY DEF SeenInv
<1>4. QED
  BY <1>1, <1>2, <1>3, PTL DEF Spec


-----------------------------------------------------------------------------

(***************************************************************************)
(* The time-stop.                                                          *)
(***************************************************************************)

\* Each step keeps what remains to be closed covered by the time-stop's list.
LEMMA StopStep ==
  ASSUME TypeInv, StopInv, [Next]_vars
  PROVE  StopInv'
<1> SUFFICES ASSUME PromptFills PROVE StopInv'
  BY DEF StopInv
<1> USE DEF StopInv, Exposed, boundVars, historyVars, brokerVars
<1>1. ASSUME pc' \notin {"closing"}, ending' # "time_stop" PROVE StopInv'
  BY <1>1
<1>2. ASSUME UNCHANGED <<held, pending, leaving, pc, closing, ending>> PROVE StopInv'
  BY <1>2
<1>3. ASSUME pc # "idle", UNCHANGED ending PROVE ending' # "time_stop"
  BY <1>3
<1>4. CASE StartCycle \/ StartTimeStop
  BY <1>1, <1>4 DEF StartCycle, StartTimeStop
<1>5. CASE ReadPositions \/ Scan \/ ReadQuotes \/ ReadBalances \/ EnterPairs
  BY <1>1, <1>3, <1>5 DEF ReadPositions, Scan, ReadQuotes, ReadBalances, EnterPairs
<1>6. ASSUME NEW m \in todo, SkipUnquoted(m) \/ SkipSeenNews(m) \/ \E n \in Briefs : AskJudge(m, n)
      PROVE  StopInv'
  BY <1>1, <1>3, <1>6 DEF SkipUnquoted, SkipSeenNews, AskJudge
<1>7. ASSUME Dismiss \/ \E age \in Ages : Approve(age) PROVE StopInv'
  BY <1>1, <1>3, <1>7 DEF Dismiss, Approve
<1>8. ASSUME NEW o \in Outcomes, SendMomentum(o) \/ SendLegA(o) \/ SendLegB(o) PROVE StopInv'
  BY <1>1, <1>3, <1>8 DEF SendMomentum, SendLegA, SendLegB, Leave
<1>9. ASSUME NEW s \in signals,
             \/ DropPair(s)
             \/ \E qa, qb \in Quotes, age \in Ages : ApprovePair(s, qa, qb, age)
      PROVE  StopInv'
  BY <1>1, <1>3, <1>9 DEF DropPair, ApprovePair
<1>10. CASE EndPairs \/ Fail \/ ProposalFails
  BY <1>1, <1>10 DEF EndPairs, Fail, ProposalFails, Leave
<1>11. CASE ReadStopPositions
  BY <1>3, <1>11 DEF ReadStopPositions, PositionsReady
<1>12. ASSUME NEW p \in closing, NEW o \in Outcomes, CloseNext(p, o) PROVE StopInv'
  <2>1. pc = "closing" /\ UNCHANGED <<pc, pending>> /\ closing' = closing \ {p}
    BY <1>12 DEF CloseNext, ClosePosition
  <2>2. CASE o = "CONFIRMED"
    BY <1>3, <1>12, <2>1, <2>2 DEF CloseNext, ClosePosition
  <2>3. CASE o = "REJECTED"
    BY <1>12, <2>1, <2>3 DEF CloseNext
  <2> QED
    BY <1>12, <2>2, <2>3 DEF CloseNext
<1>13. CASE EndTimeStop
  <2>1. /\ pc = "closing" /\ closing = {} /\ pc' = "idle"
        /\ UNCHANGED <<held, pending, leaving>>
        /\ ending' = IF ending = "none" THEN "time_stop" ELSE ending
    BY <1>13 DEF EndTimeStop, Leave
  <2> QED
    BY <2>1
<1>14. CASE Restart
  BY <1>1, <1>14 DEF Restart, Leave
<1>15. CASE Halt \/ Resume \/ UNCHANGED vars
  BY <1>2, <1>15 DEF Halt, Resume, vars, runnerVars
<1>16. CASE Broker
  <2>1. UNCHANGED <<pc, closing, ending>>
    BY <1>16 DEF Broker, runnerVars
  <2>2. pending = {} => /\ pending' = {}
                        /\ \/ UNCHANGED <<held, leaving>>
                           \/ \E p : held' = held \ {p} /\ leaving' = leaving \ {p}
    BY <1>16 DEF Broker, BrokerStep, Settle, Fill, RefuseFill, Close, RefuseClose, StopOut
  <2> QED
    BY <2>1, <2>2
<1>17. QED
  <2>1. CASE Momentum
    BY <2>1, <1>6, <1>7, <1>8, <1>10 DEF Momentum, NoCatalyst, RiskReject
  <2>2. CASE Pairs
    BY <2>2, <1>8, <1>9, <1>10 DEF Pairs, LegUnquoted, RejectPair
  <2>3. CASE TimeStop
    BY <2>3, <1>11, <1>12, <1>13, <1>14 DEF TimeStop, CloseRaises
  <2>4. CASE RunnerStep
    BY <2>4, <2>1, <2>2, <2>3, <1>5 DEF RunnerStep
  <2>5. QED
    BY <2>4, <1>4, <1>10, <1>14, <1>15, <1>16 DEF Next, Crash

\* A time-stop that ends without an error or a refusal leaves nothing that the broker has not
\* agreed to close, until the next job, whatever is closed or stopped out meanwhile, if
\* orders fill promptly.
THEOREM TimeStopTheorem == Spec => []TimeStopFlattens
<1>1. Init => TypeInv /\ StopInv
  BY TypeInit DEF Init, StopInv
<1>2. TypeInv /\ StopInv /\ [Next]_vars => (TypeInv /\ StopInv)'
  BY TypeStep, StopStep
<1>3. StopInv => TimeStopFlattens
  BY DEF StopInv, TimeStopFlattens, Exposed
<1>4. QED
  BY <1>1, <1>2, <1>3, PTL DEF Spec

(***************************************************************************)
(* Pairs.                                                                  *)
(***************************************************************************)

\* A send adds one order, of its own kind, to those of the cycle.
LEMMA SendAdds ==
  ASSUME TypeInv, NEW why \in {"momentum", "pair"}, NEW o \in Outcomes, Send(why, o), Len(legs) > 0
  PROVE  LET s == [order |-> legs[1], why |-> why, outcome |-> o]
         IN  /\ sent' = sent \cup {s}
             /\ PairLegs' = IF why = "pair" THEN PairLegs \cup {s} ELSE PairLegs
<1>1. Head(legs) = legs[1]
  BY DEF TypeInv, TypeOK
<1>2. QED
  BY <1>1 DEF Send, PairLegs

\* Nothing of a pair is sent by a step that sends nothing.
LEMMA NoSend ==
  ASSUME PairInv, UNCHANGED sent \/ sent' = {},
         pc' \notin {"pair_a", "pair_b"}, pc \notin {"idle", "pair_b"} \/ sent' = {} \/ pc' = "idle",
         signals' \subseteq signals \/ signals' \in SignalSets
  PROVE  PairInv'
<1>1. \A s \in signals' : s.a # s.b
  BY DEF PairInv, SignalSets
<1>2. pc' # "idle" => PairLegs' = {}
  BY DEF PairInv, PairLegs
<1>3. QED
  BY <1>1, <1>2 DEF PairInv

LEMMA PairStep ==
  ASSUME TypeInv, PairInv, [Next]_vars
  PROVE  PairInv'
<1> USE DEF boundVars, historyVars
<1>1. CASE StartCycle \/ StartTimeStop
  BY <1>1, NoSend DEF StartCycle, StartTimeStop
<1>2. CASE ReadPositions \/ Scan \/ ReadQuotes \/ ReadBalances \/ EnterPairs
  BY <1>2, NoSend DEF ReadPositions, Scan, ReadQuotes, ReadBalances, EnterPairs
<1>3. ASSUME NEW m \in todo, SkipUnquoted(m) \/ SkipSeenNews(m) \/ \E n \in Briefs : AskJudge(m, n)
      PROVE  PairInv'
  BY <1>3, NoSend DEF SkipUnquoted, SkipSeenNews, AskJudge
<1>4. ASSUME Dismiss \/ \E age \in Ages : Approve(age) PROVE PairInv'
  BY <1>4, NoSend DEF Dismiss, Approve
<1>5. ASSUME NEW o \in Outcomes, SendMomentum(o) PROVE PairInv'
  <2>1. /\ pc = "momentum_order" /\ Send("momentum", o)
        /\ \/ pc' = "idle" /\ ending' = "raised" /\ signals' = {}
           \/ pc' = "momentum" /\ UNCHANGED <<ending, signals>>
    BY <1>5 DEF SendMomentum, Leave
  <2>2. PairLegs' = PairLegs /\ PairLegs = {}
    BY <2>1, SendAdds DEF TypeInv, JobsWellFormed, PairInv
  <2> QED
    BY <2>1, <2>2 DEF PairInv
<1>6. ASSUME NEW s \in signals, DropPair(s) PROVE PairInv'
  BY <1>6, NoSend DEF DropPair
<1>7. ASSUME NEW s \in signals, NEW qa \in Quotes, NEW qb \in Quotes, NEW age \in Ages,
             ApprovePair(s, qa, qb, age)
      PROVE  PairInv'
  <2> DEFINE a == Order(s.a, s.dir, LegSize(s.a, s.dir, qa, age), PriceFor(qa, s.dir), 80)
             b == Order(s.b, Opposite(s.dir), LegSize(s.b, Opposite(s.dir), qb, age),
                        PriceFor(qb, Opposite(s.dir)), 80)
  <2>1. /\ pc = "pairs" /\ pc' = "pair_a" /\ UNCHANGED <<sent, ending>>
        /\ legs' = <<a, b>> /\ signals' \subseteq signals
    BY <1>7 DEF ApprovePair
  <2>2. s.a # s.b /\ s.dir \in Directions
    BY DEF PairInv, TypeInv, TypeOK, PairSignal
  <2>3. a.dir # b.dir /\ a.inst # b.inst
    BY <2>2 DEF Order, Opposite, Directions
  <2> HIDE DEF a, b
  <2>4. Hedges(legs'[1], legs'[2])
    BY <2>1, <2>3 DEF Hedges
  <2>5. PairLegs' = {}
    BY <2>1 DEF PairInv, PairLegs
  <2> QED
    BY <2>1, <2>4, <2>5 DEF PairInv
<1>8. ASSUME NEW o \in Outcomes, SendLegA(o) PROVE PairInv'
  <2>1. /\ pc = "pair_a" /\ Send("pair", o)
        /\ \/ pc' = "idle" /\ ending' = "raised" /\ signals' = {}
           \/ pc' = "pair_b" /\ legs' = Tail(legs) /\ UNCHANGED <<ending, signals>>
    BY <1>8 DEF SendLegA, Leave
  <2>2. Len(legs) = 2 /\ legs \in Seq(OrderType)
    BY <2>1 DEF TypeInv, TypeOK, JobsWellFormed
  <2> DEFINE s == [order |-> legs[1], why |-> "pair", outcome |-> o]
  <2>3. sent' = sent \cup {s} /\ PairLegs' = {s}
    BY <2>1, <2>2, SendAdds DEF PairInv
  <2>4. Tail(legs)[1] = legs[2]
    BY <2>2
  <2>5. Hedges(s.order, legs[2])
    BY <2>1 DEF PairInv
  <2> HIDE DEF s
  <2>6. pc' = "pair_b" => \E t \in sent' : PairLegs' = {t} /\ Hedges(t.order, legs'[1])
    BY <2>1, <2>3, <2>4, <2>5
  <2> QED
    BY <2>1, <2>6 DEF PairInv
<1>9. ASSUME NEW o \in Outcomes, SendLegB(o) PROVE PairInv'
  BY <1>9 DEF SendLegB, Leave, PairInv
<1>10. CASE EndPairs \/ Fail \/ ProposalFails
  BY <1>10, NoSend DEF EndPairs, Fail, ProposalFails, Leave
<1>12. CASE ReadStopPositions
  BY <1>12, NoSend DEF ReadStopPositions
<1>13. ASSUME NEW p \in closing, NEW o \in Outcomes, CloseNext(p, o) PROVE PairInv'
  BY <1>13, NoSend DEF CloseNext
<1>14. CASE EndTimeStop
  BY <1>14, NoSend DEF EndTimeStop, Leave
<1>15. CASE Restart
  BY <1>15, NoSend DEF Restart, Leave
<1>16. CASE Halt \/ Resume \/ Broker \/ UNCHANGED vars
  <2>1. UNCHANGED <<pc, signals, sent, legs, ending>>
    BY <1>16 DEF Halt, Resume, Broker, vars, runnerVars
  <2> QED
    BY <2>1 DEF PairInv, PairLegs
<1>17. QED
  <2>1. CASE Momentum
    BY <2>1, <1>3, <1>4, <1>5, <1>10 DEF Momentum, NoCatalyst, RiskReject
  <2>2. CASE Pairs
    BY <2>2, <1>6, <1>7, <1>8, <1>9, <1>10 DEF Pairs, LegUnquoted, RejectPair
  <2>3. CASE TimeStop
    BY <2>3, <1>12, <1>13, <1>14, <1>15 DEF TimeStop, CloseRaises
  <2>4. CASE RunnerStep
    BY <2>4, <2>1, <2>2, <2>3, <1>2 DEF RunnerStep
  <2>5. QED
    BY <2>4, <1>1, <1>10, <1>15, <1>16 DEF Next, Crash

(***************************************************************************)
(* Positions on one instrument.  The argument of PositionsInv, instrument  *)
(* by instrument: an order on it was approved with room in the snapshot,   *)
(* and a cycle sends one momentum order on it at most, and one leg.        *)
(***************************************************************************)
LEMMA AssetLimitTypes ==
  /\ Limits.max_positions_per_asset \in Nat
  /\ AssetBound = Limits.max_positions_per_asset + 1
<1>1. Limits.max_positions_per_asset \in Nat
  BY LimitsAssumption DEF LimitNames
<1>2. QED
  BY <1>1 DEF AssetBound

\* What an account holds of an instrument is what the snapshot had and what it gained.
LEMMA AssetCounts ==
  ASSUME NEW i
  PROVE  /\ AllFinite =>
              /\ IsFiniteSet(OnAsset(New, i)) /\ IsFiniteSet(OnAsset(Exposed, i))
              /\ Gained(i) \in Nat /\ Before(i) \in Nat /\ Cardinality(OnAsset(Exposed, i)) \in Nat
              /\ Cardinality(OnAsset(Exposed, i)) <= Before(i) + Gained(i)
         /\ AllFinite' =>
              /\ IsFiniteSet(OnAsset(New', i)) /\ IsFiniteSet(OnAsset(Exposed', i))
              /\ Gained(i)' \in Nat /\ Before(i)' \in Nat
              /\ Cardinality(OnAsset(Exposed', i)) \in Nat
              /\ Cardinality(OnAsset(Exposed', i)) <= Before(i)' + Gained(i)'
<1>1. ASSUME NEW E, NEW S, IsFiniteSet(E), IsFiniteSet(S)
      PROVE  /\ IsFiniteSet(OnAsset(E, i)) /\ IsFiniteSet(OnAsset(S, i))
             /\ OnAsset(E, i) \ OnAsset(S, i) = OnAsset(E \ S, i)
  <2>1. IsFiniteSet(OnAsset(E, i)) /\ IsFiniteSet(OnAsset(S, i))
    BY <1>1, FS_Subset DEF OnAsset
  <2>2. QED
    BY <2>1 DEF OnAsset
<1>2. ASSUME NEW E, NEW S, IsFiniteSet(E), IsFiniteSet(S)
      PROVE  /\ IsFiniteSet(OnAsset(E \ S, i)) /\ Cardinality(OnAsset(E \ S, i)) \in Nat
             /\ Cardinality(OnAsset(E, i)) \in Nat /\ Cardinality(OnAsset(S, i)) \in Nat
             /\ Cardinality(OnAsset(E, i))
                  <= Cardinality(OnAsset(S, i)) + Cardinality(OnAsset(E \ S, i))
  <2> DEFINE e == OnAsset(E, i)
             s == OnAsset(S, i)
  <2>1. IsFiniteSet(e) /\ IsFiniteSet(s) /\ OnAsset(E \ S, i) = e \ s
    BY <1>1, <1>2
  <2> HIDE DEF e, s
  <2>2. /\ IsFiniteSet(e \ s)
        /\ Cardinality(e) \in Nat /\ Cardinality(e \ s) \in Nat /\ Cardinality(s) \in Nat
        /\ Cardinality(e) <= Cardinality(s) + Cardinality(e \ s)
    BY <2>1, CountBeside
  <2>3. QED
    BY <2>1, <2>2 DEF e, s
<1>3. AllFinite => IsFiniteSet(Exposed) /\ IsFiniteSet(snap)
  BY GainedSinceSnapshot DEF AllFinite
<1>4. AllFinite' => IsFiniteSet(Exposed') /\ IsFiniteSet(snap')
  BY GainedSinceSnapshot DEF AllFinite
<1>5. New = Exposed \ snap /\ New' = Exposed' \ snap'
  BY DEF New
<1>6. QED
  BY <1>1, <1>2, <1>3, <1>4, <1>5 DEF Gained, Before

\* If nothing of an instrument was added, there is no more of it.
LEMMA AssetShrinks ==
  ASSUME AllFinite, AllFinite', NEW i, OnAsset(Exposed', i) \subseteq OnAsset(Exposed, i)
  PROVE  /\ Cardinality(OnAsset(Exposed', i)) <= Cardinality(OnAsset(Exposed, i))
         /\ snap' = snap => Gained(i)' <= Gained(i) /\ Before(i)' = Before(i)
<1>1. Cardinality(OnAsset(Exposed', i)) <= Cardinality(OnAsset(Exposed, i))
  BY AssetCounts, FS_Subset
<1>2. ASSUME snap' = snap PROVE Gained(i)' <= Gained(i) /\ Before(i)' = Before(i)
  <2>1. OnAsset(New', i) \subseteq OnAsset(New, i)
    BY <1>2 DEF New, OnAsset
  <2>2. Cardinality(OnAsset(New', i)) <= Cardinality(OnAsset(New, i))
    BY <2>1, AssetCounts, FS_Subset
  <2>3. QED
    BY <1>2, <2>2 DEF Gained, Before
<1>3. QED
  BY <1>1, <1>2

\* What is left of two legs is the second.
LEMMA SecondOfTwo ==
  ASSUME NEW S, NEW q \in Seq(S), Len(q) = 2
  PROVE  DOMAIN Tail(q) = {1} /\ Tail(q)[1] = q[2] /\ DOMAIN q = {1, 2}
<1>1. Tail(q) \in Seq(S) /\ Len(Tail(q)) = 1
  BY TailOfTwo
<1>2. DOMAIN q = 1 .. 2
  OBVIOUS
<1>3. DOMAIN Tail(q) = 1 .. 1
  <2>1. \A r \in Seq(S) : Len(r) = 1 => DOMAIN r = 1 .. 1
    OBVIOUS
  <2>2. QED
    BY <1>1, <2>1
<1>4. Tail(q)[1] = q[2]
  <2>1. \A i \in 1 .. Len(Tail(q)) : Tail(q)[i] = q[i + 1]
    BY HeadTailProperties
  <2>2. QED
    BY <1>1, <2>1
<1>5. 1 .. 1 = {1} /\ 1 .. 2 = {1, 2}
  OBVIOUS
<1>6. QED
  BY <1>2, <1>3, <1>4, <1>5

\* A send adds at most one order, on the instrument of the first leg.
LEMMA AssetSend ==
  ASSUME TypeInv, AllFinite, Sending, NEW why, NEW o, Send(why, o), UNCHANGED snap, NEW i
  PROVE  /\ AllFinite' /\ Before(i)' = Before(i)
         /\ i # legs[1].inst =>
              Gained(i)' <= Gained(i) /\ OnAsset(Exposed', i) \subseteq OnAsset(Exposed, i)
         /\ i = legs[1].inst => Gained(i)' <= Gained(i) + 1
<1> DEFINE x == WithId(Head(legs), nextId)
<1>1. AllFinite'
  BY SendGrows
<1>2. x.inst = legs[1].inst
  <2>1. legs \in Seq(OrderType) /\ Len(legs) > 0
    BY SomethingToSend DEF TypeInv, TypeOK
  <2>2. Head(legs) = legs[1]
    BY <2>1
  <2>3. QED
    BY <2>2 DEF WithId
<1>3. UNCHANGED held /\ (pending' = pending \/ pending' = pending \cup {x})
  BY DEF Send, OpenMarketOrder
<1> HIDE DEF x
<1>4. CASE i # legs[1].inst
  <2>1. OnAsset(Exposed', i) \subseteq OnAsset(Exposed, i)
    BY <1>2, <1>3, <1>4 DEF OnAsset, Exposed
  <2>2. QED
    BY <1>1, <1>4, <2>1, AssetShrinks
<1>5. CASE i = legs[1].inst
  <2>1. OnAsset(New', i) \subseteq OnAsset(New, i) \cup {x}
    BY <1>3 DEF OnAsset, New, Exposed
  <2>2. IsFiniteSet(OnAsset(New, i)) /\ Cardinality(OnAsset(New, i)) \in Nat
    BY AssetCounts DEF Gained
  <2>3. /\ IsFiniteSet(OnAsset(New, i) \cup {x})
        /\ Cardinality(OnAsset(New, i) \cup {x})
             = IF x \in OnAsset(New, i) THEN Cardinality(OnAsset(New, i))
                                        ELSE Cardinality(OnAsset(New, i)) + 1
    BY <2>2, FS_AddElement
  <2>4. /\ Cardinality(OnAsset(New', i)) <= Cardinality(OnAsset(New, i) \cup {x})
        /\ Cardinality(OnAsset(New', i)) \in Nat
    BY <2>1, <2>3, FS_Subset, FS_CardinalityType
  <2>5. Cardinality(OnAsset(New', i)) <= Cardinality(OnAsset(New, i)) + 1
    BY <2>2, <2>3, <2>4
  <2>6. QED
    BY <1>1, <1>5, <2>5 DEF Gained, Before
<1>6. QED
  BY <1>4, <1>5

\* A send leaves every instrument within the bound: there was room for it in the snapshot.
LEMMA AssetSendBounded ==
  ASSUME TypeInv, AllFinite, AssetInv, Sending, NEW why, NEW o, Send(why, o), UNCHANGED snap,
         NEW i \in Instruments, i = legs[1].inst => Gained(i) <= 1
  PROVE  /\ Gained(i)' > 0 => Before(i)' < Limits.max_positions_per_asset
         /\ Cardinality(OnAsset(Exposed', i)) <= AssetBound
<1>1. AllFinite'
  BY AssetSend
<1>2. /\ Gained(i) \in Nat /\ Before(i) \in Nat /\ Gained(i)' \in Nat /\ Before(i)' \in Nat
      /\ Cardinality(OnAsset(Exposed, i)) \in Nat /\ Cardinality(OnAsset(Exposed', i)) \in Nat
      /\ Cardinality(OnAsset(Exposed', i)) <= Before(i)' + Gained(i)'
  BY <1>1, AssetCounts
<1>3. Before(i)' = Before(i)
  BY AssetSend
<1>4. CASE i = legs[1].inst
  <2>1. 1 \in DOMAIN legs
    BY SomethingToSend DEF TypeInv, TypeOK
  <2>2. Before(i) < Limits.max_positions_per_asset
    BY <1>4, <2>1 DEF AssetInv, RoomOnAsset, Sending, Cycling
  <2>3. Gained(i)' <= Gained(i) + 1
    BY <1>4, AssetSend
  <2>4. QED
    BY <1>2, <1>3, <1>4, <2>2, <2>3, AssetLimitTypes
<1>5. CASE i # legs[1].inst
  <2>1. Gained(i)' <= Gained(i) /\ OnAsset(Exposed', i) \subseteq OnAsset(Exposed, i)
    BY <1>5, AssetSend
  <2>2. Cardinality(OnAsset(Exposed', i)) <= Cardinality(OnAsset(Exposed, i))
    BY <1>1, <2>1, AssetShrinks
  <2>3. Gained(i) > 0 => Before(i) < Limits.max_positions_per_asset
    BY DEF AssetInv, RoomOnAsset, Sending, Cycling
  <2>4. Cardinality(OnAsset(Exposed, i)) <= AssetBound
    BY DEF AssetInv
  <2>5. QED
    BY <1>2, <1>3, <2>1, <2>2, <2>3, <2>4, AssetLimitTypes
<1>6. QED
  BY <1>4, <1>5

\* A step that adds nothing leaves no more of an instrument, and no less room for it.
LEMMA AssetKept ==
  ASSUME AssetInv, AllFinite, AllFinite', Exposed' \subseteq Exposed, NEW i \in Instruments
  PROVE  /\ Cardinality(OnAsset(Exposed', i)) <= AssetBound
         /\ Gained(i) \in Nat /\ Gained(i)' \in Nat
         /\ snap' = snap => Gained(i)' <= Gained(i) /\ Before(i)' = Before(i)
<1>1. OnAsset(Exposed', i) \subseteq OnAsset(Exposed, i)
  BY DEF OnAsset
<1>2. /\ Cardinality(OnAsset(Exposed', i)) <= Cardinality(OnAsset(Exposed, i))
      /\ snap' = snap => Gained(i)' <= Gained(i) /\ Before(i)' = Before(i)
  BY <1>1, AssetShrinks
<1>3. /\ Gained(i) \in Nat /\ Gained(i)' \in Nat
      /\ Cardinality(OnAsset(Exposed', i)) \in Nat /\ Cardinality(OnAsset(Exposed, i)) \in Nat
  BY AssetCounts
<1>4. Cardinality(OnAsset(Exposed, i)) <= AssetBound
  BY DEF AssetInv
<1>5. QED
  BY <1>2, <1>3, <1>4, AssetLimitTypes

\* What a step must do, besides, to keep the invariant if nothing is sent.
LEMMA AssetFrame ==
  ASSUME AssetInv, AllFinite, AllFinite', Exposed' \subseteq Exposed, todo' \subseteq todo,
         UNCHANGED <<pc, snap, cur, legs>>
  PROVE  AssetInv'
<1> SUFFICES ASSUME NEW i \in Instruments
             PROVE  /\ AssetSlots(i)' /\ RoomOnAsset(i)'
                    /\ Cardinality(OnAsset(Exposed', i)) <= AssetBound
  BY DEF AssetInv, AssetBound
<1>1. /\ Cardinality(OnAsset(Exposed', i)) <= AssetBound
      /\ Gained(i) \in Nat /\ Gained(i)' \in Nat /\ Gained(i)' <= Gained(i)
      /\ Before(i)' = Before(i)
  BY AssetKept
<1>2. AssetSlots(i) /\ RoomOnAsset(i)
  BY DEF AssetInv
<1>3. Awaited(i)' => Awaited(i)
  BY DEF Awaited
<1>4. AssetSlots(i)'
  BY <1>1, <1>2, <1>3 DEF AssetSlots
<1>5. RoomOnAsset(i)'
  BY <1>1, <1>2 DEF RoomOnAsset, Cycling, Sending
<1>6. QED
  BY <1>1, <1>4, <1>5

LEMMA AssetOutside ==
  ASSUME AssetInv, AllFinite, AllFinite', Exposed' \subseteq Exposed,
         pc' \in {"idle", "positions", "stop_positions", "closing"}
  PROVE  AssetInv'
<1>1. \A i \in Instruments : Cardinality(OnAsset(Exposed', i)) <= AssetBound
  BY AssetKept
<1>2. QED
  BY <1>1 DEF AssetInv, AssetBound, AssetSlots, RoomOnAsset, Cycling

LEMMA AssetStep ==
  ASSUME TypeInv, PositionsInv, PositionsInv', PairInv, AssetInv, PromptFills, [Next]_vars
  PROVE  AssetInv'
<1> USE DEF brokerVars, boundVars, historyVars
<1>1. AllFinite /\ AllFinite'
  BY DEF PositionsInv
<1>2. AssetBound' = AssetBound
  BY DEF AssetBound
<1>3. ASSUME NEW i \in Instruments
      PROVE  /\ Gained(i) \in Nat /\ Gained(i)' \in Nat
             /\ AssetSlots(i) /\ RoomOnAsset(i) /\ Cardinality(OnAsset(Exposed, i)) <= AssetBound
  BY <1>1, AssetCounts DEF AssetInv
<1>4. ASSUME UNCHANGED <<held, pending, snap>>, NEW i \in Instruments
      PROVE  /\ Gained(i)' = Gained(i) /\ Before(i)' = Before(i)
             /\ Cardinality(OnAsset(Exposed', i)) <= AssetBound
  BY <1>3, <1>4 DEF Gained, Before, New, Exposed
<1>5. ASSUME UNCHANGED <<held, pending>> PROVE Exposed' = Exposed
  BY <1>5 DEF Exposed
<1>6. CASE StartCycle \/ StartTimeStop
  BY <1>1, <1>5, <1>6, AssetOutside DEF StartCycle, StartTimeStop
<1>7. CASE ReadPositions
  <2>1. pending = {} /\ snap' = held /\ pc' = "universe" /\ UNCHANGED <<held, pending>>
    BY <1>7 DEF ReadPositions, PositionsReady
  <2>2. \A i : OnAsset(New', i) = {}
    BY <2>1 DEF New, Exposed, OnAsset
  <2>3. \A i : Gained(i)' = 0
    BY <2>2, FS_EmptySet DEF Gained
  <2>4. \A i \in Instruments : Cardinality(OnAsset(Exposed', i)) <= AssetBound
    BY <1>3, <1>5, <2>1
  <2>5. QED
    BY <1>2, <2>1, <2>3, <2>4 DEF AssetInv, AssetSlots, RoomOnAsset, Sending
<1>8. CASE Scan \/ ReadQuotes \/ ReadBalances
  <2>1. /\ pc \in {"universe", "quotes", "balances"} /\ pc' \in {"quotes", "balances", "momentum"}
        /\ UNCHANGED <<held, pending, snap>>
    BY <1>8 DEF Scan, ReadQuotes, ReadBalances
  <2>2. \A i \in Instruments : Gained(i)' = 0
    BY <1>3, <1>4, <2>1 DEF AssetSlots
  <2>3. QED
    BY <1>2, <1>4, <2>1, <2>2 DEF AssetInv, AssetSlots, RoomOnAsset, Sending
<1>9. ASSUME NEW m \in todo, SkipUnquoted(m) \/ SkipSeenNews(m) PROVE AssetInv'
  BY <1>1, <1>5, <1>9, AssetFrame DEF SkipUnquoted, SkipSeenNews
<1>10. ASSUME NEW m \in todo, NEW n \in Briefs, AskJudge(m, n) PROVE AssetInv'
  <2>1. /\ pc = "momentum" /\ pc' = "judge" /\ todo' = todo \ {m} /\ cur'.inst = m
        /\ UNCHANGED <<held, pending, snap>>
    BY <1>10 DEF AskJudge
  <2>2. \A i : Awaited(i)' => Awaited(i)
    BY <2>1 DEF Awaited
  <2>3. ASSUME NEW i \in Instruments PROVE AssetSlots(i)' /\ RoomOnAsset(i)'
    BY <1>3, <1>4, <2>1, <2>2 DEF AssetSlots, RoomOnAsset, Cycling, Sending
  <2>4. QED
    BY <1>2, <1>4, <2>1, <2>3 DEF AssetInv
<1>11. CASE Dismiss
  <2>1. pc = "judge" /\ pc' = "momentum" /\ UNCHANGED <<held, pending, snap, todo>>
    BY <1>11 DEF Dismiss
  <2>2. \A i : Awaited(i)' => Awaited(i)
    BY <2>1 DEF Awaited
  <2>3. ASSUME NEW i \in Instruments PROVE AssetSlots(i)' /\ RoomOnAsset(i)'
    BY <1>3, <1>4, <2>1, <2>2 DEF AssetSlots, RoomOnAsset, Cycling, Sending
  <2>4. QED
    BY <1>2, <1>4, <2>1, <2>3 DEF AssetInv
<1>12. ASSUME NEW age \in Ages, Approve(age) PROVE AssetInv'
  <2>1. /\ pc = "judge" /\ pc' = "momentum_order" /\ UNCHANGED <<held, pending, snap, todo>>
        /\ Len(legs') = 1 /\ legs'[1].inst = cur.inst
    BY <1>12 DEF Approve, Order
  <2>2. Before(cur.inst) < Limits.max_positions_per_asset
    BY <1>12, ApprovedBelowAssetLimit
    DEF Approve, MomentumSize, Context, Before, BuildTradeProposal
  <2>3. DOMAIN legs' = {1}
    BY <1>12 DEF Approve
  <2>4. \A i : Awaited(i)' => Awaited(i)
    BY <2>1 DEF Awaited
  <2>5. ASSUME NEW i \in Instruments PROVE AssetSlots(i)' /\ RoomOnAsset(i)'
    BY <1>3, <1>4, <2>1, <2>2, <2>3, <2>4 DEF AssetSlots, RoomOnAsset, Cycling
  <2>6. cur.inst \notin todo
    BY <2>1 DEF AssetInv
  <2>7. QED
    BY <1>2, <1>4, <2>1, <2>5, <2>6 DEF AssetInv
<1>13. ASSUME NEW o \in Outcomes, SendMomentum(o) PROVE AssetInv'
  <2>1. /\ pc = "momentum_order" /\ Sending /\ Send("momentum", o) /\ UNCHANGED snap
        /\ \/ pc' = "idle"
           \/ pc' = "momentum" /\ UNCHANGED todo
    BY <1>13 DEF SendMomentum, Leave, Keep, Sending
  <2>2. ASSUME NEW i \in Instruments
        PROVE  Gained(i) <= 1 /\ (Awaited(i) => Gained(i) <= 0)
    BY <1>3, <2>1 DEF AssetSlots
  <2>3. ASSUME NEW i \in Instruments
        PROVE  /\ Gained(i)' > 0 => Before(i)' < Limits.max_positions_per_asset
               /\ Cardinality(OnAsset(Exposed', i)) <= AssetBound
    BY <1>1, <2>1, <2>2, AssetSendBounded
  <2>4. ASSUME NEW i \in Instruments, pc' = "momentum"
        PROVE  Gained(i)' <= IF Awaited(i)' THEN 0 ELSE 1
    <3>1. Awaited(i)' => i \in todo
      BY <2>1, <2>4 DEF Awaited
    <3>2. legs[1].inst \notin todo
      BY <2>1 DEF AssetInv
    <3>3. /\ i # legs[1].inst => Gained(i)' <= Gained(i)
          /\ i = legs[1].inst => Gained(i)' <= Gained(i) + 1
      BY <1>1, <2>1, AssetSend
    <3>4. i \in todo \/ i = legs[1].inst => Awaited(i)
      BY <2>1 DEF Awaited
    <3>5. QED
      BY <1>3, <2>2, <3>1, <3>2, <3>3, <3>4
  <2>5. QED
    BY <1>2, <2>1, <2>3, <2>4 DEF AssetInv, AssetSlots, RoomOnAsset, Cycling, Sending
<1>14. CASE EnterPairs
  <2>1. /\ pc = "momentum" /\ pc' = "pairs" /\ UNCHANGED <<held, pending, snap>>
    BY <1>14 DEF EnterPairs
  <2>2. ASSUME NEW i \in Instruments PROVE AssetSlots(i)' /\ RoomOnAsset(i)'
    BY <1>3, <1>4, <2>1 DEF AssetSlots, RoomOnAsset, Cycling, Sending
  <2>3. QED
    BY <1>2, <1>4, <2>1, <2>2 DEF AssetInv
<1>15. ASSUME NEW s \in signals, DropPair(s) PROVE AssetInv'
  BY <1>1, <1>5, <1>15, AssetFrame DEF DropPair
<1>16. ASSUME NEW s \in signals, NEW qa \in Quotes, NEW qb \in Quotes, NEW age \in Ages,
              ApprovePair(s, qa, qb, age)
       PROVE  AssetInv'
  <2>1. /\ pc = "pairs" /\ pc' = "pair_a" /\ UNCHANGED <<held, pending, snap>>
        /\ DOMAIN legs' = {1, 2} /\ legs'[1].inst = s.a /\ legs'[2].inst = s.b
    BY <1>16 DEF ApprovePair, Order
  <2>2. /\ Before(s.a) < Limits.max_positions_per_asset
        /\ Before(s.b) < Limits.max_positions_per_asset
    BY <1>16, ApprovedBelowAssetLimit
    DEF ApprovePair, BothApproved, LegSize, Context, Before, BuildLegProposal
  <2>3. ASSUME NEW i \in Instruments PROVE AssetSlots(i)' /\ RoomOnAsset(i)'
    BY <1>3, <1>4, <2>1, <2>2 DEF AssetSlots, RoomOnAsset, Cycling
  <2>4. QED
    BY <1>2, <1>4, <2>1, <2>3 DEF AssetInv
<1>17. ASSUME NEW o \in Outcomes, SendLegA(o) PROVE AssetInv'
  <2>1. /\ pc = "pair_a" /\ Sending /\ Send("pair", o) /\ UNCHANGED snap
        /\ \/ pc' = "idle"
           \/ pc' = "pair_b" /\ legs' = Tail(legs)
    BY <1>17 DEF SendLegA, Leave, Keep, Sending
  <2>2. \A i \in Instruments : Gained(i) <= 1
    BY <1>3, <2>1 DEF AssetSlots
  <2>3. ASSUME NEW i \in Instruments
        PROVE  /\ Gained(i)' > 0 => Before(i)' < Limits.max_positions_per_asset
               /\ Cardinality(OnAsset(Exposed', i)) <= AssetBound
    BY <1>1, <2>1, <2>2, AssetSendBounded
  <2>4. ASSUME pc' = "pair_b"
        PROVE  /\ DOMAIN legs' = {1} /\ legs'[1] = legs[2] /\ 2 \in DOMAIN legs
               /\ legs[1].inst # legs[2].inst
    <3>1. legs \in Seq(OrderType) /\ Len(legs) = 2
      BY <2>1 DEF TypeInv, TypeOK, JobsWellFormed
    <3>2. legs' = Tail(legs)
      BY <2>1, <2>4
    <3>3. DOMAIN Tail(legs) = {1} /\ Tail(legs)[1] = legs[2] /\ 2 \in DOMAIN legs
      BY <3>1, SecondOfTwo
    <3>4. QED
      BY <2>1, <3>2, <3>3 DEF PairInv, Hedges
  <2>5. ASSUME NEW i \in Instruments, pc' = "pair_b" PROVE AssetSlots(i)' /\ RoomOnAsset(i)'
    <3>1. /\ Before(i)' = Before(i)
          /\ i # legs[1].inst => Gained(i)' <= Gained(i)
          /\ i = legs[1].inst => Gained(i)' <= Gained(i) + 1
      BY <1>1, <2>1, AssetSend
    <3>2. AssetSlots(i)'
      BY <1>3, <2>2, <2>4, <2>5, <3>1 DEF AssetSlots
    <3>3. i = legs[2].inst => Before(i) < Limits.max_positions_per_asset
      BY <1>3, <2>1, <2>4, <2>5 DEF RoomOnAsset, Cycling
    <3>4. RoomOnAsset(i)'
      BY <2>3, <2>4, <2>5, <3>1, <3>3 DEF RoomOnAsset
    <3>5. QED
      BY <3>2, <3>4
  <2>6. QED
    BY <1>2, <2>1, <2>3, <2>5 DEF AssetInv, AssetSlots, RoomOnAsset, Cycling
<1>18. ASSUME NEW o \in Outcomes, SendLegB(o) PROVE AssetInv'
  <2>1. pc = "pair_b" /\ Sending /\ Send("pair", o) /\ UNCHANGED snap /\ pc' = "idle"
    BY <1>18 DEF SendLegB, Leave, Keep, Sending
  <2>2. \A i \in Instruments : i = legs[1].inst => Gained(i) <= 1
    BY <1>3, <2>1 DEF AssetSlots
  <2>3. \A i \in Instruments : Cardinality(OnAsset(Exposed', i)) <= AssetBound
    BY <1>1, <2>1, <2>2, AssetSendBounded
  <2>4. QED
    BY <1>2, <2>1, <2>3 DEF AssetInv, AssetSlots, RoomOnAsset, Cycling
<1>19. CASE EndPairs \/ Fail \/ ProposalFails \/ EndTimeStop \/ Crash
  BY <1>1, <1>5, <1>19, AssetOutside
  DEF EndPairs, Fail, ProposalFails, EndTimeStop, Crash, Restart, Leave
<1>20. CASE ReadStopPositions
  BY <1>1, <1>5, <1>20, AssetOutside DEF ReadStopPositions
<1>21. ASSUME NEW p \in closing, NEW o \in Outcomes, CloseNext(p, o) \/ CloseRaises(p)
       PROVE  AssetInv'
  <2>1. held' \subseteq held /\ UNCHANGED pending /\ pc' \in {"idle", "closing"}
    BY <1>21 DEF CloseNext, CloseRaises, ClosePosition, Restart, Leave
  <2>2. QED
    BY <1>1, <2>1, AssetOutside DEF Exposed
<1>22. CASE Halt \/ Resume \/ UNCHANGED vars
  BY <1>1, <1>5, <1>22, AssetFrame DEF Halt, Resume, vars, runnerVars
<1>23. CASE Broker
  <2>1. UNCHANGED <<pc, snap, todo, cur, legs>>
    BY <1>23 DEF Broker, runnerVars
  <2>2. Exposed' \subseteq Exposed
    BY <1>23 DEF Broker, BrokerStep, Settle, Fill, RefuseFill, Close, RefuseClose,
                 StopOut, Exposed
  <2>3. QED
    BY <1>1, <2>1, <2>2, AssetFrame
<1>24. QED
  <2>1. CASE Momentum
    BY <2>1, <1>9, <1>10, <1>11, <1>12, <1>13, <1>19 DEF Momentum, NoCatalyst, RiskReject
  <2>2. CASE Pairs
    BY <2>2, <1>15, <1>16, <1>17, <1>18, <1>19 DEF Pairs, LegUnquoted, RejectPair
  <2>3. CASE TimeStop
    BY <2>3, <1>19, <1>20, <1>21 DEF TimeStop, Outcomes
  <2>4. CASE RunnerStep
    BY <2>4, <2>1, <2>2, <2>3, <1>7, <1>8, <1>14 DEF RunnerStep
  <2>5. QED
    BY <2>4, <1>6, <1>19, <1>22, <1>23 DEF Next

\* With prompt fills no instrument ever has more than max_positions_per_asset - 1 + 2
\* positions and pending orders: a cycle adds one momentum order and one leg of a pair,
\* each approved as if it were alone.
THEOREM PerAssetTheorem == Spec => []PerAssetBounded
<1> DEFINE Inv == TypeInv /\ PairInv /\ (PromptFills => PositionsInv /\ AssetInv)
<1>1. Init => Inv
  <2> SUFFICES ASSUME Init PROVE Inv
    OBVIOUS
  <2>1. held = {} /\ pending = {} /\ pc = "idle"
    BY DEF Init, BrokerInit
  <2>2. \A i : OnAsset(Exposed, i) = {}
    BY <2>1 DEF Exposed, OnAsset
  <2>3. \A i : Cardinality(OnAsset(Exposed, i)) <= AssetBound
    <3>1. Cardinality({}) = 0 /\ 0 <= AssetBound
      BY FS_EmptySet, AssetLimitTypes
    <3>2. QED
      BY <2>2, <3>1
  <2>4. AssetInv
    BY <2>1, <2>3 DEF AssetInv, AssetSlots, RoomOnAsset, Cycling
  <2>5. PairInv
    <3>1. ending = "none" /\ sent = {} /\ signals = {}
      BY DEF Init
    <3>2. QED
      BY <2>1, <3>1 DEF PairInv, PairLegs
  <2>6. QED
    BY <2>4, <2>5, TypeInit, PositionsInit
<1>2. Inv /\ [Next]_vars => Inv'
  BY TypeStep, PairStep, PositionsStep, AssetStep
<1>3. Inv => PerAssetBounded
  BY DEF AssetInv, PerAssetBounded
<1>4. QED
  BY <1>1, <1>2, <1>3, PTL DEF Spec

(***************************************************************************)
(* The context of a cycle.                                                 *)
(***************************************************************************)

\* The context says no loss today, a peak equal to today's equity, no trades and no
\* refusals (etoro_runner.py:129-132).  So, whatever the account has lost and however
\* many orders were sent or refused, of the checks on counts only the two on open
\* positions are ever made: max_daily_loss, max_weekly_drawdown, max_trades_per_day and
\* max_rejected_orders_streak stop no trade, unless one of the last two is set to zero.
THEOREM ContextChecksNothing ==
  ASSUME TypeInv, NEW p, equity > 0,
         Limits.max_trades_per_day > 0, Limits.max_rejected_orders_streak > 0
  PROVE  CountChecks(p, Context)
           <=> /\ Cardinality(snap) < Limits.max_open_positions
               /\ Cardinality(OnAsset(snap, p.inst)) < Limits.max_positions_per_asset
<1>1. equity \in Nat
  BY DEF TypeInv, TypeOK
<1>2. Limits.max_daily_loss \in 1 .. 500 /\ Limits.max_weekly_drawdown \in 1 .. 500
  BY LimitsAssumption DEF ValidLimits, Fractions
<1>3. equity * Limits.max_daily_loss > 0 /\ equity * Limits.max_weekly_drawdown > 0
  BY <1>1, <1>2
<1>4. /\ -Context.pnl_today * One < Context.equity * Limits.max_daily_loss
      /\ (Context.peak_equity - Context.equity) * One < Context.peak_equity * Limits.max_weekly_drawdown
  BY <1>1, <1>3 DEF Context, One
<1>5. QED
  BY <1>4 DEF CountChecks, Context

(***************************************************************************)
(* The risk sent.                                                          *)
(***************************************************************************)
\* An order more adds its risk, unless the same record is there already.
LEMMA OrderAdds ==
  ASSUME NEW S \in SUBSET SentType, IsFiniteSet(S), NEW r \in SentType, r \notin S
  PROVE  /\ OrdersRisk(S) \in Nat
         /\ OrdersRisk(S \cup {r}) = OrdersRisk(S) + RiskOf(r.order)
<1> DEFINE all == S \cup {r}
           w   == [s \in all |-> RiskOf(s.order)]
<1>1. \A s \in all : w[s] = RiskOf(s.order) /\ w[s] \in Nat
  BY RiskTypes DEF SentType
<1>2. IsFiniteSet(all) /\ r \in all /\ all \ {r} = S /\ S \subseteq all
  BY FS_AddElement
<1> HIDE DEF all, w
<1>3. /\ OrdersRisk(S) = Cardinality(Units(w, S))
      /\ OrdersRisk(all) = Cardinality(Units(w, all))
  BY <1>1, <1>2, SentRiskCounts
<1>4. Cardinality(Units(w, all)) = w[r] + Cardinality(Units(w, S))
  BY <1>1, <1>2, UnitsAdd
<1>5. Cardinality(Units(w, S)) \in Nat
  BY <1>1, <1>2, UnitsFinite
<1> QED BY <1>1, <1>2, <1>3, <1>4, <1>5 DEF all

\* The first order alone is within max_open_risk.
LEMMA NothingSent == OrdersRisk({}) = 0
<1>1. OrdersRisk({}) = Cardinality(Units([x \in {} |-> 0], {}))
  BY SentRiskCounts, FS_EmptySet
<1>2. Units([x \in {} |-> 0], {}) = {}
  BY DEF Units
<1> QED BY <1>1, <1>2, FS_EmptySet

\* What the verdict says of an order's risk.
LEMMA ApprovedRisk ==
  ASSUME NEW p, NEW c, NEW h, NEW size, size = Evaluate(p, c, h), size > 0
  PROVE  /\ size * LossPerUnit(p) <= c.equity * Limits.max_risk_per_trade
         /\ TotalRisk(c.positions) + size * LossPerUnit(p) <= c.equity * Limits.max_open_risk
BY DEF Evaluate, SizeChecks, ExposureChecks

\* An order's risk is what the verdict was about.
LEMMA OrderRisk ==
  ASSUME NEW i, NEW d, NEW size \in Nat, NEW price \in Nat, NEW stop \in Nat
  PROVE  RiskOf(Order(i, d, size, price, stop)) = size * (price * stop)
<1>1. \A a, b, c \in Nat : a * b * c = a * (b * c)
  OBVIOUS
<1> QED BY <1>1 DEF RiskOf, Order

\* Within the limits of one order, against the snapshot.
Approved(order) ==
  /\ TotalRisk(snap) + RiskOf(order) <= equity * Limits.max_open_risk
  /\ RiskOf(order) <= equity * Limits.max_risk_per_trade

LEMMA MomentumApproved ==
  ASSUME TypeInv, pc = "judge", NEW age \in Ages, MomentumSize(age) > 0
  PROVE  Approved(Order(cur.inst, "BUY", MomentumSize(age), quote[cur.inst].offer, 140))
<1> DEFINE p == BuildTradeProposal(cur.inst, quote[cur.inst], age, equity)
<1> PICK size \in Nat, price \in Nat : size = MomentumSize(age) /\ price = quote[cur.inst].offer
  BY MomentumSizeType
<1>1. size = Evaluate(p, Context, halted) /\ size > 0
  BY DEF MomentumSize
<1>2. LossPerUnit(p) = price * 140
  BY DEF BuildTradeProposal, LossPerUnit
<1>3. Context.equity = equity /\ Context.positions = snap
  BY DEF Context
<1> HIDE DEF p
<1>4. /\ size * (price * 140) <= equity * Limits.max_risk_per_trade
      /\ TotalRisk(snap) + size * (price * 140) <= equity * Limits.max_open_risk
  BY <1>1, <1>2, <1>3, ApprovedRisk
<1>5. RiskOf(Order(cur.inst, "BUY", size, price, 140)) = size * (price * 140)
  BY OrderRisk
<1> QED BY <1>4, <1>5 DEF Approved

LEMMA LegApproved ==
  ASSUME TypeInv, NEW i, NEW d \in Directions, NEW q \in Quotes, NEW age \in Ages,
         LegSize(i, d, q, age) > 0
  PROVE  Approved(Order(i, d, LegSize(i, d, q, age), PriceFor(q, d), 80))
<1> DEFINE p == BuildLegProposal(i, d, q, age, equity)
<1> PICK size \in Nat, price \in Nat : size = LegSize(i, d, q, age) /\ price = PriceFor(q, d)
  BY LegSizeType
<1>1. size = Evaluate(p, Context, halted) /\ size > 0
  BY DEF LegSize
<1>2. LossPerUnit(p) = price * 80
  BY DEF BuildLegProposal, LossPerUnit
<1>3. Context.equity = equity /\ Context.positions = snap
  BY DEF Context
<1> HIDE DEF p
<1>4. /\ size * (price * 80) <= equity * Limits.max_risk_per_trade
      /\ TotalRisk(snap) + size * (price * 80) <= equity * Limits.max_open_risk
  BY <1>1, <1>2, <1>3, ApprovedRisk
<1>5. RiskOf(Order(i, d, size, price, 80)) = size * (price * 80)
  BY OrderRisk
<1> QED BY <1>4, <1>5 DEF Approved

\* One more order of at most r, on an account of e that n orders have used already.
LEMMA OneMoreOrder ==
  ASSUME NEW e \in Nat, NEW l \in Nat, NEW r \in Nat, NEW n \in Nat \ {0}, NEW used \in Nat,
         NEW risk \in Nat, used <= e * (l + (n - 1) * r), risk <= e * r
  PROVE  used + risk <= e * (l + n * r)
<1>1. PICK k \in Nat : n = k + 1
  <2>1. n - 1 \in Nat /\ n = (n - 1) + 1
    OBVIOUS
  <2> QED BY <2>1
<1>2. n * r = k * r + r /\ k * r \in Nat
  BY <1>1
<1>3. PICK x \in Nat : x = l + k * r
  BY <1>2
<1>4. e * (x + r) = e * x + e * r /\ e * x \in Nat /\ e * r \in Nat
  OBVIOUS
<1>5. n - 1 = k
  BY <1>1
<1>6. used <= e * x /\ l + n * r = x + r
  BY <1>2, <1>3, <1>5
<1> QED BY <1>4, <1>6

\* A send keeps the overshoot within its bound.
LEMMA SendRisk ==
  ASSUME TypeInv, RiskInv, Sending, NEW why \in {"momentum", "pair"}, NEW o \in Outcomes,
         Send(why, o), UNCHANGED <<snap, equity>>
  PROVE  AllFinite' /\ IsFiniteSet(sent)' /\ OpenRiskOvershoot'
<1> DEFINE r == [order |-> Head(legs), why |-> why, outcome |-> o]
<1>1. Len(legs) > 0 /\ legs \in Seq(OrderType)
  BY SomethingToSend DEF TypeInv, TypeOK
<1>2. Head(legs) = legs[1] /\ 1 \in DOMAIN legs /\ legs[1] \in OrderType
  BY <1>1
<1>3. r \in SentType /\ sent \in SUBSET SentType /\ r.order = legs[1]
  BY <1>2 DEF SentType, TypeInv, TypeOK
<1>4. sent' = sent \cup {r}
  BY DEF Send
<1>5. AllFinite'
  BY SendGrows DEF RiskInv
<1>6. IsFiniteSet(sent) /\ Cardinality(sent) \in Nat
  BY FS_CardinalityType DEF RiskInv
<1> PICK t \in Nat, risk \in Nat, e \in Nat, l \in Nat, m \in Nat, n \in Nat :
       /\ t = TotalRisk(snap) /\ risk = RiskOf(legs[1]) /\ e = equity
       /\ l = Limits.max_open_risk /\ m = Limits.max_risk_per_trade /\ n = Cardinality(sent)
  <2>1. TotalRisk(snap) \in Nat
    BY RiskTypes DEF RiskInv, AllFinite, TypeInv, TypeOK
  <2>2. RiskOf(legs[1]) \in Nat
    BY <1>2, RiskTypes
  <2>3. equity \in Nat /\ Limits.max_open_risk \in Nat /\ Limits.max_risk_per_trade \in Nat
    BY LimitsNat DEF LimitNames, TypeInv, TypeOK
  <2> QED BY <1>6, <2>1, <2>2, <2>3
<1>7. t + risk <= e * l /\ risk <= e * m
  BY <1>2 DEF RiskInv
<1>8. TotalRisk(snap)' = t /\ equity' = e
  OBVIOUS
<1>9. SentRisk = OrdersRisk(sent) /\ SentRisk' = OrdersRisk(sent')
  BY SentRiskIs
<1> HIDE DEF r
<1>10. CASE r \in sent
  <2>1. sent' = sent
    BY <1>4, <1>10
  <2> QED BY <1>5, <1>6, <1>8, <1>9, <2>1 DEF RiskInv, OpenRiskOvershoot
<1>11. CASE r \notin sent
  <2>1. IsFiniteSet(sent') /\ Cardinality(sent') = n + 1
    BY <1>4, <1>6, <1>11, FS_AddElement
  <2>2. PICK s \in Nat : s = OrdersRisk(sent) /\ OrdersRisk(sent') = s + risk
    BY <1>3, <1>4, <1>6, <1>11, OrderAdds
  <2>3. t + (s + risk) <= e * (l + n * m)
    <3>1. CASE sent = {}
      <4>1. n = 0 /\ s = 0
        BY <2>2, <3>1, FS_EmptySet, NothingSent
      <4>2. l + 0 * m = l
        OBVIOUS
      <4> QED BY <1>7, <4>1, <4>2
    <3>2. CASE sent # {}
      <4>1. n # 0
        BY <1>6, <3>2, FS_EmptySet
      <4>2. t + s <= e * (l + (n - 1) * m)
        BY <1>9, <2>2, <3>2 DEF RiskInv, OpenRiskOvershoot
      <4>3. (t + s) + risk <= e * (l + n * m)
        BY <1>7, <4>1, <4>2, OneMoreOrder
      <4> QED BY <4>3
    <3> QED BY <3>1, <3>2
  <2>4. (n + 1) - 1 = n
    OBVIOUS
  <2>5. TotalRisk(snap)' + SentRisk'
          <= equity' * (Limits.max_open_risk + (Cardinality(sent') - 1) * Limits.max_risk_per_trade)
    BY <1>8, <1>9, <2>1, <2>2, <2>3, <2>4
  <2> QED BY <1>5, <2>1, <2>5 DEF OpenRiskOvershoot
<1> QED BY <1>10, <1>11

\* Before anything is sent the invariant asks nothing but finite sets.
LEMMA RiskReset ==
  ASSUME AllFinite', sent' = {}, ~Sending'
  PROVE  RiskInv'
BY FS_EmptySet DEF RiskInv, OpenRiskOvershoot

\* A step that neither sends nor is about to keeps it.
LEMMA RiskQuiet ==
  ASSUME RiskInv, UNCHANGED <<held, pending, snap, equity, sent>>,
         pc' \in {"idle", "momentum", "judge", "pairs"}
  PROVE  RiskInv'
BY SentRiskIs DEF RiskInv, OpenRiskOvershoot, Sending, AllFinite

\* So does one that leaves the job where it is.
LEMMA RiskFrame ==
  ASSUME RiskInv, AllFinite', UNCHANGED <<pc, snap, equity, sent, legs>>
  PROVE  RiskInv'
BY SentRiskIs DEF RiskInv, OpenRiskOvershoot, Sending

LEMMA RiskStep ==
  ASSUME TypeInv, RiskInv, [Next]_vars
  PROVE  RiskInv'
<1> USE DEF brokerVars, boundVars, historyVars
<1>1. AllFinite
  BY DEF RiskInv
<1>2. CASE StartCycle \/ StartTimeStop
  <2>1. AllFinite' /\ sent' = {} /\ ~Sending'
    BY <1>1, <1>2, FS_EmptySet DEF StartCycle, StartTimeStop, Forget, AllFinite, Sending
  <2> QED BY <2>1, RiskReset
<1>3. CASE ReadPositions \/ Scan \/ ReadQuotes \/ ReadBalances \/ ReadStopPositions
  <2>1. AllFinite' /\ sent' = {} /\ ~Sending'
    BY <1>1, <1>3
    DEF ReadPositions, Scan, ReadQuotes, ReadBalances, ReadStopPositions, AllFinite, Sending,
        RiskInv
  <2> QED BY <2>1, RiskReset
<1>4. ASSUME NEW m \in todo, SkipUnquoted(m) \/ SkipSeenNews(m) \/ \E n \in Briefs : AskJudge(m, n)
      PROVE  RiskInv'
  BY <1>4, RiskQuiet DEF SkipUnquoted, SkipSeenNews, AskJudge
<1>5. CASE Dismiss \/ EnterPairs \/ EndPairs \/ Fail \/ ProposalFails
  BY <1>5, RiskQuiet DEF Dismiss, EnterPairs, EndPairs, Fail, ProposalFails, Leave, Keep
<1>6. ASSUME NEW s \in signals, DropPair(s) PROVE RiskInv'
  BY <1>6, RiskQuiet DEF DropPair
<1>7. ASSUME NEW age \in Ages, Approve(age) PROVE RiskInv'
  <2> DEFINE order == Order(cur.inst, "BUY", MomentumSize(age), quote[cur.inst].offer, 140)
  <2>1. /\ legs' = <<order>> /\ pc' = "momentum_order"
        /\ UNCHANGED <<held, pending, snap, equity, sent>>
    BY <1>7 DEF Approve
  <2>2. Approved(order)
    BY <1>7, MomentumApproved DEF Approve
  <2> HIDE DEF order
  <2>3. \A k \in DOMAIN legs' : legs'[k] = order
    BY <2>1
  <2>4. OpenRiskOvershoot' /\ AllFinite' /\ IsFiniteSet(sent)'
    BY <2>1, SentRiskIs DEF RiskInv, OpenRiskOvershoot, AllFinite
  <2> QED BY <2>1, <2>2, <2>3, <2>4 DEF RiskInv, Approved
<1>8. ASSUME NEW s \in signals, NEW qa \in Quotes, NEW qb \in Quotes, NEW age \in Ages,
             ApprovePair(s, qa, qb, age)
      PROVE  RiskInv'
  <2> DEFINE sizeA == LegSize(s.a, s.dir, qa, age)
             sizeB == LegSize(s.b, Opposite(s.dir), qb, age)
             legA  == Order(s.a, s.dir, sizeA, PriceFor(qa, s.dir), 80)
             legB  == Order(s.b, Opposite(s.dir), sizeB, PriceFor(qb, Opposite(s.dir)), 80)
  <2>1. /\ legs' = <<legA, legB>> /\ pc' = "pair_a" /\ sizeA > 0 /\ sizeB > 0
        /\ UNCHANGED <<held, pending, snap, equity, sent>>
    BY <1>8 DEF ApprovePair, BothApproved
  <2>2. s.dir \in Directions /\ Opposite(s.dir) \in Directions
    BY DEF TypeInv, TypeOK, PairSignal, Opposite, Directions
  <2>3. Approved(legA) /\ Approved(legB)
    BY <2>1, <2>2, LegApproved
  <2> HIDE DEF legA, legB, sizeA, sizeB
  <2>4. \A k \in DOMAIN legs' : legs'[k] \in {legA, legB}
    BY <2>1
  <2>5. OpenRiskOvershoot' /\ AllFinite' /\ IsFiniteSet(sent)'
    BY <2>1, SentRiskIs DEF RiskInv, OpenRiskOvershoot, AllFinite
  <2> QED BY <2>1, <2>3, <2>4, <2>5 DEF RiskInv, Approved
<1>9. ASSUME NEW o \in Outcomes, SendMomentum(o) \/ SendLegB(o) PROVE RiskInv'
  <2>1. /\ pc \in {"momentum_order", "pair_b"} /\ pc' \in {"momentum", "idle"}
        /\ Send("momentum", o) \/ Send("pair", o)
        /\ UNCHANGED <<snap, equity>>
    BY <1>9 DEF SendMomentum, SendLegB, Leave, Keep
  <2>2. AllFinite' /\ IsFiniteSet(sent)' /\ OpenRiskOvershoot'
    BY <2>1, SendRisk DEF Sending
  <2> QED BY <2>1, <2>2 DEF RiskInv, Sending
<1>10. ASSUME NEW o \in Outcomes, SendLegA(o) PROVE RiskInv'
  <2>1. /\ pc = "pair_a" /\ Send("pair", o) /\ UNCHANGED <<snap, equity>>
        /\ pc' = "idle" \/ (pc' = "pair_b" /\ legs' = Tail(legs))
    BY <1>10 DEF SendLegA, Leave, Keep
  <2>2. AllFinite' /\ IsFiniteSet(sent)' /\ OpenRiskOvershoot'
    BY <2>1, SendRisk DEF Sending
  <2>3. CASE pc' = "idle"
    BY <2>2, <2>3 DEF RiskInv, Sending
  <2>4. CASE pc' = "pair_b" /\ legs' = Tail(legs)
    <3>1. Len(legs) = 2 /\ legs \in Seq(OrderType)
      BY <2>1 DEF TypeInv, TypeOK, JobsWellFormed
    <3>2. 2 \in DOMAIN legs /\ \A k \in DOMAIN legs' : legs'[k] = legs[2]
      BY <2>4, <3>1
    <3>3. Approved(legs[2])
      BY <2>1, <3>2 DEF RiskInv, Sending, Approved
    <3> QED BY <2>1, <2>2, <2>4, <3>2, <3>3 DEF RiskInv, Approved
  <2> QED BY <2>1, <2>3, <2>4
<1>11. ASSUME NEW p \in closing, CloseRaises(p) \/ \E o \in Outcomes : CloseNext(p, o)
       PROVE  RiskInv'
  <2>1. /\ held' \subseteq held /\ UNCHANGED pending
        /\ snap' \in {snap, {}}
        /\ sent' = {} /\ pc' \in {"closing", "idle"}
    BY <1>11 DEF CloseRaises, CloseNext, ClosePosition, Restart, Leave, Forget, RiskInv
  <2>2. AllFinite'
    BY <1>1, <2>1, FS_Subset, FS_EmptySet DEF AllFinite
  <2>3. ~Sending'
    BY <2>1 DEF Sending
  <2> QED BY <2>1, <2>2, <2>3, RiskReset
<1>12. CASE EndTimeStop \/ Crash
  <2>1. /\ snap' = {} /\ UNCHANGED <<held, pending>> /\ sent' = {} /\ pc' = "idle"
    BY <1>12 DEF EndTimeStop, Crash, Restart, Leave, Forget, RiskInv
  <2>2. AllFinite' /\ ~Sending'
    BY <1>1, <2>1, FS_EmptySet DEF AllFinite, Sending
  <2> QED BY <2>1, <2>2, RiskReset
<1>13. CASE Halt \/ Resume \/ UNCHANGED vars
  <2>1. UNCHANGED <<held, pending, pc, snap, equity, sent, legs>>
    BY <1>13 DEF Halt, Resume, vars, runnerVars
  <2>2. AllFinite'
    BY <1>1, <2>1 DEF AllFinite
  <2> QED BY <2>1, <2>2, RiskFrame
<1>14. CASE Broker
  <2>1. UNCHANGED <<pc, snap, equity, sent, legs>>
    BY <1>14 DEF Broker, runnerVars
  <2>2. /\ \E x : held' = held \cup {x} \/ held' \subseteq held
        /\ pending' \subseteq pending
    BY <1>14 DEF Broker, BrokerStep, Settle, Fill, RefuseFill, Close, RefuseClose,
                 StopOut
  <2>3. AllFinite'
    BY <1>1, <2>1, <2>2, FS_AddElement, FS_Subset DEF AllFinite
  <2> QED BY <2>1, <2>3, RiskFrame
<1> QED
  <2>1. CASE Momentum
    BY <2>1, <1>4, <1>5, <1>7, <1>9 DEF Momentum, NoCatalyst, RiskReject
  <2>2. CASE Pairs
    BY <2>2, <1>5, <1>6, <1>8, <1>9, <1>10 DEF Pairs, LegUnquoted, RejectPair
  <2>3. CASE TimeStop
    BY <2>3, <1>3, <1>11, <1>12 DEF TimeStop
  <2>4. CASE RunnerStep
    BY <2>4, <2>1, <2>2, <2>3, <1>3, <1>5 DEF RunnerStep
  <2> QED BY <2>4, <1>2, <1>5, <1>12, <1>13, <1>14 DEF Next

\* What max_open_risk really bounds: the risk in the snapshot and of every order sent in a
\* cycle exceeds it by at most max_risk_per_trade for each order after the first.
THEOREM OvershootTheorem == Spec => []OpenRiskOvershoot
<1> DEFINE Inv == TypeInv /\ RiskInv
<1>1. Init => Inv
  <2> SUFFICES ASSUME Init PROVE RiskInv
    BY TypeInit
  <2>1. held = {} /\ pending = {} /\ snap = {} /\ sent = {} /\ pc = "idle"
    BY DEF Init, BrokerInit
  <2> QED BY <2>1, FS_EmptySet DEF RiskInv, OpenRiskOvershoot, AllFinite, Sending
<1>2. Inv /\ [Next]_vars => Inv'
  BY TypeStep, RiskStep
<1>3. Inv => OpenRiskOvershoot
  BY DEF RiskInv
<1> QED
  BY <1>1, <1>2, <1>3, PTL DEF Spec

(***************************************************************************)
(* The refinement.  OrderDesk sees the session through Stage, Base, Funds, *)
(* Tickets, Traded and Pairing, and the account through Exposed; most      *)
(* steps of a cycle leave all of them as they are.                         *)
(***************************************************************************)
Session == <<Stage, Base, Funds, Tickets, Traded, Pairing>>

\* The desk's account of risk is the engine's.
LEMMA DeskRisk ==
  /\ \A o : Desk!RiskOf(o) = RiskOf(o)
  /\ \A S : Desk!TotalRisk(S) = TotalRisk(S)
  /\ \A S, i : Desk!OnAsset(S, i) = OnAsset(S, i)
  /\ \A S : Desk!Cardinality(S) = Cardinality(S)
<1>1. \A o : Desk!RiskOf(o) = RiskOf(o)
  BY DEF Desk!RiskOf, RiskOf
<1>2. \A S : Desk!TotalRisk(S) = TotalRisk(S)
  BY DEF Desk!TotalRisk, TotalRisk, Desk!RiskOf, RiskOf, Desk!MapThenSumSet, MapThenSumSet,
         Desk!MapThenFoldSet, MapThenFoldSet
<1>3. \A S, i : Desk!OnAsset(S, i) = OnAsset(S, i)
  BY DEF Desk!OnAsset, OnAsset
<1>4. \A S : Desk!Cardinality(S) = Cardinality(S)
  BY DEF Desk!Cardinality, Cardinality
<1> QED BY <1>1, <1>2, <1>3, <1>4
\* A call of the gateway adds at most one position, and one that was never there.
LEMMA SendBooks ==
  ASSUME TypeInv, IdsUsed, NEW why \in {"momentum", "pair"}, NEW o \in Outcomes,
         Len(legs) > 0, Send(why, o)
  PROVE  LET p == WithId(legs[1], nextId)
         IN  /\ p \notin Exposed /\ IdsUsed'
             /\ \/ Exposed' = Exposed
                \/ Exposed' = Exposed \cup {p}
<1> DEFINE p == WithId(legs[1], nextId)
<1>1. Head(legs) = legs[1] /\ nextId \in Nat /\ p.id = nextId
  BY DEF TypeInv, TypeOK, WithId
<1>2. \A q \in Exposed : q.id \in Nat /\ q.id < nextId
  BY DEF IdsUsed, Exposed, TypeInv, TypeOK, PositionType
<1>3. p \notin Exposed
  BY <1>1, <1>2
<1>4. \/ Exposed' = Exposed \cup {p} /\ nextId' = nextId + 1
      \/ Exposed' = Exposed /\ nextId' = nextId
  BY <1>1 DEF Send, OpenMarketOrder, Exposed
<1> HIDE DEF p
<1>5. IdsUsed'
  BY <1>1, <1>2, <1>4 DEF IdsUsed
<1> QED BY <1>3, <1>4, <1>5 DEF p

\* A position keeps the number it got, and nobody else gets it.
LEMMA IdsKept ==
  ASSUME IdsUsed, Exposed' \subseteq Exposed, UNCHANGED nextId
  PROVE  IdsUsed'
BY DEF IdsUsed

\* What the broker does by itself, or a close does, takes positions off the account.
LEMMA BrokerCloses ==
  ASSUME Broker \/ \E p \in closing : CloseRaises(p) \/ \E o \in Outcomes : CloseNext(p, o)
  PROVE  /\ UNCHANGED nextId
         /\ \/ Exposed' = Exposed
            \/ \E p \in Exposed : Exposed' = Exposed \ {p}
<1>1. CASE Broker
  BY <1>1 DEF Broker, BrokerStep, Settle, Fill, RefuseFill, Close, RefuseClose, StopOut,
               Exposed
<1>2. ASSUME NEW p \in closing, NEW o \in Outcomes, ClosePosition(p, o)
      PROVE  UNCHANGED nextId /\ (Exposed' = Exposed \/ \E q \in Exposed : Exposed' = Exposed \ {q})
  BY <1>2 DEF ClosePosition, Exposed
<1>3. "RAISED" \in Outcomes
  BY DEF Outcomes
<1> QED BY <1>1, <1>2, <1>3 DEF CloseRaises, CloseNext

\* The instruments of a cycle are instruments.
LEMMA PlannedFinite ==
  ASSUME TypeInv
  PROVE  Planned \subseteq Instruments /\ IsFiniteSet(Planned)
<1>1. pc = "momentum_order" => legs[1].inst \in Instruments
  <2>1. \A q \in Seq(OrderType) : Len(q) = 1 => q[1] \in OrderType
    OBVIOUS
  <2> QED BY <2>1 DEF TypeInv, TypeOK, JobsWellFormed, OrderType
<1>2. \A s \in sent : s.order.inst \in Instruments
  BY DEF TypeInv, TypeOK, SentType, OrderType
<1>3. pc = "judge" => cur.inst \in Instruments
  BY DEF TypeInv, JobsWellFormed
<1>4. Traded \subseteq Instruments
  BY <1>1, <1>2 DEF Traded
<1>5. Planned \subseteq Instruments
  BY <1>3, <1>4 DEF Planned, TypeInv, TypeOK
<1> QED BY <1>5, GatewayAssumption, FS_Subset

\* An order that goes out stays traded: it was counted when it was issued.
LEMMA TradedOnce ==
  ASSUME TypeInv, pc = "momentum_order", pc' = "momentum", NEW o \in Outcomes,
         Send("momentum", o), Len(legs) > 0
  PROVE  Traded' = Traded
<1> DEFINE r == [order |-> legs[1], why |-> "momentum", outcome |-> o]
           M == {s \in sent : s.why = "momentum"}
<1>1. sent' = sent \cup {r}
  BY SendAdds
<1>2. {s \in sent' : s.why = "momentum"} = M \cup {r} /\ r.order.inst = legs[1].inst
  BY <1>1
<1> HIDE DEF r
<1>3. Traded' = {s.order.inst : s \in M \cup {r}}
  BY <1>2 DEF Traded, Funded
<1>4. Traded = {s.order.inst : s \in M} \cup {r.order.inst}
  BY <1>2 DEF Traded, Funded
<1> QED BY <1>3, <1>4

\* The legs of a pair are no trades of the session.
LEMMA TradedLegs ==
  ASSUME TypeInv, pc = "pair_a", pc' = "pair_b", NEW o \in Outcomes,
         Send("pair", o), Len(legs) > 0
  PROVE  Traded' = Traded
<1>1. sent' = sent \cup {[order |-> legs[1], why |-> "pair", outcome |-> o]}
  BY SendAdds
<1> QED BY <1>1 DEF Traded, Funded

\* A cycle plans nothing after the scan.
LEMMA PlannedKept ==
  ASSUME TypeInv, DeskInv, Cycling, pc # "universe", Planned' \subseteq Planned
  PROVE  Cardinality(Planned') <= MaxJudged
<1>1. IsFiniteSet(Planned) /\ Cardinality(Planned) <= MaxJudged
  BY PlannedFinite DEF DeskInv
<1>2. Cardinality(Planned') <= Cardinality(Planned) /\ IsFiniteSet(Planned')
  BY <1>1, FS_Subset
<1>3. Cardinality(Planned) \in Nat /\ Cardinality(Planned') \in Nat
  BY <1>1, <1>2, FS_CardinalityType
<1> QED BY <1>1, <1>2, <1>3, RunnerAssumption
\* A step that only lets go of candidates, or of the candidate before the judge.
LEMMA DeskQuiet ==
  ASSUME TypeInv, DeskInv, pc \in {"momentum", "judge", "pairs"},
         pc' \in {"momentum", "pairs"}, todo' \subseteq todo, UNCHANGED <<brokerVars, sent>>
  PROVE  DeskInv'
<1>1. Traded' = Traded /\ Planned' \subseteq Planned /\ Cycling /\ Funded
  BY DEF Traded, Planned, Cycling, Funded
<1>2. Cardinality(Planned') <= MaxJudged
  BY <1>1, PlannedKept
<1>3. IdsUsed'
  BY IdsKept DEF DeskInv, brokerVars, Exposed
<1>4. Traded \cap todo = {}
  BY <1>1 DEF DeskInv
<1> QED BY <1>1, <1>2, <1>3, <1>4 DEF DeskInv

\* Outside a cycle it asks no more than that nothing was sent.
LEMMA DeskIdle ==
  ASSUME IdsUsed', ~Cycling', pc' = "positions" => sent' = {}
  PROVE  DeskInv'
BY DEF DeskInv, Cycling, Funded

\* A step that leaves the job where it is.
LEMMA DeskFrame ==
  ASSUME DeskInv, IdsUsed', UNCHANGED <<pc, todo, cur, legs, sent>>
  PROVE  DeskInv'
BY DEF DeskInv, Cycling, Funded, Planned, Traded

LEMMA DeskStep ==
  ASSUME TypeInv, DeskInv, [Next]_vars
  PROVE  DeskInv'
<1> USE DEF boundVars, historyVars
<1>0. IdsUsed /\ (UNCHANGED brokerVars => IdsUsed')
  BY IdsKept DEF DeskInv, brokerVars, Exposed
<1>1. CASE StartCycle \/ StartTimeStop
  BY <1>0, <1>1, DeskIdle DEF StartCycle, StartTimeStop, Cycling
<1>2. CASE ReadPositions
  BY <1>0, <1>2 DEF ReadPositions, DeskInv, Funded
<1>3. CASE Scan
  <2>1. /\ pc' = "quotes" /\ sent' = {} /\ Cardinality(todo') <= MaxJudged
        /\ UNCHANGED brokerVars
    BY <1>3 DEF Scan, Candidates, DeskInv
  <2>2. Planned' = todo'
    BY <2>1 DEF Planned, Traded, Funded
  <2> QED BY <1>0, <2>1, <2>2 DEF DeskInv, Funded
<1>4. CASE ReadQuotes \/ ReadBalances
  <2>1. /\ pc \in {"quotes", "balances"} /\ pc' \in {"balances", "momentum"}
        /\ UNCHANGED <<brokerVars, sent, todo>> /\ sent = {}
    BY <1>4 DEF ReadQuotes, ReadBalances, DeskInv
  <2>2. Traded' = {} /\ Planned' \subseteq Planned
    BY <2>1 DEF Traded, Planned
  <2>3. Cardinality(Planned') <= MaxJudged
    BY <2>1, <2>2, PlannedKept DEF Cycling
  <2> QED BY <1>0, <2>1, <2>2, <2>3 DEF DeskInv
<1>5. ASSUME NEW m \in todo, SkipUnquoted(m) \/ SkipSeenNews(m)
      PROVE  DeskInv'
  BY <1>5, DeskQuiet DEF SkipUnquoted, SkipSeenNews
<1>6. ASSUME NEW m \in todo, NEW n \in Briefs, AskJudge(m, n)
      PROVE  DeskInv'
  <2>1. /\ pc = "momentum" /\ pc' = "judge" /\ todo' = todo \ {m} /\ cur'.inst = m
        /\ UNCHANGED <<brokerVars, sent>>
    BY <1>6 DEF AskJudge
  <2>2. Traded' = Traded /\ Planned' \subseteq Planned /\ Funded /\ Cycling
    BY <2>1 DEF Traded, Planned, Funded, Cycling
  <2>3. Traded \cap todo = {}
    BY <2>2 DEF DeskInv
  <2>4. Cardinality(Planned') <= MaxJudged
    BY <2>1, <2>2, PlannedKept
  <2> QED BY <1>0, <2>1, <2>2, <2>3, <2>4 DEF DeskInv
<1>7. CASE Dismiss \/ EnterPairs
  BY <1>7, DeskQuiet DEF Dismiss, EnterPairs
<1>8. ASSUME NEW s \in signals, DropPair(s) PROVE DeskInv'
  BY <1>8, DeskQuiet DEF DropPair
<1>9. ASSUME NEW age \in Ages, Approve(age) PROVE DeskInv'
  <2>1. /\ pc = "judge" /\ pc' = "momentum_order" /\ legs'[1].inst = cur.inst
        /\ UNCHANGED <<brokerVars, sent, todo>>
    BY <1>9 DEF Approve, Order
  <2>2. Traded' = Traded \cup {cur.inst} /\ Cycling /\ Funded
    BY <2>1 DEF Traded, Funded, Cycling
  <2>3. Planned' \subseteq Planned
    BY <2>1, <2>2 DEF Planned
  <2>4. Cardinality(Planned') <= MaxJudged
    BY <2>1, <2>2, <2>3, PlannedKept
  <2>5. Traded \cap todo = {} /\ cur.inst \notin todo
    BY <2>1, <2>2 DEF DeskInv
  <2> QED BY <1>0, <2>1, <2>2, <2>4, <2>5 DEF DeskInv
<1>10. ASSUME NEW s \in signals, NEW qa \in Quotes, NEW qb \in Quotes, NEW age \in Ages,
              ApprovePair(s, qa, qb, age)
       PROVE  DeskInv'
  <2>1. pc = "pairs" /\ pc' = "pair_a" /\ UNCHANGED <<brokerVars, sent, todo>>
    BY <1>10 DEF ApprovePair
  <2>2. Traded' = Traded /\ Planned' \subseteq Planned /\ Cycling /\ Funded
    BY <2>1 DEF Traded, Planned, Cycling, Funded
  <2>3. Cardinality(Planned') <= MaxJudged /\ Traded \cap todo = {}
    BY <2>1, <2>2, PlannedKept DEF DeskInv
  <2> QED BY <1>0, <2>1, <2>2, <2>3 DEF DeskInv
<1>11. ASSUME NEW o \in Outcomes, SendMomentum(o) PROVE DeskInv'
  <2>1. pc = "momentum_order" /\ Send("momentum", o) /\ Cycling /\ Funded
    BY <1>11 DEF SendMomentum, Cycling, Funded
  <2>2. Len(legs) > 0
    BY <2>1, SomethingToSend DEF Sending
  <2>3. IdsUsed'
    BY <1>0, <2>1, <2>2, SendBooks
  <2>4. CASE pc' = "idle"
    BY <2>3, <2>4, DeskIdle DEF Cycling
  <2>5. CASE pc' # "idle"
    <3>1. pc' = "momentum" /\ UNCHANGED todo
      BY <1>11, <2>5 DEF SendMomentum, Leave
    <3>2. Traded' = Traded
      BY <2>1, <2>2, <3>1, TradedOnce
    <3>3. Planned' \subseteq Planned
      BY <2>1, <3>1, <3>2 DEF Planned
    <3>4. Cardinality(Planned') <= MaxJudged /\ Traded \cap todo = {}
      BY <2>1, <3>3, PlannedKept DEF DeskInv
    <3> QED BY <2>3, <3>1, <3>2, <3>4 DEF DeskInv
  <2> QED BY <2>4, <2>5
<1>12. ASSUME NEW o \in Outcomes, SendLegA(o) PROVE DeskInv'
  <2>1. pc = "pair_a" /\ Send("pair", o) /\ Cycling /\ Funded
    BY <1>12 DEF SendLegA, Cycling, Funded
  <2>2. Len(legs) > 0
    BY <2>1, SomethingToSend DEF Sending
  <2>3. IdsUsed'
    BY <1>0, <2>1, <2>2, SendBooks
  <2>4. CASE pc' = "idle"
    BY <2>3, <2>4, DeskIdle DEF Cycling
  <2>5. CASE pc' # "idle"
    <3>1. pc' = "pair_b" /\ UNCHANGED todo
      BY <1>12, <2>5 DEF SendLegA, Leave
    <3>2. Traded' = Traded
      BY <2>1, <2>2, <3>1, TradedLegs
    <3>3. Planned' \subseteq Planned
      BY <2>1, <3>1, <3>2 DEF Planned
    <3>4. Cardinality(Planned') <= MaxJudged /\ Traded \cap todo = {}
      BY <2>1, <3>3, PlannedKept DEF DeskInv
    <3> QED BY <2>3, <3>1, <3>2, <3>4 DEF DeskInv
  <2> QED BY <2>4, <2>5
<1>13. ASSUME NEW o \in Outcomes, SendLegB(o) PROVE DeskInv'
  <2>1. pc = "pair_b" /\ Send("pair", o) /\ pc' = "idle"
    BY <1>13 DEF SendLegB, Leave
  <2>2. Len(legs) > 0
    BY <2>1, SomethingToSend DEF Sending
  <2>3. IdsUsed'
    BY <1>0, <2>1, <2>2, SendBooks
  <2> QED BY <2>1, <2>3, DeskIdle DEF Cycling
<1>14. CASE EndPairs \/ Fail \/ ProposalFails \/ EndTimeStop \/ Crash
  <2>1. pc' = "idle" /\ UNCHANGED brokerVars
    BY <1>14 DEF EndPairs, Fail, ProposalFails, EndTimeStop, Crash, Restart, Leave
  <2> QED BY <1>0, <2>1, DeskIdle DEF Cycling
<1>15. CASE ReadStopPositions
  BY <1>0, <1>15, DeskIdle DEF ReadStopPositions, Cycling
<1>16. ASSUME NEW p \in closing, CloseRaises(p) \/ \E o \in Outcomes : CloseNext(p, o)
       PROVE  DeskInv'
  <2>1. IdsUsed'
    BY <1>0, <1>16, BrokerCloses, IdsKept
  <2>2. pc' \in {"closing", "idle"}
    BY <1>16 DEF CloseRaises, CloseNext, Restart, Leave
  <2> QED BY <2>1, <2>2, DeskIdle DEF Cycling
<1>17. CASE Broker
  <2>1. IdsUsed'
    BY <1>0, <1>17, BrokerCloses, IdsKept
  <2> QED BY <1>17, <2>1, DeskFrame DEF Broker, runnerVars
<1>18. CASE Halt \/ Resume \/ UNCHANGED vars
  <2>1. UNCHANGED <<brokerVars, pc, todo, cur, legs, sent>>
    BY <1>18 DEF Halt, Resume, vars, runnerVars
  <2> QED BY <1>0, <2>1, DeskFrame
<1> QED
  <2>1. CASE Momentum
    BY <2>1, <1>5, <1>6, <1>7, <1>9, <1>11, <1>14 DEF Momentum, NoCatalyst, RiskReject
  <2>2. CASE Pairs
    BY <2>2, <1>8, <1>10, <1>12, <1>13, <1>14 DEF Pairs, LegUnquoted, RejectPair
  <2>3. CASE TimeStop
    BY <2>3, <1>14, <1>15, <1>16 DEF TimeStop
  <2>4. CASE RunnerStep
    BY <2>4, <2>1, <2>2, <2>3, <1>2, <1>3, <1>4, <1>7 DEF RunnerStep
  <2> QED BY <2>4, <1>1, <1>14, <1>17, <1>18 DEF Next
\* A step of which the desk sees nothing.
LEMMA DeskSeesNothing ==
  ASSUME UNCHANGED <<Exposed, halted, Session>>
  PROVE  [Desk!Next]_(Desk!vars)
BY DEF Session, Desk!vars, Desk!sessionVars

\* Outside a cycle the desk is away, with nothing in its hands.
LEMMA DeskAway ==
  ASSUME pc' \notin {"universe", "quotes", "balances", "momentum", "judge", "momentum_order",
                     "pairs", "pair_a", "pair_b"}
  PROVE  Desk!Leave
BY DEF Desk!Leave, Stage, Base, Funds, Tickets, Traded, Pairing, Cycling, Funded, Sending

\* Between the orders of a cycle the desk is open, with no tickets.
LEMMA DeskMovesOn ==
  ASSUME pc \in {"momentum", "judge", "pairs"}, pc' \in {"momentum", "judge", "pairs"},
         UNCHANGED <<brokerVars, halted, snap, equity, sent>>
  PROVE  [Desk!Next]_(Desk!vars)
<1>1. UNCHANGED Exposed
  BY DEF brokerVars, Exposed
<1>2. /\ Funded /\ Cycling /\ ~Sending /\ ~Pairing /\ pc # "momentum_order"
      /\ Funded' /\ Cycling' /\ ~Sending' /\ ~Pairing' /\ pc' # "momentum_order"
  BY DEF Funded, Cycling, Sending, Pairing
<1>3. UNCHANGED <<Stage, Base, Funds>>
  BY <1>2 DEF Stage, Base, Funds
<1>4. UNCHANGED <<Tickets, Traded, Pairing>>
  BY <1>2 DEF Tickets, Traded, Pairing
<1> QED BY <1>1, <1>3, <1>4, DeskSeesNothing DEF Session

\* A job that ends, in a cycle or in a time-stop.
LEMMA DeskQuits ==
  ASSUME pc' = "idle", UNCHANGED <<brokerVars, halted>>
  PROVE  [Desk!Next]_(Desk!vars)
<1>1. Desk!Leave /\ UNCHANGED Exposed
  BY DeskAway DEF brokerVars, Exposed
<1>2. CASE Cycling
  <2>1. Stage # "away"
    BY <1>2 DEF Stage
  <2> QED BY <1>1, <2>1 DEF Desk!Next, Desk!Quit
<1>3. CASE ~Cycling
  <2>1. UNCHANGED Session
    BY <1>3 DEF Session, Stage, Base, Funds, Tickets, Traded, Pairing, Cycling, Funded, Sending
  <2> QED BY <1>1, <2>1, DeskSeesNothing
<1> QED BY <1>2, <1>3

\* The positions are what the broker holds, and all there is when it settles promptly.
LEMMA DeskCounts ==
  ASSUME ReadPositions
  PROVE  Desk!Count
<1>1. /\ pc = "positions" /\ pc' = "universe" /\ snap' = held
      /\ (PromptFills => pending = {}) /\ UNCHANGED <<brokerVars, halted>>
  BY DEF ReadPositions, PositionsReady
<1>2. Stage = "away" /\ Stage' = "counted" /\ Base' = held
  BY <1>1 DEF Stage, Base, Cycling, Funded
<1>3. UNCHANGED <<Exposed, halted, Funds, Tickets, Traded, Pairing>>
  BY <1>1 DEF brokerVars, Exposed, Funds, Tickets, Traded, Pairing, Funded, Sending
<1>4. held \subseteq Exposed /\ (pending = {} => held = Exposed)
  BY DEF Exposed
<1> QED BY <1>1, <1>2, <1>3, <1>4 DEF Desk!Count

\* The balances open the desk: nothing has been sent since the cycle started.
LEMMA DeskFunds ==
  ASSUME TypeInv, DeskInv, ReadBalances
  PROVE  Desk!Fund
<1>1. /\ pc = "balances" /\ pc' = "momentum" /\ equity' \in Nat /\ sent' = {}
      /\ UNCHANGED <<brokerVars, halted, snap>>
  BY RunnerAssumption DEF ReadBalances, historyVars, DeskInv
<1>2. Stage = "counted" /\ Stage' = "open" /\ Funds' \in Nat
  BY <1>1 DEF Stage, Funds, Cycling, Funded
<1>3. UNCHANGED <<Exposed, halted, Base, Tickets, Traded, Pairing>>
  BY <1>1 DEF brokerVars, Exposed, Base, Tickets, Traded, Pairing, Cycling, Funded, Sending
<1> QED BY <1>2, <1>3 DEF Desk!Fund

\* Room for one more, on the account and on the instrument.
RoomFor(order) ==
  /\ Cardinality(snap) < Limits.max_open_positions
  /\ Cardinality(OnAsset(snap, order.inst)) < Limits.max_positions_per_asset

\* What the desk permits, in the words of the risk engine.
LEMMA DeskPermits ==
  ASSUME NEW order, Funded, Approved(order), RoomFor(order), RiskOf(order) > 0
  PROVE  Desk!Permitted(order)
<1>1. Base = snap /\ Funds = equity
  BY DEF Base, Funds, Funded, Cycling
<1>2. /\ Desk!RiskOf(order) = RiskOf(order) /\ Desk!TotalRisk(snap) = TotalRisk(snap)
      /\ Desk!OnAsset(snap, order.inst) = OnAsset(snap, order.inst)
      /\ \A S : Desk!Cardinality(S) = Cardinality(S)
  BY DeskRisk
<1> HIDE DEF Base, Funds
<1> QED BY <1>1, <1>2 DEF Desk!Permitted, Approved, RoomFor

\* A product of a size and a loss, neither of them zero.
LEMMA SomethingAtRisk ==
  ASSUME NEW size \in Nat, NEW price \in Nat, NEW stop \in Nat, size > 0, price * stop > 0
  PROVE  size * (price * stop) > 0
<1>1. \A m, n \in Nat : m > 0 /\ n > 0 => m * n > 0
  OBVIOUS
<1>2. price * stop \in Nat
  OBVIOUS
<1> HIDE DEF RiskOf
<1> QED BY <1>1, <1>2

\* An approval comes with room in the snapshot, and with something lost at the stop.
LEMMA ApprovedWithRoom ==
  ASSUME NEW p, NEW h, NEW i, NEW d, NEW size \in Nat, NEW price \in Nat, NEW stop \in Nat,
         size = Evaluate(p, Context, h), size > 0,
         p.inst = i, p.price = price, p.stop = stop
  PROVE  LET order == Order(i, d, size, price, stop)
         IN  RoomFor(order) /\ RiskOf(order) > 0 /\ ~h
<1> DEFINE order == Order(i, d, size, price, stop)
<1>1. order.inst = i /\ Context.positions = snap
  BY DEF Order, Context
<1>2. price * stop > 0 /\ ~h
  BY DEF Evaluate, LossPerUnit
<1>3. RiskOf(order) = size * (price * stop)
  BY OrderRisk
<1>4. RiskOf(order) > 0
  BY <1>2, <1>3, SomethingAtRisk
<1>5. RoomFor(order)
  BY <1>1, ApprovedBelowLimit, ApprovedBelowAssetLimit DEF RoomFor
<1> QED BY <1>2, <1>4, <1>5
\* The judge's catalyst, once the risk engine agrees, is a ticket on an instrument the
\* session has not traded.
LEMMA DeskIssuesTrade ==
  ASSUME TypeInv, DeskInv, NEW age \in Ages, Approve(age)
  PROVE  Desk!IssueTrade
<1> DEFINE order == Order(cur.inst, "BUY", MomentumSize(age), quote[cur.inst].offer, 140)
<1>1. /\ pc = "judge" /\ pc' = "momentum_order" /\ legs' = <<order>> /\ MomentumSize(age) > 0
      /\ UNCHANGED <<brokerVars, halted, snap, equity, sent>>
  BY DEF Approve
<1>2. RoomFor(order) /\ RiskOf(order) > 0 /\ ~halted
  <2> DEFINE p == BuildTradeProposal(cur.inst, quote[cur.inst], age, equity)
  <2> PICK size \in Nat, price \in Nat : size = MomentumSize(age) /\ price = quote[cur.inst].offer
    BY <1>1, MomentumSizeType
  <2>1. p.inst = cur.inst /\ p.price = price /\ p.stop = 140
    BY DEF BuildTradeProposal
  <2>2. size = Evaluate(p, Context, halted) /\ size > 0
    BY <1>1 DEF MomentumSize
  <2> HIDE DEF p
  <2> QED BY <2>1, <2>2, ApprovedWithRoom
<1>3. Approved(order)
  BY <1>1, MomentumApproved
<1>4. order.inst = cur.inst /\ order.dir = "BUY"
  BY DEF Order
<1> HIDE DEF order
<1>5. Desk!Permitted(order)
  BY <1>1, <1>2, <1>3, DeskPermits DEF Funded
<1>6. legs'[1] = order /\ {legs'[k] : k \in DOMAIN legs'} = {order}
  BY <1>1
<1>7. /\ Stage = "open" /\ Tickets = {} /\ ~Pairing /\ Tickets' = {order}
      /\ UNCHANGED <<Exposed, Stage, Base, Funds, Pairing>>
  BY <1>1, <1>6
  DEF Stage, Base, Funds, Tickets, Pairing, Cycling, Funded, Sending, brokerVars, Exposed
<1>8. Traded' = Traded \cup {order.inst}
  BY <1>1, <1>6 DEF Traded, Funded
<1>9. order.inst \notin Traded
  BY <1>1, <1>4 DEF DeskInv
<1>10. Cardinality(Traded') <= MaxJudged
  <2>1. IsFiniteSet(Planned) /\ Traded' \subseteq Planned
    BY <1>1, <1>4, <1>8, PlannedFinite DEF Planned
  <2>2. Cardinality(Planned) <= MaxJudged
    BY <1>1 DEF DeskInv, Cycling
  <2>3. Cardinality(Traded') <= Cardinality(Planned) /\ IsFiniteSet(Traded')
    BY <2>1, FS_Subset
  <2>4. Cardinality(Traded') \in Nat /\ Cardinality(Planned) \in Nat
    BY <2>1, <2>3, FS_CardinalityType
  <2> QED BY <2>2, <2>3, <2>4, RunnerAssumption
<1>11. Desk!Issue
  BY <1>1, <1>2, <1>5, <1>7 DEF Desk!Issue
<1>12. Desk!Cardinality(Traded') <= MaxJudged
  BY <1>10, DeskRisk
<1> QED BY <1>4, <1>7, <1>8, <1>9, <1>11, <1>12 DEF Desk!IssueTrade

\* A pair the risk engine passes leg by leg is two tickets, each other's hedge.
LEMMA DeskIssuesPair ==
  ASSUME TypeInv, PairInv, NEW s \in signals, NEW qa \in Quotes, NEW qb \in Quotes,
         NEW age \in Ages, ApprovePair(s, qa, qb, age)
  PROVE  Desk!IssuePair
<1> DEFINE other == Opposite(s.dir)
           sizeA == LegSize(s.a, s.dir, qa, age)
           sizeB == LegSize(s.b, other, qb, age)
           legA  == Order(s.a, s.dir, sizeA, PriceFor(qa, s.dir), 80)
           legB  == Order(s.b, other, sizeB, PriceFor(qb, other), 80)
<1>1. /\ pc = "pairs" /\ pc' = "pair_a" /\ legs' = <<legA, legB>> /\ sizeA > 0 /\ sizeB > 0
      /\ UNCHANGED <<brokerVars, halted, snap, equity, sent>>
  BY DEF ApprovePair, BothApproved, historyVars
<1>2. s.dir \in Directions /\ other \in Directions /\ s.dir # other /\ s.a # s.b
  BY DEF TypeInv, TypeOK, PairInv, PairSignal, Opposite, Directions
<1>3. ASSUME NEW i, NEW d \in Directions, NEW q \in Quotes, LegSize(i, d, q, age) > 0
      PROVE  LET order == Order(i, d, LegSize(i, d, q, age), PriceFor(q, d), 80)
             IN  Approved(order) /\ RoomFor(order) /\ RiskOf(order) > 0 /\ ~halted
  <2> DEFINE p == BuildLegProposal(i, d, q, age, equity)
  <2> PICK size \in Nat, price \in Nat : size = LegSize(i, d, q, age) /\ price = PriceFor(q, d)
    BY LegSizeType
  <2>1. p.inst = i /\ p.price = price /\ p.stop = 80
    BY DEF BuildLegProposal
  <2>2. size = Evaluate(p, Context, halted) /\ size > 0
    BY <1>3 DEF LegSize
  <2> HIDE DEF p
  <2>3. RoomFor(Order(i, d, size, price, 80)) /\ RiskOf(Order(i, d, size, price, 80)) > 0 /\ ~halted
    BY <2>1, <2>2, ApprovedWithRoom
  <2> QED BY <1>3, <2>3, LegApproved
<1>4. /\ Approved(legA) /\ RoomFor(legA) /\ RiskOf(legA) > 0 /\ ~halted
      /\ Approved(legB) /\ RoomFor(legB) /\ RiskOf(legB) > 0
  BY <1>1, <1>2, <1>3
<1>5. legA.dir # legB.dir /\ legA.inst # legB.inst
  BY <1>2 DEF Order
<1> HIDE DEF other, sizeA, sizeB, legA, legB
<1>6. Desk!Permitted(legA) /\ Desk!Permitted(legB)
  BY <1>1, <1>4, DeskPermits DEF Funded
<1>7. {legs'[k] : k \in DOMAIN legs'} = {legA, legB}
  BY <1>1
<1>8. /\ Stage = "open" /\ Tickets = {} /\ Pairing = FALSE /\ Tickets' = {legA, legB} /\ Pairing' = TRUE
      /\ UNCHANGED <<Exposed, Stage, Base, Funds, Traded>>
  BY <1>1, <1>7
  DEF Stage, Base, Funds, Tickets, Traded, Pairing, Cycling, Funded, Sending, brokerVars, Exposed
<1>9. Desk!Issue
  BY <1>1, <1>4, <1>6, <1>8 DEF Desk!Issue
<1> QED BY <1>5, <1>8, <1>9 DEF Desk!IssuePair
\* A position read back from an order is what the order asked for.
LEMMA DeskFulfils ==
  ASSUME NEW order, NEW id
  PROVE  Desk!Fulfils(WithId(order, id), order)
BY DEF Desk!Fulfils, WithId

\* A send takes one ticket, and the desk goes on without it or leaves.
LEMMA DeskPlaces ==
  ASSUME TypeInv, DeskInv, Sending, NEW why \in {"momentum", "pair"}, NEW o \in Outcomes,
         Send(why, o),
         \/ pc' = "idle"
         \/ /\ Tickets' = Tickets \ {legs[1]}
            /\ UNCHANGED <<Stage, Base, Funds, Traded, Pairing>>
  PROVE  Desk!Place
<1>1. Len(legs) > 0
  BY SomethingToSend
<1>2. legs[1] \in Tickets
  BY <1>1 DEF Tickets, TypeInv, TypeOK
<1>3. UNCHANGED halted
  BY DEF Send
<1> DEFINE p == WithId(legs[1], nextId)
<1>4. p \notin Exposed /\ (Exposed' = Exposed \/ Exposed' = Exposed \cup {p})
  BY <1>1, SendBooks DEF DeskInv
<1>5. Desk!Fulfils(p, legs[1])
  BY DeskFulfils
<1> HIDE DEF p
<1>6. UNCHANGED Exposed \/ \E q \in Exposed' \ Exposed : Exposed' = Exposed \cup {q} /\ Desk!Fulfils(q, legs[1])
  BY <1>4, <1>5
<1>7. CASE pc' = "idle"
  BY <1>2, <1>3, <1>6, <1>7, DeskAway DEF Desk!Place
<1>8. CASE /\ Tickets' = Tickets \ {legs[1]}
           /\ UNCHANGED <<Stage, Base, Funds, Traded, Pairing>>
  BY <1>2, <1>3, <1>6, <1>8 DEF Desk!Place
<1> QED BY <1>7, <1>8

\* The order of a trade goes out.
LEMMA DeskPlacesTrade ==
  ASSUME TypeInv, DeskInv, NEW o \in Outcomes, SendMomentum(o)
  PROVE  Desk!Place
<1>1. pc = "momentum_order" /\ Send("momentum", o) /\ Sending
  BY DEF SendMomentum, Sending
<1>2. CASE o = "RAISED"
  BY <1>1, <1>2, DeskPlaces DEF SendMomentum, Leave
<1>3. CASE o # "RAISED"
  <2>1. pc' = "momentum" /\ UNCHANGED <<snap, equity>>
    BY <1>3 DEF SendMomentum
  <2>2. Len(legs) = 1 /\ legs \in Seq(OrderType)
    BY <1>1 DEF TypeInv, TypeOK, JobsWellFormed
  <2>3. Tickets = {legs[1]} /\ Tickets' = {}
    <3>1. DOMAIN legs = {1}
      BY <2>2
    <3> QED BY <1>1, <2>1, <3>1 DEF Tickets, Sending
  <2>4. UNCHANGED <<Stage, Base, Funds, Pairing>>
    BY <1>1, <2>1 DEF Stage, Base, Funds, Pairing, Cycling, Funded
  <2>5. UNCHANGED Traded
    BY <1>1, <2>1, <2>2, TradedOnce
  <2> QED BY <1>1, <2>3, <2>4, <2>5, DeskPlaces
<1> QED BY <1>2, <1>3

\* The first leg of a pair goes out; the other ticket is still there.
LEMMA DeskPlacesLegA ==
  ASSUME TypeInv, PairInv, DeskInv, NEW o \in Outcomes, SendLegA(o)
  PROVE  Desk!Place
<1>1. pc = "pair_a" /\ Send("pair", o) /\ Sending
  BY DEF SendLegA, Sending
<1>2. CASE o = "RAISED"
  BY <1>1, <1>2, DeskPlaces DEF SendLegA, Leave
<1>3. CASE o # "RAISED"
  <2>1. pc' = "pair_b" /\ legs' = Tail(legs) /\ UNCHANGED <<snap, equity>>
    BY <1>3 DEF SendLegA
  <2>2. Len(legs) = 2 /\ legs \in Seq(OrderType)
    BY <1>1 DEF TypeInv, TypeOK, JobsWellFormed
  <2>3. DOMAIN legs = {1, 2} /\ DOMAIN legs' = {1} /\ legs'[1] = legs[2]
    BY <2>1, <2>2, SecondOfTwo
  <2>4. legs[1] # legs[2]
    BY <1>1 DEF PairInv, Hedges
  <2>5. Tickets = {legs[1], legs[2]} /\ Tickets' = {legs[2]}
    BY <1>1, <2>1, <2>3 DEF Tickets, Sending
  <2>6. UNCHANGED <<Stage, Base, Funds, Pairing>>
    BY <1>1, <2>1 DEF Stage, Base, Funds, Pairing, Cycling, Funded
  <2>7. UNCHANGED Traded
    BY <1>1, <2>1, <2>2, TradedLegs
  <2> QED BY <1>1, <2>4, <2>5, <2>6, <2>7, DeskPlaces
<1> QED BY <1>2, <1>3

\* And so does the second.
LEMMA DeskPlacesLegB ==
  ASSUME TypeInv, DeskInv, NEW o \in Outcomes, SendLegB(o)
  PROVE  Desk!Place
<1>1. pc = "pair_b" /\ Send("pair", o) /\ Sending /\ pc' = "idle"
  BY DEF SendLegB, Sending, Leave
<1> QED BY <1>1, DeskPlaces
\* Positions closed one at a time, by whoever closes them, while the session goes on.
LEMMA DeskCloses ==
  ASSUME UNCHANGED <<halted, Session>>,
         Exposed' = Exposed \/ \E p \in Exposed : Exposed' = Exposed \ {p}
  PROVE  [Desk!Next]_(Desk!vars)
<1>1. CASE Exposed' = Exposed
  BY <1>1, DeskSeesNothing
<1>2. CASE \E p \in Exposed : Exposed' = Exposed \ {p}
  <2>1. UNCHANGED <<Stage, Base, Funds, Tickets, Traded, Pairing>>
    BY DEF Session
  <2> QED BY <1>2, <2>1 DEF Desk!Next, Desk!Close, Desk!sessionVars
<1> QED BY <1>1, <1>2

\* The session is the same while the job stays where it is.
LEMMA DeskStays ==
  ASSUME UNCHANGED <<pc, snap, equity, legs, sent>>
  PROVE  UNCHANGED Session
BY DEF Session, Stage, Base, Funds, Tickets, Traded, Pairing, Cycling, Funded, Sending

\* Away from a cycle, or before it has read the balances, nothing of a job shows.
LEMMA DeskWaits ==
  ASSUME \/ pc \in {"idle", "stop_positions", "closing"} /\ pc' \in {"positions", "stop_positions", "closing"}
         \/ /\ pc \in {"universe", "quotes"} /\ pc' \in {"quotes", "balances"}
            /\ UNCHANGED snap
  PROVE  UNCHANGED Session
<1>1. ~Funded /\ ~Funded' /\ ~Sending /\ ~Sending' /\ Pairing = FALSE /\ Pairing' = FALSE
  BY DEF Funded, Sending, Pairing
<1>2. UNCHANGED <<Stage, Base>>
  BY <1>1 DEF Stage, Base, Cycling
<1>3. UNCHANGED <<Funds, Tickets, Traded, Pairing>>
  BY <1>1 DEF Funds, Tickets, Traded
<1> QED BY <1>2, <1>3 DEF Session

\* A process that dies loses its session and forgets the switch.
LEMMA DeskDies ==
  ASSUME Crash \/ \E p \in closing : CloseRaises(p)
  PROVE  Desk!Die
<1>1. pc' = "idle" /\ halted' = FALSE
  BY DEF Crash, CloseRaises, Restart, Leave
<1>2. UNCHANGED Exposed
  BY DEF Crash, CloseRaises, ClosePosition, brokerVars, Exposed
<1> QED BY <1>1, <1>2, DeskAway DEF Desk!Die

LEMMA DeskInitial == Init => Desk!Init
<1> SUFFICES ASSUME Init PROVE Desk!Init
  OBVIOUS
<1>1. pc = "idle" /\ Exposed = {} /\ halted = FALSE
  BY DEF Init, BrokerInit, Exposed
<1> QED BY <1>1
  DEF Desk!Init, Stage, Base, Funds, Tickets, Traded, Pairing, Cycling, Funded, Sending

\* Every step of the process is a step of the desk, or none the desk sees.
LEMMA DeskSteps ==
  ASSUME TypeInv, PairInv, DeskInv, [Next]_vars
  PROVE  [Desk!Next]_(Desk!vars)
<1> USE DEF boundVars, historyVars
<1>1. CASE StartCycle \/ StartTimeStop \/ ReadStopPositions \/ Scan \/ ReadQuotes
  <2>1. UNCHANGED <<brokerVars, halted>>
    BY <1>1 DEF StartCycle, StartTimeStop, ReadStopPositions, Scan, ReadQuotes
  <2>2. UNCHANGED Session
    BY <1>1, DeskWaits DEF StartCycle, StartTimeStop, ReadStopPositions, Scan, ReadQuotes
  <2>3. UNCHANGED Exposed
    BY <2>1 DEF brokerVars, Exposed
  <2> QED BY <2>1, <2>2, <2>3, DeskSeesNothing
<1>2. CASE ReadPositions
  BY <1>2, DeskCounts DEF Desk!Next
<1>3. CASE ReadBalances
  BY <1>3, DeskFunds DEF Desk!Next
<1>4. ASSUME NEW m \in todo, SkipUnquoted(m) \/ SkipSeenNews(m) \/ \E n \in Briefs : AskJudge(m, n)
      PROVE  [Desk!Next]_(Desk!vars)
  BY <1>4, DeskMovesOn DEF SkipUnquoted, SkipSeenNews, AskJudge
<1>5. CASE Dismiss \/ EnterPairs
  BY <1>5, DeskMovesOn DEF Dismiss, EnterPairs
<1>6. ASSUME NEW s \in signals, DropPair(s)
      PROVE  [Desk!Next]_(Desk!vars)
  BY <1>6, DeskMovesOn DEF DropPair
<1>7. ASSUME NEW age \in Ages, Approve(age)
      PROVE  [Desk!Next]_(Desk!vars)
  BY <1>7, DeskIssuesTrade DEF Desk!Next
<1>8. ASSUME NEW s \in signals, NEW qa \in Quotes, NEW qb \in Quotes, NEW age \in Ages,
             ApprovePair(s, qa, qb, age)
      PROVE  [Desk!Next]_(Desk!vars)
  BY <1>8, DeskIssuesPair DEF Desk!Next
<1>9. ASSUME NEW o \in Outcomes, SendMomentum(o) \/ SendLegA(o) \/ SendLegB(o)
      PROVE  [Desk!Next]_(Desk!vars)
  BY <1>9, DeskPlacesTrade, DeskPlacesLegA, DeskPlacesLegB DEF Desk!Next
<1>10. CASE EndPairs \/ Fail \/ ProposalFails \/ EndTimeStop
  BY <1>10, DeskQuits DEF EndPairs, Fail, ProposalFails, EndTimeStop, Leave
<1>11. ASSUME NEW p \in closing, NEW o \in Outcomes, CloseNext(p, o)
       PROVE  [Desk!Next]_(Desk!vars)
  <2>1. UNCHANGED Session /\ UNCHANGED halted
    BY <1>11, DeskWaits DEF CloseNext
  <2> QED BY <1>11, <2>1, BrokerCloses, DeskCloses
<1>12. CASE Crash \/ \E p \in closing : CloseRaises(p)
  BY <1>12, DeskDies DEF Desk!Next
<1>13. CASE Broker
  <2>1. UNCHANGED Session /\ UNCHANGED halted
    BY <1>13, DeskStays DEF Broker, runnerVars
  <2> QED BY <1>13, <2>1, BrokerCloses, DeskCloses
<1>14. CASE Halt \/ Resume
  <2>1. UNCHANGED Session /\ UNCHANGED Exposed /\ halted' = ~halted
    BY <1>14, DeskStays DEF Halt, Resume, brokerVars, Exposed
  <2>2. UNCHANGED <<Stage, Base, Funds, Tickets, Traded, Pairing>>
    BY <2>1 DEF Session
  <2> QED BY <2>1, <2>2 DEF Desk!Next, Desk!Switch, Desk!sessionVars
<1>15. CASE UNCHANGED vars
  BY <1>15, DeskStays, DeskSeesNothing DEF vars, runnerVars, brokerVars, Exposed
<1> QED
  <2>1. CASE Momentum
    BY <2>1, <1>4, <1>5, <1>7, <1>9, <1>10 DEF Momentum, NoCatalyst, RiskReject
  <2>2. CASE Pairs
    BY <2>2, <1>6, <1>8, <1>9, <1>10 DEF Pairs, LegUnquoted, RejectPair
  <2>3. CASE TimeStop
    BY <2>3, <1>1, <1>10, <1>11, <1>12 DEF TimeStop
  <2>4. CASE RunnerStep
    BY <2>4, <2>1, <2>2, <2>3, <1>1, <1>2, <1>3, <1>5 DEF RunnerStep
  <2> QED BY <2>4, <1>1, <1>10, <1>12, <1>13, <1>14, <1>15 DEF Next

\* The process keeps the promise of its orders: every order goes out on a ticket of its
\* own, issued under the limits and with the switch off, whatever fails and whenever the
\* process dies.
THEOREM DeskTheorem == Spec => DeskPromise
<1> DEFINE Inv == TypeInv /\ PairInv /\ DeskInv
<1>1. Init => Inv
  <2> SUFFICES ASSUME Init PROVE PairInv /\ DeskInv
    BY TypeInit
  <2>1. /\ pc = "idle" /\ ending = "none" /\ sent = {} /\ signals = {}
        /\ Exposed = {}
    BY DEF Init, BrokerInit, Exposed
  <2>2. PairInv
    BY <2>1 DEF PairInv, PairLegs
  <2>3. DeskInv
    BY <2>1 DEF DeskInv, IdsUsed, Cycling, Funded
  <2> QED BY <2>2, <2>3
<1>2. Inv /\ [Next]_vars => Inv'
  BY TypeStep, PairStep, DeskStep
<1>3. Inv /\ [Next]_vars => [Desk!Next]_(Desk!vars)
  BY DeskSteps
<1> HIDE DEF Inv
<1> QED
  BY <1>1, <1>2, <1>3, DeskInitial, PTL DEF Spec, DeskPromise, Desk!Spec
=============================================================================
