------------------------ MODULE NewsPipeline_proofs ------------------------
(***************************************************************************)
(* Proofs about NewsPipeline: the types and the unique columns of the      *)
(* tables, one event a story in the life of a process, what is announced   *)
(* is stored, and of a story's stored articles an earliest is original,    *)
(* whatever the articles, their times, and the order they are polled in.   *)
(*                                                                         *)
(* What the clusterer does with a poll is a recursion over the poll's      *)
(* records: its lemmas go by least counterexample, with the well-founded   *)
(* order of the naturals.                                                  *)
(***************************************************************************)
EXTENDS NewsPipeline, FiniteSetTheorems, SequenceTheorems, WellFoundedInduction, TLAPS

-----------------------------------------------------------------------------
(* Least elements *)

NatLess == {ss \in Nat \X Nat : ss[1] < ss[2]}

\* A set of naturals has a least element.
LEMMA Least ==
  ASSUME NEW T, T \subseteq Nat, T # {}
  PROVE  \E x \in T : \A y \in T : x <= y
<1>1. IsWellFoundedOn(NatLess, Nat)
  BY NatLessThanWellFounded DEF OpToRel, NatLess
<1>2. \E x \in T : \A y \in T : ~ (<<y, x>> \in NatLess)
  BY <1>1, WFMin
<1>3. PICK x \in T : \A y \in T : ~ (<<y, x>> \in NatLess)
  BY <1>2
<1>4. ASSUME NEW y \in T PROVE x <= y
  <2>1. x \in Nat /\ y \in Nat
    OBVIOUS
  <2>2. ~ (y < x)
    BY <2>1, <1>3 DEF NatLess
  <2> QED BY <2>1, <2>2
<1> QED BY <1>4

\* Min finds it.
LEMMA MinIsLeast ==
  ASSUME NEW T, T \subseteq Nat, T # {}
  PROVE  Min(T) \in T /\ \A y \in T : Min(T) <= y
BY Least DEF Min

-----------------------------------------------------------------------------
(* The clusterer *)

\* One cluster a story, and its earliest member tells it.
GoodClusters(cs) ==
  /\ cs \in Seq(ClusterType)
  /\ \A i, j \in DOMAIN cs : Story[cs[i].head] = Story[cs[j].head] => i = j
  /\ \A i \in DOMAIN cs : Story[cs[i].earliest] = Story[cs[i].head]

\* The clusters of cs are still there in ds, none with a later earliest member.
Grown(cs, ds) ==
  /\ Len(cs) <= Len(ds)
  /\ \A k \in DOMAIN cs : /\ ds[k].head = cs[k].head
                          /\ Time[ds[k].earliest] <= Time[cs[k].earliest]

\* The clusterer knows the story of a, and a member no later than a.
Knows(cs, a) ==
  \E k \in DOMAIN cs : Story[cs[k].head] = Story[a] /\ Time[cs[k].earliest] <= Time[a]

\* The earliest members of ds that are new ones are of the set A, and fresh.
FreshFrom(cs, ds, A) ==
  \A k \in DOMAIN ds :
    \/ k \in DOMAIN cs /\ ds[k].earliest = cs[k].earliest
    \/ ds[k].fresh /\ ds[k].earliest \in A

StayFresh(cs, ds) == \A k \in DOMAIN cs : cs[k].fresh => ds[k].fresh

LEMMA ClusterFields ==
  ASSUME NEW cs, GoodClusters(cs), NEW k \in DOMAIN cs
  PROVE  /\ k \in Nat \ {0} /\ k <= Len(cs) /\ Len(cs) \in Nat
         /\ cs[k] \in ClusterType /\ cs[k].head \in Articles /\ cs[k].earliest \in Articles
         /\ cs[k].fresh \in BOOLEAN /\ Time[cs[k].earliest] \in Nat
<1>1. cs \in Seq(ClusterType) /\ Len(cs) \in Nat /\ DOMAIN cs = 1..Len(cs)
  BY DEF GoodClusters
<1>2. cs[k] \in ClusterType
  BY <1>1, ElementOfSeq
<1>3. cs[k].head \in Articles /\ cs[k].earliest \in Articles /\ cs[k].fresh \in BOOLEAN
  BY <1>2 DEF ClusterType
<1> QED BY <1>1, <1>2, <1>3, NewsAssumption

\* The first match is the only one.
LEMMA OneMatch ==
  ASSUME NEW cs, GoodClusters(cs), NEW a \in Articles, Matching(cs, a) # {}
  PROVE  /\ Min(Matching(cs, a)) \in DOMAIN cs
         /\ Story[cs[Min(Matching(cs, a))].head] = Story[a]
         /\ \A k \in DOMAIN cs : Story[cs[k].head] = Story[a] => k = Min(Matching(cs, a))
<1>1. Matching(cs, a) \subseteq Nat
  BY ClusterFields DEF Matching
<1>2. Min(Matching(cs, a)) \in Matching(cs, a)
  BY <1>1, MinIsLeast
<1>3. Min(Matching(cs, a)) \in DOMAIN cs /\ Story[cs[Min(Matching(cs, a))].head] = Story[a]
  BY <1>2 DEF Matching
<1> QED BY <1>3 DEF GoodClusters

\* assign keeps one cluster a story, knows its record afterwards, and a new earliest
\* member is that record.
LEMMA AssignKeeps ==
  ASSUME NEW cs, GoodClusters(cs), NEW a \in Articles
  PROVE  /\ GoodClusters(Assign(cs, a)) /\ Grown(cs, Assign(cs, a))
         /\ Knows(Assign(cs, a), a) /\ FreshFrom(cs, Assign(cs, a), {a})
         /\ StayFresh(cs, Assign(cs, a))
<1> DEFINE ds == Assign(cs, a)
<1> PICK n \in Nat : n = Len(cs)
  BY DEF GoodClusters
<1>0. cs \in Seq(ClusterType) /\ DOMAIN cs = 1..n
  BY DEF GoodClusters
<1>1. CASE Matching(cs, a) = {}
  <2> DEFINE c == Alone(a)
  <2>1. ds = Append(cs, c)
    BY <1>1 DEF Assign
  <2>2. c \in ClusterType
    BY DEF Alone, ClusterType
  <2>3. /\ ds \in Seq(ClusterType) /\ DOMAIN ds = 1..(n + 1) /\ Len(ds) = n + 1
        /\ ds[n + 1] = c /\ \A k \in 1..n : ds[k] = cs[k]
    <3> HIDE DEF c, ds
    <3> QED BY <1>0, <2>1, <2>2
  <2>4. c.head = a /\ c.earliest = a /\ c.fresh
    BY DEF Alone
  <2> HIDE DEF c, ds
  <2>5. \A k \in 1..n : Story[cs[k].head] # Story[a]
    BY <1>0, <1>1 DEF Matching
  <2>6. \A k \in 1..(n + 1) : k \in 1..n \/ k = n + 1
    OBVIOUS
  <2>7. Time[a] \in Nat /\ \A k \in 1..n : Time[cs[k].earliest] \in Nat
    BY <1>0, ClusterFields, NewsAssumption
  <2>8. n + 1 \in 1..(n + 1)
    OBVIOUS
  <2>9. GoodClusters(ds)
    <3>1. ASSUME NEW i \in DOMAIN ds, NEW j \in DOMAIN ds,
                 Story[ds[i].head] = Story[ds[j].head]
          PROVE  i = j
      <4>1. i \in 1..n \/ i = n + 1
        BY <2>3, <2>6
      <4>2. j \in 1..n \/ j = n + 1
        BY <2>3, <2>6
      <4> QED BY <1>0, <2>3, <2>4, <2>5, <3>1, <4>1, <4>2 DEF GoodClusters
    <3>2. ASSUME NEW i \in DOMAIN ds PROVE Story[ds[i].earliest] = Story[ds[i].head]
      <4>1. i \in 1..n \/ i = n + 1
        BY <2>3, <2>6
      <4> QED BY <1>0, <2>3, <2>4, <4>1 DEF GoodClusters
    <3> QED BY <2>3, <3>1, <3>2 DEF GoodClusters
  <2>10. Grown(cs, ds)
    <3>1. \A k \in 1..n : Time[cs[k].earliest] <= Time[cs[k].earliest]
      BY <2>7
    <3>2. n <= n + 1
      OBVIOUS
    <3> QED BY <1>0, <2>3, <3>1, <3>2 DEF Grown
  <2>11. Knows(ds, a)
    <3>1. Time[a] <= Time[a]
      BY <2>7
    <3> QED BY <2>3, <2>4, <2>8, <3>1 DEF Knows
  <2>12. FreshFrom(cs, ds, {a})
    BY <1>0, <2>3, <2>4, <2>6 DEF FreshFrom
  <2>13. StayFresh(cs, ds)
    BY <1>0, <2>3 DEF StayFresh
  <2> QED BY <2>9, <2>10, <2>11, <2>12, <2>13 DEF ds
<1>2. CASE Matching(cs, a) # {}
  <2> DEFINE m == Min(Matching(cs, a))
             sooner == Time[a] < Time[cs[m].earliest]
             c == Joined(cs[m], a)
  <2>1. m \in DOMAIN cs /\ Story[cs[m].head] = Story[a]
    BY <1>2, OneMatch
  <2>2. ds = [cs EXCEPT ![m] = c]
    BY <1>2 DEF Assign
  <2>3. cs[m] \in ClusterType /\ cs[m].earliest \in Articles /\ cs[m].head \in Articles
    BY <2>1, ClusterFields
  <2>4. c \in ClusterType
    BY <2>3 DEF Joined, ClusterType
  <2>5. /\ c.head = cs[m].head
        /\ sooner => c.earliest = a /\ c.fresh
        /\ ~sooner => c.earliest = cs[m].earliest
        /\ cs[m].fresh => c.fresh
    BY <2>3 DEF Joined, ClusterType
  <2>6. Time[a] \in Nat /\ Time[cs[m].earliest] \in Nat
    BY <2>3, NewsAssumption
  <2>7. /\ Time[c.earliest] <= Time[a] /\ Time[c.earliest] <= Time[cs[m].earliest]
        /\ Story[c.earliest] = Story[c.head]
    <3>0. Story[cs[m].earliest] = Story[cs[m].head]
      BY <2>1 DEF GoodClusters
    <3>1. CASE sooner
      <4> HIDE DEF c, m
      <4> QED BY <2>1, <2>5, <2>6, <3>1
    <3>2. CASE ~sooner
      <4> HIDE DEF c, m
      <4> QED BY <2>5, <2>6, <3>0, <3>2
    <3> QED BY <3>1, <3>2
  <2> HIDE DEF c, m, ds
  <2>8. /\ ds \in Seq(ClusterType) /\ DOMAIN ds = DOMAIN cs /\ Len(ds) = n
        /\ ds[m] = c /\ \A k \in DOMAIN cs : k # m => ds[k] = cs[k]
    BY <1>0, <2>1, <2>2, <2>4
  <2>9. \A k \in DOMAIN cs : ds[k].head = cs[k].head
    BY <2>5, <2>8
  <2>10. GoodClusters(ds)
    <3>1. \A i \in DOMAIN ds : Story[ds[i].earliest] = Story[ds[i].head]
      BY <2>7, <2>8 DEF GoodClusters
    <3>2. \A i, j \in DOMAIN ds : Story[ds[i].head] = Story[ds[j].head] => i = j
      BY <2>8, <2>9 DEF GoodClusters
    <3> QED BY <2>8, <3>1, <3>2 DEF GoodClusters
  <2>11. Grown(cs, ds)
    <3>1. ASSUME NEW k \in DOMAIN cs PROVE Time[ds[k].earliest] <= Time[cs[k].earliest]
      <4>1. Time[cs[k].earliest] \in Nat
        BY ClusterFields
      <4> QED BY <2>7, <2>8, <4>1
    <3> QED BY <2>8, <2>9, <3>1 DEF Grown
  <2>12. Knows(ds, a)
    BY <2>1, <2>5, <2>7, <2>8 DEF Knows
  <2>13. FreshFrom(cs, ds, {a})
    BY <2>5, <2>8 DEF FreshFrom
  <2>14. StayFresh(cs, ds)
    BY <2>5, <2>8 DEF StayFresh
  <2> QED BY <2>10, <2>11, <2>12, <2>13, <2>14 DEF ds
<1> QED BY <1>1, <1>2

\* The clusters before the first record of a poll.
Stale(cs) == [k \in DOMAIN cs |-> [cs[k] EXCEPT !.fresh = FALSE]]

LEMMA StaleKeeps ==
  ASSUME NEW cs, GoodClusters(cs)
  PROVE  GoodClusters(Stale(cs)) /\ Grown(cs, Stale(cs)) /\ FreshFrom(cs, Stale(cs), {})
<1> DEFINE ds == Stale(cs)
<1> PICK n \in Nat : n = Len(cs)
  BY DEF GoodClusters
<1>1. cs \in [1..n -> ClusterType] /\ DOMAIN cs = 1..n
  BY DEF GoodClusters
<1>2. ASSUME NEW k \in 1..n
      PROVE  /\ ds[k] \in ClusterType /\ ds[k].head = cs[k].head
             /\ ds[k].earliest = cs[k].earliest /\ Time[cs[k].earliest] \in Nat
  <2>1. ds[k] = [cs[k] EXCEPT !.fresh = FALSE]
    BY <1>1 DEF Stale
  <2>2. cs[k] \in ClusterType
    BY <1>1
  <2>3. Time[cs[k].earliest] \in Nat
    BY <1>1, ClusterFields
  <2> QED BY <2>1, <2>2, <2>3 DEF ClusterType
<1>3. DOMAIN ds = 1..n
  BY <1>1 DEF Stale
<1>4. ds \in [1..n -> ClusterType]
  BY <1>1, <1>2 DEF Stale
<1> HIDE DEF ds
<1>5. ds \in Seq(ClusterType) /\ Len(ds) = n
  BY <1>4
<1>6. GoodClusters(ds)
  BY <1>1, <1>2, <1>3, <1>5 DEF GoodClusters
<1>7. Grown(cs, ds)
  <2>1. \A k \in 1..n : Time[ds[k].earliest] <= Time[cs[k].earliest]
    BY <1>2
  <2> QED BY <1>1, <1>2, <1>5, <2>1 DEF Grown
<1>8. FreshFrom(cs, ds, {})
  BY <1>1, <1>2, <1>3 DEF FreshFrom
<1> QED BY <1>6, <1>7, <1>8 DEF ds

Solves(g, cs, recs, n) ==
  g = [i \in 0..n |-> IF i = 0 THEN Stale(cs) ELSE Assign(g[i - 1], recs[i])]

\* The recursion over the records has a solution: one for n records extends to one for
\* n + 1, and a least n without one cannot be.
LEMMA AfterExists ==
  ASSUME NEW cs, NEW recs, NEW n \in Nat
  PROVE  \E g : Solves(g, cs, recs, n)
<1> DEFINE Solved(m) == \E g : Solves(g, cs, recs, m)
           T == {m \in Nat : ~Solved(m)}
<1>1. Solved(0)
  <2> DEFINE h == [i \in 0..0 |-> Stale(cs)]
  <2>1. ASSUME NEW i \in 0..0
        PROVE  h[i] = IF i = 0 THEN Stale(cs) ELSE Assign(h[i - 1], recs[i])
    <3>1. i = 0
      OBVIOUS
    <3>2. h[i] = Stale(cs)
      OBVIOUS
    <3> QED BY <3>1, <3>2
  <2>2. h = [i \in 0..0 |-> IF i = 0 THEN Stale(cs) ELSE Assign(h[i - 1], recs[i])]
    BY <2>1
  <2> QED BY <2>2 DEF Solves
<1>2. ASSUME NEW m \in Nat, Solved(m) PROVE Solved(m + 1)
  <2>0. PICK g : g = [i \in 0..m |-> IF i = 0 THEN Stale(cs) ELSE Assign(g[i - 1], recs[i])]
    BY <1>2 DEF Solves
  <2> DEFINE h == [i \in 0..(m + 1) |-> IF i = m + 1 THEN Assign(g[m], recs[m + 1]) ELSE g[i]]
  <2>1. ASSUME NEW i \in 0..(m + 1)
        PROVE  h[i] = IF i = 0 THEN Stale(cs) ELSE Assign(h[i - 1], recs[i])
    <3>1. CASE i = m + 1
      <4>1. h[i] = Assign(g[m], recs[m + 1])
        BY <3>1
      <4>2. m \in 0..(m + 1) /\ m # m + 1 /\ i - 1 = m /\ i # 0
        BY <3>1
      <4>3. h[m] = g[m]
        BY <4>2
      <4> HIDE DEF h
      <4> QED BY <3>1, <4>1, <4>2, <4>3
    <3>2. CASE i # m + 1
      <4>1. i \in 0..m
        BY <3>2
      <4>2. h[i] = g[i]
        BY <3>2
      <4>3. g[i] = IF i = 0 THEN Stale(cs) ELSE Assign(g[i - 1], recs[i])
        BY <2>0, <4>1
      <4>4. CASE i = 0
        <5> HIDE DEF h
        <5> QED BY <4>2, <4>3, <4>4
      <4>5. CASE i # 0
        <5>1. i - 1 \in 0..(m + 1) /\ i - 1 # m + 1
          BY <4>1, <4>5
        <5>2. h[i - 1] = g[i - 1]
          BY <5>1
        <5> HIDE DEF h
        <5> QED BY <4>2, <4>3, <4>5, <5>2
      <4> QED BY <4>4, <4>5
    <3> QED BY <3>1, <3>2
  <2>2. h = [i \in 0..(m + 1) |-> IF i = 0 THEN Stale(cs) ELSE Assign(h[i - 1], recs[i])]
    BY <2>1
  <2> QED BY <2>2 DEF Solves
<1> HIDE DEF Solved
<1>3. T = {}
  <2> SUFFICES ASSUME T # {} PROVE FALSE
    OBVIOUS
  <2>1. PICK m \in T : \A k \in T : m <= k
    BY Least
  <2>2. m \in Nat /\ ~Solved(m) /\ m # 0
    BY <1>1
  <2>3. m - 1 \in Nat /\ ~(m <= m - 1) /\ (m - 1) + 1 = m
    BY <2>2
  <2>4. Solved(m - 1)
    BY <2>1, <2>3
  <2> QED BY <1>2, <2>2, <2>3, <2>4
<1>4. Solved(n)
  BY <1>3
<1> QED BY <1>4 DEF Solved

\* What n records of a poll do to the clusters cs.
Keeps(cs, ds, recs, n) ==
  /\ GoodClusters(ds) /\ Grown(cs, ds)
  /\ \A j \in 1..n : Knows(ds, recs[j])
  /\ FreshFrom(cs, ds, {recs[j] : j \in 1..n})

LEMMA OneMore ==
  ASSUME NEW cs, GoodClusters(cs), NEW recs \in Seq(Articles), NEW ds, NEW n \in Nat,
         n + 1 <= Len(recs), Keeps(cs, ds, recs, n)
  PROVE  Keeps(cs, Assign(ds, recs[n + 1]), recs, n + 1)
<1> DEFINE a == recs[n + 1]
           es == Assign(ds, a)
<1>1. a \in Articles /\ Time[a] \in Nat
  BY NewsAssumption
<1>2. GoodClusters(ds) /\ Grown(cs, ds)
  BY DEF Keeps
<1>3. GoodClusters(es) /\ Grown(ds, es) /\ Knows(es, a) /\ FreshFrom(ds, es, {a})
      /\ StayFresh(ds, es)
  BY <1>1, <1>2, AssignKeeps
<1> PICK c \in Nat, d \in Nat, e \in Nat : c = Len(cs) /\ d = Len(ds) /\ e = Len(es)
  BY <1>2, <1>3 DEF GoodClusters
<1>4. DOMAIN cs = 1..c /\ DOMAIN ds = 1..d /\ DOMAIN es = 1..e
  BY <1>2, <1>3 DEF GoodClusters
<1>5. c <= d /\ d <= e
  BY <1>2, <1>3 DEF Grown
<1> HIDE DEF es
<1>6. ASSUME NEW k \in 1..d
      PROVE  /\ k \in 1..e /\ es[k].head = ds[k].head /\ Time[es[k].earliest] <= Time[ds[k].earliest]
             /\ Time[es[k].earliest] \in Nat /\ Time[ds[k].earliest] \in Nat
  <2>1. k \in 1..e
    BY <1>5
  <2> QED BY <1>2, <1>3, <1>4, <2>1, ClusterFields DEF Grown
<1>7. Grown(cs, es)
  <2>1. ASSUME NEW k \in 1..c
        PROVE  es[k].head = cs[k].head /\ Time[es[k].earliest] <= Time[cs[k].earliest]
    <3>1. k \in 1..d
      BY <1>5
    <3>2. ds[k].head = cs[k].head /\ Time[ds[k].earliest] <= Time[cs[k].earliest]
      BY <1>2, <1>4 DEF Grown
    <3>3. Time[cs[k].earliest] \in Nat
      BY <1>4, ClusterFields
    <3> QED BY <1>6, <3>1, <3>2, <3>3
  <2>2. c <= e
    BY <1>5
  <2> QED BY <1>4, <2>1, <2>2 DEF Grown
<1>8. ASSUME NEW j \in 1..(n + 1) PROVE Knows(es, recs[j])
  <2>1. CASE j = n + 1
    BY <1>3, <2>1
  <2>2. CASE j # n + 1
    <3>1. j \in 1..n /\ j \in 1..Len(recs)
      BY <2>2
    <3>2. PICK k \in 1..d : /\ Story[ds[k].head] = Story[recs[j]]
                            /\ Time[ds[k].earliest] <= Time[recs[j]]
      BY <1>4, <3>1 DEF Keeps, Knows
    <3>3. Time[recs[j]] \in Nat
      BY <3>1, NewsAssumption
    <3>4. Time[es[k].earliest] <= Time[recs[j]]
      BY <1>6, <3>2, <3>3
    <3> QED BY <1>4, <1>6, <3>2, <3>4 DEF Knows
  <2> QED BY <2>1, <2>2
<1>9. FreshFrom(cs, es, {recs[j] : j \in 1..(n + 1)})
  <2> SUFFICES ASSUME NEW k \in 1..e
               PROVE  \/ k \in DOMAIN cs /\ es[k].earliest = cs[k].earliest
                      \/ es[k].fresh /\ es[k].earliest \in {recs[j] : j \in 1..(n + 1)}
    BY <1>4 DEF FreshFrom
  <2>0. a \in {recs[j] : j \in 1..(n + 1)}
    OBVIOUS
  <2>1. CASE k \in 1..d /\ es[k].earliest = ds[k].earliest
    <3>1. ds[k].fresh => es[k].fresh
      BY <1>3, <1>4, <2>1 DEF StayFresh
    <3>2. \/ k \in DOMAIN cs /\ ds[k].earliest = cs[k].earliest
          \/ ds[k].fresh /\ ds[k].earliest \in {recs[j] : j \in 1..n}
      BY <1>4, <2>1 DEF Keeps, FreshFrom
    <3>3. {recs[j] : j \in 1..n} \subseteq {recs[j] : j \in 1..(n + 1)}
      OBVIOUS
    <3> QED BY <2>1, <3>1, <3>2, <3>3
  <2>2. CASE es[k].fresh /\ es[k].earliest = a
    BY <2>0, <2>2
  <2>3. \/ k \in 1..d /\ es[k].earliest = ds[k].earliest
        \/ es[k].fresh /\ es[k].earliest = a
    BY <1>3, <1>4 DEF FreshFrom
  <2> QED BY <2>1, <2>2, <2>3
<1> QED BY <1>3, <1>7, <1>8, <1>9 DEF Keeps, es

\* store, before its transaction: the clusterer keeps one cluster a story, loses none,
\* knows each record of the poll, and a new earliest member is a record of the poll.
LEMMA ClusteredKeeps ==
  ASSUME NEW cs, GoodClusters(cs), NEW recs \in Seq(Articles)
  PROVE  Keeps(cs, Clustered(cs, recs), recs, Len(recs))
<1> PICK l \in Nat : l = Len(recs)
  OBVIOUS
<1> DEFINE after == CHOOSE g : Solves(g, cs, recs, l)
<1>1. after = [i \in 0..l |-> IF i = 0 THEN Stale(cs) ELSE Assign(after[i - 1], recs[i])]
  <2>1. Solves(after, cs, recs, l)
    BY AfterExists
  <2> HIDE DEF after
  <2> QED BY <2>1 DEF Solves
<1>2. Clustered(cs, recs) = after[l]
  BY DEF Clustered, Solves, Stale
<1> HIDE DEF after
<1> DEFINE T == {m \in Nat : m <= l /\ ~Keeps(cs, after[m], recs, m)}
<1>3. Keeps(cs, after[0], recs, 0)
  <2>1. after[0] = Stale(cs)
    BY <1>1
  <2>2. 1..0 = {} /\ {recs[j] : j \in 1..0} = {}
    OBVIOUS
  <2> QED BY <2>1, <2>2, StaleKeeps DEF Keeps
<1>4. ASSUME NEW m \in Nat, m + 1 <= l, Keeps(cs, after[m], recs, m)
      PROVE  Keeps(cs, after[m + 1], recs, m + 1)
  <2>1. m + 1 \in 0..l /\ m + 1 # 0 /\ (m + 1) - 1 = m
    BY <1>4
  <2>2. after[m + 1] = Assign(after[m], recs[m + 1])
    BY <1>1, <2>1
  <2> QED BY <1>4, <2>2, OneMore
<1>5. T = {}
  <2> SUFFICES ASSUME T # {} PROVE FALSE
    OBVIOUS
  <2>1. PICK m \in T : \A k \in T : m <= k
    BY Least
  <2>2. m \in Nat /\ m <= l /\ ~Keeps(cs, after[m], recs, m) /\ m # 0
    BY <1>3
  <2>3. m - 1 \in Nat /\ ~(m <= m - 1) /\ (m - 1) + 1 = m /\ m - 1 <= l
    BY <2>2
  <2>4. Keeps(cs, after[m - 1], recs, m - 1)
    BY <2>1, <2>3
  <2>5. Keeps(cs, after[m], recs, m)
    <3> PICK o \in Nat : o = m - 1
      BY <2>3
    <3>1. o + 1 = m /\ o + 1 <= l
      BY <2>2
    <3> QED BY <1>4, <2>4, <3>1
  <2> QED BY <2>2, <2>5
<1> QED BY <1>2, <1>5

-----------------------------------------------------------------------------
(* Types *)

\* The clusterer in every state, and the poll in hand: what is still to be announced is
\* announced in the end of it, and from its clustering on the clusterer knows its records.
PollInv ==
  /\ GoodClusters(clusters)
  /\ pc # "emit" => outbox = {}
  /\ pc \in {"store", "emit"} => \A i \in DOMAIN batch : Knows(clusters, batch[i])
  /\ committed => detecting # None

TypeInv == TypeOK /\ PollInv

LEMMA PollsAreSequences ==
  ASSUME NEW p \in Polls PROVE p \in Seq(Articles)
<1>1. Cardinality(Articles) \in Nat
  BY FS_CardinalityType, NewsAssumption
<1>2. Cardinality(Doubled) \in Nat
  BY FS_CardinalityType, FS_Subset, NewsAssumption
<1>3. PICK n \in 1..(Cardinality(Articles) + Cardinality(Doubled)) : p \in [1..n -> Articles]
  BY DEF Polls
<1>4. n \in Nat
  BY <1>1, <1>2, <1>3
<1> QED BY <1>3, <1>4

LEMMA EntryTier ==
  ASSUME NEW a \in Articles PROVE EntryToRecord(a).tier \in Tiers
<1>1. TierForDomain(Domain[a]) \in Tiers
  BY NewsAssumption DEF TierForDomain, Tiers
<1>2. Feed[a].tier \in Tiers
  BY NewsAssumption
<1> QED BY <1>1, <1>2 DEF EntryToRecord

\* A record the clusterer knows has the news its cluster says.
LEMMA NewsFields ==
  ASSUME TypeInv, NEW i \in DOMAIN batch, Knows(clusters, batch[i])
  PROVE  /\ News(i) \in NewsType /\ News(i).art = batch[i]
         /\ News(i).original <=> FirstOf(i) /\ Original(clusters, batch[i])
         /\ \E k \in DOMAIN clusters :
              News(i).cluster = clusters[k].head /\ Story[clusters[k].head] = Story[batch[i]]
<1> DEFINE a == batch[i]
           m == Min(Matching(clusters, a))
<1>1. batch \in Seq(Articles) /\ GoodClusters(clusters)
  BY DEF TypeInv, TypeOK, PollInv
<1>2. a \in Articles
  BY <1>1, ElementOfSeq
<1>3. Matching(clusters, a) # {}
  BY DEF Knows, Matching
<1>4. m \in DOMAIN clusters /\ Story[clusters[m].head] = Story[a]
  BY <1>1, <1>2, <1>3, OneMatch
<1>5. clusters[m].head \in Articles
  BY <1>1, <1>4, ClusterFields
<1>6. ClusterOf(clusters, a) = clusters[m]
  BY DEF ClusterOf
<1> DEFINE o == FirstOf(i) /\ Original(clusters, a)
           c == Cardinality(clusters[m].domains) > 1
<1>7. o \in BOOLEAN /\ c \in BOOLEAN
  BY DEF FirstOf, Original
<1>8. News(i) = [art |-> a, cluster |-> clusters[m].head, original |-> o, confirmed |-> c]
  BY <1>6 DEF News
<1> HIDE DEF a, m, o, c
<1>9. /\ News(i) \in NewsType /\ News(i).art = a /\ (News(i).original <=> o)
      /\ News(i).cluster = clusters[m].head
  BY <1>2, <1>5, <1>7, <1>8 DEF NewsType
<1> QED BY <1>4, <1>9 DEF a, o

LEMMA TypeInit == Init => TypeInv
<1> SUFFICES ASSUME Init PROVE TypeInv
  OBVIOUS
<1>1. GoodClusters(<<>>)
  BY DEF GoodClusters
<1>2. rows = {} /\ events = {}
  BY DEF Init
<1>3. NewsTable(rows) /\ EventTable(events)
  BY <1>2 DEF NewsTable, EventTable
<1>4. committed \in BOOLEAN /\ ~committed
  BY Zenon DEF Init
<1>5. TypeOK
  BY <1>3, <1>4, NewsAssumption DEF Init, TypeOK
<1> QED BY <1>1, <1>4, <1>5 DEF Init, TypeInv, PollInv, GoodClusters

LEMMA TypeStep == TypeInv /\ [Next]_vars => TypeInv'
<1> SUFFICES ASSUME TypeInv, [Next]_vars PROVE TypeInv'
  OBVIOUS
<1> USE NewsAssumption
<1>0. TypeOK /\ PollInv
  BY DEF TypeInv
<1>1. ASSUME NEW found \in Polls, Collect(found) PROVE TypeInv'
  <2>1. found \in Seq(Articles)
    BY PollsAreSequences
  <2> QED BY <1>0, <1>1, <2>1 DEF TypeInv, TypeOK, PollInv, Collect, detector
<1>2. CASE EnsureSources
  <2>1. batch \in Seq(Articles) /\ GoodClusters(clusters)
    BY <1>0 DEF TypeOK, PollInv
  <2>2. Keeps(clusters, Clustered(clusters, batch), batch, Len(batch))
    BY <2>1, ClusteredKeeps
  <2>3. clusters' = Clustered(clusters, batch) /\ batch' = batch
    BY <1>2 DEF EnsureSources
  <2>4. GoodClusters(clusters') /\ \A j \in DOMAIN batch' : Knows(clusters', batch'[j])
    BY <2>1, <2>2, <2>3 DEF Keeps
  <2>5. PollInv'
    BY <1>0, <1>2, <2>4 DEF PollInv, EnsureSources, detector
  <2> QED BY <1>0, <1>2, <2>4, <2>5 DEF TypeInv, TypeOK, EnsureSources, detector, GoodClusters
<1>3. CASE SourcesFail
  BY <1>0, <1>3 DEF TypeInv, TypeOK, PollInv, SourcesFail, detector
<1>4. CASE Store
  <2> DEFINE new == {i \in DOMAIN batch : batch[i] \notin Stored}
             added == {News(i) : i \in {j \in new : FirstOf(j)}}
  <2>1. \A i \in DOMAIN batch : Knows(clusters, batch[i])
    BY <1>0, <1>4 DEF PollInv, Store, Storing
  <2>2. \A i \in DOMAIN batch : News(i) \in NewsType /\ News(i).art = batch[i]
    BY <2>1, NewsFields
  <2>3. rows' = rows \cup added /\ outbox' = new
    BY <1>4 DEF Store, Storing
  <2>4. NewsTable(rows)
    BY <1>0 DEF TypeOK
  <2>5. ASSUME NEW r \in added, NEW s \in added, r.art = s.art PROVE r = s
    <3>1. PICK i \in new : FirstOf(i) /\ r = News(i)
      OBVIOUS
    <3>2. PICK j \in new : FirstOf(j) /\ s = News(j)
      OBVIOUS
    <3>3. batch[i] = batch[j]
      BY <2>2, <2>5, <3>1, <3>2
    <3>4. i \in Nat \ {0} /\ j \in Nat \ {0}
      BY <1>0 DEF TypeOK
    <3>5. ~(i < j) /\ ~(j < i)
      BY <3>1, <3>2, <3>3, <3>4 DEF FirstOf
    <3> QED BY <3>1, <3>2, <3>4, <3>5
  <2>6. ASSUME NEW r \in rows, NEW s \in added PROVE r.art # s.art
    <3>1. PICK j \in new : s = News(j)
      OBVIOUS
    <3> QED BY <2>2, <3>1 DEF Stored
  <2> HIDE DEF added
  <2>7. added \subseteq NewsType
    BY <2>2 DEF added
  <2>8. NewsTable(rows')
    BY <2>3, <2>4, <2>5, <2>6, <2>7 DEF NewsTable
  <2>9. outbox' \subseteq DOMAIN batch
    BY <2>3
  <2> HIDE DEF new
  <2> QED BY <1>0, <1>4, <2>8, <2>9 DEF TypeInv, TypeOK, PollInv, Store, Storing, detector
<1>5. CASE StoreFails
  BY <1>0, <1>5 DEF TypeInv, TypeOK, PollInv, StoreFails, StoreFailed, detector
<1>6. CASE Emit
  <2>1. CASE outbox = {}
    BY <1>0, <1>6, <2>1 DEF TypeInv, TypeOK, PollInv, Emit, detector
  <2>2. CASE outbox # {}
    <3> DEFINE i == Min(outbox)
    <3>1. outbox \subseteq Nat /\ outbox \subseteq DOMAIN batch
      BY <1>0 DEF TypeOK
    <3>2. i \in DOMAIN batch
      BY <2>2, <3>1, MinIsLeast
    <3>3. Knows(clusters, batch[i])
      BY <1>0, <1>6, <3>2 DEF PollInv, Emit
    <3>4. News(i) \in NewsType
      BY <3>2, <3>3, NewsFields
    <3>5. batch[i] \in Articles
      BY <1>0, <3>2, ElementOfSeq DEF TypeOK
    <3> HIDE DEF i
    <3>6. /\ queue' = Append(queue, News(i)) /\ announced' = announced \cup {batch[i]}
          /\ outbox' = outbox \ {i}
          /\ UNCHANGED <<clusters, rows, detector, events, emitted, faults, crashes, pc, batch>>
          /\ pc = "emit"
      BY <1>6, <2>2 DEF Emit, i
    <3>7. queue' \in Seq(NewsType)
      BY <1>0, <3>4, <3>6 DEF TypeOK
    <3> QED BY <1>0, <3>5, <3>6, <3>7 DEF TypeInv, TypeOK, PollInv, detector
  <2> QED BY <2>1, <2>2
<1>7. CASE OnNews
  <2> DEFINE e == Head(queue)
  <2>1. queue \in Seq(NewsType) /\ queue # <<>>
    BY <1>0, <1>7 DEF TypeOK, OnNews, Handle
  <2>2. e \in NewsType /\ queue' \in Seq(NewsType)
    BY <1>7, <2>1, HeadTailProperties DEF OnNews, Handle
  <2>3. e.art \in Articles /\ e.cluster \in Articles /\ e.confirmed \in BOOLEAN
    BY <2>2 DEF NewsType
  <2>4. EntryToRecord(e.art).tier \in Tiers
    BY <2>3, EntryTier
  <2>5. Confirmed(e) \in BOOLEAN
    BY DEF Confirmed
  <2>6. DetectedEvent(e) \in EventType
    BY <2>3, <2>4, <2>5 DEF DetectedEvent, EventType, EvidenceType
  <2>7. /\ detecting' \in EventType \cup {None} /\ seen' \subseteq Articles
        /\ evictions' \in Nat /\ committed' = committed
    <3>1. CASE Passes(e) /\ e.cluster \notin seen
      <4>1. detecting' = DetectedEvent(e) /\ Remember(e.cluster) /\ committed' = committed
        BY <1>7, <3>1 DEF OnNews, Handle
      <4>2. seen' \subseteq seen \cup {e.cluster} /\ evictions' \in Nat
        BY <1>0, <4>1 DEF Remember, TypeOK
      <4> QED BY <1>0, <2>3, <2>6, <4>1, <4>2 DEF TypeOK
    <3>2. CASE ~(Passes(e) /\ e.cluster \notin seen)
      BY <1>0, <1>7, <3>2 DEF OnNews, Handle, TypeOK, detector
    <3> QED BY <3>1, <3>2
  <2>8. ~committed
    BY <1>0, <1>7 DEF PollInv, OnNews, Handle
  <2>9. UNCHANGED <<collector, rows, events, announced, emitted, faults, crashes>>
    BY <1>7 DEF OnNews, Handle
  <2>10. TypeOK'
    BY <1>0, <2>2, <2>7, <2>9 DEF TypeOK, collector
  <2>11. ~committed'
    BY <2>7, <2>8
  <2> QED BY <1>0, <2>9, <2>10, <2>11 DEF TypeInv, PollInv, collector
<1>8. CASE PersistDetected
  <2>1. detecting \in EventType /\ EventTable(events)
    BY <1>0, <1>8 DEF TypeOK, PersistDetected
  <2>2. EventTable(events')
    BY <1>8, <2>1 DEF PersistDetected, Upsert, EventTable
  <2> QED BY <1>0, <1>8, <2>2 DEF TypeInv, TypeOK, PollInv, PersistDetected, collector
<1>12. CASE EmitDetected
  <2>1. detecting \in EventType
    BY <1>0, <1>12 DEF TypeOK, PollInv, EmitDetected
  <2>2. emitted' \in Seq(Articles)
    BY <1>0, <1>12, <2>1 DEF EventType, EmitDetected, TypeOK
  <2> QED BY <1>0, <1>12, <2>2 DEF TypeInv, TypeOK, PollInv, EmitDetected, collector
<1>9. CASE PersistFails
  BY <1>0, <1>9 DEF TypeInv, TypeOK, PollInv, PersistFails, collector
<1>10. CASE Restart
  <2>1. GoodClusters(<<>>)
    BY DEF GoodClusters
  <2>2. committed' \in BOOLEAN /\ ~committed'
    BY <1>10, Zenon DEF Restart
  <2>3. TypeOK'
    BY <1>0, <1>10, <2>2 DEF TypeOK, Restart
  <2>4. ~committed'
    BY <2>2
  <2> QED BY <1>10, <2>1, <2>3, <2>4 DEF TypeInv, PollInv, Restart, GoodClusters
<1>11. CASE UNCHANGED vars
  BY <1>0, <1>11 DEF TypeInv, TypeOK, PollInv, vars, collector, detector
<1> QED
  BY <1>1, <1>2, <1>3, <1>4, <1>5, <1>6, <1>7, <1>8, <1>9, <1>10, <1>11, <1>12 DEF Next

\* The variables keep their types, the tables their unique columns, and the clusterer one
\* cluster a story.
THEOREM TypeTheorem == Spec => []TypeOK
<1>1. Spec => []TypeInv
  BY TypeInit, TypeStep, PTL DEF Spec
<1>2. TypeInv => TypeOK
  BY DEF TypeInv
<1> QED BY <1>1, <1>2, PTL

-----------------------------------------------------------------------------
(* What is announced is stored *)

\* Announced or about to be, an article is stored; before a restart the reverse holds too.
EventClusters == {r.cluster : r \in events}

AnnounceInv ==
  /\ announced \subseteq Stored
  /\ \A i \in outbox : batch[i] \in Stored
  /\ crashes = 0 => Stored \subseteq announced \cup {batch[i] : i \in outbox}
  /\ \A i \in DOMAIN emitted : emitted[i] \in EventClusters
  /\ committed => detecting.cluster \in EventClusters

\* A record in hand has a first one of its article.
LEMMA HasFirst ==
  ASSUME TypeInv, NEW i \in DOMAIN batch
  PROVE  \E j \in DOMAIN batch : batch[j] = batch[i] /\ FirstOf(j)
<1> DEFINE T == {j \in DOMAIN batch : batch[j] = batch[i]}
<1>1. batch \in Seq(Articles)
  BY DEF TypeInv, TypeOK
<1>2. T \subseteq Nat /\ T # {}
  BY <1>1
<1>3. PICK j \in T : \A k \in T : j <= k
  BY <1>2, Least
<1>4. ASSUME NEW k \in 1..(j - 1) PROVE batch[k] # batch[j]
  <2>1. j \in 1..Len(batch) /\ Len(batch) \in Nat
    BY <1>1
  <2>2. k \in DOMAIN batch /\ ~(j <= k)
    BY <1>1, <2>1
  <2>3. k \notin T
    BY <1>3, <2>2
  <2> QED BY <2>2, <2>3
<1> QED BY <1>4 DEF FirstOf

\* store adds to the table the articles it is going to announce, and no others.
LEMMA StoredAfter ==
  ASSUME TypeInv, Store
  PROVE  /\ Stored' = Stored \cup {batch[i] : i \in outbox'}
         /\ \A i \in outbox' : FirstOf(i) => News(i) \in rows'
<1> DEFINE new == {i \in DOMAIN batch : batch[i] \notin Stored}
<1>1. \A i \in DOMAIN batch : Knows(clusters, batch[i])
  BY DEF TypeInv, PollInv, Store, Storing
<1>2. \A i \in DOMAIN batch : News(i).art = batch[i]
  BY <1>1, NewsFields
<1>3. rows' = rows \cup {News(i) : i \in {j \in new : FirstOf(j)}} /\ outbox' = new
  BY DEF Store, Storing
<1>4. ASSUME NEW i \in new PROVE batch[i] \in Stored'
  <2>1. PICK j \in DOMAIN batch : batch[j] = batch[i] /\ FirstOf(j)
    BY HasFirst
  <2>2. News(j) \in rows'
    BY <1>3, <2>1
  <2>3. News(j).art = batch[i]
    BY <1>2, <2>1
  <2> QED BY <2>2, <2>3 DEF Stored
<1>5. Stored \subseteq Stored'
  BY <1>3 DEF Stored
<1>6. ASSUME NEW a \in Stored' PROVE a \in Stored \cup {batch[i] : i \in new}
  <2>1. PICK r \in rows' : r.art = a
    BY DEF Stored
  <2>2. CASE r \in rows
    BY <2>1, <2>2 DEF Stored
  <2>3. CASE r \notin rows
    <3>1. PICK i \in new : r = News(i)
      BY <1>3, <2>3
    <3> QED BY <1>2, <2>1, <3>1
  <2> QED BY <2>2, <2>3
<1> QED BY <1>3, <1>4, <1>5, <1>6

LEMMA AnnounceStep == TypeInv /\ AnnounceInv /\ [Next]_vars => AnnounceInv'
<1> SUFFICES ASSUME TypeInv, AnnounceInv, [Next]_vars PROVE AnnounceInv'
  OBVIOUS
<1>0. TypeOK /\ PollInv
  BY DEF TypeInv
<1>1. ASSUME NEW found \in Polls, Collect(found) PROVE AnnounceInv'
  BY <1>0, <1>1 DEF AnnounceInv, PollInv, Collect, Stored, EventClusters, detector
<1>2. CASE EnsureSources
  BY <1>2 DEF AnnounceInv, EnsureSources, Stored, EventClusters, detector
<1>3. CASE SourcesFail
  BY <1>0, <1>3 DEF AnnounceInv, PollInv, SourcesFail, Stored, EventClusters, detector
<1>4. CASE Store
  <2>1. Stored' = Stored \cup {batch[i] : i \in outbox'}
    BY <1>4, StoredAfter
  <2>2. outbox = {} /\ batch' = batch /\ announced' = announced /\ crashes' = crashes
    BY <1>0, <1>4 DEF PollInv, Store, Storing
  <2>3. UNCHANGED <<emitted, events, committed, detecting>>
    BY <1>4 DEF Store, Storing, detector
  <2> QED BY <2>1, <2>2, <2>3 DEF AnnounceInv, EventClusters
<1>5. CASE StoreFails
  BY <1>0, <1>5 DEF AnnounceInv, PollInv, StoreFails, StoreFailed, Stored, EventClusters, detector
<1>6. CASE Emit
  <2>1. CASE outbox = {}
    BY <1>6, <2>1 DEF AnnounceInv, Emit, Stored, EventClusters, detector
  <2>2. CASE outbox # {}
    <3> DEFINE i == Min(outbox)
    <3>1. outbox \subseteq Nat
      BY <1>0 DEF TypeOK
    <3>2. i \in outbox
      BY <2>2, <3>1, MinIsLeast
    <3>3. /\ announced' = announced \cup {batch[i]} /\ outbox' = outbox \ {i}
          /\ UNCHANGED <<batch, rows, crashes>>
      BY <1>6, <2>2 DEF Emit
    <3> HIDE DEF i
    <3>4. Stored' = Stored
      BY <3>3 DEF Stored
    <3>5. UNCHANGED <<emitted, events, committed, detecting>>
      BY <1>6 DEF Emit, detector
    <3> QED BY <3>2, <3>3, <3>4, <3>5 DEF AnnounceInv, EventClusters
  <2> QED BY <2>1, <2>2
<1>7. CASE OnNews
  <2>1. ~committed' /\ UNCHANGED <<collector, rows, events, announced, emitted, crashes>>
    BY <1>0, <1>7 DEF PollInv, OnNews, Handle, detector
  <2> QED BY <2>1 DEF AnnounceInv, collector, Stored, EventClusters
<1>8. CASE PersistDetected
  <2>1. EventClusters' = EventClusters \cup {detecting.cluster}
    BY <1>8 DEF PersistDetected, Upsert, EventClusters
  <2> QED BY <1>8, <2>1 DEF AnnounceInv, PersistDetected, collector, Stored, EventClusters, detector
<1>12. CASE EmitDetected
  <2>1. emitted \in Seq(Articles) /\ emitted' = Append(emitted, detecting.cluster)
    BY <1>0, <1>12 DEF TypeOK, EmitDetected
  <2>2. ASSUME NEW i \in DOMAIN emitted' PROVE emitted'[i] \in EventClusters
    <3> PICK n \in Nat : n = Len(emitted)
      BY <2>1
    <3>1. /\ DOMAIN emitted = 1..n /\ DOMAIN emitted' = 1..(n + 1)
          /\ emitted'[n + 1] = detecting.cluster /\ \A k \in 1..n : emitted'[k] = emitted[k]
      BY <2>1
    <3>2. detecting.cluster \in EventClusters
      BY <1>12 DEF AnnounceInv, EmitDetected
    <3>3. i \in 1..n \/ i = n + 1
      BY <3>1
    <3> QED BY <3>1, <3>2, <3>3 DEF AnnounceInv
  <2>3. EventClusters' = EventClusters
    BY <1>12 DEF EmitDetected, EventClusters
  <2> QED BY <1>12, <2>2, <2>3 DEF AnnounceInv, EmitDetected, collector, Stored, EventClusters, detector
<1>9. CASE PersistFails
  BY <1>9 DEF AnnounceInv, PersistFails, collector, Stored, EventClusters, detector
<1>10. CASE Restart
  <2>1. crashes' # 0
    BY <1>0, <1>10, NewsAssumption DEF TypeOK, Restart
  <2> QED BY <1>10, <2>1 DEF AnnounceInv, Restart, Stored, EventClusters, detector
<1>11. CASE UNCHANGED vars
  BY <1>11 DEF AnnounceInv, vars, collector, Stored, EventClusters, detector
<1> QED
  BY <1>1, <1>2, <1>3, <1>4, <1>5, <1>6, <1>7, <1>8, <1>9, <1>10, <1>11, <1>12 DEF Next

\* An announced article is in the table, whatever failed, and when no collect runs a
\* stored one was announced, unless the process died.
THEOREM AnnouncedTheorem == Spec => []AnnouncedIsStored
<1>1. Init => AnnounceInv
  BY DEF Init, AnnounceInv, Stored, EventClusters
<1>2. Spec => [](TypeInv /\ AnnounceInv)
  BY TypeInit, TypeStep, <1>1, AnnounceStep, PTL DEF Spec
<1>3. TypeInv /\ AnnounceInv => AnnouncedIsStored
  BY DEF EventClusters, TypeInv, PollInv, AnnounceInv, AnnouncedIsStored
<1> QED BY <1>2, <1>3, PTL

-----------------------------------------------------------------------------
(* The earliest article is the original *)

\* Until a transaction fails, the earliest member of a cluster is stored, or a fresh
\* record of the poll about to be.
SourceInv ==
  faults = 0 =>
    \A k \in DOMAIN clusters :
      \/ clusters[k].earliest \in Stored
      \/ /\ pc = "store" /\ clusters[k].fresh
         /\ \E j \in DOMAIN batch : batch[j] = clusters[k].earliest

OriginalInv == SourceInv /\ EarliestIsOriginal

\* At the commit: a new row's story has an original no later than the row.
LEMMA StoreKeepsOriginal ==
  ASSUME TypeInv, OriginalInv, Store, faults = 0
  PROVE  OriginalInv'
<1>0. TypeOK /\ GoodClusters(clusters) /\ faults' = 0 /\ clusters' = clusters
  BY DEF TypeInv, PollInv, Store, Storing
<1>1. pc = "store" /\ batch \in Seq(Articles) /\ rows \subseteq rows'
  BY <1>0 DEF Store, Storing, TypeOK
<1>2. /\ Stored' = Stored \cup {batch[i] : i \in outbox'}
      /\ \A i \in outbox' : FirstOf(i) => News(i) \in rows'
  BY StoredAfter
<1>3. outbox' = {i \in DOMAIN batch : batch[i] \notin Stored}
  BY DEF Store, Storing
<1>4. \A i \in DOMAIN batch : Knows(clusters, batch[i])
  BY <1>1 DEF TypeInv, PollInv
<1>5. SourceInv'
  <2> SUFFICES ASSUME NEW k \in DOMAIN clusters PROVE clusters[k].earliest \in Stored'
    BY <1>0 DEF SourceInv
  <2>1. \/ clusters[k].earliest \in Stored
        \/ \E j \in DOMAIN batch : batch[j] = clusters[k].earliest
    BY DEF OriginalInv, SourceInv
  <2> QED BY <1>2, <1>3, <2>1
<1>6. ASSUME NEW a \in Stored
      PROVE  \E s \in rows' : Story[s.art] = Story[a] /\ s.original /\ Time[s.art] <= Time[a]
  BY <1>1 DEF OriginalInv, EarliestIsOriginal, Stored
<1>7. ASSUME NEW i \in outbox'
      PROVE  \E s \in rows' : /\ Story[s.art] = Story[batch[i]] /\ s.original
                              /\ Time[s.art] <= Time[batch[i]]
  <2>0. i \in DOMAIN batch
    BY <1>3
  <2>1. PICK k \in DOMAIN clusters : /\ Story[clusters[k].head] = Story[batch[i]]
                                     /\ Time[clusters[k].earliest] <= Time[batch[i]]
    BY <1>4, <2>0 DEF Knows
  <2> DEFINE a == clusters[k].earliest
  <2>2. a \in Articles /\ Time[a] \in Nat /\ Story[a] = Story[batch[i]]
    BY <1>0, <2>1, ClusterFields DEF GoodClusters
  <2>3. batch[i] \in Articles /\ Time[batch[i]] \in Nat
    BY <1>1, <2>0, ElementOfSeq, NewsAssumption
  <2>4. CASE a \in Stored
    <3>1. PICK s \in rows' : Story[s.art] = Story[a] /\ s.original /\ Time[s.art] <= Time[a]
      BY <1>6, <2>4
    <3>2. rows' \subseteq NewsType
      <4>1. TypeInv'
        BY TypeStep DEF Next
      <4> QED BY <4>1 DEF TypeInv, TypeOK, NewsTable
    <3>3. Time[s.art] \in Nat
      BY <3>2, NewsAssumption DEF NewsType
    <3> QED BY <2>1, <2>2, <2>3, <3>1, <3>3
  <2>5. CASE a \notin Stored
    <3>1. clusters[k].fresh /\ \E j \in DOMAIN batch : batch[j] = a
      BY <2>5 DEF OriginalInv, SourceInv
    <3>2. PICK j \in DOMAIN batch : batch[j] = a /\ FirstOf(j)
      BY <3>1, HasFirst
    <3>3. News(j) \in rows'
      BY <1>2, <1>3, <2>5, <3>2
    <3>4. News(j).art = a /\ (News(j).original <=> FirstOf(j) /\ Original(clusters, a))
      BY <1>4, <3>2, NewsFields
    <3>5. Matching(clusters, a) # {} /\ k = Min(Matching(clusters, a))
      <4>1. Story[clusters[k].head] = Story[a]
        BY <2>1, <2>2
      <4>2. Matching(clusters, a) # {}
        BY <4>1 DEF Matching
      <4> QED BY <1>0, <2>2, <4>1, <4>2, OneMatch
    <3>6. Original(clusters, a)
      BY <3>1, <3>5 DEF Original, ClusterOf
    <3> QED BY <2>1, <2>2, <3>2, <3>3, <3>4, <3>6
  <2> QED BY <2>4, <2>5
<1>8. EarliestIsOriginal'
  <2> SUFFICES ASSUME NEW r \in rows'
               PROVE  \E s \in rows' : /\ Story[s.art] = Story[r.art] /\ s.original
                                       /\ Time[s.art] <= Time[r.art]
    BY DEF EarliestIsOriginal
  <2>1. r.art \in Stored'
    BY DEF Stored
  <2>2. r.art \in Stored \/ \E i \in outbox' : r.art = batch[i]
    BY <1>2, <2>1
  <2> QED BY <1>6, <1>7, <2>2
<1> QED BY <1>5, <1>8 DEF OriginalInv

LEMMA OriginalStep == TypeInv /\ OriginalInv /\ [Next]_vars => OriginalInv'
<1> SUFFICES ASSUME TypeInv, OriginalInv, [Next]_vars PROVE OriginalInv'
  OBVIOUS
<1>0. TypeOK /\ PollInv
  BY DEF TypeInv
<1>1. ASSUME NEW found \in Polls, Collect(found) PROVE OriginalInv'
  BY <1>1 DEF OriginalInv, SourceInv, EarliestIsOriginal, Collect, Stored
<1>2. CASE EnsureSources
  <2> DEFINE ds == Clustered(clusters, batch)
  <2>1. batch \in Seq(Articles) /\ GoodClusters(clusters)
    BY <1>0 DEF TypeOK, PollInv
  <2>2. Keeps(clusters, ds, batch, Len(batch))
    BY <2>1, ClusteredKeeps
  <2>3. /\ pc = "sources" /\ pc' = "store" /\ clusters' = ds
        /\ UNCHANGED <<batch, rows, faults>>
    BY <1>2 DEF EnsureSources
  <2> HIDE DEF ds
  <2>4. FreshFrom(clusters, ds, {batch[j] : j \in DOMAIN batch})
    <3>1. DOMAIN batch = 1..Len(batch)
      BY <2>1
    <3>2. FreshFrom(clusters, ds, {batch[j] : j \in 1..Len(batch)})
      BY <2>2 DEF Keeps
    <3> QED BY <3>1, <3>2, Zenon
  <2>5. SourceInv'
    <3> SUFFICES ASSUME faults = 0, NEW k \in DOMAIN ds
                 PROVE  \/ ds[k].earliest \in Stored
                        \/ ds[k].fresh /\ \E j \in DOMAIN batch : batch[j] = ds[k].earliest
      BY <2>3 DEF SourceInv, Stored
    <3>1. CASE k \in DOMAIN clusters /\ ds[k].earliest = clusters[k].earliest
      BY <2>3, <3>1 DEF OriginalInv, SourceInv
    <3>2. CASE ds[k].fresh /\ ds[k].earliest \in {batch[j] : j \in DOMAIN batch}
      BY <3>2
    <3> QED BY <2>4, <3>1, <3>2 DEF FreshFrom
  <2> QED BY <2>3, <2>5 DEF OriginalInv, EarliestIsOriginal
<1>3. CASE SourcesFail
  <2>1. faults' # 0
    BY <1>0, <1>3, NewsAssumption DEF TypeOK, SourcesFail
  <2> QED BY <2>1 DEF OriginalInv, SourceInv, EarliestIsOriginal
<1>4. CASE Store
  <2>1. CASE faults = 0
    BY <1>4, <2>1, StoreKeepsOriginal
  <2>2. CASE faults # 0
    BY <1>4, <2>2 DEF OriginalInv, SourceInv, EarliestIsOriginal, Store, Storing
  <2> QED BY <2>1, <2>2
<1>5. CASE StoreFails
  <2>1. faults' # 0
    BY <1>0, <1>5, NewsAssumption DEF TypeOK, StoreFails, StoreFailed
  <2> QED BY <2>1 DEF OriginalInv, SourceInv, EarliestIsOriginal
<1>6. CASE Emit
  BY <1>6 DEF OriginalInv, SourceInv, EarliestIsOriginal, Emit, Stored
<1>7. CASE OnNews
  BY <1>7 DEF OriginalInv, SourceInv, EarliestIsOriginal, OnNews, Handle, collector, Stored
<1>8. CASE PersistDetected \/ EmitDetected
  BY <1>8
  DEF OriginalInv, SourceInv, EarliestIsOriginal, PersistDetected, EmitDetected, collector, Stored
<1>9. CASE PersistFails
  BY <1>0, <1>9, NewsAssumption
  DEF OriginalInv, SourceInv, EarliestIsOriginal, PersistFails, collector, Stored, TypeOK
<1>10. CASE Restart
  BY <1>10 DEF OriginalInv, SourceInv, EarliestIsOriginal, Restart, Stored
<1>11. CASE UNCHANGED vars
  BY <1>11 DEF OriginalInv, SourceInv, EarliestIsOriginal, vars, collector, Stored
<1> QED
  BY <1>1, <1>2, <1>3, <1>4, <1>5, <1>6, <1>7, <1>8, <1>9, <1>10, <1>11 DEF Next

\* As long as no transaction failed, each stored article has an original of its story that
\* is no later, across polls in any order and restarts.
THEOREM OriginalTheorem == Spec => []EarliestIsOriginal
<1>1. Init => OriginalInv
  BY DEF Init, OriginalInv, SourceInv, EarliestIsOriginal
<1>2. Spec => [](TypeInv /\ OriginalInv)
  BY TypeInit, TypeStep, <1>1, OriginalStep, PTL DEF Spec
<1>3. OriginalInv => EarliestIsOriginal
  BY DEF OriginalInv
<1> QED BY <1>2, <1>3, PTL

-----------------------------------------------------------------------------
(* One event a story *)

Heads == {clusters[k].head : k \in DOMAIN clusters}

\* What is on its way to an event, or made one, names a cluster that still is.
HeadsInv ==
  /\ \A i \in DOMAIN queue : queue[i].cluster \in Heads
  /\ seen \subseteq Heads

EventsOf(a) == {i \in DOMAIN emitted : Story[emitted[i]] = Story[a]}

Detected(a) == IF detecting # None /\ Story[detecting.cluster] = Story[a] THEN 1 ELSE 0

Seen(a) == IF \E c \in seen : Story[c] = Story[a] THEN 1 ELSE 0

\* A story's events, with the one being stored, are at most one for each time _seen forgot
\* and the one that _seen remembers.
Forgotten == crashes + evictions

EventInv == \A a \in Articles : Cardinality(EventsOf(a)) + Detected(a) <= Forgotten + Seen(a)

LEMMA OneHead ==
  ASSUME TypeInv, NEW c \in Heads, NEW d \in Heads, Story[c] = Story[d]
  PROVE  c = d
BY DEF TypeInv, PollInv, GoodClusters, Heads

LEMMA EventCounts ==
  ASSUME TypeInv, NEW a
  PROVE  IsFiniteSet(EventsOf(a)) /\ Cardinality(EventsOf(a)) \in Nat
<1>1. emitted \in Seq(Articles)
  BY DEF TypeInv, TypeOK
<1>2. IsFiniteSet(1..Len(emitted))
  BY <1>1, FS_Interval
<1>3. EventsOf(a) \subseteq 1..Len(emitted)
  BY <1>1 DEF EventsOf
<1> QED BY <1>2, <1>3, FS_Subset, FS_CardinalityType

LEMMA HeadsStep == TypeInv /\ HeadsInv /\ [Next]_vars => HeadsInv'
<1> SUFFICES ASSUME TypeInv, HeadsInv, [Next]_vars PROVE HeadsInv'
  OBVIOUS
<1>0. TypeOK /\ PollInv /\ TypeInv'
  BY TypeStep DEF TypeInv
<1>1. ASSUME NEW found \in Polls, Collect(found) PROVE HeadsInv'
  BY <1>1 DEF HeadsInv, Heads, Collect, detector
<1>2. CASE EnsureSources
  <2>1. batch \in Seq(Articles) /\ GoodClusters(clusters)
    BY <1>0 DEF TypeOK, PollInv
  <2>2. Keeps(clusters, Clustered(clusters, batch), batch, Len(batch))
    BY <2>1, ClusteredKeeps
  <2>3. clusters' = Clustered(clusters, batch) /\ UNCHANGED <<queue, detecting, seen>>
    BY <1>2 DEF EnsureSources, detector
  <2>4. Grown(clusters, clusters') /\ GoodClusters(clusters')
    BY <2>2, <2>3 DEF Keeps
  <2>5. Heads \subseteq Heads'
    <3> SUFFICES ASSUME NEW k \in DOMAIN clusters PROVE clusters[k].head \in Heads'
      BY DEF Heads
    <3>1. k \in DOMAIN clusters'
      BY <2>1, <2>4 DEF Grown, GoodClusters
    <3>2. clusters'[k].head = clusters[k].head
      BY <2>4 DEF Grown
    <3> QED BY <3>1, <3>2 DEF Heads
  <2> QED BY <2>3, <2>5 DEF HeadsInv
<1>3. CASE SourcesFail
  BY <1>3 DEF HeadsInv, Heads, SourcesFail, detector
<1>4. CASE Store
  BY <1>4 DEF HeadsInv, Heads, Store, Storing, detector
<1>5. CASE StoreFails
  BY <1>5 DEF HeadsInv, Heads, StoreFails, StoreFailed, detector
<1>6. CASE Emit
  <2>1. CASE outbox = {}
    BY <1>6, <2>1 DEF HeadsInv, Heads, Emit, detector
  <2>2. CASE outbox # {}
    <3> DEFINE i == Min(outbox)
    <3>1. outbox \subseteq Nat /\ outbox \subseteq DOMAIN batch
      BY <1>0 DEF TypeOK
    <3>2. i \in DOMAIN batch
      BY <2>2, <3>1, MinIsLeast
    <3>3. Knows(clusters, batch[i])
      BY <1>0, <1>6, <3>2 DEF PollInv, Emit
    <3>4. News(i).cluster \in Heads
      BY <3>2, <3>3, NewsFields DEF Heads
    <3> HIDE DEF i
    <3>5. queue' = Append(queue, News(i)) /\ UNCHANGED <<clusters, detecting, seen>>
      BY <1>6, <2>2 DEF Emit, i, detector
    <3>6. Heads' = Heads
      BY <3>5 DEF Heads
    <3>7. ASSUME NEW k \in DOMAIN queue' PROVE queue'[k].cluster \in Heads
      <4>1. queue \in Seq(NewsType)
        BY <1>0 DEF TypeOK
      <4> PICK n \in Nat : n = Len(queue)
        BY <4>1
      <4>2. /\ DOMAIN queue = 1..n /\ DOMAIN queue' = 1..(n + 1)
            /\ queue'[n + 1] = News(i) /\ \A j \in 1..n : queue'[j] = queue[j]
        BY <3>5, <4>1
      <4>3. k \in 1..n \/ k = n + 1
        BY <4>2
      <4> QED BY <3>4, <4>2, <4>3 DEF HeadsInv
    <3> QED BY <3>5, <3>6, <3>7 DEF HeadsInv
  <2> QED BY <2>1, <2>2
<1>7. CASE OnNews
  <2>1. queue \in Seq(NewsType) /\ queue # <<>> /\ queue' = Tail(queue)
    BY <1>0, <1>7 DEF TypeOK, OnNews, Handle
  <2>2. clusters' = clusters
    BY <1>7 DEF OnNews, Handle, collector
  <2>3. Heads' = Heads
    BY <2>2 DEF Heads
  <2>4. ASSUME NEW k \in DOMAIN queue' PROVE queue'[k].cluster \in Heads
    <3> PICK n \in Nat : n = Len(queue)
      BY <2>1
    <3>1. DOMAIN queue' = 1..(n - 1) /\ queue'[k] = queue[k + 1] /\ DOMAIN queue = 1..n
      BY <2>1
    <3>2. k + 1 \in 1..n
      BY <3>1
    <3> QED BY <3>1, <3>2 DEF HeadsInv
  <2>5. Head(queue).cluster \in Heads
    <3>1. Head(queue) = queue[1] /\ 1 \in DOMAIN queue
      BY <2>1
    <3> QED BY <3>1 DEF HeadsInv
  <2>6. CASE Passes(Head(queue)) /\ Head(queue).cluster \notin seen
    <3>1. seen' \subseteq seen \cup {Head(queue).cluster}
      BY <1>7, <2>6 DEF OnNews, Handle, Remember
    <3> QED BY <2>3, <2>4, <2>5, <3>1 DEF HeadsInv
  <2>7. CASE ~(Passes(Head(queue)) /\ Head(queue).cluster \notin seen)
    <3>1. detecting' = detecting /\ seen' = seen
      BY <1>7, <2>7 DEF OnNews, Handle, detector
    <3> QED BY <2>3, <2>4, <3>1 DEF HeadsInv
  <2> QED BY <2>6, <2>7
<1>8. CASE PersistDetected \/ EmitDetected
  BY <1>8 DEF HeadsInv, Heads, PersistDetected, EmitDetected, collector
<1>9. CASE PersistFails
  BY <1>9 DEF HeadsInv, Heads, PersistFails, collector
<1>10. CASE Restart
  <2>1. queue' = <<>> /\ detecting' = None /\ seen' = {}
    BY <1>10 DEF Restart
  <2> QED BY <2>1 DEF HeadsInv
<1>11. CASE UNCHANGED vars
  BY <1>11 DEF HeadsInv, Heads, vars, collector, detector
<1> QED
  BY <1>1, <1>2, <1>3, <1>4, <1>5, <1>6, <1>7, <1>8, <1>9, <1>10, <1>11 DEF Next

LEMMA EventStep == TypeInv /\ HeadsInv /\ EventInv /\ [Next]_vars => EventInv'
<1> SUFFICES ASSUME TypeInv, HeadsInv, EventInv, [Next]_vars, NEW a \in Articles
             PROVE  (Cardinality(EventsOf(a)) + Detected(a) <= Forgotten + Seen(a))'
  BY DEF EventInv
<1>0. TypeOK /\ PollInv
  BY DEF TypeInv
<1>1. /\ IsFiniteSet(EventsOf(a)) /\ Cardinality(EventsOf(a)) \in Nat /\ Forgotten \in Nat
      /\ Cardinality(EventsOf(a)) + Detected(a) <= Forgotten + Seen(a)
  BY <1>0, EventCounts, NewsAssumption DEF EventInv, TypeOK, Forgotten
<1>2. Detected(a) \in 0..1 /\ Seen(a) \in 0..1
  BY DEF Detected, Seen
<1>3. CASE UNCHANGED <<emitted, detecting, seen, evictions, crashes>>
  <2>1. UNCHANGED <<EventsOf(a), Detected(a), Seen(a), Forgotten>>
    BY <1>3 DEF EventsOf, Detected, Seen, Forgotten
  <2> QED BY <1>1, <1>3, <2>1
<1>4. CASE OnNews
  <2> DEFINE e == Head(queue)
  <2>1. detecting = None /\ emitted' = emitted /\ crashes' = crashes
    BY <1>4 DEF OnNews, Handle
  <2>2. EventsOf(a)' = EventsOf(a) /\ Detected(a) = 0
    BY <2>1 DEF EventsOf, Detected
  <2>3. CASE Passes(e) /\ e.cluster \notin seen
    <3>1. detecting' = DetectedEvent(e) /\ Remember(e.cluster)
      BY <1>4, <2>3 DEF OnNews, Handle
    <3>2. detecting'.cluster = e.cluster
      BY <3>1 DEF DetectedEvent
    <3>3. e.cluster \in Heads
      <4>1. queue \in Seq(NewsType) /\ queue # <<>>
        BY <1>0, <1>4 DEF TypeOK, OnNews, Handle
      <4>2. e = queue[1] /\ 1 \in DOMAIN queue
        BY <4>1
      <4> QED BY <4>2 DEF HeadsInv
    <3> HIDE DEF e
    <3>4. \/ seen' = seen \cup {e.cluster} /\ evictions' = evictions
          \/ evictions' = evictions + 1
      BY <3>1 DEF Remember
    <3>5. evictions \in Nat /\ crashes \in Nat /\ Detected(a)' \in 0..1 /\ Seen(a)' \in 0..1
      BY <1>0, NewsAssumption DEF TypeOK, Detected, Seen
    <3>6. Detected(a)' = 1 => Story[e.cluster] = Story[a]
      BY <3>2 DEF Detected
    <3>7. Story[e.cluster] = Story[a] => Seen(a) = 0
      BY <2>3, <3>3, OneHead DEF HeadsInv, Seen
    <3>8. CASE evictions' = evictions + 1
      <4>1. Forgotten' = Forgotten + 1
        BY <2>1, <3>5, <3>8 DEF Forgotten
      <4>2. CASE Story[e.cluster] = Story[a]
        BY <1>1, <2>2, <3>5, <3>7, <4>1, <4>2
      <4>3. CASE Story[e.cluster] # Story[a]
        BY <1>1, <1>2, <2>2, <3>5, <3>6, <4>1, <4>3
      <4> QED BY <4>2, <4>3
    <3>9. CASE seen' = seen \cup {e.cluster} /\ evictions' = evictions
      <4>1. Forgotten' = Forgotten
        BY <2>1, <3>9 DEF Forgotten
      <4>2. CASE Story[e.cluster] = Story[a]
        <5>1. Seen(a)' = 1
          BY <3>9, <4>2 DEF Seen
        <5> QED BY <1>1, <2>2, <3>5, <3>7, <4>1, <4>2, <5>1
      <4>3. CASE Story[e.cluster] # Story[a]
        <5>1. Seen(a)' = Seen(a)
          BY <3>9, <4>3 DEF Seen
        <5> QED BY <1>1, <2>2, <3>5, <3>6, <4>1, <4>3, <5>1
      <4> QED BY <4>2, <4>3
    <3> QED BY <3>4, <3>8, <3>9
  <2>4. CASE ~(Passes(e) /\ e.cluster \notin seen)
    <3>1. UNCHANGED <<detecting, seen, evictions>>
      BY <1>4, <2>4 DEF OnNews, Handle, detector
    <3> QED BY <1>3, <2>1, <3>1
  <2> QED BY <2>3, <2>4
<1>5. CASE EmitDetected
  <2>1. /\ detecting # None /\ emitted' = Append(emitted, detecting.cluster)
        /\ detecting' = None /\ seen' = seen /\ crashes' = crashes
        /\ evictions' = evictions
    BY <1>0, <1>5 DEF EmitDetected, PollInv
  <2>2. emitted \in Seq(Articles)
    BY <1>0 DEF TypeOK
  <2> PICK n \in Nat : n = Len(emitted)
    BY <2>2
  <2>3. detecting.cluster \in Articles
    BY <1>0, <2>1 DEF TypeOK, EventType
  <2>4. /\ DOMAIN emitted = 1..n /\ DOMAIN emitted' = 1..(n + 1)
        /\ emitted'[n + 1] = detecting.cluster /\ \A j \in 1..n : emitted'[j] = emitted[j]
    BY <2>1, <2>2, <2>3
  <2>5. Seen(a)' = Seen(a) /\ Detected(a)' = 0 /\ Forgotten' = Forgotten
    BY <2>1 DEF Seen, Detected, Forgotten
  <2>6. CASE Story[detecting.cluster] = Story[a]
    <3>1. EventsOf(a)' = EventsOf(a) \cup {n + 1}
      BY <2>4, <2>6 DEF EventsOf
    <3>2. n + 1 \notin EventsOf(a)
      BY <2>4 DEF EventsOf
    <3>3. Cardinality(EventsOf(a)') = Cardinality(EventsOf(a)) + 1
      BY <1>1, <3>1, <3>2, FS_AddElement
    <3>4. Detected(a) = 1
      BY <2>1, <2>6 DEF Detected
    <3> QED BY <1>1, <2>1, <2>5, <3>3, <3>4
  <2>7. CASE Story[detecting.cluster] # Story[a]
    <3>1. EventsOf(a)' = EventsOf(a)
      BY <2>4, <2>7 DEF EventsOf
    <3>2. Detected(a) = 0
      BY <2>7 DEF Detected
    <3> QED BY <1>1, <2>1, <2>5, <3>1, <3>2
  <2> QED BY <2>6, <2>7
<1>6. CASE PersistFails
  <2>1. detecting' = None /\ UNCHANGED <<emitted, seen, evictions, crashes>>
    BY <1>6 DEF PersistFails
  <2>2. /\ EventsOf(a)' = EventsOf(a) /\ Seen(a)' = Seen(a) /\ Detected(a)' = 0
        /\ Forgotten' = Forgotten
    BY <2>1 DEF EventsOf, Seen, Detected, Forgotten
  <2> QED BY <1>1, <1>2, <2>1, <2>2
<1>7. CASE Restart
  <2>1. /\ detecting' = None /\ seen' = {} /\ crashes' = crashes + 1
        /\ emitted' = emitted /\ evictions' = evictions
    BY <1>7 DEF Restart
  <2>2. /\ EventsOf(a)' = EventsOf(a) /\ Seen(a)' = 0 /\ Detected(a)' = 0
        /\ Forgotten' = Forgotten + 1
    BY <1>0, <2>1, NewsAssumption DEF EventsOf, Seen, Detected, Forgotten, TypeOK
  <2> QED BY <1>1, <1>2, <2>1, <2>2
<1>8. \/ OnNews \/ EmitDetected \/ PersistFails \/ Restart
      \/ UNCHANGED <<emitted, detecting, seen, evictions, crashes>>
  BY DEF Next, vars, detector, PersistDetected, Collect, EnsureSources, SourcesFail, Store, Storing, StoreFails,
         StoreFailed, Emit
<1> QED BY <1>3, <1>4, <1>5, <1>6, <1>7, <1>8

\* In one life of the process a story makes at most one event, whatever order its copies
\* come in; each restart, and each halving of _seen, may add one.
THEOREM EventTheorem == Spec => []OneEventPerStory
<1>1. Init => HeadsInv
  BY DEF Init, HeadsInv
<1>2. Init => EventInv
  <2> SUFFICES ASSUME Init, NEW a \in Articles
               PROVE  Cardinality(EventsOf(a)) + Detected(a) <= Forgotten + Seen(a)
    BY DEF EventInv
  <2>1. EventsOf(a) = {} /\ Detected(a) = 0 /\ Seen(a) = 0 /\ Forgotten = 0
    BY DEF Init, EventsOf, Detected, Seen, Forgotten
  <2> QED BY <2>1, FS_EmptySet
<1>3. Spec => [](TypeInv /\ HeadsInv /\ EventInv)
  BY TypeInit, TypeStep, <1>1, <1>2, HeadsStep, EventStep, PTL DEF Spec
<1>4. TypeInv /\ EventInv => OneEventPerStory
  <2> SUFFICES ASSUME TypeInv, EventInv, NEW a \in Articles
               PROVE  Cardinality(EventsOf(a)) <= 1 + crashes + evictions
    BY DEF OneEventPerStory, EventsOf
  <2>1. Cardinality(EventsOf(a)) \in Nat /\ crashes \in Nat /\ evictions \in Nat
    BY EventCounts, NewsAssumption DEF TypeInv, TypeOK
  <2>2. Cardinality(EventsOf(a)) + Detected(a) <= Forgotten + Seen(a)
    BY DEF EventInv
  <2>3. Detected(a) \in 0..1 /\ Seen(a) \in 0..1
    BY DEF Detected, Seen
  <2> QED BY <2>1, <2>2, <2>3 DEF Forgotten
<1> QED BY <1>3, <1>4, PTL
=============================================================================
