---------------------------- MODULE NewsPipeline ----------------------------
(***************************************************************************)
(* From the feeds to a detected event: the news collector                  *)
(* (src/collectors/news/rss.py), its clusterer (dedup.py), the tables it   *)
(* stores into (src/core/repository.py), and the event detector            *)
(* (src/intelligence/event_detector.py) that the bus hands the news to.    *)
(* The bus is what module Delivery promises, without loss: a queue.        *)
(*                                                                         *)
(* An article is its fingerprint; titles are similar when the articles     *)
(* tell the same story, so a cluster is named by the article whose title   *)
(* its id was made from.  Each poll makes new records of the articles it   *)
(* finds: the clusterer keeps them all, the table only the first.          *)
(***************************************************************************)
EXTENDS Integers, Sequences, FiniteSets, FiniteSetsExt

CONSTANTS
  Articles,
  Story,       \* of each article: the story it tells
  Time,        \* of each article: effective_ts
  Domain,      \* of each article: the domain of its url
  Feed,        \* of each article: the feed that carries it, its domain and its tier
  Official,    \* OFFICIAL_DOMAINS: the tiers of the domains that are listed
  Topics,      \* of each article: its categories, from its words and its feed
  Named,       \* articles whose title names an entity
  Recent,      \* articles younger than six hours when they are delivered
  Doubled,     \* articles that two feeds carry: a poll may find them twice
  SeenLimit,   \* how many ids _seen may hold
  None,
  MaxFaults,   \* bound of the model: transactions that fail
  MaxCrashes   \* bound of the model: restarts

Tiers == 1..5

Category == {"crypto", "politics", "sports", "macro", "economics", "technology", "geopolitics",
             "companies", "science", "entertainment", "weather", "other"}

FinancialCategories ==
  Category \ {"sports", "science", "entertainment", "weather", "other"}

ASSUME NewsAssumption ==
  /\ None \notin Articles /\ IsFiniteSet(Articles)
  /\ Time \in [Articles -> Nat]
  /\ \A a \in Articles : Feed[a].tier \in Tiers /\ Topics[a] \in (SUBSET Category) \ {{}}
  /\ \A d \in DOMAIN Official : Official[d] \in Tiers
  /\ Named \subseteq Articles /\ Recent \subseteq Articles /\ Doubled \subseteq Articles
  /\ SeenLimit \in Nat /\ MaxFaults \in Nat /\ MaxCrashes \in Nat

VARIABLES
  clusters,   \* NewsClusterer._clusters, in the order they were made
  pc,         \* of collect: "idle", "sources", "store", "emit"
  batch,      \* the articles of the records collect holds, in the order of their time
  outbox,     \* positions in batch of the new records still to be announced
  rows,       \* table news
  queue,      \* the bus
  detecting,  \* the event the detector is storing, None when idle
  committed,  \* its row is written, its EVENT_DETECTED not yet sent
  seen,       \* EventDetector._seen
  events,     \* table detected_events
  announced,  \* history: articles this process emitted a NEWS_DETECTED for
  evictions,  \* history: how often _seen was halved
  emitted,    \* history: clusters of the EVENT_DETECTED events, in order
  faults, crashes

collector == <<clusters, pc, batch, outbox>>
detector == <<detecting, committed, seen, evictions>>
vars == <<collector, rows, queue, detector, events, announced, emitted, faults, crashes>>

-----------------------------------------------------------------------------
(* entry_to_record: an article of the feed's own domain has the feed's tier, one the feed
   took from elsewhere that of its domain *)

TierForDomain(d) == IF d \in DOMAIN Official THEN Official[d] ELSE 4

EntryToRecord(a) ==
  [tier |-> IF Domain[a] = Feed[a].domain THEN Feed[a].tier ELSE TierForDomain(Domain[a]),
   categories |-> Topics[a], named |-> a \in Named]

-----------------------------------------------------------------------------
(* NewsClusterer *)

\* The cluster a record belongs to: the first whose head has a similar title
Matching(cs, a) == {i \in DOMAIN cs : Story[cs[i].head] = Story[a]}
ClusterOf(cs, a) == cs[Min(Matching(cs, a))]

\* A record joins the members.  "fresh": the earliest member is a record of the running
\* collect.  min() keeps the first of equals, so the record of a second poll never
\* displaces the first.
Joined(c, a) ==
  LET sooner == Time[a] < Time[c.earliest]
  IN [c EXCEPT !.domains = @ \cup {Domain[a]},
               !.earliest = IF sooner THEN a ELSE @,
               !.fresh = @ \/ sooner]

Alone(a) == [head |-> a, domains |-> {Domain[a]}, earliest |-> a, fresh |-> TRUE]

AssignKeepsFirst(cs, a) ==     \* mutant: the record that made the cluster stays the original
  IF Matching(cs, a) = {} THEN Append(cs, Alone(a))
  ELSE [cs EXCEPT ![Min(Matching(cs, a))].domains = @ \cup {Domain[a]}]

Assign(cs, a) ==
  IF Matching(cs, a) = {} THEN Append(cs, Alone(a))
  ELSE [cs EXCEPT ![Min(Matching(cs, a))] = Joined(@, a)]

\* store: each record in turn, after those of the earlier polls
Clustered(cs, recs) ==
  LET after[i \in 0..Len(recs)] ==
        IF i = 0 THEN [k \in DOMAIN cs |-> [cs[k] EXCEPT !.fresh = FALSE]]
                 ELSE Assign(after[i - 1], recs[i])
  IN after[Len(recs)]

\* is_original of the first record of an article in the running collect
Original(cs, a) == ClusterOf(cs, a).earliest = a /\ ClusterOf(cs, a).fresh

-----------------------------------------------------------------------------
(* RSSNewsCollector.collect, one poll of the news loop *)

\* What the feeds may bring, one that fails nothing: sorted by time, equal times in any order
Polls ==
  {p \in UNION {[1..n -> Articles] : n \in 1..(Cardinality(Articles) + Cardinality(Doubled))} :
    /\ \A i, j \in DOMAIN p : i < j => Time[p[i]] <= Time[p[j]]
    /\ \A a \in Articles :
         Cardinality({i \in DOMAIN p : p[i] = a}) <= IF a \in Doubled THEN 2 ELSE 1}

Collect(found) ==
  /\ pc = "idle"
  /\ batch' = found
  /\ pc' = "sources"
  /\ UNCHANGED <<clusters, outbox, rows, queue, detector, events, announced, emitted, faults,
                 crashes>>

\* The sources are upserted (no one reads them back); then the records are sorted and
\* clustered, all before the transaction that stores them
EnsureSources ==
  /\ pc = "sources"
  /\ clusters' = Clustered(clusters, batch)
  /\ pc' = "store"
  /\ UNCHANGED <<batch, outbox, rows, queue, detector, events, announced, emitted, faults,
                 crashes>>

\* The news of this poll are dropped, and found again by the next
SourcesFail ==
  /\ pc = "sources" /\ faults < MaxFaults
  /\ faults' = faults + 1
  /\ pc' = "idle" /\ batch' = <<>>
  /\ UNCHANGED <<clusters, outbox, rows, queue, detector, events, announced, emitted, crashes>>

\* add_news keeps the rows it has
Stored == {r.art : r \in rows}

\* Of two records of an article the later is a copy of the earlier
FirstOf(i) == \A j \in 1..(i - 1) : batch[j] # batch[i]

News(i) ==
  LET a == batch[i]
  IN [art |-> a, cluster |-> ClusterOf(clusters, a).head,
      original |-> FirstOf(i) /\ Original(clusters, a),
      confirmed |-> Cardinality(ClusterOf(clusters, a).domains) > 1]

\* The first record of an article becomes its row, and every record of it is announced
Storing(new) ==
  /\ pc = "store"
  /\ rows' = rows \cup {News(i) : i \in {j \in new : FirstOf(j)}}
  /\ outbox' = new
  /\ pc' = "emit"
  /\ UNCHANGED <<clusters, batch, queue, detector, events, announced, emitted, faults, crashes>>

StoreAll == Storing(DOMAIN batch)     \* mutant: the stored fingerprints are not looked up

Store == Storing({i \in DOMAIN batch : batch[i] \notin Stored})

\* The transaction is rolled back and collect raises: the clusterer keeps the records
StoreFailed(out) ==
  /\ pc = "store" /\ faults < MaxFaults
  /\ faults' = faults + 1
  /\ outbox' = out
  /\ pc' = IF out = {} THEN "idle" ELSE "emit"
  /\ batch' = IF out = {} THEN <<>> ELSE batch
  /\ UNCHANGED <<clusters, rows, queue, detector, events, announced, emitted, crashes>>

StoreFailsLate == StoreFailed(DOMAIN batch)     \* mutant: emits before the commit

StoreFails == StoreFailed({})

\* The next new record goes to the bus; after the last one collect ends
Emit ==
  /\ pc = "emit"
  /\ IF outbox = {} THEN pc' = "idle" /\ batch' = <<>> /\ UNCHANGED <<queue, outbox, announced>>
     ELSE LET i == Min(outbox)
          IN /\ queue' = Append(queue, News(i))
             /\ announced' = announced \cup {batch[i]}
             /\ outbox' = outbox \ {i} /\ UNCHANGED <<pc, batch>>
  /\ UNCHANGED <<clusters, rows, detector, events, emitted, faults, crashes>>

-----------------------------------------------------------------------------
(* EventDetector *)

Financial(a) == EntryToRecord(a).categories \cap FinancialCategories # {}

\* Confirmed, by its own tier or by another domain
Confirmed(e) == EntryToRecord(e.art).tier = 1 \/ e.confirmed

\* Worth an event without a confirmation
Strong(a) == EntryToRecord(a).tier < 3 \/ EntryToRecord(a).named

\* What on_news lets through whoever confirms it; min_news_tier is tier 4
Eligible(a) == EntryToRecord(a).tier <= 4 /\ a \in Recent /\ Financial(a)

PassesConfirmed(e) ==     \* mutant: a tier or an entity does not make up for a confirmation
  e.original /\ Eligible(e.art) /\ Confirmed(e)

\* on_news: syndicated copies, old or non-financial news and unconfirmed news of low
\* tier that name nobody make no event
Passes(e) == e.original /\ Eligible(e.art) /\ (Confirmed(e) \/ Strong(e.art))

\* Its evidence is the record as it was announced; the id is made of the cluster's
DetectedEvent(e) ==
  [cluster |-> e.cluster,
   evidence |-> [art |-> e.art, tier |-> EntryToRecord(e.art).tier, confirmed |-> Confirmed(e)]]

\* _seen, when it is too full, keeps any half of its limit: it may lose even the new id
Remember(c) ==
  LET all == seen \cup {c}
  IN IF Cardinality(all) <= SeenLimit THEN seen' = all /\ UNCHANGED evictions
     ELSE /\ \E half \in SUBSET all : Cardinality(half) = SeenLimit \div 2 /\ seen' = half
          /\ evictions' = evictions + 1

Handle(known) ==
  /\ queue # <<>> /\ detecting = None
  /\ queue' = Tail(queue)
  /\ LET e == Head(queue)
     IN IF Passes(e) /\ e.cluster \notin known
        THEN detecting' = DetectedEvent(e) /\ Remember(e.cluster) /\ UNCHANGED committed
        ELSE UNCHANGED detector
  /\ UNCHANGED <<collector, rows, events, announced, emitted, faults, crashes>>

HandleAgain == Handle({})     \* mutant: _seen is not asked

OnNews == Handle(seen)

\* upsert_detected_event: a row of the same id is overwritten
Upsert(event) == {r \in events : r.cluster # event.cluster} \cup {event}

\* _persist_and_emit: the row, and after the commit the event
PersistDetected ==
  /\ detecting # None /\ ~committed
  /\ events' = Upsert(detecting)
  /\ committed' = TRUE
  /\ UNCHANGED <<collector, rows, queue, detecting, seen, evictions, announced, emitted, faults,
                 crashes>>

EmitDetected ==
  /\ committed
  /\ emitted' = Append(emitted, detecting.cluster)
  /\ detecting' = None /\ committed' = FALSE
  /\ UNCHANGED <<collector, rows, queue, seen, evictions, events, announced, faults, crashes>>

\* The error goes to the bus, which counts it: the id stays in _seen
PersistFails ==
  /\ detecting # None /\ ~committed /\ faults < MaxFaults
  /\ faults' = faults + 1
  /\ detecting' = None
  /\ UNCHANGED <<collector, rows, queue, committed, seen, evictions, events, announced, emitted,
                 crashes>>

-----------------------------------------------------------------------------
Init ==
  /\ clusters = <<>> /\ pc = "idle" /\ batch = <<>> /\ outbox = {}
  /\ rows = {} /\ queue = <<>> /\ events = {}
  /\ detecting = None /\ committed = FALSE /\ seen = {} /\ evictions = 0
  /\ announced = {} /\ emitted = <<>> /\ faults = 0 /\ crashes = 0

\* The tables survive, clusterer, detector and bus start empty
Restart ==
  /\ crashes < MaxCrashes
  /\ crashes' = crashes + 1
  /\ clusters' = <<>> /\ pc' = "idle" /\ batch' = <<>> /\ outbox' = {}
  /\ queue' = <<>> /\ detecting' = None /\ committed' = FALSE /\ seen' = {}
  /\ announced' = {}
  /\ UNCHANGED <<rows, evictions, events, emitted, faults>>

Next ==
  \/ \E found \in Polls : Collect(found)
  \/ EnsureSources \/ SourcesFail \/ Store \/ StoreFails \/ Emit
  \/ OnNews \/ PersistDetected \/ EmitDetected \/ PersistFails
  \/ Restart

\* What was begun goes on: the database answers and the bus calls its handler.
\* Nothing is said of when or what the feeds publish.
Spec ==
  /\ Init /\ [][Next]_vars
  /\ WF_vars(Store) /\ WF_vars(Emit) /\ WF_vars(OnNews \/ PersistDetected \/ EmitDetected)

-----------------------------------------------------------------------------
(* Properties *)

NewsType == [art : Articles, cluster : Articles, original : BOOLEAN, confirmed : BOOLEAN]

\* The fingerprint is unique in table news, the event id in table detected_events
NewsTable(table) == table \subseteq NewsType /\ \A r, s \in table : r.art = s.art => r = s

ClusterType ==
  [head : Articles, domains : SUBSET {Domain[a] : a \in Articles}, earliest : Articles,
   fresh : BOOLEAN]

EvidenceType == [art : Articles, tier : Tiers, confirmed : BOOLEAN]
EventType == [cluster : Articles, evidence : EvidenceType]

EventTable(table) ==
  table \subseteq EventType /\ \A r, s \in table : r.cluster = s.cluster => r = s

\* The variables keep their types, the tables their unique columns (models.py:311, 446),
\* and there is one cluster a story.
TypeOK ==
  /\ clusters \in Seq(ClusterType)
  /\ \A i, j \in DOMAIN clusters : Story[clusters[i].head] = Story[clusters[j].head] => i = j
  /\ pc \in {"idle", "sources", "store", "emit"}
  /\ batch \in Seq(Articles) /\ outbox \subseteq DOMAIN batch /\ queue \in Seq(NewsType)
  /\ NewsTable(rows) /\ EventTable(events)
  /\ detecting \in EventType \cup {None} /\ seen \subseteq Articles
  /\ committed \in BOOLEAN /\ evictions \in Nat
  /\ announced \subseteq Articles /\ emitted \in Seq(Articles)
  /\ faults \in 0..MaxFaults /\ crashes \in 0..MaxCrashes

\* "Copie sindacate non generano nuovi eventi" (event_detector.py:49): a story makes one
\* EVENT_DETECTED in the life of a process, whatever order its copies come in, even when
\* a copy of earlier date comes later and is an original in its turn.  A restart forgets
\* both the clusters and the events seen, so it may add one, and so may each halving of _seen
\* (event_detector.py:151), which forgets ids in no particular order.
OneEventPerStory ==
  \A a \in Articles :
    Cardinality({i \in DOMAIN emitted : Story[emitted[i]] = Story[a]}) <= 1 + crashes + evictions

\* What was announced is in the table, though the transaction may fail and the process
\* die in the middle; and what is in the table was announced, unless the process died
\* between the commit and the emission (rss.py:80-95): nothing announces it later.  An
\* EVENT_DETECTED has its row too (event_detector.py:153-160).
AnnouncedIsStored ==
  /\ announced \subseteq Stored
  /\ \A i \in DOMAIN emitted : \E r \in events : r.cluster = emitted[i]
  /\ pc = "idle" /\ crashes = 0 => Stored \subseteq announced

\* Among the stored articles of a story one of the earliest is marked original, whatever
\* order and however often they were polled and across restarts, as long as no transaction
\* failed: after a rollback the clusterer holds records the table lacks, and the next poll
\* stores them as copies (rss.py:78-82).
EarliestIsOriginal ==
  faults = 0 =>
    \A r \in rows : \E s \in rows :
      Story[s.art] = Story[r.art] /\ s.original /\ Time[s.art] <= Time[r.art]

\* A strong, eligible article that is the first of its story ends in an event, through
\* the collector, the table, the bus and the detector, if nothing fails on the way.
StoryDetected ==
  \A a \in {x \in Articles : Strong(x) /\ Eligible(x)} :
    (pc = "store" /\ (\E i \in DOMAIN batch : batch[i] = a) /\ Original(clusters, a))
      ~> (faults > 0 \/ crashes > 0 \/ \E r \in events : Story[r.cluster] = Story[a])
=============================================================================
