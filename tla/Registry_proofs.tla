--------------------------- MODULE Registry_proofs ---------------------------
(***************************************************************************)
(* Proofs about the instrument registry, for every universe of seeds,      *)
(* every broker and any number of syncs, loads and restarts.               *)
(***************************************************************************)
EXTENDS Registry, TLAPS

LEMMA UniverseFacts ==
  /\ Len(Universe) \in Nat \ {0}
  /\ \A i \in 1 .. Len(Universe) : Universe[i] \in Seeds
  /\ Seeds # {} /\ Seeds \subseteq Epics
  /\ Terms \in [Seeds -> Nat \ {0}]
  /\ Offers \in [Seeds -> SUBSET Epics]
  /\ None \notin Epics
<1>1. Universe \in Seq(Seeds) /\ Universe # << >>
  BY UniverseAssumption
<1>2. Len(Universe) \in Nat \ {0} /\ \A i \in 1 .. Len(Universe) : Universe[i] \in Seeds
  BY <1>1
<1>3. Seeds # {}
  BY <1>2
<1>4. QED
  BY <1>2, <1>3, UniverseAssumption DEF Epics

\* The keys of an instrument, and whose they can be.
LEMMA KeyFacts ==
  ASSUME NEW s \in Seeds
  PROVE  /\ OwnName[s] \in Names /\ Titles[s] \subseteq Names /\ NamesOf(s) \subseteq Names
         /\ Aliases[s] \in Keys /\ Aliases[s] \notin Epics
         /\ \A r \in Seeds : r # s => Aliases[r] # Aliases[s] /\ Aliases[r] \notin NamesOf(s)
<1>1. OwnName[s] \in Range(OwnName) /\ Aliases[s] \in Range(Aliases)
  BY UniverseAssumption DEF Range
<1>2. Titles[s] \subseteq AllTitles
  BY UniverseAssumption DEF AllTitles, Range
<1>3. QED
  BY <1>1, <1>2, KeysAssumption DEF Names, NamesOf, Keys

LEMMA KeysOfType ==
  ASSUME NEW e \in Epics, NEW instrument \in Instrument
  PROVE  KeysOf(e, instrument) \subseteq Keys
BY KeyFacts DEF KeysOf, Keys, Instrument

\* What add and the replacement make of the table in memory.
LEMMA PutDrop ==
  ASSUME NEW S, NEW f, NEW D, f \in [D -> S], NEW x, NEW v \in S
  PROVE  /\ Put(f, x, v) \in [D \cup {x} -> S]
         /\ \A y \in D \cup {x} : Put(f, x, v)[y] = IF y = x THEN v ELSE f[y]
         /\ Drop(f, x) \in [D \ {x} -> S]
         /\ \A y \in D \ {x} : Drop(f, x)[y] = f[y]
BY DEF Put, Drop

-----------------------------------------------------------------------------
(* Types *)

TypeInv == TypeOK /\ SyncInv

LEMMA SyncFields ==
  ASSUME TypeOK
  PROVE  /\ sync.pc \in {"idle", "pace", "details", "search", "second", "save"}
         /\ sync.at \in 1 .. Len(Universe) + 1
         /\ sync.held \in Instrument \cup {None}
         /\ sync.term \in Nat /\ sync.found \in Epics \cup {None}
         /\ sync.refused \in Nat
BY DEF TypeOK, SyncTypes

LEMMA IdleType == Idle \in SyncTypes /\ Idle.pc = "idle" /\ Idle.refused = 0
BY UniverseFacts DEF Idle, SyncTypes

\* The next seed, or the end of the universe.
LEMMA NextSeedType ==
  ASSUME TypeOK, sync.at \in 1 .. Len(Universe)
  PROVE  /\ NextSeed \in SyncTypes /\ NextSeed.pc = "pace" /\ NextSeed.refused = 0
         /\ \A n \in Nat : [NextSeed EXCEPT !.refused = n] \in SyncTypes
<1>1. NextSeed = [pc |-> "pace", at |-> sync.at + 1, held |-> None, term |-> 0, found |-> None,
                  refused |-> 0]
  <2> DEFINE next == sync.at + 1
  <2>1. NextSeed = [Idle EXCEPT !.pc = "pace", !.at = next]
    BY DEF NextSeed
  <2> HIDE DEF next
  <2>2. NextSeed = [pc |-> "pace", at |-> next, held |-> None, term |-> 0, found |-> None,
                    refused |-> 0]
    BY <2>1 DEF Idle
  <2>3. QED
    BY <2>2 DEF next
<1>2. sync.at + 1 \in 1 .. Len(Universe) + 1
  BY SyncFields, UniverseFacts
<1>3. ASSUME NEW n \in Nat PROVE [NextSeed EXCEPT !.refused = n] \in SyncTypes
  <2>1. [NextSeed EXCEPT !.refused = n]
          = [pc |-> "pace", at |-> sync.at + 1, held |-> None, term |-> 0, found |-> None,
             refused |-> n]
    BY <1>1
  <2>2. QED
    BY <1>2, <2>1 DEF SyncTypes
<1>4. QED
  BY <1>1, <1>2, <1>3 DEF SyncTypes

LEMMA SeedType ==
  ASSUME sync.at \in 1 .. Len(Universe)
  PROVE  Seed \in Seeds
BY UniverseFacts DEF Seed

\* What the broker's details make of an instrument.
LEMMA DetailsType ==
  ASSUME TypeOK, sync.at \in 1 .. Len(Universe), NEW updated \in ApplyIgDetails(sync.held)
  PROVE  /\ updated \in Instrument /\ updated.fetched
         /\ updated.of = IF sync.held = None THEN Seed ELSE sync.held.of
         /\ updated.name \in NamesOf(Seed) \cup {Current(sync.held).name}
<1>1. Seed \in Seeds
  BY SeedType
<1> DEFINE current == Current(sync.held)
<1>2. /\ current \in Instrument
      /\ current.of = IF sync.held = None THEN Seed ELSE sync.held.of
  <2>1. CASE sync.held = None
    BY <1>1, <2>1, KeyFacts DEF Current, SeedToInstrument, Instrument
  <2>2. CASE sync.held # None
    BY <2>2, SyncFields DEF Current
  <2>3. QED
    BY <2>1, <2>2
<1>3. PICK name \in Titles[Seed] \cup {OwnName[Seed], current.name} :
        updated = [current EXCEPT !.fetched = TRUE, !.name = name]
  BY DEF ApplyIgDetails
<1>4. name \in Names
  BY <1>1, <1>2, <1>3, KeyFacts DEF Instrument
<1> HIDE DEF current
<1>5. /\ updated \in Instrument /\ updated.fetched
      /\ updated.of = current.of /\ updated.name = name
  BY <1>2, <1>3, <1>4 DEF Instrument
<1>6. QED
  BY <1>2, <1>3, <1>5 DEF current, NamesOf

\* add keeps the types, from any table of instruments.
LEMMA AddType ==
  ASSUME TypeOK, NEW D, D \subseteq Epics, NEW table \in [D -> Instrument],
         NEW e \in Epics, NEW instrument \in Instrument, Add(table, e, instrument)
  PROVE  /\ DOMAIN byEpic' = D \cup {e} /\ DOMAIN byEpic' \subseteq Epics
         /\ byEpic' \in [DOMAIN byEpic' -> Instrument]
         /\ DOMAIN index' = DOMAIN index \cup KeysOf(e, instrument)
         /\ DOMAIN index' \subseteq Keys /\ index' \in [DOMAIN index' -> Epics]
         /\ lost' \in SUBSET Seeds
<1>1. byEpic' \in [D \cup {e} -> Instrument]
  BY PutDrop DEF Add
<1>2. DOMAIN index' = DOMAIN index \cup KeysOf(e, instrument)
  BY DEF Add
<1>3. DOMAIN index' \subseteq Keys
  BY <1>2, KeysOfType DEF TypeOK
<1>4. index' \in [DOMAIN index' -> Epics]
  BY <1>2 DEF Add, TypeOK
<1>5. lost' \in SUBSET Seeds
  BY DEF Add, TypeOK
<1>6. QED
  BY <1>1, <1>2, <1>3, <1>4, <1>5

\* The registry of a process that has just started.
LEMMA SeedTypes ==
  /\ SeedInstruments \in [Seeds -> Instrument]
  /\ DOMAIN SeedIndex \subseteq Keys /\ SeedIndex \in [DOMAIN SeedIndex -> Seeds]
  /\ Range(Aliases) \subseteq DOMAIN SeedIndex
  /\ \A s \in Seeds : SeedIndex[Aliases[s]] = s
<1>1. \A s \in Seeds : SeedToInstrument(s) \in Instrument
  BY KeyFacts DEF SeedToInstrument, Instrument
<1>2. SeedInstruments \in [Seeds -> Instrument]
  BY <1>1 DEF SeedInstruments
<1>3. DOMAIN SeedIndex = SeedKeys /\ SeedIndex = [k \in SeedKeys |-> SeedIndex[k]]
  BY DEF SeedIndex
<1>4. SeedKeys \subseteq Keys
  BY <1>1, KeysOfType, UniverseFacts DEF SeedKeys
<1>5. ASSUME NEW k \in SeedKeys
      PROVE  SeedIndex[k] \in Seeds /\ k \in KeysOf(SeedIndex[k], SeedToInstrument(SeedIndex[k]))
  <2>1. \E s \in Seeds : k \in KeysOf(s, SeedToInstrument(s))
    BY DEF SeedKeys
  <2>2. SeedIndex[k] = CHOOSE s \in Seeds : k \in KeysOf(s, SeedToInstrument(s))
    BY DEF SeedIndex
  <2>3. QED
    BY <2>1, <2>2
<1>6. ASSUME NEW s \in Seeds PROVE Aliases[s] \in SeedKeys /\ SeedIndex[Aliases[s]] = s
  <2>1. Aliases[s] \in KeysOf(s, SeedToInstrument(s))
    BY DEF KeysOf, SeedToInstrument
  <2>2. Aliases[s] \in SeedKeys
    BY <2>1 DEF SeedKeys
  <2> DEFINE r == SeedIndex[Aliases[s]]
  <2>3. r \in Seeds /\ Aliases[s] \in KeysOf(r, SeedToInstrument(r))
    BY <1>5, <2>2
  <2>4. Aliases[s] \in {r, OwnName[r], Aliases[r]}
    BY <2>3 DEF KeysOf, SeedToInstrument
  <2> HIDE DEF r
  <2>5. r = s
    BY <2>3, <2>4, KeyFacts, UniverseFacts DEF NamesOf
  <2>6. QED
    BY <2>2, <2>5 DEF r
<1>7. Range(Aliases) \subseteq SeedKeys
  BY <1>6, UniverseAssumption DEF Range
<1>8. QED
  BY <1>2, <1>3, <1>4, <1>5, <1>6, <1>7

\* What load_from_db makes of the memory and the index.
LEMMA LoadFacts ==
  ASSUME TypeOK, Load
  PROVE  /\ DOMAIN byEpic' = DOMAIN rows \cup DOMAIN byEpic
         /\ \A e \in DOMAIN byEpic' :
              byEpic'[e] = IF e \in DOMAIN rows THEN rows[e] ELSE byEpic[e]
         /\ index' \in [DOMAIN index' -> Epics]
         /\ DOMAIN index \subseteq DOMAIN index' /\ DOMAIN index' \subseteq Keys
         /\ \A k \in DOMAIN index' :
              \/ \E e \in DOMAIN rows : k \in KeysOf(e, rows[e]) /\ index'[k] = e
              \/ /\ k \in DOMAIN index /\ index'[k] = index[k]
                 /\ \A e \in DOMAIN rows : k \notin KeysOf(e, rows[e])
         /\ \A s \in Seeds \ lost' :
              s \in lost => \E e \in DOMAIN rows : Aliases[s] \in KeysOf(e, rows[e])
         /\ lost' \in SUBSET Seeds
         /\ UNCHANGED <<rows, sync>> /\ loaded'
<1> DEFINE RowsWith(k) == {e \in DOMAIN rows : k \in KeysOf(e, rows[e])}
           written     == UNION {KeysOf(e, rows[e]) : e \in DOMAIN rows}
           shared      == {k \in written : \E d, e \in RowsWith(k) : d # e}
<1>1. /\ byEpic' = InstrumentsOf(rows) /\ loaded' = TRUE
      /\ lost' = {s \in lost : Aliases[s] \notin written}
      /\ UNCHANGED <<rows, sync>>
  BY DEF Load
<1>2. PICK last \in [shared -> DOMAIN rows] :
        /\ \A k \in shared : last[k] \in RowsWith(k)
        /\ index' = [k \in DOMAIN index \cup written |->
                       IF k \in shared THEN last[k]
                       ELSE IF k \in written THEN CHOOSE e \in DOMAIN rows : e \in RowsWith(k)
                       ELSE index[k]]
  BY DEF Load
<1>3. written \subseteq Keys
  BY KeysOfType DEF TypeOK
<1>4. \A k \in written : \E e \in DOMAIN rows : e \in RowsWith(k)
  OBVIOUS
<1>5. ASSUME NEW k \in written PROVE index'[k] \in RowsWith(k)
  <2>1. CASE k \in shared
    BY <1>2, <2>1
  <2>2. CASE k \notin shared
    BY <1>2, <1>4, <2>2
  <2>3. QED
    BY <2>1, <2>2
<1>6. \A k \in DOMAIN index \ written : index'[k] = index[k]
  BY <1>2
<1>7. DOMAIN index' = DOMAIN index \cup written /\ index' = [k \in DOMAIN index' |-> index'[k]]
  BY <1>2
<1>8. /\ DOMAIN byEpic' = DOMAIN rows \cup DOMAIN byEpic
      /\ \A e \in DOMAIN byEpic' :
           byEpic'[e] = IF e \in DOMAIN rows THEN rows[e] ELSE byEpic[e]
  BY <1>1 DEF InstrumentsOf, Over
<1>9. \A k \in DOMAIN index' : index'[k] \in Epics
  BY <1>5, <1>6, <1>7 DEF TypeOK
<1>10. \A k \in DOMAIN index' :
         \/ \E e \in DOMAIN rows : k \in KeysOf(e, rows[e]) /\ index'[k] = e
         \/ /\ k \in DOMAIN index /\ index'[k] = index[k]
            /\ \A e \in DOMAIN rows : k \notin KeysOf(e, rows[e])
  BY <1>5, <1>6, <1>7
<1>11. lost' \in SUBSET Seeds
  BY <1>1 DEF TypeOK
<1>12. \A s \in Seeds \ lost' :
         s \in lost => \E e \in DOMAIN rows : Aliases[s] \in KeysOf(e, rows[e])
  BY <1>1
<1>13. DOMAIN index \subseteq DOMAIN index' /\ DOMAIN index' \subseteq Keys
  BY <1>3, <1>7 DEF TypeOK
<1>14. index' \in [DOMAIN index' -> Epics]
  BY <1>7, <1>9
<1>15. QED
  BY <1>1, <1>8, <1>10, <1>11, <1>12, <1>13, <1>14

LEMMA TypeInit == Init => TypeInv
<1> SUFFICES ASSUME Init PROVE TypeInv
  OBVIOUS
<1>1. rows \in [{} -> Instrument] /\ DOMAIN rows = {}
  BY DEF Init
<1>2. sync \in SyncTypes /\ sync.pc = "idle" /\ loaded \in BOOLEAN /\ lost \in SUBSET Seeds
  BY IdleType DEF Init
<1>3. byEpic = SeedInstruments /\ index = SeedIndex
  BY DEF Init
<1>4. QED
  BY <1>1, <1>2, <1>3, SeedTypes, UniverseFacts DEF TypeInv, TypeOK, SyncInv, At

\* The loop is at the end of the universe, or asks about seed i, holding what is in memory.
NextAsked(i) ==
  sync' = IF i > Len(Universe)
          THEN [sync EXCEPT !.pc = "save"]
          ELSE [sync EXCEPT !.pc = "details", !.at = i, !.held =
                  IF Universe[i] \in DOMAIN byEpic THEN byEpic[Universe[i]] ELSE None]

LEMMA AskFacts == Ask => \E i \in sync.at .. Len(Universe) + 1 : NextAsked(i)
BY DEF Ask, NextAsked

LEMMA AskType ==
  ASSUME TypeOK, NEW i \in sync.at .. Len(Universe) + 1, NextAsked(i)
  PROVE  /\ sync' \in SyncTypes /\ sync'.refused = sync.refused
         /\ i > Len(Universe) => sync'.pc = "save"
         /\ i <= Len(Universe) =>
              /\ sync'.pc = "details" /\ sync'.at = i /\ i \in 1 .. Len(Universe)
              /\ sync'.held = IF Universe[i] \in DOMAIN byEpic THEN byEpic[Universe[i]] ELSE None
         /\ sync'.pc \in {"save", "details"}
         /\ sync'.pc = "details" => sync'.at \in 1 .. Len(Universe)
<1>1. i \in 1 .. Len(Universe) + 1
  BY SyncFields, UniverseFacts
<1>2. CASE i > Len(Universe)
  <2>1. sync' = [sync EXCEPT !.pc = "save"]
    BY <1>2 DEF NextAsked
  <2>2. sync' \in SyncTypes /\ sync'.refused = sync.refused /\ sync'.pc = "save"
    BY <2>1 DEF TypeOK, SyncTypes
  <2>3. ~ (i <= Len(Universe))
    BY <1>1, <1>2, UniverseFacts
  <2>4. QED
    BY <1>2, <2>2, <2>3
<1>3. CASE ~ (i > Len(Universe))
  <2> DEFINE held == IF Universe[i] \in DOMAIN byEpic THEN byEpic[Universe[i]] ELSE None
  <2>1. sync' = [sync EXCEPT !.pc = "details", !.at = i, !.held = held]
    BY <1>3 DEF NextAsked
  <2>2. held \in Instrument \cup {None} /\ i \in 1 .. Len(Universe)
    BY <1>1, <1>3, UniverseFacts DEF TypeOK
  <2> HIDE DEF held
  <2>3. /\ sync' \in SyncTypes /\ sync'.refused = sync.refused
        /\ sync'.pc = "details" /\ sync'.at = i /\ sync'.held = held
    BY <1>1, <2>1, <2>2 DEF TypeOK, SyncTypes
  <2>4. QED
    BY <1>3, <2>2, <2>3 DEF held
<1>4. QED
  BY <1>2, <1>3

LEMMA SaveFacts ==
  ASSUME TypeOK, SaveToDb
  PROVE  /\ DOMAIN rows' = DOMAIN byEpic \cup DOMAIN rows
         /\ \A e \in DOMAIN rows' : rows'[e] = IF e \in DOMAIN byEpic THEN byEpic[e] ELSE rows[e]
         /\ rows' \in [DOMAIN rows' -> Instrument]
         /\ UNCHANGED <<byEpic, index, loaded, lost>> /\ sync' = Idle
<1>1. rows' = Over(byEpic, rows)
  BY DEF SaveToDb
<1>2. QED
  BY <1>1 DEF SaveToDb, TypeOK, Over

LEMMA TypeStep == TypeInv /\ [Next]_vars => TypeInv'
<1> SUFFICES ASSUME TypeInv, [Next]_vars PROVE TypeInv'
  OBVIOUS
<1>0. TypeOK /\ SyncInv
  BY DEF TypeInv
<1>1. CASE StartSync
  <2>1. sync' \in SyncTypes /\ sync'.pc = "pace"
    <3>1. sync' = [pc |-> "pace", at |-> 1, held |-> None, term |-> 0, found |-> None,
                   refused |-> 0]
      BY <1>1 DEF StartSync, Idle
    <3>2. QED
      BY <3>1, UniverseFacts DEF SyncTypes
  <2>2. QED
    BY <1>0, <1>1, <2>1 DEF StartSync, TypeInv, TypeOK, SyncInv, At
<1>2. CASE Ask
  <2>1. PICK i \in sync.at .. Len(Universe) + 1 : NextAsked(i)
    BY <1>2, AskFacts
  <2>2. sync' \in SyncTypes /\ sync'.pc \in {"save", "details"}
        /\ (sync'.pc = "details" => sync'.at \in 1 .. Len(Universe))
    BY <1>0, <2>1, AskType
  <2>3. QED
    BY <1>0, <1>2, <2>2 DEF Ask, TypeInv, TypeOK, SyncInv, At
<1>3. CASE Details
  <2>1. sync.at \in 1 .. Len(Universe)
    BY <1>0, <1>3 DEF Details, At, SyncInv
  <2>2. /\ DOMAIN byEpic' \subseteq Epics /\ byEpic' \in [DOMAIN byEpic' -> Instrument]
        /\ DOMAIN index \subseteq DOMAIN index'
        /\ DOMAIN index' \subseteq Keys /\ index' \in [DOMAIN index' -> Epics]
        /\ lost' \in SUBSET Seeds
    <3>1. PICK updated \in ApplyIgDetails(sync.held) : Add(byEpic, Seed, updated)
      BY <1>3 DEF Details
    <3>2. Seed \in Epics /\ updated \in Instrument
      BY <1>0, <2>1, SeedType, DetailsType, UniverseFacts
    <3>3. DOMAIN byEpic \subseteq Epics /\ byEpic \in [DOMAIN byEpic -> Instrument]
      BY <1>0 DEF TypeOK
    <3>4. QED
      BY <1>0, <3>1, <3>2, <3>3, AddType
  <2>3. sync' \in SyncTypes /\ sync'.pc = "pace"
    BY <1>0, <1>3, <2>1, NextSeedType DEF Details
  <2>4. QED
    BY <1>0, <1>3, <2>1, <2>2, <2>3 DEF Details, TypeInv, TypeOK, SyncInv, At
<1>4. CASE NoDetails
  <2>1. sync.at \in 1 .. Len(Universe)
    BY <1>0, <1>4 DEF NoDetails, At, SyncInv
  <2>2. /\ sync' \in SyncTypes /\ sync'.pc = "search" /\ sync'.term = 1 /\ sync'.at = sync.at
    BY <1>0, <1>4, SyncFields DEF NoDetails, SyncTypes, TypeOK
  <2>3. 1 \in 1 .. Terms[Seed]
    BY <1>0, <2>1, SeedType, UniverseFacts
  <2>4. QED
    BY <1>0, <1>4, <2>1, <2>2, <2>3 DEF NoDetails, TypeInv, TypeOK, SyncInv, At, Seed
<1>5. CASE Found
  <2>1. sync.at \in 1 .. Len(Universe)
    BY <1>0, <1>5 DEF Found, At, SyncInv
  <2>2. PICK e \in Offers[Seed] : sync' = [sync EXCEPT !.pc = "second", !.found = e, !.refused = 0]
    BY <1>5 DEF Found
  <2>3. e \in Epics
    BY <1>0, <2>1, SeedType, UniverseFacts
  <2>4. /\ sync' \in SyncTypes /\ sync'.pc = "second" /\ sync'.found = e /\ sync'.at = sync.at
    BY <1>0, <2>2, <2>3, SyncFields DEF SyncTypes, TypeOK
  <2>5. QED
    BY <1>0, <1>5, <2>1, <2>2, <2>4 DEF Found, TypeInv, TypeOK, SyncInv, At, Seed
<1>6. CASE NextTerm
  <2>1. sync.at \in 1 .. Len(Universe)
    BY <1>0, <1>6 DEF NextTerm, At, SyncInv
  <2>2. PICK n \in {0, sync.refused + 1} : sync' = [sync EXCEPT !.term = @ + 1, !.refused = n]
    BY <1>6 DEF NextTerm
  <2>3. n \in Nat /\ sync.term + 1 \in Nat
    BY <1>0, SyncFields
  <2>4. /\ sync' \in SyncTypes /\ sync'.pc = "search" /\ sync'.term = sync.term + 1
        /\ sync'.at = sync.at
    BY <1>0, <1>6, <2>2, <2>3, SyncFields DEF NextTerm, At, SyncTypes, TypeOK
  <2>5. sync.term + 1 \in 1 .. Terms[Seed]
    BY <1>0, <1>6, <2>1, SeedType, UniverseFacts, SyncFields DEF NextTerm
  <2>6. QED
    BY <1>0, <1>6, <2>1, <2>4, <2>5 DEF NextTerm, TypeInv, TypeOK, SyncInv, At, Seed
<1>7. CASE NotFound
  <2>1. sync.at \in 1 .. Len(Universe)
    BY <1>0, <1>7 DEF NotFound, At, SyncInv
  <2>2. sync' \in SyncTypes /\ sync'.pc = "pace"
    <3>1. sync.refused + 1 \in Nat
      BY <1>0, SyncFields
    <3>2. CASE sync' = NextSeed
      BY <1>0, <2>1, <3>2, NextSeedType
    <3>3. CASE sync' = [NextSeed EXCEPT !.refused = sync.refused + 1]
      <4>1. sync'.pc = "pace"
        BY <3>3 DEF NextSeed, Idle
      <4>2. QED
        BY <1>0, <2>1, <3>1, <3>3, <4>1, NextSeedType
    <3>4. QED
      BY <1>7, <3>2, <3>3 DEF NotFound
  <2>3. QED
    BY <1>0, <1>7, <2>1, <2>2 DEF NotFound, TypeInv, TypeOK, SyncInv, At
<1>8. CASE Replace
  <2>1. sync.at \in 1 .. Len(Universe) /\ sync.found \in Offers[Seed]
    BY <1>0, <1>8 DEF Replace, At, SyncInv
  <2>2. /\ DOMAIN byEpic' \subseteq Epics /\ byEpic' \in [DOMAIN byEpic' -> Instrument]
        /\ DOMAIN index \subseteq DOMAIN index'
        /\ DOMAIN index' \subseteq Keys /\ index' \in [DOMAIN index' -> Epics]
        /\ lost' \in SUBSET Seeds
    <3>1. PICK updated \in ApplyIgDetails(sync.held) : Add(Drop(byEpic, Seed), sync.found, updated)
      BY <1>8 DEF Replace
    <3>2. sync.found \in Epics /\ updated \in Instrument
      BY <1>0, <2>1, SeedType, DetailsType, UniverseFacts
    <3>3. /\ DOMAIN byEpic \ {Seed} \subseteq Epics
          /\ Drop(byEpic, Seed) \in [DOMAIN byEpic \ {Seed} -> Instrument]
      BY <1>0 DEF TypeOK, Drop
    <3>4. QED
      BY <1>0, <3>1, <3>2, <3>3, AddType
  <2>3. sync' \in SyncTypes /\ sync'.pc = "pace"
    BY <1>0, <1>8, <2>1, NextSeedType DEF Replace
  <2>4. QED
    BY <1>0, <1>8, <2>1, <2>2, <2>3 DEF Replace, TypeInv, TypeOK, SyncInv, At
<1>9. CASE Missing
  <2>1. sync.at \in 1 .. Len(Universe)
    BY <1>0, <1>9 DEF Missing, At, SyncInv
  <2>2. sync' \in SyncTypes /\ sync'.pc = "pace"
    BY <1>0, <1>9, <2>1, NextSeedType DEF Missing
  <2>3. QED
    BY <1>0, <1>9, <2>1, <2>2 DEF Missing, TypeInv, TypeOK, SyncInv, At
<1>10. CASE Refused
  <2>1. sync' \in SyncTypes /\ sync'.pc = "save"
    <3>1. sync.refused + 1 \in Nat
      BY <1>0, SyncFields
    <3>2. sync' = [sync EXCEPT !.pc = "save", !.refused = sync.refused + 1]
      BY <1>10 DEF Refused
    <3>3. QED
      BY <1>0, <3>1, <3>2 DEF SyncTypes, TypeOK
  <2>2. QED
    BY <1>0, <1>10, <2>1 DEF Refused, TypeInv, TypeOK, SyncInv, At
<1>11. CASE SaveToDb
  <2>1. DOMAIN rows' \subseteq Epics /\ rows' \in [DOMAIN rows' -> Instrument]
    BY <1>0, <1>11, SaveFacts DEF TypeOK
  <2>2. QED
    BY <1>0, <1>11, <2>1, IdleType DEF SaveToDb, TypeInv, TypeOK, SyncInv, At
<1>12. CASE SaveFails
  BY <1>0, <1>12, IdleType DEF SaveFails, TypeInv, TypeOK, SyncInv, At
<1>13. CASE Load
  <2>1. /\ DOMAIN byEpic' \subseteq Epics /\ byEpic' = [e \in DOMAIN byEpic' |-> byEpic'[e]]
        /\ \A e \in DOMAIN byEpic' : byEpic'[e] \in Instrument
    <3>1. byEpic' = [e \in DOMAIN byEpic' |-> byEpic'[e]]
      BY <1>13 DEF Load, InstrumentsOf, Over
    <3>2. QED
      BY <1>0, <1>13, <3>1, LoadFacts DEF TypeOK
  <2>2. byEpic' \in [DOMAIN byEpic' -> Instrument]
    BY <2>1
  <2>3. /\ index' \in [DOMAIN index' -> Epics] /\ DOMAIN index' \subseteq Keys
        /\ DOMAIN index \subseteq DOMAIN index' /\ lost' \in SUBSET Seeds
        /\ UNCHANGED <<rows, sync>> /\ loaded' \in BOOLEAN
    BY <1>0, <1>13, LoadFacts DEF Load
  <2>4. QED
    BY <1>0, <2>1, <2>2, <2>3 DEF TypeInv, TypeOK, SyncInv, At, Seed
<1>14. CASE Restart
  <2>1. /\ byEpic' = SeedInstruments /\ index' = SeedIndex /\ sync' = Idle
        /\ lost' = {} /\ loaded' = FALSE /\ rows' = rows
    BY <1>14 DEF Restart
  <2>2. QED
    BY <1>0, <2>1, SeedTypes, IdleType, UniverseFacts DEF TypeInv, TypeOK, SyncInv, At
<1>15. CASE Vanish
  <2>1. sync.at \in 1 .. Len(Universe)
    BY <1>0, <1>15 DEF Vanish, At, SyncInv
  <2>2. DOMAIN byEpic' \subseteq Epics /\ byEpic' \in [DOMAIN byEpic' -> Instrument]
    BY <1>0, <1>15 DEF Vanish, Drop, TypeOK
  <2>3. sync' \in SyncTypes /\ sync'.pc = "pace" /\ lost' \in SUBSET Seeds
    BY <1>0, <1>15, <2>1, NextSeedType, SeedType DEF Vanish, TypeOK
  <2>4. QED
    BY <1>0, <1>15, <2>2, <2>3 DEF Vanish, TypeInv, TypeOK, SyncInv, At
<1>16. CASE UNCHANGED vars
  BY <1>0, <1>16 DEF vars, TypeInv, TypeOK, SyncInv, At, Seed
<1>17. QED
  BY <1>1, <1>2, <1>3, <1>4, <1>5, <1>6, <1>7, <1>8, <1>9, <1>10, <1>11, <1>12, <1>13, <1>14,
     <1>15, <1>16 DEF Next, Sync

\* The variables keep their types, in particular a search uses no more terms than its
\* seed has, for every universe and every broker.
THEOREM RegistryTypeCorrect == Spec => []TypeOK
<1>1. Spec => []TypeInv
  BY TypeInit, TypeStep, PTL DEF Spec
<1>2. TypeInv => TypeOK
  BY DEF TypeInv
<1>3. QED
  BY <1>1, <1>2, PTL

-----------------------------------------------------------------------------
(* Names *)

\* The steps of a sync that only look.
Looks == StartSync \/ Ask \/ NoDetails \/ Found \/ NextTerm \/ NotFound \/ Missing \/ Refused

\* The two halves of ResolveAnswers, and what holds of an instrument in the hands of a sync.
Answers == \A s \in Seeds \ lost : index[Aliases[s]] \in DOMAIN byEpic
Leads == \A k \in DOMAIN index : index[k] \in DOMAIN byEpic \cup Seeds
HeldIsOwn == sync.pc \in {"details", "search", "second"} /\ sync.held # None =>
  sync.held.of = Seed /\ WellNamed(sync.held)

LEMMA ResolveParts == ResolveAnswers <=> (OwnOffers => Answers) /\ Leads
BY DEF ResolveAnswers, Answers, Leads, Range

LEMMA ResolvePartsPrime == ResolveAnswers' <=> (OwnOffers => Answers') /\ Leads'
BY DEF ResolveAnswers, Answers, Leads, Range, OwnOffers

\* The registry of a process that has just started.
LEMMA FreshNames ==
  ASSUME byEpic = SeedInstruments, index = SeedIndex, sync = Idle, lost = {}
  PROVE  /\ \A e \in DOMAIN byEpic : byEpic[e].of = e /\ WellNamed(byEpic[e])
         /\ \A s \in Seeds : index[Aliases[s]] = s
         /\ HeldIsOwn /\ Answers /\ Leads
<1>1. DOMAIN byEpic = Seeds
  BY DEF SeedInstruments
<1>2. \A e \in Seeds : byEpic[e].of = e /\ WellNamed(byEpic[e])
  BY DEF SeedInstruments, SeedToInstrument, WellNamed, NamesOf
<1>3. \A s \in Seeds : index[Aliases[s]] = s
  BY SeedTypes
<1>4. Leads
  BY <1>1, SeedTypes DEF Leads
<1>5. Answers
  BY <1>1, <1>3 DEF Answers
<1>6. HeldIsOwn
  BY IdleType DEF HeldIsOwn
<1>7. QED
  BY <1>1, <1>2, <1>3, <1>4, <1>5, <1>6

LEMMA NamesInit == Init => OwnInv /\ ResolveAnswers
<1> SUFFICES ASSUME Init PROVE OwnInv /\ ResolveAnswers
  OBVIOUS
<1>1. byEpic = SeedInstruments /\ index = SeedIndex /\ sync = Idle /\ lost = {} /\ DOMAIN rows = {}
  BY DEF Init
<1>2. QED
  BY <1>1, FreshNames, ResolveParts DEF OwnInv, HeldIsOwn

\* A look changes the sync only, and what it holds it has just read under the seed's EPIC.
LEMMA LooksKeepNames ==
  ASSUME TypeInv, OwnInv, ResolveAnswers, Looks
  PROVE  OwnInv' /\ ResolveAnswers'
<1>0. TypeOK /\ SyncInv
  BY DEF TypeInv
<1>1. UNCHANGED <<byEpic, index, rows, lost>>
  BY DEF Looks, StartSync, Ask, NoDetails, Found, NextTerm, NotFound, Missing, Refused
<1>2. ASSUME OwnOffers PROVE HeldIsOwn'
  <2>1. CASE Ask
    <3>1. PICK i \in sync.at .. Len(Universe) + 1 : NextAsked(i)
      BY <2>1, AskFacts
    <3>2. CASE i > Len(Universe)
      BY <1>0, <3>1, <3>2, AskType DEF HeldIsOwn
    <3>3. CASE i <= Len(Universe)
      <4>1. /\ sync'.at = i /\ i \in 1 .. Len(Universe)
            /\ sync'.held = IF Universe[i] \in DOMAIN byEpic THEN byEpic[Universe[i]] ELSE None
        BY <1>0, <3>1, <3>3, AskType
      <4>2. Universe[i] \in Seeds
        BY <4>1, UniverseFacts
      <4>3. QED
        BY <1>2, <4>1, <4>2 DEF OwnInv, HeldIsOwn, Seed, WellNamed
    <3>4. i \in Int /\ Len(Universe) \in Int
      BY <1>0, SyncFields, UniverseFacts
    <3>5. QED
      BY <3>2, <3>3, <3>4
  <2>2. CASE NoDetails \/ Found \/ NextTerm
    <3>1. sync.pc \in {"details", "search", "second"}
      BY <2>2 DEF NoDetails, Found, NextTerm, At
    <3>2. sync'.at = sync.at /\ sync'.held = sync.held
      BY <1>0, <2>2 DEF NoDetails, Found, NextTerm, TypeOK, SyncTypes
    <3>3. QED
      BY <1>2, <3>1, <3>2 DEF OwnInv, HeldIsOwn, Seed, WellNamed
  <2>3. CASE StartSync \/ NotFound \/ Missing \/ Refused
    <3>1. sync'.pc \in {"pace", "save"}
      BY <1>0, <2>3 DEF StartSync, NotFound, Missing, Refused, NextSeed, Idle, TypeOK, SyncTypes
    <3>2. QED
      BY <3>1 DEF HeldIsOwn
  <2>4. QED
    BY <2>1, <2>2, <2>3 DEF Looks
<1>3. ResolveAnswers'
  BY <1>1 DEF ResolveAnswers
<1>4. OwnInv'
  BY <1>1, <1>2 DEF OwnInv, HeldIsOwn, WellNamed
<1>5. QED
  BY <1>3, <1>4

\* The broker's details keep an instrument its seed's.
LEMMA DetailsOwn ==
  ASSUME TypeOK, HeldIsOwn, sync.at \in 1 .. Len(Universe), sync.pc \in {"details", "second"},
         NEW updated \in ApplyIgDetails(sync.held)
  PROVE  updated.of = Seed /\ WellNamed(updated) /\ updated.name \in NamesOf(Seed)
<1>1. /\ updated.of = IF sync.held = None THEN Seed ELSE sync.held.of
      /\ updated.name \in NamesOf(Seed) \cup {Current(sync.held).name}
  BY DetailsType
<1>2. updated.of = Seed
  BY <1>1 DEF HeldIsOwn
<1>3. Current(sync.held).name \in NamesOf(Seed)
  BY DEF Current, SeedToInstrument, HeldIsOwn, WellNamed, NamesOf
<1>4. QED
  BY <1>1, <1>2, <1>3 DEF WellNamed

\* add leaves no key with an EPIC that is neither in memory nor a seed's.
LEMMA AddKeepsLeads ==
  ASSUME TypeInv, Leads, sync.at \in 1 .. Len(Universe),
         NEW D \in {DOMAIN byEpic, DOMAIN byEpic \ {Seed}},
         NEW table \in [D -> Instrument],
         NEW e \in Epics, NEW updated \in Instrument, Add(table, e, updated)
  PROVE  Leads'
<1>1. DOMAIN byEpic' = D \cup {e} /\ Seed \in Seeds
  BY SeedType DEF Add, Put
<1>2. \A k \in DOMAIN index' : index'[k] = e \/ (k \in DOMAIN index /\ index'[k] = index[k])
  BY DEF Add
<1>3. QED
  BY <1>1, <1>2 DEF Leads

\* An instrument that is added under its own EPIC or the broker's leaves its seed's aliases
\* with it, and those of the others where they were.
LEMMA AddKeepsNames ==
  ASSUME TypeInv, OwnInv, Answers, OwnOffers, sync.at \in 1 .. Len(Universe),
         sync.pc \in {"details", "second"},
         NEW D \in {DOMAIN byEpic, DOMAIN byEpic \ {Seed}},
         NEW table \in [D -> Instrument], \A e \in D : table[e] = byEpic[e],
         NEW e \in Epics, e \in Seeds => e = Seed,
         NEW updated \in ApplyIgDetails(sync.held), Add(table, e, updated)
  PROVE  /\ \A x \in Seeds \cap DOMAIN byEpic' : byEpic'[x].of = x
         /\ \A x \in DOMAIN byEpic' : WellNamed(byEpic'[x])
         /\ \A s \in Seeds : index'[Aliases[s]] \in Seeds => index'[Aliases[s]] = s
         /\ Answers'
<1>0. TypeOK /\ SyncInv /\ HeldIsOwn
  BY DEF TypeInv, OwnInv, HeldIsOwn
<1>1. /\ Seed \in Seeds /\ updated.of = Seed
      /\ WellNamed(updated) /\ updated.name \in NamesOf(Seed)
  BY <1>0, SeedType, DetailsOwn
<1>2. /\ DOMAIN byEpic' = D \cup {e}
      /\ \A x \in D \cup {e} : byEpic'[x] = IF x = e THEN updated ELSE byEpic[x]
  BY DEF Add, Put
<1>3. \A s \in Seeds : index'[Aliases[s]] = IF s = Seed THEN e ELSE index[Aliases[s]]
  <2>1. \A k \in DOMAIN index \cup KeysOf(e, updated) :
          index'[k] = IF k \in KeysOf(e, updated) THEN e ELSE index[k]
    BY DEF Add
  <2>2. KeysOf(e, updated) = {e, updated.name, Aliases[Seed]}
    BY <1>1 DEF KeysOf
  <2>3. \A s \in Seeds : Aliases[s] \in DOMAIN index
    BY <1>0, UniverseAssumption DEF SyncInv, Range
  <2>4. \A s \in Seeds : Aliases[s] \in KeysOf(e, updated) <=> s = Seed
    BY <1>1, <2>2, KeyFacts
  <2>5. QED
    BY <2>1, <2>3, <2>4
<1>4. lost' = lost \ {Seed}
  BY <1>1 DEF Add
<1>5. \A x \in Seeds \cap DOMAIN byEpic' : byEpic'[x].of = x
  BY <1>1, <1>2 DEF OwnInv
<1>6. \A x \in DOMAIN byEpic' : WellNamed(byEpic'[x])
  BY <1>1, <1>2 DEF OwnInv
<1>7. \A s \in Seeds : index'[Aliases[s]] \in Seeds => index'[Aliases[s]] = s
  BY <1>3 DEF OwnInv
<1>8. Answers'
  <2> SUFFICES ASSUME NEW s \in Seeds \ lost' PROVE index'[Aliases[s]] \in DOMAIN byEpic'
    BY DEF Answers
  <2>1. CASE s = Seed
    BY <1>2, <1>3, <2>1
  <2>2. CASE s # Seed
    <3>1. index[Aliases[s]] \in DOMAIN byEpic /\ index'[Aliases[s]] = index[Aliases[s]]
      BY <1>3, <1>4, <2>2 DEF Answers
    <3>2. index[Aliases[s]] # Seed
      BY <1>1, <2>2 DEF OwnInv
    <3>3. QED
      BY <1>2, <3>1, <3>2
  <2>3. QED
    BY <2>1, <2>2
<1>9. QED
  BY <1>5, <1>6, <1>7, <1>8

\* The rest of OwnInv after a step that leaves the rows alone and holds nothing.
LEMMA OwnFromParts ==
  ASSUME OwnInv, rows' = rows, sync'.pc \in {"idle", "pace"},
         OwnOffers => /\ \A x \in Seeds \cap DOMAIN byEpic' : byEpic'[x].of = x
                      /\ \A x \in DOMAIN byEpic' : WellNamed(byEpic'[x])
                      /\ \A s \in Seeds : index'[Aliases[s]] \in Seeds => index'[Aliases[s]] = s
  PROVE  OwnInv'
BY DEF OwnInv, OwnOffers, WellNamed

LEMMA NamesStep ==
  ASSUME TypeInv, TypeInv', OwnInv, ResolveAnswers, [Next]_vars
  PROVE  OwnInv' /\ ResolveAnswers'
<1>0. TypeOK /\ SyncInv /\ (OwnOffers => Answers) /\ Leads
  BY ResolveParts DEF TypeInv
<1>1. CASE Details
  <2>1. sync.at \in 1 .. Len(Universe) /\ sync.pc = "details"
    BY <1>0, <1>1 DEF Details, At, SyncInv
  <2>2. Seed \in Epics /\ byEpic \in [DOMAIN byEpic -> Instrument]
    BY <1>0, <2>1, SeedType, UniverseFacts DEF TypeOK
  <2>3. PICK updated \in ApplyIgDetails(sync.held) : Add(byEpic, Seed, updated)
    BY <1>1 DEF Details
  <2>4. updated \in Instrument
    BY <1>0, <2>1, DetailsType
  <2>5. Leads'
    BY <1>0, <2>1, <2>2, <2>3, <2>4, AddKeepsLeads
  <2>6. OwnOffers => /\ \A x \in Seeds \cap DOMAIN byEpic' : byEpic'[x].of = x
                     /\ \A x \in DOMAIN byEpic' : WellNamed(byEpic'[x])
                     /\ \A s \in Seeds : index'[Aliases[s]] \in Seeds => index'[Aliases[s]] = s
                     /\ Answers'
    BY <1>0, <2>1, <2>2, <2>3, AddKeepsNames
  <2>7. sync'.pc = "pace" /\ rows' = rows
    BY <1>0, <1>1, <2>1, NextSeedType DEF Details
  <2>8. QED
    BY <2>5, <2>6, <2>7, OwnFromParts, ResolvePartsPrime
<1>2. CASE Replace
  <2>1. sync.at \in 1 .. Len(Universe) /\ sync.pc = "second" /\ sync.found \in Offers[Seed]
    BY <1>0, <1>2 DEF Replace, At, SyncInv
  <2>2. Seed \in Seeds /\ sync.found \in Epics
    BY <1>0, <2>1, SeedType, UniverseFacts
  <2>3. OwnOffers => (sync.found \in Seeds => sync.found = Seed)
    BY <2>1, <2>2 DEF OwnOffers
  <2> DEFINE D == DOMAIN byEpic \ {Seed}
             table == Drop(byEpic, Seed)
  <2>4. table \in [D -> Instrument] /\ \A x \in D : table[x] = byEpic[x]
    BY <1>0 DEF TypeOK, Drop
  <2>5. PICK updated \in ApplyIgDetails(sync.held) : Add(table, sync.found, updated)
    BY <1>2 DEF Replace
  <2>6. updated \in Instrument /\ D \in {DOMAIN byEpic, DOMAIN byEpic \ {Seed}}
    BY <1>0, <2>1, DetailsType
  <2> HIDE DEF D, table
  <2>7. Leads'
    BY <1>0, <2>1, <2>2, <2>4, <2>5, <2>6, AddKeepsLeads
  <2>8. OwnOffers => /\ \A x \in Seeds \cap DOMAIN byEpic' : byEpic'[x].of = x
                     /\ \A x \in DOMAIN byEpic' : WellNamed(byEpic'[x])
                     /\ \A s \in Seeds : index'[Aliases[s]] \in Seeds => index'[Aliases[s]] = s
                     /\ Answers'
    BY <1>0, <2>1, <2>2, <2>3, <2>4, <2>5, <2>6, AddKeepsNames
  <2>9. sync'.pc = "pace" /\ rows' = rows
    BY <1>0, <1>2, <2>1, NextSeedType DEF Replace
  <2>10. QED
    BY <2>7, <2>8, <2>9, OwnFromParts, ResolvePartsPrime
<1>3. CASE Vanish
  <2>1. sync.at \in 1 .. Len(Universe)
    BY <1>0, <1>3 DEF Vanish, At, SyncInv
  <2>2. /\ Seed \in Seeds
        /\ DOMAIN byEpic' = DOMAIN byEpic \ {Seed}
        /\ \A x \in DOMAIN byEpic' : byEpic'[x] = byEpic[x]
        /\ lost' = lost \cup {Seed} /\ UNCHANGED <<index, rows>> /\ sync'.pc = "pace"
    BY <1>0, <1>3, <2>1, SeedType, NextSeedType DEF Vanish, Drop
  <2>3. Leads'
    BY <1>0, <2>2 DEF Leads
  <2>4. OwnOffers => Answers'
    BY <1>0, <2>2 DEF Answers, OwnInv
  <2>5. OwnInv'
    BY <2>2, OwnFromParts DEF OwnInv
  <2>6. QED
    BY <2>3, <2>4, <2>5, ResolvePartsPrime
<1>4. CASE Load
  <2>1. Leads'
    BY <1>0, <1>4, LoadFacts DEF Leads
  <2>2. ASSUME OwnOffers, NEW s \in Seeds, NEW e \in DOMAIN rows, Aliases[s] \in KeysOf(e, rows[e])
        PROVE  rows[e].of = s
    <3>1. rows[e] \in Instrument /\ e \in Epics /\ WellNamed(rows[e])
      BY <1>0, <2>2 DEF TypeOK, OwnInv
    <3>2. Aliases[s] = Aliases[rows[e].of] \/ Aliases[s] \in NamesOf(rows[e].of)
      BY <2>2, <3>1, KeyFacts DEF KeysOf, WellNamed
    <3>3. QED
      BY <3>1, <3>2, KeyFacts DEF Instrument
  <2>3. ASSUME NEW s \in Seeds
        PROVE  \/ \E e \in DOMAIN rows : /\ Aliases[s] \in KeysOf(e, rows[e])
                                         /\ index'[Aliases[s]] = e
               \/ index'[Aliases[s]] = index[Aliases[s]] /\ (s \notin lost' => s \notin lost)
    <3>1. Aliases[s] \in DOMAIN index'
      BY <1>0, <1>4, LoadFacts, UniverseAssumption DEF SyncInv, Range
    <3>2. QED
      BY <1>0, <1>4, <3>1, LoadFacts
  <2>4. OwnOffers => Answers'
    BY <1>0, <1>4, <2>3, LoadFacts DEF Answers
  <2>5. OwnOffers => \A s \in Seeds : index'[Aliases[s]] \in Seeds => index'[Aliases[s]] = s
    BY <2>2, <2>3 DEF OwnInv
  <2>6. OwnOffers => /\ \A x \in Seeds \cap DOMAIN byEpic' : byEpic'[x].of = x
                     /\ \A x \in DOMAIN byEpic' : WellNamed(byEpic'[x])
    BY <1>0, <1>4, LoadFacts DEF OwnInv
  <2>7. UNCHANGED <<rows, sync>>
    BY <1>0, <1>4, LoadFacts
  <2>8. OwnInv'
    BY <2>5, <2>6, <2>7 DEF OwnInv, OwnOffers, WellNamed, Seed
  <2>9. QED
    BY <2>1, <2>4, <2>8, ResolvePartsPrime
<1>5. CASE Restart
  <2>1. /\ byEpic' = SeedInstruments /\ index' = SeedIndex /\ sync' = Idle /\ lost' = {}
        /\ rows' = rows
    BY <1>5 DEF Restart
  <2>2. DOMAIN byEpic' = Seeds /\ \A e \in Seeds : byEpic'[e].of = e /\ WellNamed(byEpic'[e])
    BY <2>1 DEF SeedInstruments, SeedToInstrument, WellNamed, NamesOf
  <2>3. \A s \in Seeds : index'[Aliases[s]] = s
    BY <2>1, SeedTypes
  <2>4. Leads'
    BY <2>1, <2>2, SeedTypes DEF Leads
  <2>5. Answers'
    BY <2>2, <2>3 DEF Answers
  <2>6. sync'.pc = "idle"
    BY <2>1, IdleType
  <2>7. OwnInv'
    BY <2>1, <2>2, <2>3, <2>6, OwnFromParts
  <2>8. QED
    BY <2>4, <2>5, <2>7, ResolvePartsPrime
<1>6. CASE SaveToDb
  <2>1. /\ DOMAIN rows' = DOMAIN byEpic \cup DOMAIN rows
        /\ \A e \in DOMAIN rows' : rows'[e] = IF e \in DOMAIN byEpic THEN byEpic[e] ELSE rows[e]
        /\ UNCHANGED <<byEpic, index, lost>> /\ sync'.pc = "idle"
    BY <1>0, <1>6, SaveFacts, IdleType
  <2>2. OwnInv'
    BY <2>1 DEF OwnInv, WellNamed
  <2>3. ResolveAnswers'
    BY <2>1 DEF ResolveAnswers
  <2>4. QED
    BY <2>2, <2>3
<1>7. CASE SaveFails
  <2>1. UNCHANGED <<byEpic, index, rows, lost>> /\ sync'.pc = "idle"
    BY <1>7, IdleType DEF SaveFails
  <2>2. QED
    BY <2>1 DEF OwnInv, ResolveAnswers, WellNamed
<1>8. CASE UNCHANGED vars
  BY <1>8 DEF vars, OwnInv, ResolveAnswers, Seed, WellNamed
<1>9. QED
  BY <1>1, <1>2, <1>3, <1>4, <1>5, <1>6, <1>7, <1>8, LooksKeepNames DEF Next, Sync, Looks

\* Nothing but the EPIC of a seed can be missing from memory behind a key, and behind the
\* aliases of a seed not even that, unless the broker answered a search and then nothing:
\* for every universe, with the second half for every broker and the first for those whose
\* searches find no EPIC of another seed.
THEOREM ResolveTheorem == Spec => []ResolveAnswers
<1>1. Init => TypeInv /\ OwnInv /\ ResolveAnswers
  BY TypeInit, NamesInit
<1>2. TypeInv /\ OwnInv /\ ResolveAnswers /\ [Next]_vars => (TypeInv /\ OwnInv /\ ResolveAnswers)'
  BY TypeStep, NamesStep
<1>3. QED
  BY <1>1, <1>2, PTL DEF Spec

-----------------------------------------------------------------------------
(* Refusals *)

LEMMA RefusedStep ==
  ASSUME TypeInv, RefusedInv, [Next]_vars
  PROVE  RefusedInv'
<1>0. TypeOK /\ SyncInv /\ Idle.pc = "idle" /\ Idle.refused = 0 /\ sync \in SyncTypes
  BY IdleType DEF TypeInv, TypeOK
<1>1. PICK s0 \in Seeds : TRUE
  BY UniverseFacts
<1>2. \A s \in Seeds : Terms[s] \in Nat \ {0}
  BY UniverseFacts
<1>3. CASE StartSync
  <2>1. sync'.pc = "pace" /\ sync'.refused = 0
    BY <1>3 DEF StartSync, Idle
  <2>2. QED
    BY <1>1, <1>2, <2>1 DEF RefusedInv, At
<1>4. CASE Ask
  <2>1. At("pace") /\ sync'.pc \in {"save", "details"} /\ sync'.refused = sync.refused
    BY <1>0, <1>4, AskFacts, AskType DEF Ask
  <2>2. PICK s \in Seeds : sync.refused <= Terms[s]
    BY <2>1 DEF RefusedInv
  <2>3. sync.refused <= Terms[s] + 1
    BY <1>0, <1>2, <2>2, SyncFields
  <2>4. QED
    BY <2>1, <2>2, <2>3 DEF RefusedInv, At
<1>5. CASE Details \/ Replace \/ Vanish \/ Missing
  <2>1. sync.at \in 1 .. Len(Universe) /\ sync' = NextSeed
    BY <1>0, <1>5 DEF Details, Replace, Vanish, Missing, At, SyncInv
  <2>2. sync'.pc = "pace" /\ sync'.refused = 0
    BY <1>0, <2>1, NextSeedType
  <2>3. QED
    BY <1>1, <1>2, <2>2 DEF RefusedInv, At
<1>6. CASE NoDetails
  <2>1. sync'.pc = "search" /\ sync'.refused = 0 /\ sync'.term = 1
    BY <1>0, <1>6 DEF NoDetails, SyncTypes
  <2>2. QED
    BY <2>1 DEF RefusedInv, At
<1>7. CASE Found
  <2>1. sync'.pc = "second" /\ sync'.refused = 0
    BY <1>0, <1>7 DEF Found, SyncTypes
  <2>2. QED
    BY <2>1 DEF RefusedInv, At
<1>8. CASE NextTerm
  <2>1. /\ sync'.pc = "search" /\ sync'.term = sync.term + 1
        /\ sync'.refused \in {0, sync.refused + 1}
    BY <1>0, <1>8 DEF NextTerm, At, SyncTypes
  <2>2. sync.refused < sync.term
    BY <1>8 DEF NextTerm, RefusedInv
  <2>3. sync'.refused < sync'.term
    BY <1>0, <2>1, <2>2, SyncFields
  <2>4. QED
    BY <2>1, <2>3 DEF RefusedInv, At
<1>9. CASE NotFound
  <2>1. sync.at \in 1 .. Len(Universe) /\ sync.refused < Terms[Seed]
    BY <1>0, <1>9 DEF NotFound, At, SyncInv, RefusedInv
  <2>2. sync'.pc = "pace" /\ sync'.refused \in {0, sync.refused + 1}
    BY <1>9 DEF NotFound, NextSeed, Idle
  <2>3. Seed \in Seeds
    BY <2>1, SeedType
  <2>4. sync'.refused <= Terms[Seed]
    BY <1>0, <1>2, <2>1, <2>2, <2>3, SyncFields
  <2>5. QED
    BY <2>2, <2>3, <2>4 DEF RefusedInv, At
<1>10. CASE Refused
  <2>1. sync'.pc = "save" /\ sync'.refused = sync.refused + 1
    BY <1>0, <1>10 DEF Refused, SyncTypes
  <2>2. PICK s \in Seeds : sync.refused <= Terms[s]
    <3>1. CASE At("details")
      BY <3>1 DEF RefusedInv
    <3>2. CASE At("second")
      BY <1>1, <1>2, <3>2 DEF RefusedInv
    <3>3. QED
      BY <1>10, <3>1, <3>2 DEF Refused
  <2>3. sync'.refused <= Terms[s] + 1
    BY <1>0, <1>2, <2>1, <2>2, SyncFields
  <2>4. QED
    BY <2>1, <2>3 DEF RefusedInv, At
<1>11. CASE SaveToDb \/ SaveFails \/ Restart
  BY <1>0, <1>11 DEF SaveToDb, SaveFails, Restart, RefusedInv, At
<1>12. CASE Load \/ UNCHANGED vars
  BY <1>12 DEF Load, vars, RefusedInv, At
<1>13. QED
  BY <1>3, <1>4, <1>5, <1>6, <1>7, <1>8, <1>9, <1>10, <1>11, <1>12 DEF Next, Sync

LEMMA RefusedBounds == TypeInv /\ RefusedInv => StopsOnRefusal
<1> SUFFICES ASSUME TypeInv, RefusedInv PROVE StopsOnRefusal
  OBVIOUS
<1>1. TypeOK /\ SyncInv
  BY DEF TypeInv
<1>2. PICK s0 \in Seeds : TRUE
  BY UniverseFacts
<1>3. \A s \in Seeds : Terms[s] \in Nat \ {0}
  BY UniverseFacts
<1>4. CASE At("idle") \/ At("second")
  BY <1>2, <1>3, <1>4 DEF RefusedInv, StopsOnRefusal
<1>5. CASE At("search")
  <2>1. Seed \in Seeds
    BY <1>1, <1>5, SeedType DEF SyncInv, At
  <2>2. sync.refused < sync.term /\ sync.term \in 1 .. Terms[Seed]
    BY <1>1, <1>5 DEF RefusedInv, TypeOK
  <2>3. QED
    BY <1>1, <1>3, <2>1, <2>2, SyncFields DEF StopsOnRefusal
<1>6. CASE At("pace") \/ At("details")
  <2>1. PICK s \in Seeds : sync.refused <= Terms[s]
    BY <1>6 DEF RefusedInv
  <2>2. QED
    BY <1>1, <1>3, <2>1, SyncFields DEF StopsOnRefusal
<1>7. CASE At("save")
  BY <1>7 DEF RefusedInv, StopsOnRefusal
<1>8. QED
  BY <1>1, <1>4, <1>5, <1>6, <1>7, SyncFields DEF At

\* Once the allowance refuses, no more calls are made than a seed has search terms, and
\* one, for every universe and every broker.
THEOREM RefusedTheorem == Spec => []StopsOnRefusal
<1>1. Init => TypeInv /\ RefusedInv
  <2> SUFFICES ASSUME Init PROVE TypeInv /\ RefusedInv
    OBVIOUS
  <2>1. sync.pc = "idle" /\ sync.refused = 0
    BY IdleType DEF Init
  <2>2. QED
    BY <2>1, TypeInit DEF RefusedInv, At
<1>2. TypeInv /\ RefusedInv /\ [Next]_vars => (TypeInv /\ RefusedInv)'
  BY TypeStep, RefusedStep
<1>3. QED
  BY <1>1, <1>2, RefusedBounds, PTL DEF Spec

-----------------------------------------------------------------------------
(* Rows *)

LEMMA KeptStep ==
  ASSUME TypeInv, KeptInv, [Next]_vars
  PROVE  /\ KeptInv'
         /\ \A e \in DOMAIN rows : rows[e].fetched =>
              /\ e \in DOMAIN rows'
              /\ rows'[e].fetched \/ (~ loaded /\ rows'[e] = SeedToInstrument(e))
<1>0. TypeOK /\ SyncInv
  BY DEF TypeInv
<1>1. CASE Details
  <2>1. sync.at \in 1 .. Len(Universe)
    BY <1>0, <1>1 DEF Details, At, SyncInv
  <2>2. PICK updated \in ApplyIgDetails(sync.held) : Add(byEpic, Seed, updated)
    BY <1>1 DEF Details
  <2>3. updated.fetched
    BY <1>0, <2>1, DetailsType
  <2>4. /\ DOMAIN byEpic' = DOMAIN byEpic \cup {Seed}
        /\ \A x \in DOMAIN byEpic' : byEpic'[x] = IF x = Seed THEN updated ELSE byEpic[x]
    BY <2>2 DEF Add, Put
  <2>5. rows' = rows /\ loaded' = loaded
    BY <1>1 DEF Details
  <2>6. QED
    BY <2>3, <2>4, <2>5 DEF KeptInv
<1>2. CASE Replace
  <2>1. sync.at \in 1 .. Len(Universe)
    BY <1>0, <1>2 DEF Replace, At, SyncInv
  <2>2. PICK updated \in ApplyIgDetails(sync.held) : Add(Drop(byEpic, Seed), sync.found, updated)
    BY <1>2 DEF Replace
  <2>3. updated.fetched
    BY <1>0, <2>1, DetailsType
  <2>4. /\ DOMAIN byEpic' = (DOMAIN byEpic \ {Seed}) \cup {sync.found}
        /\ \A x \in DOMAIN byEpic' : byEpic'[x] = IF x = sync.found THEN updated ELSE byEpic[x]
    BY <2>2 DEF Add, Put, Drop
  <2>5. rows' = rows /\ loaded' = loaded
    BY <1>2 DEF Replace
  <2>6. QED
    BY <2>3, <2>4, <2>5 DEF KeptInv
<1>3. CASE Vanish
  BY <1>3 DEF Vanish, Drop, KeptInv
<1>4. CASE Load
  BY <1>0, <1>4, LoadFacts DEF KeptInv
<1>5. CASE SaveToDb
  BY <1>0, <1>5, SaveFacts DEF KeptInv, SeedValue
<1>6. CASE Restart
  BY <1>6 DEF Restart, KeptInv, SeedInstruments, SeedValue
<1>7. CASE Looks \/ SaveFails \/ UNCHANGED vars
  <2>1. UNCHANGED <<byEpic, rows, loaded>>
    BY <1>7 DEF Looks, StartSync, Ask, NoDetails, Found, NextTerm, NotFound, Missing, Refused,
                SaveFails, vars
  <2>2. QED
    BY <2>1 DEF KeptInv
<1>8. QED
  BY <1>1, <1>2, <1>3, <1>4, <1>5, <1>6, <1>7 DEF Next, Sync, Looks

\* No row goes, and no step takes the broker's details from one but the save of a process
\* that has not loaded the rows, which writes the seed's values: for every universe, every
\* broker and any number of restarts.
THEOREM KeptTheorem == Spec => FetchedKept
<1> DEFINE Keeps == \A e \in DOMAIN rows : rows[e].fetched =>
      /\ e \in DOMAIN rows'
      /\ rows'[e].fetched \/ (~ loaded /\ rows'[e] = SeedToInstrument(e))
<1>1. Init => TypeInv /\ KeptInv
  <2>1. Init => KeptInv
    BY DEF Init, KeptInv, SeedInstruments, SeedValue
  <2>2. QED
    BY <2>1, TypeInit
<1>2. TypeInv /\ KeptInv /\ [Next]_vars => (TypeInv /\ KeptInv)' /\ [Keeps]_vars
  BY TypeStep, KeptStep
<1>3. Spec => [][Keeps]_vars
  <2> HIDE DEF Keeps
  <2>1. QED
    BY <1>1, <1>2, PTL DEF Spec
<1>4. QED
  BY <1>3 DEF FetchedKept
=============================================================================
