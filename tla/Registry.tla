------------------------------ MODULE Registry ------------------------------
(***************************************************************************)
(* The instrument registry (market/instrument_registry.py): instruments in *)
(* memory under their EPIC, an index from names to EPICs, rows in the      *)
(* database, and the sync that asks the broker about every instrument of   *)
(* the seed universe, one call after the other.                            *)
(*                                                                         *)
(* An instrument is reduced to the seed whose aliases and factors it       *)
(* carries, its name, and whether its details came from the broker.  Its   *)
(* aliases are one key of the index, because they are always written       *)
(* together; so is a seed's own name, where it is one of the aliases.      *)
(*                                                                         *)
(* No module of src/ calls load_from_db, save_to_db or sync_from_ig, so    *)
(* they may be called in any order.                                        *)
(***************************************************************************)
EXTENDS Naturals, Sequences, Functions

CONSTANTS
  Universe,  \* SEED_UNIVERSE: the seeds' EPICs, in the order of the tuple
  Spares,    \* EPICs of the broker that no seed has
  Offers,    \* the EPICs a search for each seed may return
  Terms,     \* how many search terms each seed has (its name, if it lists none)
  Aliases,   \* the key that stands for the aliases of each seed
  OwnName,   \* the key of each seed's name: its aliases', or another
  Titles,    \* other names the broker may give each seed's instrument
  None

Seeds == Range(Universe)
Epics == Seeds \cup Spares
AllTitles == UNION Range(Titles)
Names == Range(OwnName) \cup AllTitles
Keys  == Epics \cup Range(Aliases) \cup Names

ASSUME UniverseAssumption == /\ Universe \in Seq(Seeds) /\ Universe # << >>
                             /\ Offers \in [Seeds -> SUBSET Epics]
                             /\ Terms \in [Seeds -> Nat \ {0}]
                             /\ Aliases \in [Seeds -> Range(Aliases)]
                             /\ OwnName \in [Seeds -> Range(OwnName)]
                             /\ DOMAIN Titles = Seeds
                             /\ None \notin Epics

\* The keys of two seeds differ, whatever the broker calls their instruments, and no EPIC
\* is the name of an instrument.
NamesOf(s) == {OwnName[s]} \cup Titles[s]
ASSUME KeysAssumption ==
  /\ \A r, s \in Seeds : r # s => Aliases[r] \notin {Aliases[s]} \cup NamesOf(s)
  /\ (Range(Aliases) \cup Names) \cap Epics = {}

VARIABLES
  byEpic,  \* _by_epic
  index,   \* _alias_index
  rows,    \* the table instruments
  loaded,  \* load_from_db has run in this process
  sync     \* the sync_from_ig under way

\* Kept for the properties only: the seeds whose EPIC a sync has taken out of memory with
\* nothing put in its place, since their aliases were last written.
VARIABLE lost

vars == <<byEpic, index, rows, loaded, sync, lost>>

Instrument == [of : Seeds, name : Names, fetched : BOOLEAN]

\* seed_to_instrument
SeedToInstrument(s) == [of |-> s, name |-> OwnName[s], fetched |-> FALSE]

\* The keys under which add finds an instrument again.
KeysOf(e, instrument) == {e, instrument.name, Aliases[instrument.of]}

\* At `pace' the loop is about to look at entry `at' of the universe; at
\* `details', `search' and `second' it waits for the broker; `held' is the
\* instrument it read before the wait, `found' the replacement's EPIC.
\* `term' counts the search terms tried, `refused' counts the calls that the broker's allowance has refused in a row.
Idle == [pc |-> "idle", at |-> 1, held |-> None, term |-> 0, found |-> None, refused |-> 0]

SyncTypes ==
  [pc : {"idle", "pace", "details", "search", "second", "save"}, at : 1 .. Len(Universe) + 1,
   held : Instrument \cup {None}, term : Nat, found : Epics \cup {None},
   refused : Nat]

At(pc) == sync.pc = pc
Seed == Universe[sync.at]

TypeOK ==
  /\ DOMAIN byEpic \subseteq Epics /\ byEpic \in [DOMAIN byEpic -> Instrument]
  /\ DOMAIN index \subseteq Keys /\ index \in [DOMAIN index -> Epics]
  /\ DOMAIN rows \subseteq Epics /\ rows \in [DOMAIN rows -> Instrument]
  /\ loaded \in BOOLEAN
  /\ sync \in SyncTypes /\ lost \in SUBSET Seeds
  /\ At("search") => sync.term \in 1 .. Terms[Seed]

Put(f, x, v) == [y \in DOMAIN f \cup {x} |-> IF y = x THEN v ELSE f[y]]
Over(f, g) == [y \in DOMAIN f \cup DOMAIN g |-> IF y \in DOMAIN f THEN f[y] ELSE g[y]]
Drop(f, x) == [y \in DOMAIN f \ {x} |-> f[y]]

-----------------------------------------------------------------------------
SeedInstruments == [s \in Seeds |-> SeedToInstrument(s)]
SeedKeys == UNION {KeysOf(s, SeedToInstrument(s)) : s \in Seeds}
SeedIndex == [k \in SeedKeys |-> CHOOSE s \in Seeds : k \in KeysOf(s, SeedToInstrument(s))]

\* InstrumentRegistry(): the seeds, nothing from the database.
Init ==
  /\ byEpic = SeedInstruments /\ index = SeedIndex
  /\ rows = << >>
  /\ loaded = FALSE /\ lost = {}
  /\ sync = Idle

\* The process ends, wherever its sync is, and is started again.
Restart ==
  /\ byEpic' = SeedInstruments /\ index' = SeedIndex
  /\ loaded' = FALSE /\ lost' = {}
  /\ sync' = Idle
  /\ UNCHANGED rows

\* mutant: a row does not replace the instrument that is in memory
InstrumentsOfKeep(table) == Over(byEpic, table)

\* The instruments in memory once every row has been added.
InstrumentsOf(table) == Over(table, byEpic)

\* load_from_db: rows are added in the order of their names, which the model leaves open;
\* a key that several rows have leads to the last of them.
Load ==
  LET RowsWith(k) == {e \in DOMAIN rows : k \in KeysOf(e, rows[e])}
      written     == UNION {KeysOf(e, rows[e]) : e \in DOMAIN rows}
      shared      == {k \in written : \E d, e \in RowsWith(k) : d # e}
  IN  /\ byEpic' = InstrumentsOf(rows)
      /\ \E last \in [shared -> DOMAIN rows] :
           /\ \A k \in shared : last[k] \in RowsWith(k)
           /\ index' = [k \in DOMAIN index \cup written |->
                          IF k \in shared THEN last[k]
                          ELSE IF k \in written THEN CHOOSE e \in DOMAIN rows : e \in RowsWith(k)
                          ELSE index[k]]
      /\ loaded' = TRUE
      /\ lost' = {s \in lost : Aliases[s] \notin written}
      /\ UNCHANGED <<rows, sync>>

-----------------------------------------------------------------------------
\* sync_from_ig is called.
StartSync ==
  /\ At("idle")
  /\ sync' = [Idle EXCEPT !.pc = "pace"]
  /\ UNCHANGED <<byEpic, index, rows, loaded, lost>>

\* The call about the next seed that was not synced recently, or none is left.  Which
\* seeds those are follows from the times of the rows, if the caller hands them over
\* (db_synced): the model skips any seeds that have a row.
Ask ==
  /\ At("pace")
  /\ \E i \in sync.at .. Len(Universe) + 1 :
       /\ \A j \in sync.at .. i - 1 : Universe[j] \in DOMAIN rows
       /\ sync' = IF i > Len(Universe)
                  THEN [sync EXCEPT !.pc = "save"]
                  ELSE [sync EXCEPT !.pc = "details", !.at = i, !.held =
                          IF Universe[i] \in DOMAIN byEpic THEN byEpic[Universe[i]] ELSE None]
  /\ UNCHANGED <<byEpic, index, rows, loaded, lost>>

\* What the loop read before it waited, or the seed's values.
Current(held) == IF held = None THEN SeedToInstrument(Seed) ELSE held

\* apply_ig_details: the broker calls the instrument what the seed does, or something else,
\* or gives no name.
ApplyIgDetails(held) ==
  {[Current(held) EXCEPT !.fetched = TRUE, !.name = name] :
     name \in Titles[Seed] \cup {OwnName[Seed], Current(held).name}}

NextSeed == [Idle EXCEPT !.pc = "pace", !.at = sync.at + 1]

\* mutant: add does not move the aliases of the instrument
AddKeepsAliases(table, e, instrument) ==
  /\ byEpic' = Put(table, e, instrument)
  /\ index' = Put(Put(index, e, e), instrument.name, e)
  /\ lost' = lost \ {instrument.of}

\* add, to a table from which nothing or the replaced EPIC is gone.
Add(table, e, instrument) ==
  /\ byEpic' = Put(table, e, instrument)
  /\ index' = [k \in DOMAIN index \cup KeysOf(e, instrument) |->
                 IF k \in KeysOf(e, instrument) THEN e ELSE index[k]]
  /\ lost' = lost \ {instrument.of}

\* The broker knows the seed's EPIC.
Details ==
  /\ At("details")
  /\ \E updated \in ApplyIgDetails(sync.held) : Add(byEpic, Seed, updated)
  /\ sync' = NextSeed
  /\ UNCHANGED <<rows, loaded>>

\* It does not, or the call failed: look for the instrument by name.
NoDetails ==
  /\ At("details")
  /\ sync' = [sync EXCEPT !.pc = "search", !.term = 1, !.refused = 0]
  /\ UNCHANGED <<byEpic, index, rows, loaded, lost>>

\* _search_replacement returns the market whose name is nearest, among those of
\* the seed's type if there are any.
Found ==
  /\ At("search")
  /\ \E e \in Offers[Seed] : sync' = [sync EXCEPT !.pc = "second", !.found = e, !.refused = 0]
  /\ UNCHANGED <<byEpic, index, rows, loaded, lost>>

\* mutant: the terms are never used up
NextTermEndless ==
  /\ At("search")
  /\ sync' = [sync EXCEPT !.term = @ + 1]
  /\ UNCHANGED <<byEpic, index, rows, loaded, lost>>

\* A search fails or finds nothing.  A refusal by the allowance is caught inside
\* _search_replacement like any other error, so the loops go on: with the next
\* term, or with the next seed.
NextTerm ==
  /\ At("search") /\ sync.term < Terms[Seed]
  /\ \E refused \in {0, sync.refused + 1} :
       sync' = [sync EXCEPT !.term = @ + 1, !.refused = refused]
  /\ UNCHANGED <<byEpic, index, rows, loaded, lost>>

NotFound ==
  /\ At("search") /\ sync.term = Terms[Seed]
  /\ sync' \in {NextSeed, [NextSeed EXCEPT !.refused = sync.refused + 1]}
  /\ UNCHANGED <<byEpic, index, rows, loaded, lost>>

\* The replacement's details: it takes the place of the seed's EPIC.
Replace ==
  /\ At("second")
  /\ \E updated \in ApplyIgDetails(sync.held) : Add(Drop(byEpic, Seed), sync.found, updated)
  /\ sync' = NextSeed
  /\ UNCHANGED <<rows, loaded>>

\* The call about the replacement is answered with nothing: the seed's EPIC is gone, and
\* nothing is added.
Vanish ==
  /\ At("second")
  /\ byEpic' = Drop(byEpic, Seed) /\ lost' = lost \cup {Seed}
  /\ sync' = NextSeed
  /\ UNCHANGED <<index, rows, loaded>>

\* The call fails: the seed is reported missing.
Missing ==
  /\ At("second")
  /\ sync' = NextSeed
  /\ UNCHANGED <<byEpic, index, rows, loaded, lost>>

\* mutant: a refusal is taken for a missing instrument
RefusedGoesOn ==
  /\ \/ At("details") /\ sync' = [sync EXCEPT !.pc = "search", !.term = 1, !.refused = @ + 1]
     \/ At("second") /\ sync' = [NextSeed EXCEPT !.refused = sync.refused + 1]
  /\ UNCHANGED <<byEpic, index, rows, loaded, lost>>

\* A details call refused by the allowance ends the loop.
Refused ==
  /\ At("details") \/ At("second")
  /\ sync' = [sync EXCEPT !.pc = "save", !.refused = @ + 1]
  /\ UNCHANGED <<byEpic, index, rows, loaded, lost>>

\* save_to_db: every instrument in memory is written, whatever the sync did
\* with it.
SaveToDb ==
  /\ At("save")
  /\ rows' = Over(byEpic, rows)
  /\ sync' = Idle
  /\ UNCHANGED <<byEpic, index, loaded, lost>>

\* The transaction fails: nothing is written, the error leaves sync_from_ig.
SaveFails ==
  /\ At("save")
  /\ sync' = Idle
  /\ UNCHANGED <<byEpic, index, rows, loaded, lost>>

Sync ==
  \/ StartSync \/ Ask
  \/ Details \/ NoDetails
  \/ Found \/ NextTerm \/ NotFound
  \/ Replace \/ Vanish \/ Missing
  \/ Refused
  \/ SaveToDb \/ SaveFails

Next == Sync \/ Load \/ Restart

Spec == Init /\ [][Next]_vars

-----------------------------------------------------------------------------
(* Properties *)

\* resolve raises a KeyError on a key that leads to no instrument.  It never does on the
\* aliases of a seed, unless a sync took its EPIC out of memory and put nothing there; and
\* whatever other key leads nowhere leads to the EPIC of a seed, never to a replacement's.
\* Through replacements, renamings, two seeds replaced by one EPIC, loads that bring an old
\* row back in the middle of a sync, and restarts.  A seed's own name, where it is none of
\* its aliases, does dangle: apply_ig_details renames the instrument before add writes its
\* keys, so the old name keeps leading to the EPIC that is gone.  The aliases take a broker
\* whose search for one seed never answers with the EPIC of another: if that EPIC were
\* replaced in its turn, they would lead nowhere.
OwnOffers == \A s \in Seeds : Offers[s] \cap Seeds \subseteq {s}
ResolveAnswers ==
  /\ OwnOffers => \A s \in Seeds \ lost : index[Aliases[s]] \in DOMAIN byEpic
  /\ Range(index) \subseteq DOMAIN byEpic \cup Seeds

\* "Su 403 exceeded-allowance interrompe con grazia": once the allowance
\* refuses a call, the sync makes no more than as many as a seed has search
\* terms.  Those are there because _search_replacement hides the refusals of
\* its own calls.
StopsOnRefusal == \E s \in Seeds : sync.refused <= Terms[s] + 1

\* No row goes, and the broker's details in one give way only to newer ones, through
\* replacements, refusals, and loads in the middle of a sync -- or, which "tiene i valori a
\* DB/seed" does not say, to the values of the seed tuple: when the process has not loaded
\* the rows, whatever its sync skipped or did not reach is written over them.
FetchedKept ==
  [][\A e \in DOMAIN rows : rows[e].fetched =>
       /\ e \in DOMAIN rows'
       /\ rows'[e].fetched \/ (~ loaded /\ rows'[e] = SeedToInstrument(e))]_vars

-----------------------------------------------------------------------------
(* The inductive invariants behind the properties. *)

\* Where a sync can be, and what it has found.
SyncInv ==
  /\ sync.pc \in {"details", "search", "second"} => sync.at \in 1 .. Len(Universe)
  /\ At("second") => sync.found \in Offers[Seed]
  /\ Range(Aliases) \subseteq DOMAIN index

\* If no search finds the EPIC of another seed, a seed's EPIC holds nothing but
\* that seed's instrument, in memory, in the table and in the hands of a sync,
\* no aliases but its own lead there, and no instrument has a name of another seed's.
WellNamed(instrument) == instrument.name \in NamesOf(instrument.of)
OwnInv == OwnOffers =>
  /\ \A e \in Seeds \cap DOMAIN byEpic : byEpic[e].of = e
  /\ \A e \in Seeds \cap DOMAIN rows : rows[e].of = e
  /\ \A s \in Seeds : index[Aliases[s]] \in Seeds => index[Aliases[s]] = s
  /\ \A e \in DOMAIN byEpic : WellNamed(byEpic[e])
  /\ \A e \in DOMAIN rows : WellNamed(rows[e])
  /\ sync.pc \in {"details", "search", "second"} /\ sync.held # None =>
       sync.held.of = Seed /\ WellNamed(sync.held)

\* What the refusals in a row can be at each wait.
RefusedInv ==
  /\ At("idle") \/ At("second") => sync.refused = 0
  /\ At("search") => sync.refused < sync.term
  /\ At("pace") \/ At("details") => \E s \in Seeds : sync.refused <= Terms[s]
  /\ At("save") => \E s \in Seeds : sync.refused <= Terms[s] + 1

\* Once the rows are loaded, the memory is never behind them; and what is not the broker's,
\* in memory or in a row, is what the seed tuple says of the seed with that EPIC.
SeedValue(e, instrument) == e \in Seeds /\ instrument = SeedToInstrument(e)
KeptInv ==
  /\ loaded => \A e \in DOMAIN rows \cap DOMAIN byEpic : rows[e].fetched => byEpic[e].fetched
  /\ \A e \in DOMAIN byEpic : byEpic[e].fetched \/ SeedValue(e, byEpic[e])
  /\ \A e \in DOMAIN rows : rows[e].fetched \/ SeedValue(e, rows[e])
=============================================================================
