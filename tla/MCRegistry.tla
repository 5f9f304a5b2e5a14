----------------------------- MODULE MCRegistry -----------------------------
(***************************************************************************)
(* Two seeds.  The name of the first is none of its aliases, and the broker *)
(* may call its instrument by one of them.  A search finds for the first    *)
(* seed its own EPIC again or the spare one, for the second, with either of *)
(* its two terms, the same spare EPIC, or nothing.                          *)
(***************************************************************************)
EXTENDS Registry, TLC
CONSTANTS s1, s2, x1
MCUniverse == <<s1, s2>>
MCOffers == s1 :> {s1, x1} @@ s2 :> {x1}
MCTerms == s1 :> 1 @@ s2 :> 2
MCAliases == s1 :> "aliases 1" @@ s2 :> "aliases 2"
MCOwnName == s1 :> "name 1" @@ s2 :> "aliases 2"
MCTitles == s1 :> {"aliases 1"} @@ s2 :> {}
=============================================================================
