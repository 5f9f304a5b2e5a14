--------------------------- MODULE MCNewsPipeline ---------------------------
(***************************************************************************)
(* Two articles of one story from two domains: an early one that names     *)
(* nobody and needs the other to confirm it, and a later agency report.    *)
(* And one of another story, that names somebody but that no other domain  *)
(* confirms.  _seen holds one id, so that the second story empties it.     *)
(***************************************************************************)
EXTENDS NewsPipeline

CONSTANTS a1, a2, b1

MCStory    == [a \in Articles |-> IF a = b1 THEN "b" ELSE "a"]
MCTime     == [a \in Articles |-> CASE a = a1 -> 1 [] a = a2 -> 2 [] a = b1 -> 3]
MCDomain   == [a \in Articles |-> IF a = a1 THEN "d1" ELSE "d2"]
MCFeed     == [a \in Articles |-> IF a = a2 THEN [domain |-> "d2", tier |-> 2]
                                           ELSE [domain |-> "d1", tier |-> 4]]
MCOfficial == [d \in {"d2"} |-> 3]
MCTopics   == [a \in Articles |-> {"companies"}]
=============================================================================
