------------------------------ MODULE Delivery ------------------------------
(***************************************************************************)
(* What the event bus promises a subscriber, whichever backend get_bus     *)
(* chose (src/core/bus.py): events come one by one in the order of their   *)
(* publication, none before it is published and none twice.  It does not   *)
(* promise that every event comes.                                         *)
(***************************************************************************)
EXTENDS Naturals, Sequences

CONSTANT Subscribers

VARIABLES
  published,  \* number of events published; an event is its number
  handed      \* of each subscriber: the events handed to it, in order

Init ==
  /\ published = 0
  /\ handed = [s \in Subscribers |-> <<>>]

Publish ==
  /\ published' = published + 1
  /\ UNCHANGED handed

Before(s, e) == handed[s] = <<>> \/ handed[s][Len(handed[s])] < e

\* One event is handed to some of the subscribers that are still before it
Deliver(e, S) ==
  /\ S # {} /\ \A s \in S : Before(s, e)
  /\ handed' = [s \in Subscribers |-> IF s \in S THEN Append(handed[s], e) ELSE handed[s]]
  /\ UNCHANGED published

Next == Publish \/ \E e \in 1..published, S \in SUBSET Subscribers : Deliver(e, S)

Spec == Init /\ [][Next]_<<published, handed>>
=============================================================================
