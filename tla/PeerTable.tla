----------------------------- MODULE PeerTable ------------------------------
(***************************************************************************)
(* What the neighbour table promises to the rest of the firmware, with no  *)
(* nodes, lists, semaphore or threads: a bounded set of peers, each with   *)
(* the number of life ticks it may still stay silent.  A peer that is      *)
(* heard gets at least the life of that kind of message; a silent one      *)
(* loses one unit per tick and leaves the table, and the room it took,     *)
(* only when it has none left.  When the table is full a new peer is not   *)
(* admitted: nobody is evicted for it.                                     *)
(***************************************************************************)
EXTENDS Naturals, FiniteSets

CONSTANTS Pids, Capacity, MaxLife, AlertMaxLife

VARIABLE left    \* ticks a peer may stay silent; 0: not in the table

Present == {p \in Pids : left[p] > 0}

(* A message that refreshes to life k.  It never shortens a life. *)
Hear(p, k) ==
  /\ p \in Present \/ Cardinality(Present) < Capacity
  /\ left' = [left EXCEPT ![p] = IF @ < k THEN k ELSE @]

(* One tick of life_timer reaches p. *)
Age(p) ==
  /\ p \in Present
  /\ left' = [left EXCEPT ![p] = @ - 1]

Init == left = [p \in Pids |-> 0]

Next == \E p \in Pids : Age(p) \/ \E k \in {MaxLife, AlertMaxLife} : Hear(p, k)

Spec == Init /\ [][Next]_left

=============================================================================
