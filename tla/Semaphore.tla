------------------------------ MODULE Semaphore ------------------------------
(***************************************************************************)
(* What the realization permits promise, without saying how: at most       *)
(* Capacity callers hold a permit, and a caller is turned away only while  *)
(* every permit is out.  Permits.tla is shown to implement it.             *)
(***************************************************************************)
EXTENDS Naturals, FiniteSets

CONSTANTS Callers, Capacity

VARIABLES
  holders,      \* the callers that hold a permit
  turnedAway    \* the callers whose deadline ran out before they got one

Init ==
  /\ holders = {}
  /\ turnedAway = {}

Take(c) ==
  /\ c \notin holders \cup turnedAway
  /\ Cardinality(holders) < Capacity
  /\ holders' = holders \cup {c}
  /\ UNCHANGED turnedAway

Give(c) ==
  /\ c \in holders
  /\ holders' = holders \ {c}
  /\ UNCHANGED turnedAway

TurnAway(c) ==
  /\ c \notin holders \cup turnedAway
  /\ Cardinality(holders) = Capacity
  /\ turnedAway' = turnedAway \cup {c}
  /\ UNCHANGED holders

Next == \E c \in Callers : Take(c) \/ Give(c) \/ TurnAway(c)

Spec == Init /\ [][Next]_<<holders, turnedAway>>
=============================================================================
