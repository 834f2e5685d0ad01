------------------------------ MODULE MCFlights ------------------------------
(* Flights for TLC: all ask for one key, and one of them is refused. *)
EXTENDS Flights, TLC

CONSTANT k1

OneKey == [c \in Callers |-> k1]

CallerSymmetry == Permutations(Callers \ Denied)
=============================================================================
