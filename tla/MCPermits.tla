------------------------------ MODULE MCPermits ------------------------------
(* Permits for TLC: the callers are interchangeable. *)
EXTENDS Permits, TLC

CallerSymmetry == Permutations(Callers)
=============================================================================
