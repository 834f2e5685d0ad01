----------------------------- MODULE MCLifecycle -----------------------------
(* Lifecycle for TLC: every setting, and one that is a question of its own. *)
EXTENDS Lifecycle

EverySetting == [embedded : BOOLEAN, fresh : BOOLEAN, long : BOOLEAN,
                 cuts : SUBSET {"timeout", "kill"}]

\* The shim waits for as long as it takes; the answer is too long for a frame.
LongAnswer == {s \in EverySetting : s.long /\ s.fresh /\ s.cuts = {}}
=============================================================================
