----------------------------- MODULE Coalescing -----------------------------
(***************************************************************************)
(* What single-flight coalescing promises, without the registry that       *)
(* implements it: one worker at a time makes a key, and a caller answered  *)
(* with success did the work itself or shares a success of the same key.   *)
(* Flights.tla is shown to implement it.                                   *)
(***************************************************************************)
CONSTANTS Callers, Keys, KeyOf, Nobody

VARIABLES
  worker,   \* worker[k]: the caller that is making k
  made,     \* the keys some worker has made
  answer    \* answer[c]: what c is told

Init ==
  /\ worker = [k \in Keys |-> Nobody]
  /\ made = {}
  /\ answer = [c \in Callers |-> "none"]

Tell(c, a) ==
  /\ answer[c] = "none"
  /\ answer' = [answer EXCEPT ![c] = a]

Begin(c) ==
  /\ worker[KeyOf[c]] = Nobody
  /\ answer[c] = "none"
  /\ worker' = [worker EXCEPT ![KeyOf[c]] = c]
  /\ UNCHANGED <<made, answer>>

\* The worker stops: its key is made, it failed, or its thread died.
Stop(c) ==
  /\ worker[KeyOf[c]] = c
  /\ worker' = [worker EXCEPT ![KeyOf[c]] = Nobody]
  /\ \/ Tell(c, "ok") /\ made' = made \cup {KeyOf[c]}
     \/ Tell(c, "failed") /\ UNCHANGED made
     \/ UNCHANGED <<made, answer>>

\* A caller that is not working shares a key that was made.
Share(c) ==
  /\ worker[KeyOf[c]] # c
  /\ KeyOf[c] \in made
  /\ Tell(c, "ok")
  /\ UNCHANGED <<worker, made>>

Refuse(c) ==
  /\ worker[KeyOf[c]] # c
  /\ Tell(c, "failed")
  /\ UNCHANGED <<worker, made>>

Next == \E c \in Callers : Begin(c) \/ Stop(c) \/ Share(c) \/ Refuse(c)

Spec == Init /\ [][Next]_<<worker, made, answer>>
=============================================================================
