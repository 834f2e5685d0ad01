------------------------------- MODULE Flights -------------------------------
(***************************************************************************)
(* Single-flight coalescing in the resolver (resolve_detailed,             *)
(* wait_for_flight, release_flight).  Callers with the same                *)
(* materialization key share a flight: the first one in leads and does the *)
(* work, the others sleep on the flight's condition variable and then      *)
(* register its result for their own bundle.  The registry maps a key to   *)
(* its flight; the last caller to leave takes the flight off it.           *)
(*                                                                         *)
(* A caller opens at most one flight, so a flight is named by its leader.  *)
(* The work (materialize) and a follower's registration                    *)
(* (register_resolution) are intervals here: they end with an outcome, and *)
(* Resolver.tla says what happens in between.                              *)
(***************************************************************************)
EXTENDS Naturals, FiniteSets

CONSTANTS
  Callers,   \* the connection threads, one request each
  Keys,      \* materialization keys
  KeyOf,     \* KeyOf[c] = Materialize::key of c's request
  Nobody,    \* a key without a flight, a caller without one
  Denied,    \* the callers whose own selection refuses them
  Fragile    \* the callers whose thread may die in a Nix command (the
             \* thread::spawn of run_command panics when the OS refuses)

ASSUME FlightAssumption ==
  /\ IsFiniteSet(Callers)
  /\ KeyOf \in [Callers -> Keys]
  /\ Nobody \notin Callers
  /\ Denied \subseteq Callers
  /\ Fragile \subseteq Callers

VARIABLES
  flights,   \* the registry: the flight listed under each key
  callers,   \* FlightState.callers of each flight
  result,    \* FlightState.result of each flight
  stage,     \* where each caller is in resolve_detailed
  flight,    \* the flight each caller is aboard, or was
  answer,    \* the `result` of resolve_detailed
  late       \* late[c]: the deadline of c's request has passed

registry == <<flights, callers, result>>
flightVars == <<flights, callers, result, stage, flight, answer>>
vars == <<flights, callers, result, stage, flight, answer, late>>

Outcomes == {"ok", "failed"}

(***************************************************************************)
(* "new": not past selection; "lead": materializing; "look": about to lock *)
(* the flight and look at the result; "asleep": queued on its condition    *)
(* variable; "expired": left that queue because its wait ran out;          *)
(* "register": registering the result for its own bundle; "leave": has its *)
(* answer, about to release the flight; "unlist": was the last caller,     *)
(* about to lock the registry; "done"; "dead": unwound, never released.    *)
(***************************************************************************)
Aboard == {"lead", "look", "asleep", "expired", "register", "leave"}
Stages == Aboard \cup {"new", "unlist", "done", "dead"}

Init ==
  /\ flights = [k \in Keys |-> Nobody]
  /\ callers = [f \in Callers |-> 0]
  /\ result = [f \in Callers |-> "none"]
  /\ stage = [c \in Callers |-> "new"]
  /\ flight = [c \in Callers |-> Nobody]
  /\ answer = [c \in Callers |-> "none"]
  /\ late = [c \in Callers |-> FALSE]

To(c, s) == stage' = [stage EXCEPT ![c] = s]

Answer(c, a) ==
  /\ answer' = [answer EXCEPT ![c] = a]
  /\ To(c, "leave")

Listed(c) == flights[KeyOf[c]]

\* validate_request or select_release fails: the request ends before it gets
\* near a flight.
Reject(c) ==
  /\ stage[c] = "new"
  /\ c \in Denied
  /\ answer' = [answer EXCEPT ![c] = "failed"]
  /\ To(c, "done")
  /\ UNCHANGED <<registry, flight, late>>

\* Mutant: a caller boards a listed flight before its own selection.
BoardUnselected(c) ==
  /\ stage[c] = "new"
  /\ IF Listed(c) # Nobody
     THEN /\ flight' = [flight EXCEPT ![c] = Listed(c)]
          /\ callers' = [callers EXCEPT ![Listed(c)] = @ + 1]
          /\ To(c, "look")
          /\ UNCHANGED flights
     ELSE /\ c \notin Denied
          /\ flight' = [flight EXCEPT ![c] = c]
          /\ callers' = [callers EXCEPT ![c] = 1]
          /\ flights' = [flights EXCEPT ![KeyOf[c]] = c]
          /\ To(c, "lead")
  /\ UNCHANGED <<result, answer, late>>

\* The registry is locked: c boards the flight listed under its key, or lists
\* a new one and leads it.
Board(c) ==
  /\ stage[c] = "new"
  /\ c \notin Denied
  /\ IF Listed(c) # Nobody
     THEN /\ flight' = [flight EXCEPT ![c] = Listed(c)]
          /\ callers' = [callers EXCEPT ![Listed(c)] = @ + 1]
          /\ To(c, "look")
          /\ UNCHANGED flights
     ELSE /\ flight' = [flight EXCEPT ![c] = c]
          /\ callers' = [callers EXCEPT ![c] = 1]
          /\ flights' = [flights EXCEPT ![KeyOf[c]] = c]
          /\ To(c, "lead")
  /\ UNCHANGED <<result, answer, late>>

\* Mutant: notify_one in the place of notify_all.
PublishWakesOne(c, a) ==
  /\ stage[c] = "lead"
  /\ result' = [result EXCEPT ![c] = a]
  /\ answer' = [answer EXCEPT ![c] = a]
  /\ LET left == [stage EXCEPT ![c] = "leave"]
         asleep == {d \in Callers : stage[d] = "asleep" /\ flight[d] = c}
     IN  IF asleep = {} THEN stage' = left
         ELSE \E d \in asleep : stage' = [left EXCEPT ![d] = "look"]
  /\ UNCHANGED <<flights, callers, flight, late>>

\* The leader's work ends: it publishes the outcome and wakes everybody who
\* sleeps on the flight.
Publish(c, a) ==
  /\ stage[c] = "lead"
  /\ result' = [result EXCEPT ![c] = a]
  /\ answer' = [answer EXCEPT ![c] = a]
  /\ stage' = [d \in Callers |->
                 IF d = c THEN "leave"
                 ELSE IF stage[d] = "asleep" /\ flight[d] = c THEN "look"
                 ELSE stage[d]]
  /\ UNCHANGED <<flights, callers, flight, late>>

\* Mutant: a woken caller takes any result for a success.
TakeResultUnchecked(c) ==
  /\ stage[c] \in {"look", "expired"}
  /\ result[flight[c]] # "none"
  /\ To(c, "register")
  /\ UNCHANGED <<registry, flight, answer, late>>

\* wait_for_flight looks at the flight under its lock: with a result it goes on
\* or fails as the leader did, without one it sleeps or, out of time, fails.
TakeResult(c) ==
  /\ stage[c] \in {"look", "expired"}
  /\ result[flight[c]] # "none"
  /\ IF result[flight[c]] = "ok"
     THEN To(c, "register") /\ UNCHANGED answer
     ELSE Answer(c, "failed")
  /\ UNCHANGED <<registry, flight, late>>

Sleep(c) ==
  /\ stage[c] = "look"
  /\ result[flight[c]] = "none"
  /\ ~late[c]
  /\ To(c, "asleep")
  /\ UNCHANGED <<registry, flight, answer, late>>

GiveUp(c) ==
  /\ \/ stage[c] = "look" /\ late[c]
     \/ stage[c] = "expired"
  /\ result[flight[c]] = "none"
  /\ Answer(c, "failed")
  /\ UNCHANGED <<registry, flight, late>>

SpuriousWake(c) ==
  /\ stage[c] = "asleep"
  /\ To(c, "look")
  /\ UNCHANGED <<registry, flight, answer, late>>

\* Mutant: `wait` in the place of `wait_timeout`.
WaitNeverRunsOut(c) == c \notin Callers /\ UNCHANGED vars

WaitRunsOut(c) ==
  /\ stage[c] = "asleep"
  /\ late[c]
  /\ To(c, "expired")
  /\ UNCHANGED <<registry, flight, answer, late>>

\* register_resolution returns.
Registered(c, a) ==
  /\ stage[c] = "register"
  /\ Answer(c, a)
  /\ UNCHANGED <<registry, flight, late>>

\* Mutant: the count is tested before it goes down.
LeaveTestsFirst(c) ==
  /\ stage[c] = "leave"
  /\ callers' = [callers EXCEPT ![flight[c]] = @ - 1]
  /\ To(c, IF callers[flight[c]] = 0 THEN "unlist" ELSE "done")
  /\ UNCHANGED <<flights, result, flight, answer, late>>

\* release_flight, under the flight's lock: the last one out goes on to the
\* registry, which it does not hold here.
Leave(c) ==
  /\ stage[c] = "leave"
  /\ callers' = [callers EXCEPT ![flight[c]] = @ - 1]
  /\ To(c, IF callers[flight[c]] = 1 THEN "unlist" ELSE "done")
  /\ UNCHANGED <<flights, result, flight, answer, late>>

\* Mutant: the key is taken off the registry without Arc::ptr_eq.
UnlistAnyFlight(c) ==
  /\ stage[c] = "unlist"
  /\ flights' = [flights EXCEPT ![KeyOf[c]] = Nobody]
  /\ To(c, "done")
  /\ UNCHANGED <<callers, result, flight, answer, late>>

\* release_flight, under the registry's lock: the flight goes off the registry
\* unless another one took its place.
Unlist(c) ==
  /\ stage[c] = "unlist"
  /\ flights' = IF Listed(c) = flight[c]
                THEN [flights EXCEPT ![KeyOf[c]] = Nobody] ELSE flights
  /\ To(c, "done")
  /\ UNCHANGED <<callers, result, flight, answer, late>>

\* The thread unwinds out of a Nix command: nothing releases its flight.
Die(c) ==
  /\ c \in Fragile
  /\ stage[c] \in {"lead", "register"}
  /\ To(c, "dead")
  /\ UNCHANGED <<registry, flight, answer, late>>

DeadlinePasses(c) ==
  /\ ~late[c]
  /\ late' = [late EXCEPT ![c] = TRUE]
  /\ UNCHANGED flightVars

\* What a thread does by itself, and how its Nix commands end.
ThreadStep(c) ==
  \/ TakeResult(c) \/ Sleep(c) \/ GiveUp(c) \/ WaitRunsOut(c)
  \/ Leave(c) \/ Unlist(c)

WorkEnds(c) == \E a \in Outcomes : Publish(c, a) \/ Registered(c, a)

Next == \E c \in Callers :
  \/ Reject(c) \/ Board(c) \/ ThreadStep(c) \/ WorkEnds(c) \/ SpuriousWake(c)
  \/ Die(c) \/ DeadlinePasses(c)

Spec == Init /\ [][Next]_vars
-----------------------------------------------------------------------------
(***************************************************************************)
(* Properties                                                              *)
(***************************************************************************)
AboardOf(f) == {c \in Callers : flight[c] = f /\ stage[c] \in Aboard}

TypeOK ==
  /\ flights \in [Keys -> Callers \cup {Nobody}]
  /\ callers \in [Callers -> Nat]
  /\ result \in [Callers -> Outcomes \cup {"none"}]
  /\ stage \in [Callers -> Stages]
  /\ flight \in [Callers -> Callers \cup {Nobody}]
  /\ answer \in [Callers -> Outcomes \cup {"none"}]
  /\ late \in [Callers -> BOOLEAN]

\* A caller only ever waits for a flight that is still listed: whoever comes
\* later with the same key boards the same flight.  It takes a last caller that
\* stalls between its two locks, a newcomer and a third one to break this.
WaitsForListed == \A c \in Callers :
  stage[c] \in {"look", "asleep", "expired"} /\ result[flight[c]] = "none"
    => Listed(c) = flight[c]

\* Nobody sleeps on a flight whose result is out: notify_all reached everybody.
NobodySleepsPastResult == \A c \in Callers :
  stage[c] = "asleep" => result[flight[c]] = "none"

\* The registry does not leak: a listed flight has somebody aboard or on the
\* way to unlist it, unless a caller died aboard.
ListedIsHeld == \A k \in Keys :
  flights[k] # Nobody =>
    \E c \in Callers :
      flight[c] = flights[k] /\ stage[c] \in Aboard \cup {"unlist", "dead"}

\* Flights implement coalescing, see Coalescing.tla.
WorkerOf(k) ==
  LET leaders == {c \in Callers : stage[c] = "lead" /\ KeyOf[c] = k}
  IN  IF leaders = {} THEN Nobody ELSE CHOOSE c \in leaders : TRUE

Coal == INSTANCE Coalescing WITH
  worker <- [k \in Keys |-> WorkerOf(k)],
  made <- {KeyOf[f] : f \in {g \in Callers : result[g] = "ok"}}

CoalescingSpec == Coal!Spec
=============================================================================
