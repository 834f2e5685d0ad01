------------------------------- MODULE Permits -------------------------------
(***************************************************************************)
(* The realization permits of the resolver: a counter under a mutex with   *)
(* one condition variable (ResolverInner.permits and permit_ready).  Every *)
(* Nix command runs under a permit.  A caller asks for one, sleeps on the  *)
(* condition variable while all are out, and gives up at the deadline of   *)
(* its own request.  Each action is one critical section of the mutex, or  *)
(* one event of the world outside it.                                      *)
(***************************************************************************)
EXTENDS Naturals, FiniteSets

CONSTANTS
  Callers,           \* the connection threads
  MaxRealizations    \* config.max_realizations

ASSUME PermitAssumption ==
  /\ IsFiniteSet(Callers)
  /\ MaxRealizations \in Nat \ {0}

VARIABLES
  active,   \* the counter behind the mutex
  seat,     \* where each caller stands with respect to the permits
  late      \* late[c]: the deadline of c's request has passed

permitVars == <<active, seat>>
vars == <<active, seat, late>>

(***************************************************************************)
(* "out": not asking; "want": called acquire_permit and has yet to take    *)
(* the mutex; "asleep": queued on the condition variable; "notified" and   *)
(* "expired": left the queue (by a wake-up, or because wait_timeout ran    *)
(* out) and has yet to take the mutex again; "held": owns a Permit;        *)
(* "refused": acquire_permit returned the timeout error.                   *)
(***************************************************************************)
Seats == {"out", "want", "asleep", "notified", "expired", "held", "refused"}

In(s) == {c \in Callers : seat[c] = s}

Init ==
  /\ active = 0
  /\ seat = [c \in Callers |-> "out"]
  /\ late = [c \in Callers |-> FALSE]

Full == active >= MaxRealizations

Move(c, s) == seat' = [seat EXCEPT ![c] = s]

\* acquire_permit is called.
Ask(c) ==
  /\ seat[c] = "out"
  /\ Move(c, "want")
  /\ UNCHANGED <<active, late>>

\* Mutant: the condition is tested with `if`, so a woken caller goes ahead.
TakeWithoutRecheck(c) ==
  /\ \/ seat[c] \in {"want", "expired"} /\ ~Full
     \/ seat[c] = "notified"
  /\ active' = active + 1
  /\ Move(c, "held")
  /\ UNCHANGED late

\* The mutex is taken and the loop condition is false, whatever brought the
\* caller here: even a caller whose wait timed out takes a free permit.
Take(c) ==
  /\ seat[c] \in {"want", "notified", "expired"}
  /\ ~Full
  /\ active' = active + 1
  /\ Move(c, "held")
  /\ UNCHANGED late

\* No permit is free and there is time left: wait_timeout queues the caller
\* and lets the mutex go in one step.
Sleep(c) ==
  /\ seat[c] \in {"want", "notified"}
  /\ Full
  /\ ~late[c]
  /\ Move(c, "asleep")
  /\ UNCHANGED <<active, late>>

\* Mutant: a wait that timed out is refused without looking at the counter.
RefuseWithoutRecheck(c) ==
  /\ \/ seat[c] \in {"want", "notified"} /\ late[c] /\ Full
     \/ seat[c] = "expired"
  /\ Move(c, "refused")
  /\ UNCHANGED <<active, late>>

\* Mutant: a caller whose time is up waits once more.
RefuseTriesAgain(c) ==
  /\ \/ seat[c] \in {"want", "notified"} /\ late[c]
     \/ seat[c] = "expired"
  /\ Full
  /\ Move(c, "want")
  /\ UNCHANGED <<active, late>>

\* No permit is free: `remaining` fails, or the wait timed out.
Refuse(c) ==
  /\ \/ seat[c] \in {"want", "notified"} /\ late[c]
     \/ seat[c] = "expired"
  /\ Full
  /\ Move(c, "refused")
  /\ UNCHANGED <<active, late>>

\* Mutant: a sleeper is woken only when the last permit comes back.
DropWakesOnlyIfFull(c) ==
  /\ seat[c] = "held"
  /\ active' = active - 1
  /\ LET given == [seat EXCEPT ![c] = "out"]
     IN  IF In("asleep") = {} \/ active # MaxRealizations
         THEN seat' = given
         ELSE \E s \in In("asleep") : seat' = [given EXCEPT ![s] = "notified"]
  /\ UNCHANGED late

\* A Permit is dropped: the counter goes down and notify_one takes one
\* sleeper, if there is any, out of the queue.
Drop(c) ==
  /\ seat[c] = "held"
  /\ active' = active - 1
  /\ LET given == [seat EXCEPT ![c] = "out"]
     IN  IF In("asleep") = {}
         THEN seat' = given
         ELSE \E s \in In("asleep") : seat' = [given EXCEPT ![s] = "notified"]
  /\ UNCHANGED late

\* The condition variable may wake a sleeper for no reason.
SpuriousWake(c) ==
  /\ seat[c] = "asleep"
  /\ Move(c, "notified")
  /\ UNCHANGED <<active, late>>

\* wait_timeout runs out: the caller leaves the queue by itself.
WaitRunsOut(c) ==
  /\ seat[c] = "asleep"
  /\ late[c]
  /\ Move(c, "expired")
  /\ UNCHANGED <<active, late>>

DeadlinePasses(c) ==
  /\ ~late[c]
  /\ late' = [late EXCEPT ![c] = TRUE]
  /\ UNCHANGED permitVars

\* The steps a thread inside acquire_permit takes by itself.
AcquireStep(c) == Take(c) \/ Sleep(c) \/ Refuse(c) \/ WaitRunsOut(c)

Next == \E c \in Callers :
  Ask(c) \/ AcquireStep(c) \/ Drop(c) \/ SpuriousWake(c) \/ DeadlinePasses(c)

Spec == Init /\ [][Next]_vars

\* A runnable thread runs, time goes on, and run_command ends by its deadline,
\* so a permit is dropped some time.
Fairness == \A c \in Callers :
  /\ WF_vars(AcquireStep(c))
  /\ WF_vars(Drop(c))
  /\ WF_vars(DeadlinePasses(c))

FairSpec == Spec /\ Fairness
-----------------------------------------------------------------------------
(***************************************************************************)
(* Properties                                                              *)
(***************************************************************************)

\* The counter and every caller's place have their types.
TypeOK ==
  /\ active \in Nat
  /\ seat \in [Callers -> Seats]
  /\ late \in [Callers -> BOOLEAN]

\* acquire_permit and Permit::drop keep the counter equal to the number of
\* live Permits, and never let it pass max_realizations.
PermitsCounted ==
  /\ active = Cardinality(In("held"))
  /\ active <= MaxRealizations

\* notify_one is never lost: while somebody sleeps, every permit is either out
\* or has a woken caller on its way to it, so no permit lies idle behind a
\* queue.  It takes a barging caller, a wake-up and a timeout to go wrong.
NoLostWakeup ==
  In("asleep") # {} => active + Cardinality(In("notified")) >= MaxRealizations

\* Permits implement the semaphore: in particular a timeout is reported only
\* while every permit is out, the `timed_out && active >= max` test of
\* acquire_permit.
Sem == INSTANCE Semaphore WITH
  Capacity <- MaxRealizations,
  holders <- In("held"),
  turnedAway <- In("refused")

SemaphoreSpec == Sem!Spec

\* Everybody who asks is answered: barging and missed turns may starve a
\* caller of a permit, but only until its deadline.
AskedIsAnswered == \A c \in Callers :
  seat[c] = "want" ~> seat[c] \in {"held", "refused"}
=============================================================================
