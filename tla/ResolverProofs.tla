---------------------------- MODULE ResolverProofs ----------------------------
(***************************************************************************)
(* Proofs about Resolver, for any requests, releases, sources and permits. *)
(* First, the parts keep their promises in the whole: every step of the    *)
(* resolver is a step of Flights and a step of Permits, or leaves their    *)
(* variables alone, so what is proved of them holds here.  Second, what    *)
(* only the whole can promise: permits, roots, the store and answers.      *)
(***************************************************************************)
EXTENDS Resolver, TLAPS

FP == INSTANCE FlightsProofs
PP == INSTANCE PermitsProofs

LEMMA PartsAssumptions == FP!FlightAssumption /\ PP!PermitAssumption
  BY ResolverAssumption
     DEF FP!FlightAssumption, PP!PermitAssumption, FP!IsFiniteSet, PP!IsFiniteSet, IsFiniteSet

-----------------------------------------------------------------------------
(***************************************************************************)
(* The permits.                                                            *)
(***************************************************************************)
\* What happens to a flight leaves the permits and the deadlines alone.
LEMMA FlightStepKeepsPermits ==
  ASSUME NEW c \in Callers,
         Board(c) \/ Reject(c) \/ WaitForFlight(c) \/ ReleaseFlight(c) \/ Finish(c)
  PROVE  UNCHANGED <<active, seat, late>>
  BY DEF Board, Reject, WaitForFlight, ReleaseFlight, Finish, permitVars, F!Board, F!Reject,
     F!TakeResult, F!Sleep, F!GiveUp, F!WaitRunsOut, F!Leave, F!Unlist, F!Publish, F!Registered

LEMMA StepIsPermitStep == [Next]_vars => [P!Next]_(P!vars)
<1>. SUFFICES ASSUME [Next]_vars PROVE P!Next \/ UNCHANGED P!vars
  OBVIOUS
<1>1. ASSUME NEW c \in Callers,
             Board(c) \/ Reject(c) \/ WaitForFlight(c) \/ ReleaseFlight(c) \/ Finish(c)
      PROVE  UNCHANGED P!vars
  BY <1>1, FlightStepKeepsPermits DEF P!vars
<1>2. ASSUME NEW c \in Callers,
             \/ Prepare(c) \/ Collides(c) \/ StagingFails(c) \/ StagingBlocks(c)
             \/ StagingUnblocks(c) \/ CommandEnds(c) \/ KilledButHeld(c) \/ ReadersEnd(c)
             \/ Clean(c) \/ Discard(c)
      PROVE  UNCHANGED P!vars
  BY <1>2 DEF Prepare, Collides, StagingFails, StagingBlocks, StagingUnblocks, CommandEnds,
     KilledButHeld, ReadersEnd, Clean, Discard, permitVars, P!vars
<1>3. ASSUME NEW c \in Callers, AskPermit(c) PROVE P!Next
  BY <1>3 DEF AskPermit, P!Next
<1>4. ASSUME NEW c \in Callers, AcquirePermit(c) PROVE P!Next
  BY <1>4 DEF AcquirePermit, P!Next
<1>5. ASSUME NEW c \in Callers, DropPermit(c) \/ Die(c) PROVE P!Next
  BY <1>5 DEF DropPermit, Die, P!Next
<1>6. ASSUME NEW c \in Callers, DeadlinePasses(c) PROVE P!Next
  BY <1>6 DEF DeadlinePasses, F!DeadlinePasses, P!DeadlinePasses, permitVars, P!permitVars, P!Next
<1>7. ASSUME NEW c \in Callers, SpuriousWake(c) PROVE P!Next \/ UNCHANGED P!vars
  BY <1>7 DEF SpuriousWake, F!SpuriousWake, permitVars, P!vars, P!Next
<1>8. CASE (\E p \in Paths : Collect(p)) \/ UNCHANGED vars
  BY <1>8 DEF Collect, vars, permitVars, P!vars
<1>. QED
  BY <1>1, <1>2, <1>3, <1>4, <1>5, <1>6, <1>7, <1>8 DEF Next, ThreadStep

\* Every step of the resolver takes or gives a permit as acquire_permit and
\* Permit::drop do, also where a thread dies in a command.
THEOREM ResolverRunsPermits == Spec => P!Spec
<1>1. Init => P!Init
  BY DEF Init
<1>. QED
  BY <1>1, StepIsPermitStep, PTL DEF Spec, P!Spec

-----------------------------------------------------------------------------
(***************************************************************************)
(* The flights.                                                            *)
(***************************************************************************)
Verdicts == verdict \in [Callers -> {"ok", "failed"}]

LEMMA StepIsFlightStep ==
  Verdicts /\ [Next]_vars => [F!Next]_(F!vars)
<1>. SUFFICES ASSUME Verdicts, [Next]_vars
              PROVE  F!Next \/ UNCHANGED F!vars
  OBVIOUS
<1>1. ASSUME NEW c \in Callers, Board(c) \/ Reject(c) \/ Die(c) PROVE F!Next
  BY <1>1 DEF Board, Reject, Die, F!Next
<1>2. ASSUME NEW c \in Callers, WaitForFlight(c) \/ ReleaseFlight(c) PROVE F!Next
  BY <1>2 DEF WaitForFlight, ReleaseFlight, F!ThreadStep, F!Next
<1>3. ASSUME NEW c \in Callers, Finish(c) PROVE F!Next
  <2>1. verdict[c] \in F!Outcomes
    BY DEF F!Outcomes, Verdicts
  <2>. QED
    BY <1>3, <2>1 DEF Finish, F!WorkEnds, F!Next
<1>4. ASSUME NEW c \in Callers,
             \/ Prepare(c) \/ Collides(c) \/ StagingFails(c) \/ StagingBlocks(c)
             \/ StagingUnblocks(c) \/ CommandEnds(c) \/ KilledButHeld(c) \/ ReadersEnd(c)
             \/ Clean(c) \/ Discard(c)
      PROVE  UNCHANGED F!vars
  BY <1>4 DEF Prepare, Collides, StagingFails, StagingBlocks, StagingUnblocks, CommandEnds,
     KilledButHeld, ReadersEnd, Clean, Discard, flightVars, F!vars
<1>5. ASSUME NEW c \in Callers, AskPermit(c) \/ DropPermit(c) PROVE UNCHANGED F!vars
  BY <1>5 DEF AskPermit, DropPermit, P!Ask, P!Drop, flightVars, F!vars
<1>6. ASSUME NEW c \in Callers, AcquirePermit(c) PROVE UNCHANGED F!vars
  BY <1>6 DEF AcquirePermit, P!AcquireStep, P!Take, P!Sleep, P!Refuse, P!WaitRunsOut,
     flightVars, F!vars
<1>7. ASSUME NEW c \in Callers, DeadlinePasses(c) PROVE F!Next
  BY <1>7 DEF DeadlinePasses, F!Next
<1>8. ASSUME NEW c \in Callers, SpuriousWake(c) PROVE F!Next \/ UNCHANGED F!vars
  BY <1>8 DEF SpuriousWake, P!SpuriousWake, flightVars, F!vars, F!Next
<1>9. CASE (\E p \in Paths : Collect(p)) \/ UNCHANGED vars
  BY <1>9 DEF Collect, vars, flightVars, F!vars
<1>. QED
  BY <1>1, <1>2, <1>3, <1>4, <1>5, <1>6, <1>7, <1>8, <1>9 DEF Next, ThreadStep

LEMMA VerdictInv ==
  Verdicts /\ [Next]_vars => Verdicts'
<1>. SUFFICES ASSUME Verdicts, [Next]_vars
              PROVE  Verdicts'
  OBVIOUS
<1>1. verdict' = verdict \/ \E c \in Callers : Fails(c)
  BY DEF Next, ThreadStep, vars, workVars, Board, Reject, WaitForFlight, ReleaseFlight, Prepare,
     Collides, StagingFails, StagingBlocks, StagingUnblocks, AskPermit, AcquirePermit, CommandEnds,
     KilledButHeld, ReadersEnd, DropPermit, Finish, Clean, Die, DeadlinePasses, SpuriousWake,
     Discard, Collect
<1>. QED
  BY <1>1 DEF Fails, Verdicts

\* Every step of the resolver is one of resolve_detailed, wait_for_flight or
\* release_flight, also where a thread dies in a command.
THEOREM ResolverRunsFlights == Spec => F!Spec
<1>1. Init => F!Init /\ Verdicts
  BY DEF Init, Verdicts
<1>. QED
  BY <1>1, VerdictInv, StepIsFlightStep, PTL DEF Spec, F!Spec

-----------------------------------------------------------------------------
(***************************************************************************)
(* What is proved of the parts, carried over.  FP and PP name the same     *)
(* definitions as F and P once more.                                       *)
(***************************************************************************)
LEMMA SameFlights ==
  /\ F!Init => FP!Init
  /\ [F!Next]_(F!vars) => [FP!Next]_(FP!vars)
<1>1. F!Init => FP!Init
  BY DEF F!Init, FP!Init
<1>2. [F!Next]_(F!vars) => [FP!Next]_(FP!vars)
  BY DEF F!Next, FP!Next, F!vars, FP!vars, F!registry, FP!registry, F!flightVars, FP!flightVars,
     F!Outcomes, FP!Outcomes, F!To, FP!To, F!Answer, FP!Answer, F!Listed, FP!Listed,
     F!Reject, FP!Reject, F!Board, FP!Board, F!Publish, FP!Publish, F!TakeResult, FP!TakeResult,
     F!Sleep, FP!Sleep, F!GiveUp, FP!GiveUp, F!SpuriousWake, FP!SpuriousWake,
     F!WaitRunsOut, FP!WaitRunsOut, F!Registered, FP!Registered, F!Leave, FP!Leave,
     F!Unlist, FP!Unlist, F!Die, FP!Die, F!DeadlinePasses, FP!DeadlinePasses,
     F!ThreadStep, FP!ThreadStep, F!WorkEnds, FP!WorkEnds
<1>. QED
  BY <1>1, <1>2

LEMMA SamePermits ==
  /\ P!Init => PP!Init
  /\ [P!Next]_(P!vars) => [PP!Next]_(PP!vars)
<1>1. P!Init => PP!Init
  BY DEF P!Init, PP!Init
<1>2. [P!Next]_(P!vars) => [PP!Next]_(PP!vars)
  BY DEF P!Next, PP!Next, P!vars, PP!vars, P!permitVars, PP!permitVars, P!In, PP!In,
     P!Full, PP!Full, P!Move, PP!Move, P!Ask, PP!Ask, P!Take, PP!Take, P!Sleep, PP!Sleep,
     P!Refuse, PP!Refuse, P!WaitRunsOut, PP!WaitRunsOut, P!AcquireStep, PP!AcquireStep,
     P!Drop, PP!Drop, P!SpuriousWake, PP!SpuriousWake, P!DeadlinePasses, PP!DeadlinePasses
<1>. QED
  BY <1>1, <1>2

LEMMA FlightsInv == F!Spec => []FP!IInv
  BY SameFlights, PartsAssumptions, FP!InitInv, FP!NextInv, PTL DEF F!Spec

LEMMA PermitsInv == P!Spec => []PP!IInv
  BY SamePermits, PartsAssumptions, PP!InitInv, PP!NextInv, PTL DEF P!Spec

\* The counter of permits is exact and within max_realizations, and no permit
\* lies idle behind a queue, whatever the flights, the builds and the deaths of
\* threads do to those who hold one (acquire_permit, Permit::drop).
THEOREM ResolverCountsPermits == Spec => [](P!PermitsCounted /\ P!NoLostWakeup)
<1>1. PP!IInv => P!PermitsCounted /\ P!NoLostWakeup
  BY DEF PP!IInv, PP!PermitsCounted, P!PermitsCounted, PP!NoLostWakeup, P!NoLostWakeup,
     P!In, PP!In, P!Cardinality, PP!Cardinality
<1>. QED
  BY <1>1, ResolverRunsPermits, PermitsInv, PTL

\* Nobody waits for a flight that newcomers cannot find or whose result is out,
\* and a listed flight has somebody aboard (wait_for_flight, release_flight).
THEOREM ResolverKeepsFlights ==
  Spec => [](F!WaitsForListed /\ F!NobodySleepsPastResult /\ F!ListedIsHeld)
<1>1. FP!IInv => F!WaitsForListed /\ F!NobodySleepsPastResult /\ F!ListedIsHeld
  <2>1. FP!IInv => FP!WaitsForListed
    BY FP!WaitersAreListed, PartsAssumptions
  <2>. QED
    BY <2>1 DEF FP!IInv, FP!Core, FP!WaitsForListed, F!WaitsForListed, FP!Listed, F!Listed,
       FP!NobodySleepsPastResult, F!NobodySleepsPastResult, FP!ListedIsHeld, F!ListedIsHeld,
       FP!Aboard, F!Aboard
<1>. QED
  BY <1>1, ResolverRunsFlights, FlightsInv, PTL

\* So the resolver implements what its parts implement: it coalesces requests,
\* and it is a semaphore around its Nix commands.
THEOREM ResolverImplementsPromises == Spec => FP!CoalescingSpec /\ PP!SemaphoreSpec
<1>1. F!Spec => FP!Spec
  BY SameFlights, PTL DEF F!Spec, FP!Spec
<1>2. P!Spec => PP!Spec
  BY SamePermits, PTL DEF P!Spec, PP!Spec
<1>. QED
  BY <1>1, <1>2, ResolverRunsFlights, ResolverRunsPermits, PartsAssumptions,
     FP!FlightsImplementCoalescing, PP!PermitsImplementSemaphore, PTL

-----------------------------------------------------------------------------
(***************************************************************************)
(* The whole.                                                              *)
(***************************************************************************)
Work == {"prepare", "ask", "blocked", "acquire", "command", "joining", "drop", "finish"}
Waits == {"new", "look", "asleep", "expired"}

Shape ==
  /\ step \in [Callers -> Steps]
  /\ at \in [Callers -> Nat]
  /\ verdict \in [Callers -> {"ok", "failed"}]
  /\ links \in [Callers -> SUBSET Nat]
  /\ \A c \in Callers : links[c] \subseteq 1..LastPath(c)
  /\ discarded \subseteq Discardable
  /\ store \in [Paths -> {"absent", "cache", "built", "node"}]

\* What a caller does for its bundle fits what it does for its flight, and
\* where it stands with the permits.
Counters == \A c \in Callers :
  /\ stage[c] \in {"lead", "register"} <=> step[c] \in Work
  /\ step[c] = "clean" => stage[c] = "leave"
  /\ step[c] = "acquire" <=> seat[c] \in {"want", "asleep", "notified", "expired"}

\* The path it is at; 0 is for a build.
Places == \A c \in Callers :
  /\ at[c] <= LastPath(c)
  /\ at[c] = 0 => (Builds(c) /\ step[c] \in Work \ {"prepare"}) \/ stage[c] = "dead"
  /\ stage[c] \in Waits => at[c] = 1

\* The paths behind it have their roots; with success, all have.
Progress == \A c \in Callers :
  /\ step[c] \in {"prepare", "ask", "blocked", "acquire", "command"} =>
       1..(at[c] - 1) \subseteq links[c]
  /\ step[c] = "joining" => verdict[c] = "failed"
  /\ step[c] = "drop" /\ verdict[c] = "ok" => 1..at[c] \subseteq links[c]
  /\ step[c] = "finish" /\ verdict[c] = "ok" => 1..LastPath(c) \subseteq links[c]
  /\ answer[c] = "ok" => step[c] = "idle" /\ (c \notin discarded => 1..LastPath(c) \subseteq links[c])
  /\ c \in discarded => stage[c] = "done"

\* There is no root before the work, and with a failure none after it.
Cleaned == \A c \in Callers :
  /\ stage[c] \in Waits => links[c] = {}
  /\ step[c] = "clean" => answer[c] = "failed" /\ \A i \in links[c] : at[c] <= i
  /\ answer[c] = "failed" /\ step[c] # "clean" => links[c] = {}

\* The collector leaves what a root holds.
Held == \A c \in Callers : \A i \in links[c] : store[PathAt(c, i)] # "absent"

Refused == \A c \in Denied :
  stage[c] \in {"new", "done"} /\ answer[c] # "ok" /\ links[c] = {}

\* A flight that can be registered from is one whose leader succeeded.
Led == \A c \in Callers : result[c] = "ok" => answer[c] = "ok"

RInv == Shape /\ PermitsAroundCommands /\ Counters /\ Places /\ Progress /\ Cleaned
          /\ Held /\ Refused /\ Led

LEMMA InitRInv == Init => RInv
  BY ResolverAssumption
     DEF Init, F!Init, P!Init, RInv, Shape, PermitsAroundCommands, Counters, Places, Progress,
         Cleaned, Held, Refused, Led, Work, Waits, Steps, LastPath, Paths

\* What the parts tell of their variables.
Parts ==
  /\ stage \in [Callers -> F!Stages]
  /\ flight \in [Callers -> Callers \cup {Nobody}]
  /\ result \in [Callers -> {"none", "ok", "failed"}]
  /\ answer \in [Callers -> {"none", "ok", "failed"}]
  /\ seat \in [Callers -> P!Seats]
  /\ \A c \in Callers :
       /\ stage[c] \in Waits \cup {"lead", "register"} => answer[c] = "none"
       /\ stage[c] = "register" =>
            /\ flight[c] \in Callers
            /\ result[flight[c]] = "ok"
            /\ KeyOf[flight[c]] = KeyOf[c]

LEMMA PartsHold == FP!IInv /\ PP!IInv => Parts
  BY DEF FP!IInv, FP!Core, FP!TypeOK, FP!Told, FP!Linked, PP!IInv, PP!TypeOK, Parts, Waits,
     F!Stages, FP!Stages, F!Aboard, FP!Aboard, P!Seats, PP!Seats, FP!Outcomes

LEMMA LastPathIsNat == \A c \in Callers : LastPath(c) \in Nat \ {0}
  BY ResolverAssumption DEF LastPath

LEMMA PathIsThere == \A c \in Callers : \A i \in 1..LastPath(c) : PathAt(c, i) \in Paths
<1>. SUFFICES ASSUME NEW c \in Callers, NEW i \in 1..LastPath(c) PROVE PathAt(c, i) \in Paths
  OBVIOUS
<1>1. KeyOf[c] \in Keys /\ PathAt(c, i) \in {KeyOf[c]} \X (1..PathsOf[KeyOf[c]])
  BY ResolverAssumption DEF PathAt, LastPath
<1>. QED
  BY <1>1 DEF Paths

\* How a command leaves the store and the roots: a path comes into the store and
\* displaces no other, and its caller gets a root for it, or nothing happens.
LEMMA CommandKeepsHeld ==
  ASSUME Shape, Held, NEW c \in Callers, at[c] <= LastPath(c),
         Realise(c) \/ UNCHANGED <<links, store>>
  PROVE  /\ links' = links \/ (at[c] # 0 /\ links' = [links EXCEPT ![c] = @ \cup {at[c]}])
         /\ Realise(c) /\ at[c] # 0 => links' = [links EXCEPT ![c] = @ \cup {at[c]}]
         /\ links' \in [Callers -> SUBSET Nat]
         /\ \A d \in Callers : links'[d] \subseteq 1..LastPath(d)
         /\ store' \in [Paths -> {"absent", "cache", "built", "node"}]
         /\ Held'
<1>1. at[c] \in Nat /\ LastPath(c) \in Nat \ {0}
  BY LastPathIsNat DEF Shape
<1>2. /\ links' = links \/ (at[c] # 0 /\ links' = [links EXCEPT ![c] = @ \cup {at[c]}])
      /\ Realise(c) /\ at[c] # 0 => links' = [links EXCEPT ![c] = @ \cup {at[c]}]
  BY DEF Realise
<1>3. /\ links' \in [Callers -> SUBSET Nat]
      /\ \A d \in Callers : links'[d] \subseteq 1..LastPath(d)
  BY <1>1, <1>2 DEF Shape
<1>4. CASE UNCHANGED <<links, store>>
  BY <1>2, <1>3, <1>4 DEF Shape, Held, PathAt
<1>5. CASE Realise(c)
  <2>. DEFINE p == PathAt(c, IF at[c] = 0 THEN 1 ELSE at[c])
  <2>1. p \in Paths
    BY <1>1, PathIsThere
  <2>2. store' = [store EXCEPT ![p] = IF @ = "absent" THEN Origin(c) ELSE @]
    BY <1>5 DEF Realise
  <2>3. Origin(c) \in {"cache", "built", "node"}
    BY DEF Origin
  <2>. HIDE DEF p
  <2>4. /\ store' \in [Paths -> {"absent", "cache", "built", "node"}]
        /\ store'[p] # "absent"
        /\ \A q \in Paths : store[q] # "absent" => store'[q] # "absent"
    BY <2>1, <2>2, <2>3 DEF Shape
  <2>5. ASSUME NEW d \in Callers, NEW i \in links'[d] PROVE store'[PathAt(d, i)] # "absent"
    <3>1. CASE i \in links[d]
      <4>1. PathAt(d, i) \in Paths /\ store[PathAt(d, i)] # "absent"
        BY <3>1, PathIsThere DEF Shape, Held
      <4>. QED
        BY <4>1, <2>4
    <3>2. CASE i \notin links[d]
      <4>1. d = c /\ i = at[c] /\ at[c] # 0
        BY <1>2, <2>5, <3>2 DEF Shape
      <4>. QED
        BY <4>1, <2>4 DEF p
    <3>. QED
      BY <3>1, <3>2
  <2>6. Held'
    BY <2>5 DEF Held, PathAt
  <2>. QED
    BY <1>2, <1>3, <2>4, <2>6
<1>. QED
  BY <1>4, <1>5

\* The types.
LEMMA ShapeNext == ASSUME RInv, Parts, Parts', [Next]_vars PROVE Shape'
<1>. USE LastPathIsNat DEF RInv, Shape, Do, At, Fails, flightVars, permitVars, workVars,
     rootVars, Work, Waits, Steps, Builds
<1>1. ASSUME NEW c \in Callers, Board(c) \/ Reject(c) PROVE Shape'
  BY <1>1 DEF Board, Reject, NextStep
<1>2. ASSUME NEW c \in Callers, WaitForFlight(c) \/ ReleaseFlight(c) PROVE Shape'
  BY <1>2 DEF WaitForFlight, ReleaseFlight, NextStep
<1>3. ASSUME NEW c \in Callers, Prepare(c) \/ Collides(c) \/ StagingFails(c) PROVE Shape'
  BY <1>3 DEF Prepare, Collides, StagingFails
<1>4. ASSUME NEW c \in Callers, Clean(c) \/ Discard(c) PROVE Shape'
  BY <1>4 DEF Clean, Discard
<1>5. ASSUME NEW c \in Callers, AskPermit(c) \/ AcquirePermit(c) PROVE Shape'
  BY <1>5 DEF AskPermit, AcquirePermit
<1>6. ASSUME NEW c \in Callers, DropPermit(c) PROVE Shape'
  BY <1>6 DEF DropPermit, Advance
<1>7. ASSUME NEW c \in Callers, CommandEnds(c) \/ KilledButHeld(c) PROVE Shape'
  <2>1. /\ step' \in [Callers -> Steps]
        /\ verdict' \in [Callers -> {"ok", "failed"}]
    BY <1>7 DEF CommandEnds, KilledButHeld
  <2>. QED
    BY <1>7, <2>1, CommandKeepsHeld DEF CommandEnds, KilledButHeld, Places
<1>8. ASSUME NEW c \in Callers, Die(c) PROVE Shape'
  BY <1>8, CommandKeepsHeld DEF Places, Die
<1>9. ASSUME NEW c \in Callers, Finish(c) PROVE Shape'
  BY <1>9 DEF Finish
<1>10. ASSUME NEW c \in Callers, DeadlinePasses(c) \/ SpuriousWake(c) PROVE Shape'
  BY <1>10 DEF DeadlinePasses, SpuriousWake
<1>11. ASSUME NEW p \in Paths, Collect(p) PROVE Shape'
  BY <1>11 DEF Collect
<1>12. CASE UNCHANGED vars
  BY <1>12 DEF vars
<1>13. ASSUME NEW c \in Callers, StagingBlocks(c) \/ StagingUnblocks(c) \/ ReadersEnd(c)
      PROVE  Shape'
  BY <1>13 DEF StagingBlocks, StagingUnblocks, ReadersEnd
<1>. QED
  BY <1>1, <1>2, <1>3, <1>4, <1>5, <1>6, <1>7, <1>8, <1>9, <1>10, <1>11, <1>12, <1>13
     DEF Next, ThreadStep

\* A permit is taken where a command starts and dropped where it has ended.
LEMMA PermitsAroundCommandsNext ==
  ASSUME RInv, Parts, Parts', [Next]_vars
  PROVE  PermitsAroundCommands'
<1>. USE LastPathIsNat DEF RInv, Parts, Shape, Counters, Do, flightVars, permitVars, workVars,
     Work
<1>1. ASSUME NEW c \in Callers, Board(c) \/ Reject(c) PROVE PermitsAroundCommands'
  BY <1>1 DEF PermitsAroundCommands, Board, Reject, NextStep, F!Board, F!Reject, F!To,
     F!registry
<1>2. ASSUME NEW c \in Callers, WaitForFlight(c) \/ ReleaseFlight(c) PROVE PermitsAroundCommands'
  BY <1>2 DEF PermitsAroundCommands, WaitForFlight, ReleaseFlight, NextStep, F!TakeResult,
     F!Sleep, F!GiveUp, F!WaitRunsOut, F!Leave, F!Unlist, F!To, F!Answer, F!registry
<1>3. ASSUME NEW c \in Callers, Prepare(c) \/ Collides(c) \/ StagingFails(c)
      PROVE  PermitsAroundCommands'
  BY <1>3 DEF PermitsAroundCommands, Prepare, Collides, StagingFails
<1>4. ASSUME NEW c \in Callers, Clean(c) \/ Discard(c) PROVE PermitsAroundCommands'
  BY <1>4 DEF PermitsAroundCommands, Clean, Discard
<1>5. ASSUME NEW c \in Callers, AskPermit(c) \/ AcquirePermit(c) PROVE PermitsAroundCommands'
  BY <1>5 DEF PermitsAroundCommands, AskPermit, AcquirePermit, P!Ask, P!AcquireStep, P!Take,
     P!Sleep, P!Refuse, P!WaitRunsOut, P!Move, P!Seats
<1>6. ASSUME NEW c \in Callers, DropPermit(c) PROVE PermitsAroundCommands'
  BY <1>6 DEF PermitsAroundCommands, DropPermit, P!Drop, P!In, Advance
<1>7. ASSUME NEW c \in Callers, CommandEnds(c) \/ KilledButHeld(c) PROVE PermitsAroundCommands'
  BY <1>7, CommandKeepsHeld DEF PermitsAroundCommands, CommandEnds, KilledButHeld
<1>8. ASSUME NEW c \in Callers, Die(c) PROVE PermitsAroundCommands'
  BY <1>8, CommandKeepsHeld DEF PermitsAroundCommands, Die, F!Die, F!To, P!Drop, P!In,
     F!registry
<1>9. ASSUME NEW c \in Callers, Finish(c) PROVE PermitsAroundCommands'
  BY <1>9 DEF PermitsAroundCommands, Finish, F!Publish, F!Registered, F!Answer, F!To, F!registry
<1>10. ASSUME NEW c \in Callers, DeadlinePasses(c) \/ SpuriousWake(c) PROVE PermitsAroundCommands'
  BY <1>10 DEF PermitsAroundCommands, DeadlinePasses, SpuriousWake, F!DeadlinePasses,
     F!SpuriousWake, P!SpuriousWake, F!flightVars, P!permitVars, F!To, P!Move, F!registry
<1>11. ASSUME NEW p \in Paths, Collect(p) PROVE PermitsAroundCommands'
  BY <1>11 DEF PermitsAroundCommands, Collect
<1>12. CASE UNCHANGED vars
  BY <1>12 DEF PermitsAroundCommands, vars
<1>13. ASSUME NEW c \in Callers, StagingBlocks(c) \/ StagingUnblocks(c) \/ ReadersEnd(c)
      PROVE  PermitsAroundCommands'
  BY <1>13 DEF PermitsAroundCommands, StagingBlocks, StagingUnblocks, ReadersEnd
<1>. QED
  BY <1>1, <1>2, <1>3, <1>4, <1>5, <1>6, <1>7, <1>8, <1>9, <1>10, <1>11, <1>12, <1>13
     DEF Next, ThreadStep

\* Where a caller is in its flight and where it is in its work move together.
LEMMA CountersNext == ASSUME RInv, Parts, Parts', [Next]_vars PROVE Counters'
<1>. USE LastPathIsNat DEF RInv, Parts, Shape, Counters, Do, flightVars, permitVars, workVars,
     Work
<1>1. ASSUME NEW c \in Callers, Board(c) \/ Reject(c) PROVE Counters'
  BY <1>1 DEF Board, Reject, NextStep, F!Board, F!Reject, F!To, F!registry
<1>2. ASSUME NEW c \in Callers, WaitForFlight(c) \/ ReleaseFlight(c) PROVE Counters'
  BY <1>2 DEF WaitForFlight, ReleaseFlight, NextStep, F!TakeResult, F!Sleep, F!GiveUp,
     F!WaitRunsOut, F!Leave, F!Unlist, F!To, F!Answer, F!registry
<1>3. ASSUME NEW c \in Callers, Prepare(c) \/ Collides(c) \/ StagingFails(c) PROVE Counters'
  BY <1>3 DEF Prepare, Collides, StagingFails
<1>4. ASSUME NEW c \in Callers, Clean(c) \/ Discard(c) PROVE Counters'
  BY <1>4 DEF Clean, Discard
<1>5. ASSUME NEW c \in Callers, AskPermit(c) \/ AcquirePermit(c) PROVE Counters'
  BY <1>5 DEF AskPermit, AcquirePermit, P!Ask, P!AcquireStep, P!Take, P!Sleep, P!Refuse,
     P!WaitRunsOut, P!Move, P!Seats
<1>6. ASSUME NEW c \in Callers, DropPermit(c) PROVE Counters'
  BY <1>6 DEF DropPermit, P!Drop, P!In, Advance
<1>7. ASSUME NEW c \in Callers, CommandEnds(c) \/ KilledButHeld(c) PROVE Counters'
  BY <1>7, CommandKeepsHeld DEF CommandEnds, KilledButHeld
<1>8. ASSUME NEW c \in Callers, Die(c) PROVE Counters'
  BY <1>8, CommandKeepsHeld DEF Die, F!Die, F!To, P!Drop, P!In, F!registry
<1>9. ASSUME NEW c \in Callers, Finish(c) PROVE Counters'
  BY <1>9 DEF Finish, F!Publish, F!Registered, F!Answer, F!To, F!registry
<1>10. ASSUME NEW c \in Callers, DeadlinePasses(c) \/ SpuriousWake(c) PROVE Counters'
  BY <1>10 DEF DeadlinePasses, SpuriousWake, F!DeadlinePasses, F!SpuriousWake, P!SpuriousWake,
     F!flightVars, P!permitVars, F!To, P!Move, F!registry
<1>11. ASSUME NEW p \in Paths, Collect(p) PROVE Counters'
  BY <1>11 DEF Collect
<1>12. CASE UNCHANGED vars
  BY <1>12 DEF vars
<1>13. ASSUME NEW c \in Callers, StagingBlocks(c) \/ StagingUnblocks(c) \/ ReadersEnd(c)
      PROVE  Counters'
  BY <1>13 DEF StagingBlocks, StagingUnblocks, ReadersEnd
<1>. QED
  BY <1>1, <1>2, <1>3, <1>4, <1>5, <1>6, <1>7, <1>8, <1>9, <1>10, <1>11, <1>12, <1>13
     DEF Next, ThreadStep

\* The loop over the paths stays within them.
LEMMA PlacesNext == ASSUME RInv, Parts, Parts', [Next]_vars PROVE Places'
<1>. USE LastPathIsNat DEF RInv, Parts, Shape, Counters, Do, At, flightVars, permitVars,
     workVars, Work, Waits, Builds
<1>1. ASSUME NEW c \in Callers, Board(c) \/ Reject(c) PROVE Places'
  BY <1>1 DEF Places, Board, Reject, NextStep, F!Board, F!Reject, F!To, F!registry
<1>2. ASSUME NEW c \in Callers, WaitForFlight(c) \/ ReleaseFlight(c) PROVE Places'
  BY <1>2 DEF Places, WaitForFlight, ReleaseFlight, NextStep, F!TakeResult, F!Sleep, F!GiveUp,
     F!WaitRunsOut, F!Leave, F!Unlist, F!To, F!Answer, F!registry
<1>3. ASSUME NEW c \in Callers, Prepare(c) \/ Collides(c) \/ StagingFails(c) PROVE Places'
  BY <1>3 DEF Places, Prepare, Collides, StagingFails
<1>4. ASSUME NEW c \in Callers, Clean(c) \/ Discard(c) PROVE Places'
  BY <1>4 DEF Places, Clean, Discard
<1>5. ASSUME NEW c \in Callers, AskPermit(c) \/ AcquirePermit(c) PROVE Places'
  BY <1>5 DEF Places, AskPermit, AcquirePermit, P!Ask, P!AcquireStep, P!Take, P!Sleep, P!Refuse,
     P!WaitRunsOut, P!Move, P!Seats
<1>6. ASSUME NEW c \in Callers, DropPermit(c) PROVE Places'
  BY <1>6 DEF Places, DropPermit, P!Drop, P!In, Advance
<1>7. ASSUME NEW c \in Callers, CommandEnds(c) \/ KilledButHeld(c) PROVE Places'
  BY <1>7, CommandKeepsHeld DEF Places, CommandEnds, KilledButHeld
<1>8. ASSUME NEW c \in Callers, Die(c) PROVE Places'
  BY <1>8, CommandKeepsHeld DEF Places, Die, F!Die, F!To, P!Drop, P!In, F!registry
<1>9. ASSUME NEW c \in Callers, Finish(c) PROVE Places'
  BY <1>9 DEF Places, Finish, F!Publish, F!Registered, F!Answer, F!To, F!registry
<1>10. ASSUME NEW c \in Callers, DeadlinePasses(c) \/ SpuriousWake(c) PROVE Places'
  BY <1>10 DEF Places, DeadlinePasses, SpuriousWake, F!DeadlinePasses, F!SpuriousWake,
     P!SpuriousWake, F!flightVars, P!permitVars, F!To, P!Move, F!registry
<1>11. ASSUME NEW p \in Paths, Collect(p) PROVE Places'
  BY <1>11 DEF Places, Collect
<1>12. CASE UNCHANGED vars
  BY <1>12 DEF Places, vars
<1>13. ASSUME NEW c \in Callers, StagingBlocks(c) \/ StagingUnblocks(c) \/ ReadersEnd(c)
      PROVE  Places'
  BY <1>13 DEF Places, StagingBlocks, StagingUnblocks, ReadersEnd
<1>. QED
  BY <1>1, <1>2, <1>3, <1>4, <1>5, <1>6, <1>7, <1>8, <1>9, <1>10, <1>11, <1>12, <1>13
     DEF Next, ThreadStep

\* A path is left behind with its root; a root goes only with a failure, or
\* with the bundle.
LEMMA ProgressNext == ASSUME RInv, Parts, Parts', [Next]_vars PROVE Progress'
<1>. USE LastPathIsNat DEF RInv, Parts, Shape, Counters, Do, At, Fails, flightVars, permitVars,
     workVars, rootVars, Work, Waits, Steps, Builds
<1>1. ASSUME NEW c \in Callers, Board(c) \/ Reject(c) PROVE Progress'
  BY <1>1 DEF Progress, Places, Board, Reject, NextStep, F!Board, F!Reject, F!To
<1>2. ASSUME NEW c \in Callers, WaitForFlight(c) \/ ReleaseFlight(c) PROVE Progress'
  BY <1>2
     DEF Progress, Places, WaitForFlight, ReleaseFlight, NextStep, F!TakeResult, F!Sleep,
         F!GiveUp, F!WaitRunsOut, F!Leave, F!Unlist, F!To, F!Answer
<1>3. ASSUME NEW c \in Callers, Prepare(c) \/ Collides(c) \/ StagingFails(c) PROVE Progress'
  BY <1>3 DEF Progress, Prepare, Collides, StagingFails
<1>4. ASSUME NEW c \in Callers, Clean(c) \/ Discard(c) PROVE Progress'
  BY <1>4 DEF Progress, Clean, Discard
<1>5. ASSUME NEW c \in Callers, AskPermit(c) \/ AcquirePermit(c) PROVE Progress'
  BY <1>5 DEF Progress, AskPermit, AcquirePermit
<1>6. ASSUME NEW c \in Callers, DropPermit(c) PROVE Progress'
  BY <1>6 DEF Progress, DropPermit, Advance
<1>7. ASSUME NEW c \in Callers, CommandEnds(c) \/ KilledButHeld(c) PROVE Progress'
  BY <1>7, CommandKeepsHeld DEF Progress, Places, PermitsAroundCommands, CommandEnds, KilledButHeld
<1>8. ASSUME NEW c \in Callers, Die(c) PROVE Progress'
  BY <1>8, CommandKeepsHeld DEF Progress, Places, Die, F!Die, F!To
<1>9. ASSUME NEW c \in Callers, Finish(c) PROVE Progress'
  BY <1>9 DEF Progress, Finish, F!Publish, F!Registered, F!Answer, F!To
<1>10. ASSUME NEW c \in Callers, DeadlinePasses(c) \/ SpuriousWake(c) PROVE Progress'
  BY <1>10
     DEF Progress, DeadlinePasses, SpuriousWake, F!DeadlinePasses, F!SpuriousWake,
         F!flightVars, F!To
<1>11. ASSUME NEW p \in Paths, Collect(p) PROVE Progress'
  BY <1>11 DEF Progress, Collect
<1>12. CASE UNCHANGED vars
  BY <1>12 DEF Progress, vars
<1>13. ASSUME NEW c \in Callers, StagingBlocks(c) \/ StagingUnblocks(c) \/ ReadersEnd(c)
      PROVE  Progress'
  BY <1>13 DEF Progress, StagingBlocks, StagingUnblocks, ReadersEnd
<1>. QED
  BY <1>1, <1>2, <1>3, <1>4, <1>5, <1>6, <1>7, <1>8, <1>9, <1>10, <1>11, <1>12, <1>13
     DEF Next, ThreadStep

\* A failure sends its caller over every root it may have made.
LEMMA CleanedNext == ASSUME RInv, Parts, Parts', [Next]_vars PROVE Cleaned'
<1>. USE LastPathIsNat DEF RInv, Parts, Shape, Counters, Do, At, flightVars, permitVars,
     workVars, rootVars, Work, Waits, Builds
<1>1. ASSUME NEW c \in Callers, Board(c) \/ Reject(c) PROVE Cleaned'
  BY <1>1 DEF Cleaned, Board, Reject, NextStep, F!Board, F!Reject, F!To
<1>2. ASSUME NEW c \in Callers, WaitForFlight(c) \/ ReleaseFlight(c) PROVE Cleaned'
  BY <1>2
     DEF Cleaned, WaitForFlight, ReleaseFlight, NextStep, F!TakeResult, F!Sleep, F!GiveUp,
         F!WaitRunsOut, F!Leave, F!Unlist, F!To, F!Answer
<1>3. ASSUME NEW c \in Callers, Prepare(c) \/ Collides(c) \/ StagingFails(c) PROVE Cleaned'
  BY <1>3 DEF Cleaned, Prepare, Collides, StagingFails
<1>4. ASSUME NEW c \in Callers, Clean(c) \/ Discard(c) PROVE Cleaned'
  BY <1>4 DEF Cleaned, Places, PermitsAroundCommands, Clean, Discard
<1>5. ASSUME NEW c \in Callers, AskPermit(c) \/ AcquirePermit(c) PROVE Cleaned'
  BY <1>5 DEF Cleaned, AskPermit, AcquirePermit
<1>6. ASSUME NEW c \in Callers, DropPermit(c) PROVE Cleaned'
  BY <1>6 DEF Cleaned, DropPermit, Advance
<1>7. ASSUME NEW c \in Callers, CommandEnds(c) \/ KilledButHeld(c) PROVE Cleaned'
  BY <1>7, CommandKeepsHeld DEF Cleaned, Places, CommandEnds, KilledButHeld
<1>8. ASSUME NEW c \in Callers, Die(c) PROVE Cleaned'
  BY <1>8, CommandKeepsHeld DEF Cleaned, Places, Die, F!Die, F!To
<1>9. ASSUME NEW c \in Callers, Finish(c) PROVE Cleaned'
  BY <1>9 DEF Cleaned, Finish, F!Publish, F!Registered, F!Answer, F!To
<1>10. ASSUME NEW c \in Callers, DeadlinePasses(c) \/ SpuriousWake(c) PROVE Cleaned'
  BY <1>10
     DEF Cleaned, DeadlinePasses, SpuriousWake, F!DeadlinePasses, F!SpuriousWake,
         F!flightVars, F!To
<1>11. ASSUME NEW p \in Paths, Collect(p) PROVE Cleaned'
  BY <1>11 DEF Cleaned, Collect
<1>12. CASE UNCHANGED vars
  BY <1>12 DEF Cleaned, vars
<1>13. ASSUME NEW c \in Callers, StagingBlocks(c) \/ StagingUnblocks(c) \/ ReadersEnd(c)
      PROVE  Cleaned'
  BY <1>13 DEF Cleaned, StagingBlocks, StagingUnblocks, ReadersEnd
<1>. QED
  BY <1>1, <1>2, <1>3, <1>4, <1>5, <1>6, <1>7, <1>8, <1>9, <1>10, <1>11, <1>12, <1>13
     DEF Next, ThreadStep

\* The collector takes only what no root holds.
LEMMA HeldNext == ASSUME RInv, Parts, Parts', [Next]_vars PROVE Held'
<1>. USE LastPathIsNat DEF RInv, Shape, flightVars, permitVars, workVars, rootVars, Work
<1>1. ASSUME NEW c \in Callers, Board(c) \/ Reject(c) PROVE Held'
  BY <1>1 DEF Held, Board, Reject
<1>2. ASSUME NEW c \in Callers, WaitForFlight(c) \/ ReleaseFlight(c) PROVE Held'
  BY <1>2 DEF Held, WaitForFlight, ReleaseFlight
<1>3. ASSUME NEW c \in Callers, Prepare(c) \/ Collides(c) \/ StagingFails(c) PROVE Held'
  BY <1>3 DEF Held, Prepare, Collides, StagingFails
<1>4. ASSUME NEW c \in Callers, Clean(c) \/ Discard(c) PROVE Held'
  BY <1>4 DEF Held, Clean, Discard
<1>5. ASSUME NEW c \in Callers, AskPermit(c) \/ AcquirePermit(c) PROVE Held'
  BY <1>5 DEF Held, AskPermit, AcquirePermit
<1>6. ASSUME NEW c \in Callers, DropPermit(c) PROVE Held'
  BY <1>6 DEF Held, DropPermit
<1>7. ASSUME NEW c \in Callers, CommandEnds(c) \/ KilledButHeld(c) PROVE Held'
  BY <1>7, CommandKeepsHeld DEF Places, CommandEnds, KilledButHeld
<1>8. ASSUME NEW c \in Callers, Die(c) PROVE Held'
  BY <1>8, CommandKeepsHeld DEF Places, Die
<1>9. ASSUME NEW c \in Callers, Finish(c) PROVE Held'
  BY <1>9 DEF Held, Finish
<1>10. ASSUME NEW c \in Callers, DeadlinePasses(c) \/ SpuriousWake(c) PROVE Held'
  BY <1>10 DEF Held, DeadlinePasses, SpuriousWake
<1>11. ASSUME NEW p \in Paths, Collect(p) PROVE Held'
  BY <1>11 DEF Held, Collect, Rooted
<1>12. CASE UNCHANGED vars
  BY <1>12 DEF Held, vars
<1>13. ASSUME NEW c \in Callers, StagingBlocks(c) \/ StagingUnblocks(c) \/ ReadersEnd(c)
      PROVE  Held'
  BY <1>13 DEF Held, StagingBlocks, StagingUnblocks, ReadersEnd
<1>. QED
  BY <1>1, <1>2, <1>3, <1>4, <1>5, <1>6, <1>7, <1>8, <1>9, <1>10, <1>11, <1>12, <1>13
     DEF Next, ThreadStep

\* A refused request never boards.
LEMMA RefusedNext == ASSUME RInv, Parts, Parts', [Next]_vars PROVE Refused'
<1>. USE LastPathIsNat DEF RInv, Parts, Shape, Counters, Do, flightVars, permitVars, workVars,
     rootVars, Work, Waits
<1>1. ASSUME NEW c \in Callers, Board(c) \/ Reject(c) PROVE Refused'
  BY <1>1, ResolverAssumption DEF Refused, Board, Reject, F!Board, F!Reject, F!To, F!registry
<1>2. ASSUME NEW c \in Callers, WaitForFlight(c) \/ ReleaseFlight(c) PROVE Refused'
  BY <1>2, ResolverAssumption
     DEF Refused, WaitForFlight, ReleaseFlight, NextStep, F!TakeResult, F!Sleep, F!GiveUp,
         F!WaitRunsOut, F!Leave, F!Unlist, F!To, F!Answer
<1>3. ASSUME NEW c \in Callers, Prepare(c) \/ Collides(c) \/ StagingFails(c) PROVE Refused'
  BY <1>3, ResolverAssumption DEF Refused, Prepare, Collides, StagingFails
<1>4. ASSUME NEW c \in Callers, Clean(c) \/ Discard(c) PROVE Refused'
  BY <1>4, ResolverAssumption DEF Refused, Places, Clean, Discard
<1>5. ASSUME NEW c \in Callers, AskPermit(c) \/ AcquirePermit(c) PROVE Refused'
  BY <1>5 DEF Refused, AskPermit, AcquirePermit
<1>6. ASSUME NEW c \in Callers, DropPermit(c) PROVE Refused'
  BY <1>6 DEF Refused, DropPermit
<1>7. ASSUME NEW c \in Callers, CommandEnds(c) \/ KilledButHeld(c) PROVE Refused'
  BY <1>7, ResolverAssumption, CommandKeepsHeld DEF Refused, Places, CommandEnds, KilledButHeld
<1>8. ASSUME NEW c \in Callers, Die(c) PROVE Refused'
  BY <1>8, ResolverAssumption, CommandKeepsHeld DEF Refused, Places, Die, F!Die, F!To
<1>9. ASSUME NEW c \in Callers, Finish(c) PROVE Refused'
  BY <1>9, ResolverAssumption DEF Refused, Finish, F!Publish, F!Registered, F!Answer, F!To
<1>10. ASSUME NEW c \in Callers, DeadlinePasses(c) \/ SpuriousWake(c) PROVE Refused'
  BY <1>10, ResolverAssumption
     DEF Refused, DeadlinePasses, SpuriousWake, F!DeadlinePasses, F!SpuriousWake,
         F!flightVars, F!To
<1>11. ASSUME NEW p \in Paths, Collect(p) PROVE Refused'
  BY <1>11 DEF Refused, Collect
<1>12. CASE UNCHANGED vars
  BY <1>12 DEF Refused, vars
<1>13. ASSUME NEW c \in Callers, StagingBlocks(c) \/ StagingUnblocks(c) \/ ReadersEnd(c)
      PROVE  Refused'
  BY <1>13, ResolverAssumption DEF Refused, StagingBlocks, StagingUnblocks, ReadersEnd
<1>. QED
  BY <1>1, <1>2, <1>3, <1>4, <1>5, <1>6, <1>7, <1>8, <1>9, <1>10, <1>11, <1>12, <1>13
     DEF Next, ThreadStep

\* A flight has the outcome its leader was told.
LEMMA LedNext == ASSUME RInv, Parts, Parts', [Next]_vars PROVE Led'
<1>. USE LastPathIsNat DEF RInv, Parts, Shape, Counters, Do, flightVars, permitVars, workVars,
     Work, Waits
<1>1. ASSUME NEW c \in Callers, Board(c) \/ Reject(c) PROVE Led'
  BY <1>1 DEF Led, Board, Reject, F!Board, F!Reject, F!registry
<1>2. ASSUME NEW c \in Callers, WaitForFlight(c) \/ ReleaseFlight(c) PROVE Led'
  BY <1>2
     DEF Led, WaitForFlight, ReleaseFlight, F!TakeResult, F!Sleep, F!GiveUp, F!WaitRunsOut,
         F!Leave, F!Unlist, F!Answer, F!registry
<1>3. ASSUME NEW c \in Callers, Prepare(c) \/ Collides(c) \/ StagingFails(c) PROVE Led'
  BY <1>3 DEF Led, Prepare, Collides, StagingFails
<1>4. ASSUME NEW c \in Callers, Clean(c) \/ Discard(c) PROVE Led'
  BY <1>4 DEF Led, Clean, Discard
<1>5. ASSUME NEW c \in Callers, AskPermit(c) \/ AcquirePermit(c) PROVE Led'
  BY <1>5 DEF Led, AskPermit, AcquirePermit
<1>6. ASSUME NEW c \in Callers, DropPermit(c) PROVE Led'
  BY <1>6 DEF Led, DropPermit
<1>7. ASSUME NEW c \in Callers, CommandEnds(c) \/ KilledButHeld(c) PROVE Led'
  BY <1>7 DEF Led, CommandEnds, KilledButHeld
<1>8. ASSUME NEW c \in Callers, Die(c) PROVE Led'
  BY <1>8 DEF Led, Die, F!Die, F!registry
<1>9. ASSUME NEW c \in Callers, Finish(c) PROVE Led'
  BY <1>9 DEF Led, Finish, F!Publish, F!Registered, F!Answer, F!registry
<1>10. ASSUME NEW c \in Callers, DeadlinePasses(c) \/ SpuriousWake(c) PROVE Led'
  BY <1>10
     DEF Led, DeadlinePasses, SpuriousWake, F!DeadlinePasses, F!SpuriousWake, F!flightVars,
         F!registry
<1>11. ASSUME NEW p \in Paths, Collect(p) PROVE Led'
  BY <1>11 DEF Led, Collect
<1>12. CASE UNCHANGED vars
  BY <1>12 DEF Led, vars
<1>13. ASSUME NEW c \in Callers, StagingBlocks(c) \/ StagingUnblocks(c) \/ ReadersEnd(c)
      PROVE  Led'
  BY <1>13 DEF Led, StagingBlocks, StagingUnblocks, ReadersEnd
<1>. QED
  BY <1>1, <1>2, <1>3, <1>4, <1>5, <1>6, <1>7, <1>8, <1>9, <1>10, <1>11, <1>12, <1>13
     DEF Next, ThreadStep

LEMMA NextRInv == ASSUME RInv, Parts, Parts', [Next]_vars PROVE RInv'
<1>. QED
  BY ShapeNext, PermitsAroundCommandsNext, CountersNext, PlacesNext, ProgressNext, CleanedNext,
     HeldNext, RefusedNext, LedNext DEF RInv

LEMMA SpecParts == Spec => []Parts
  BY ResolverRunsFlights, FlightsInv, ResolverRunsPermits, PermitsInv, PartsHold, PTL

LEMMA SpecRInv == Spec => []RInv
<1>1. RInv /\ Parts /\ Parts' /\ [Next]_vars => RInv'
  BY NextRInv
<1>. QED
  BY <1>1, InitRInv, SpecParts, PTL DEF Spec

\* The model's variables keep their types.
THEOREM ResolverKeepsItsTypes == Spec => []TypeOK
<1>1. FP!IInv /\ PP!IInv /\ RInv => TypeOK
  BY ResolverAssumption
     DEF RInv, Shape, TypeOK, FP!IInv, FP!Core, FP!TypeOK, F!TypeOK, PP!IInv, PP!TypeOK, P!TypeOK,
         F!Stages, FP!Stages, F!Aboard, FP!Aboard, F!Outcomes, FP!Outcomes, P!Seats, PP!Seats
<1>. QED
  BY <1>1, SpecRInv, ResolverRunsFlights, FlightsInv, ResolverRunsPermits, PermitsInv, PTL

\* run_command's caller holds a permit from acquire_permit to the drop after the
\* command and at no other time: not while it waits for a flight, not while
\* prepare_gc_root or remove_bundle_gc_roots touch its bundle.
THEOREM PermitsAreForCommands == Spec => []PermitsAroundCommands
<1>1. RInv => PermitsAroundCommands
  BY DEF RInv
<1>. QED
  BY <1>1, SpecRInv, PTL

\* A caller of resolve_detailed that is told "ok" has a root for every path of
\* its release in its bundle, and the collector has left every path there.
THEOREM SuccessIsRooted == Spec => []RootedOnSuccess
<1>1. RInv => RootedOnSuccess
  BY DEF RInv, Progress, Held, RootedOnSuccess
<1>. QED
  BY <1>1, SpecRInv, PTL

\* A caller that is told it failed has no root left when it releases its
\* flight: remove_bundle_gc_roots went over every root it had made.
THEOREM FailureIsUnrooted == Spec => []FailureLeavesNoRoot
<1>1. RInv => FailureLeavesNoRoot
  BY DEF RInv, Counters, Cleaned, FailureLeavesNoRoot
<1>. QED
  BY <1>1, SpecRInv, PTL

\* A request that its own select_release refuses gets neither the answer of
\* others nor a root, even when their flight has its key.
THEOREM RefusedStayRefused == Spec => []SelectionIsNotLent
<1>1. RInv => SelectionIsNotLent
  BY ResolverAssumption DEF RInv, Refused, SelectionIsNotLent
<1>. QED
  BY <1>1, SpecRInv, PTL

\* A path of a release never comes from anywhere but the release's own cache:
\* a follower's register_root finds it in the store, where the leader's root
\* still holds it.  The engine must not have deleted the leader's bundle by
\* then, which is what the hypothesis excludes.
LEMMA CommandKeepsReleases ==
  ASSUME \A c \in Discardable : KeyOf[c] \in Sources,
         RInv, Parts, ReleaseFromItsCache,
         NEW c \in Callers, step[c] = "command", Realise(c)
  PROVE  ReleaseFromItsCache'
<1>. DEFINE p == PathAt(c, IF at[c] = 0 THEN 1 ELSE at[c])
<1>1. store' = [store EXCEPT ![p] = IF @ = "absent" THEN Origin(c) ELSE @]
  BY DEF Realise
<1>2. store \in [Paths -> {"absent", "cache", "built", "node"}]
  BY DEF RInv, Shape
<1>3. p[1] = KeyOf[c]
  BY DEF PathAt
<1>4. stage[c] \in {"lead", "register"}
  BY DEF RInv, Counters, Work
<1>5. ASSUME KeyOf[c] \notin Sources, store[p] = "absent" PROVE Origin(c) = "cache"
  <2>1. at[c] \in 1..LastPath(c)
    BY <1>4, <1>5, LastPathIsNat DEF RInv, Shape, Places, Builds
  <2>2. CASE stage[c] = "lead"
    BY <1>5, <2>1, <2>2 DEF Origin
  <2>3. CASE stage[c] = "register"
    <3>. DEFINE f == flight[c]
    <3>1. f \in Callers /\ result[f] = "ok" /\ KeyOf[f] = KeyOf[c]
      BY <2>3 DEF Parts
    <3>2. f \notin discarded
      BY <1>5, <3>1 DEF RInv, Shape
    <3>3. 1..LastPath(f) \subseteq links[f]
      BY <3>1, <3>2 DEF RInv, Led, Progress
    <3>4. at[c] \in links[f]
      BY <2>1, <3>1, <3>3 DEF LastPath
    <3>5. store[PathAt(f, at[c])] # "absent"
      BY <3>1, <3>4 DEF RInv, Held
    <3>. QED
      BY <1>5, <2>1, <3>1, <3>5 DEF PathAt
  <2>. QED
    BY <1>4, <2>2, <2>3
<1>. HIDE DEF p
<1>6. ASSUME NEW q \in Paths, q[1] \notin Sources PROVE store'[q] \in {"absent", "cache"}
  BY <1>1, <1>2, <1>3, <1>5, <1>6 DEF ReleaseFromItsCache
<1>. QED
  BY <1>6 DEF ReleaseFromItsCache

\* materialize and register_resolution agree on where a release comes from,
\* for as long as the bundles of releases stay.
THEOREM ReleasesComeFromTheirCache ==
  ASSUME \A c \in Discardable : KeyOf[c] \in Sources
  PROVE  Spec => []ReleaseFromItsCache
<1>1. Init => ReleaseFromItsCache
  BY DEF Init, ReleaseFromItsCache
<1>2. ASSUME RInv, Parts, ReleaseFromItsCache, [Next]_vars PROVE ReleaseFromItsCache'
  <2>1. ASSUME NEW c \in Callers, CommandEnds(c) \/ KilledButHeld(c) \/ Die(c)
        PROVE  ReleaseFromItsCache'
    <3>1. CASE Realise(c)
      BY <1>2, <2>1, <3>1, CommandKeepsReleases DEF CommandEnds, KilledButHeld, Die
    <3>2. CASE UNCHANGED store
      BY <1>2, <3>2 DEF ReleaseFromItsCache
    <3>. QED
      BY <2>1, <3>1, <3>2 DEF CommandEnds, KilledButHeld, Die
  <2>2. ASSUME NEW p \in Paths, Collect(p) PROVE ReleaseFromItsCache'
    BY <1>2, <2>2 DEF Collect, RInv, Shape, ReleaseFromItsCache
  <2>3. CASE UNCHANGED store
    BY <1>2, <2>3 DEF ReleaseFromItsCache
  <2>4. ASSUME NEW c \in Callers,
               \/ Board(c) \/ Reject(c) \/ WaitForFlight(c) \/ ReleaseFlight(c) \/ Prepare(c)
               \/ Collides(c) \/ StagingFails(c) \/ StagingBlocks(c) \/ StagingUnblocks(c)
               \/ AskPermit(c) \/ AcquirePermit(c) \/ ReadersEnd(c) \/ DropPermit(c)
               \/ Finish(c) \/ Clean(c) \/ DeadlinePasses(c)
               \/ SpuriousWake(c) \/ Discard(c)
        PROVE  UNCHANGED store
    BY <2>4 DEF rootVars, Board, Reject, WaitForFlight, ReleaseFlight, Prepare, Collides,
       StagingFails, StagingBlocks, StagingUnblocks, AskPermit, AcquirePermit, ReadersEnd,
       DropPermit, Finish, Clean, DeadlinePasses,
       SpuriousWake, Discard
  <2>. QED
    BY <1>2, <2>1, <2>2, <2>3, <2>4 DEF Next, ThreadStep, vars, rootVars
<1>3. RInv /\ Parts /\ ReleaseFromItsCache /\ [Next]_vars => ReleaseFromItsCache'
  BY <1>2
<1>. QED
  BY <1>1, <1>3, SpecRInv, SpecParts, PTL DEF Spec
=============================================================================
