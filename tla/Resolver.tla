------------------------------ MODULE Resolver ------------------------------
(***************************************************************************)
(* The resolver as a whole: requests coalesce into flights (Flights.tla),  *)
(* every Nix command runs under a permit (Permits.tla), and each request   *)
(* leaves Nix GC roots in its own bundle while the node's garbage          *)
(* collector runs.  A release realises its store paths one after the       *)
(* other, each with its root; a development source is built first, without *)
(* a root, and registered by a second command; a follower registers what   *)
(* the leader realised.  Whoever fails removes the roots of its bundle     *)
(* before it releases its flight.                                          *)
(*                                                                         *)
(* Requests have bundles of their own here, so a bundle is named by its    *)
(* request; two requests for one bundle meet in Lifecycle.tla.             *)
(***************************************************************************)
EXTENDS Naturals, FiniteSets

CONSTANTS
  Callers, Keys, KeyOf, Nobody, Denied, Fragile,   \* see Flights
  MaxRealizations,                                 \* see Permits
  PathsOf,      \* PathsOf[k]: how many store paths a key has
  Sources,      \* the keys that are development sources
  ObstacleAt,   \* ObstacleAt[c]: the root of c's bundle whose reserved path is
                \* taken by something that is no link (0: none)
  Discardable   \* the callers whose bundle may be deleted after its request

ASSUME ResolverAssumption ==
  /\ IsFiniteSet(Callers)
  /\ KeyOf \in [Callers -> Keys]
  /\ Nobody \notin Callers
  /\ Denied \subseteq Callers
  /\ Fragile \subseteq Callers
  /\ MaxRealizations \in Nat \ {0}
  /\ PathsOf \in [Keys -> Nat \ {0}]
  /\ Sources \subseteq {k \in Keys : PathsOf[k] = 1}
  /\ ObstacleAt \in [Callers -> Nat]
  /\ Discardable \subseteq Callers

VARIABLES
  flights, callers, result, stage, flight, answer, late,   \* see Flights
  active, seat,                                            \* see Permits
  step,        \* what each caller is doing for its bundle
  at,          \* the path it is doing it for; 0: building a source
  verdict,     \* how that went so far
  links,       \* links[c]: the roots in c's bundle, by path
  discarded,   \* the callers whose bundle was deleted
  store        \* how each path came into the node's store

F == INSTANCE Flights
P == INSTANCE Permits

flightVars == <<flights, callers, result, stage, flight, answer>>
permitVars == <<active, seat>>
workVars == <<step, at, verdict>>
rootVars == <<links, discarded, store>>
vars == <<flightVars, late, permitVars, workVars, rootVars>>

Paths == UNION {{k} \X (1..PathsOf[k]) : k \in Keys}

\* "blocked" and "joining" are the two places where no deadline is looked at.
Steps == {"idle", "prepare", "ask", "blocked", "acquire", "command", "joining", "drop",
          "finish", "clean"}

Init ==
  /\ F!Init
  /\ P!Init
  /\ step = [c \in Callers |-> "idle"]
  /\ at = [c \in Callers |-> 1]
  /\ verdict = [c \in Callers |-> "ok"]
  /\ links = [c \in Callers |-> {}]
  /\ discarded = {}
  /\ store = [p \in Paths |-> "absent"]

Do(c, s) == step' = [step EXCEPT ![c] = s]

At(c, i) == at' = [at EXCEPT ![c] = i]

PathAt(c, i) == <<KeyOf[c], i>>

LastPath(c) == PathsOf[KeyOf[c]]

Builds(c) == stage[c] = "lead" /\ KeyOf[c] \in Sources

-----------------------------------------------------------------------------
(***************************************************************************)
(* The flight.  A caller that comes to lead or to register starts on the   *)
(* first path; one that fails starts to clean its bundle.                  *)
(***************************************************************************)
NextStep(c) ==
  Do(c, CASE stage'[c] \in {"lead", "register"} -> "prepare"
          [] stage'[c] = "leave" -> "clean"
          [] OTHER -> "idle")

Reject(c) ==
  /\ F!Reject(c)
  /\ UNCHANGED <<permitVars, workVars, rootVars>>

Board(c) ==
  /\ F!Board(c)
  /\ NextStep(c)
  /\ UNCHANGED <<permitVars, at, verdict, rootVars>>

WaitForFlight(c) ==
  /\ \/ F!TakeResult(c) \/ F!Sleep(c) \/ F!GiveUp(c)
     \/ F!WaitRunsOut(c)
  /\ NextStep(c)
  /\ UNCHANGED <<permitVars, at, verdict, rootVars>>

\* The roots go before the flight is released.
ReleaseFlight(c) ==
  /\ step[c] = "idle"
  /\ F!Leave(c) \/ F!Unlist(c)
  /\ UNCHANGED <<permitVars, workVars, rootVars>>

-----------------------------------------------------------------------------
(***************************************************************************)
(* The work: materialize for a leader, register_resolution for a follower. *)
(***************************************************************************)
Fails(c) == verdict' = [verdict EXCEPT ![c] = "failed"]

\* gc_root_path and prepare_gc_root: a stale link is removed, anything else at
\* the reserved path is a collision.
Prepare(c) ==
  /\ step[c] = "prepare"
  /\ ObstacleAt[c] # at[c]
  /\ links' = [links EXCEPT ![c] = @ \ {at[c]}]
  /\ At(c, IF Builds(c) THEN 0 ELSE at[c])
  /\ Do(c, "ask")
  /\ UNCHANGED <<flightVars, late, permitVars, verdict, discarded, store>>

Collides(c) ==
  /\ step[c] = "prepare"
  /\ ObstacleAt[c] = at[c]
  /\ Fails(c)
  /\ Do(c, "finish")
  /\ UNCHANGED <<flightVars, late, permitVars, at, rootVars>>

\* The source cannot be staged, or staging it took all the time there was.
StagingFails(c) ==
  /\ step[c] = "ask"
  /\ at[c] = 0
  /\ Fails(c)
  /\ Do(c, "finish")
  /\ UNCHANGED <<flightVars, late, permitVars, at, rootVars>>

\* A file of the source became a FIFO after it was looked at, and open waits for
\* somebody to write to it.
StagingBlocks(c) ==
  /\ step[c] = "ask"
  /\ at[c] = 0
  /\ Do(c, "blocked")
  /\ UNCHANGED <<flightVars, late, permitVars, at, verdict, rootVars>>

\* Somebody does; staging goes on or fails.
StagingUnblocks(c) ==
  /\ step[c] = "blocked"
  /\ Do(c, "ask")
  /\ UNCHANGED <<flightVars, late, permitVars, at, verdict, rootVars>>

AskPermit(c) ==
  /\ step[c] = "ask"
  /\ P!Ask(c)
  /\ Do(c, "acquire")
  /\ UNCHANGED <<flightVars, at, verdict, rootVars>>

AcquirePermit(c) ==
  /\ step[c] = "acquire"
  /\ P!AcquireStep(c)
  /\ Do(c, CASE seat'[c] = "held" -> "command"
             [] seat'[c] = "refused" -> "finish"
             [] OTHER -> "acquire")
  /\ IF seat'[c] = "refused" THEN Fails(c) ELSE UNCHANGED verdict
  /\ UNCHANGED <<flightVars, at, rootVars>>

\* How a path comes into the store: a build makes it, the leader of a release
\* fetches it from the release's own cache, and register_root from whatever the
\* node is configured with.
Origin(c) ==
  CASE at[c] = 0 -> "built"
    [] stage[c] = "lead" /\ KeyOf[c] \notin Sources -> "cache"
    [] OTHER -> "node"

\* What a realise command does: the path is in the store and the root is linked.
\* A build has no root.
Realise(c) ==
  LET p == PathAt(c, IF at[c] = 0 THEN 1 ELSE at[c])
  IN  /\ store' = [store EXCEPT ![p] = IF @ = "absent" THEN Origin(c) ELSE @]
      /\ links' = IF at[c] = 0 THEN links ELSE [links EXCEPT ![c] = @ \cup {at[c]}]

\* The command ends: with its effect; or it fails or is killed at the deadline,
\* before or after it had its effect.
CommandEnds(c) ==
  /\ step[c] = "command"
  /\ \/ Realise(c) /\ UNCHANGED verdict
     \/ Realise(c) /\ Fails(c)
     \/ UNCHANGED <<links, store>> /\ Fails(c)
  /\ Do(c, "drop")
  /\ UNCHANGED <<flightVars, late, permitVars, at, discarded>>

\* The command is killed at the deadline, before or after it had its effect, and
\* run_command joins its readers: a process that left the group keeps a pipe.
KilledButHeld(c) ==
  /\ step[c] = "command"
  /\ late[c]
  /\ Realise(c) \/ UNCHANGED <<links, store>>
  /\ Fails(c)
  /\ Do(c, "joining")
  /\ UNCHANGED <<flightVars, late, permitVars, at, discarded>>

\* It closes the pipe after all.
ReadersEnd(c) ==
  /\ step[c] = "joining"
  /\ Do(c, "drop")
  /\ UNCHANGED <<flightVars, late, permitVars, at, verdict, rootVars>>

\* Mutant: the loop stops at the first store path.
DropPermitAtFirst(c) ==
  /\ step[c] = "drop"
  /\ P!Drop(c)
  /\ IF verdict[c] = "failed" \/ at[c] = 1
     THEN Do(c, "finish") /\ UNCHANGED at
     ELSE Do(c, IF at[c] = 0 THEN "ask" ELSE "prepare") /\ At(c, at[c] + 1)
  /\ UNCHANGED <<flightVars, verdict, rootVars>>

\* Mutant: one permit is kept for all the store paths of a release.
DropPermitAtLast(c) ==
  /\ step[c] = "drop"
  /\ IF verdict[c] = "failed" \/ at[c] = LastPath(c)
     THEN P!Drop(c) /\ Do(c, "finish") /\ UNCHANGED at
     ELSE Do(c, "prepare") /\ At(c, at[c] + 1) /\ UNCHANGED <<permitVars, late>>
  /\ UNCHANGED <<flightVars, verdict, rootVars>>

\* The loop over the store paths of a release or a resolution.
Advance(c) ==
  IF verdict[c] = "failed" \/ at[c] = LastPath(c)
  THEN Do(c, "finish") /\ UNCHANGED at
  ELSE Do(c, IF at[c] = 0 THEN "ask" ELSE "prepare") /\ At(c, at[c] + 1)

DropPermit(c) ==
  /\ step[c] = "drop"
  /\ P!Drop(c)
  /\ Advance(c)
  /\ UNCHANGED <<flightVars, verdict, rootVars>>

\* Mutant: whoever ends removes its roots, with success too.
FinishAlwaysCleans(c) ==
  /\ step[c] = "finish"
  /\ F!Publish(c, verdict[c]) \/ F!Registered(c, verdict[c])
  /\ Do(c, "clean")
  /\ At(c, 1)
  /\ UNCHANGED <<permitVars, verdict, rootVars>>

\* The leader publishes how its work went, a follower keeps it to itself.
Finish(c) ==
  /\ step[c] = "finish"
  /\ F!Publish(c, verdict[c]) \/ F!Registered(c, verdict[c])
  /\ Do(c, IF verdict[c] = "failed" THEN "clean" ELSE "idle")
  /\ At(c, 1)
  /\ UNCHANGED <<permitVars, verdict, rootVars>>

\* Mutant: only .imageless-rootfs-gcroot is removed, not the mounts' roots.
CleanFirstOnly(c) ==
  /\ step[c] = "clean"
  /\ links' = [links EXCEPT ![c] = @ \ {at[c]}]
  /\ Do(c, "idle")
  /\ UNCHANGED <<flightVars, late, permitVars, at, verdict, discarded, store>>

\* remove_bundle_gc_roots, one root after the other.
Clean(c) ==
  /\ step[c] = "clean"
  /\ links' = [links EXCEPT ![c] = @ \ {at[c]}]
  /\ IF at[c] = LastPath(c)
     THEN Do(c, "idle") /\ At(c, 1)
     ELSE At(c, at[c] + 1) /\ UNCHANGED step
  /\ UNCHANGED <<flightVars, late, permitVars, verdict, discarded, store>>

\* The thread unwinds out of run_command.  The permit goes with the stack; the
\* command dies with the thread, before or after it had its effect.
Die(c) ==
  /\ step[c] = "command"
  /\ F!Die(c)
  /\ P!Drop(c)
  /\ Realise(c) \/ UNCHANGED <<links, store>>
  /\ Do(c, "idle")
  /\ UNCHANGED <<at, verdict, discarded>>

-----------------------------------------------------------------------------
(***************************************************************************)
(* The world around the threads.                                           *)
(***************************************************************************)
DeadlinePasses(c) ==
  /\ F!DeadlinePasses(c)
  /\ UNCHANGED <<permitVars, workVars, rootVars>>

SpuriousWake(c) ==
  /\ \/ F!SpuriousWake(c) /\ UNCHANGED permitVars
     \/ P!SpuriousWake(c) /\ UNCHANGED flightVars
  /\ UNCHANGED <<workVars, rootVars>>

\* The engine deletes a bundle, and the roots in it, after the request.
Discard(c) ==
  /\ c \in Discardable \ discarded
  /\ stage[c] = "done"
  /\ discarded' = discarded \cup {c}
  /\ links' = [links EXCEPT ![c] = {}]
  /\ UNCHANGED <<flightVars, late, permitVars, workVars, store>>

Rooted(p) == \E c \in Callers : \E i \in links[c] : PathAt(c, i) = p

\* nix-collect-garbage removes a path that no root holds.
Collect(p) ==
  /\ store[p] # "absent"
  /\ ~Rooted(p)
  /\ store' = [store EXCEPT ![p] = "absent"]
  /\ UNCHANGED <<flightVars, late, permitVars, workVars, links, discarded>>

ThreadStep(c) ==
  \/ Reject(c) \/ WaitForFlight(c) \/ ReleaseFlight(c)
  \/ Prepare(c) \/ Collides(c) \/ AskPermit(c) \/ AcquirePermit(c)
  \/ DropPermit(c) \/ Finish(c) \/ Clean(c)

Next ==
  \/ \E c \in Callers :
       \/ Board(c) \/ ThreadStep(c) \/ StagingFails(c) \/ CommandEnds(c) \/ Die(c)
       \/ StagingBlocks(c) \/ StagingUnblocks(c) \/ KilledButHeld(c) \/ ReadersEnd(c)
       \/ DeadlinePasses(c) \/ SpuriousWake(c) \/ Discard(c)
  \/ \E p \in Paths : Collect(p)

Spec == Init /\ [][Next]_vars

\* A runnable thread runs, time goes on, and run_command kills what it runs at
\* the deadline of the request.  Nothing is assumed of Nix: whether run_command
\* returns then (CommandEnds) or goes on to join readers whose pipe is kept
\* (KilledButHeld) is open, and nobody has to let a thread go that is blocked in
\* open or joins.
Fairness == \A c \in Callers :
  /\ WF_vars(ThreadStep(c))
  /\ WF_vars(late[c] /\ (CommandEnds(c) \/ KilledButHeld(c)))
  /\ WF_vars(DeadlinePasses(c))

FairSpec == Spec /\ Fairness
-----------------------------------------------------------------------------
(***************************************************************************)
(* Properties                                                              *)
(***************************************************************************)
TypeOK ==
  /\ F!TypeOK
  /\ P!TypeOK
  /\ step \in [Callers -> Steps]
  /\ at \in [Callers -> Nat]
  /\ verdict \in [Callers -> {"ok", "failed"}]
  /\ \A c \in Callers : links[c] \subseteq 1..LastPath(c)
  /\ discarded \subseteq Callers
  /\ store \in [Paths -> {"absent", "cache", "built", "node"}]

\* A permit is held exactly around a Nix command, never while its holder sleeps
\* on a flight or cleans its bundle: otherwise followers could starve the
\* leader they wait for.
PermitsAroundCommands == \A c \in Callers :
  seat[c] = "held" <=> step[c] \in {"command", "joining", "drop"}

\* A request answered with success has every path of its release in the store
\* and a root for it in its own bundle, whoever realised it and whatever was
\* collected in between.
RootedOnSuccess == \A c \in Callers :
  answer[c] = "ok" /\ c \notin discarded =>
    \A i \in 1..LastPath(c) : i \in links[c] /\ store[PathAt(c, i)] # "absent"

\* A request answered with an error leaves no root behind, not even of the
\* paths it had realised before the one that failed.
FailureLeavesNoRoot == \A c \in Callers :
  stage[c] \in {"unlist", "done"} /\ answer[c] = "failed" => links[c] = {}

\* A selection is never lent: a request that its own selection refuses is not
\* served by a flight of the same key, and never has a root.
SelectionIsNotLent == \A c \in Denied : answer[c] # "ok" /\ links[c] = {}

\* The paths of a release come from the cache its issuer is authorized for.
ReleaseFromItsCache == \A p \in Paths :
  p[1] \notin Sources => store[p] \in {"absent", "cache"}

\* The thread waits for somebody who owes it nothing, and for no deadline.
Stuck(c) == step[c] \in {"blocked", "joining"}

\* Every request ends, with an answer or with its thread, unless its own thread
\* is stuck in staging or with a killed command; others that are stuck, be it the
\* leader of its flight or the holder of the last permit, cannot keep it.
EveryRequestEnds == \A c \in Callers :
  stage[c] # "new" ~> stage[c] \in {"done", "dead"} \/ Stuck(c)
=============================================================================
