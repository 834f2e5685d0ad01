----------------------------- MODULE NixCommand -----------------------------
(***************************************************************************)
(* run_command: one Nix command with its helpers, the two pipes it writes  *)
(* to, the two threads that read them, and the thread that waits for the   *)
(* command until a deadline.  The child makes itself the leader of a       *)
(* process group and ties its life to the thread that started it; a        *)
(* helper is started into the group of its parent and inherits its pipes,  *)
(* and may leave either.                                                   *)
(*                                                                         *)
(* Output is counted in chunks.  What a chunk says, and the excerpt of     *)
(* stderr that an error carries, are left out.                             *)
(***************************************************************************)
EXTENDS Naturals, FiniteSets

CONSTANTS
  Nix,          \* the child that run_command spawns
  Helpers,      \* the processes it may start
  Strays,       \* the helpers that may leave the process group
  Capacity,     \* how many chunks a pipe holds before its writers block
  Limit,        \* MAX_CAPTURE_BYTES: how many chunks of stdout are kept
  Adopters,     \* who may become the parent of the resolver's orphans: "init",
                \* process 1, or a "subreaper" above the resolver, such as the
                \* engine's shim above the in-process resolver
  MaxWrites     \* bound: how many chunks are ever written to a pipe

ASSUME CommandAssumption ==
  /\ Nix \notin Helpers
  /\ Strays \subseteq Helpers
  /\ Adopters \subseteq {"init", "subreaper"} /\ Adopters # {}
  /\ Capacity \in Nat \ {0} /\ Limit \in Nat /\ MaxWrites \in Nat

VARIABLES
  proc,      \* the life of each process
  group,     \* the members of the child's process group
  holders,   \* holders[s]: the processes that can write to pipe s
  pipe,      \* pipe[s]: the chunks in pipe s
  written,   \* written[s]: the chunks that were ever written to it
  taken,     \* taken[s]: the chunks that its reader took out of it
  reader,    \* reader[s]: the thread of capture_output
  at,        \* where run_command is
  late,      \* the timeout has elapsed
  adopter,   \* who adopted the child, if its parent died before the tie was made
  status,    \* what the child's exit said
  outcome    \* what run_command returned

childVars == <<proc, group, holders, written, adopter, status>>
vars == <<childVars, pipe, taken, reader, at, late, outcome>>

Procs == {Nix} \cup Helpers

Pipes == {"stdout", "stderr"}

TypeOK ==
  /\ proc \in [Procs -> {"unborn", "forked", "grouped", "tied", "running", "zombie", "gone"}]
  /\ group \subseteq Procs
  /\ holders \in [Pipes -> SUBSET Procs]
  /\ pipe \in [Pipes -> 0..Capacity]
  /\ written \in [Pipes -> 0..MaxWrites]
  /\ taken \in [Pipes -> 0..MaxWrites]
  /\ reader \in [Pipes -> {"unborn", "reads", "finished"}]
  /\ at \in {"spawn", "poll", "drain", "join", "done", "crashed"}
  /\ late \in BOOLEAN
  /\ adopter \in {"none", "init", "subreaper"}
  /\ status \in {"none", "success", "failure"}
  /\ outcome \in {"none", "ok", "failed", "timeout"}

Init ==
  /\ proc = [p \in Procs |-> IF p = Nix THEN "forked" ELSE "unborn"]
  /\ group = {}
  /\ holders = [s \in Pipes |-> {Nix}]
  /\ pipe = [s \in Pipes |-> 0]
  /\ written = [s \in Pipes |-> 0]
  /\ taken = [s \in Pipes |-> 0]
  /\ reader = [s \in Pipes |-> "unborn"]
  /\ at = "spawn"
  /\ late = FALSE
  /\ adopter = "none"
  /\ status = "none"
  /\ outcome = "none"

Running(p) == proc[p] = "running"

\* The processes of set dead end and let their pipes go; the one that was the
\* child stays a zombie until somebody waits for it.
End(dead, child) ==
  /\ proc' = [p \in Procs |-> IF p \notin dead THEN proc[p]
                              ELSE IF p = Nix THEN child ELSE "gone"]
  /\ group' = IF child = "zombie" THEN group \ (dead \ {Nix}) ELSE group \ dead
  /\ holders' = [s \in Pipes |-> holders[s] \ dead]

-----------------------------------------------------------------------------
(***************************************************************************)
(* The child between fork and exec.                                        *)
(***************************************************************************)
SetGroup ==
  /\ proc[Nix] = "forked"
  /\ proc' = [proc EXCEPT ![Nix] = "grouped"]
  /\ group' = {Nix}
  /\ UNCHANGED <<holders, pipe, written, taken, reader, at, late, status, outcome, adopter>>

TieToParent ==
  /\ proc[Nix] = "grouped"
  /\ proc' = [proc EXCEPT ![Nix] = "tied"]
  /\ UNCHANGED <<group, holders, pipe, written, taken, reader, at, late, status, outcome, adopter>>

\* Mutant: the child does not look whether its parent is still there.
ExecUnchecked ==
  /\ proc[Nix] = "tied"
  /\ proc' = [proc EXCEPT ![Nix] = "running"]
  /\ UNCHANGED <<group, holders, pipe, written, taken, reader, at, late, status, outcome, adopter>>

\* A parent that died before the tie was made sends no signal any more.  The
\* child looks whether its parent is process 1 now; a subreaper is not.
Exec ==
  /\ proc[Nix] = "tied"
  /\ IF adopter = "init"
     THEN End({Nix}, "gone")
     ELSE /\ proc' = [proc EXCEPT ![Nix] = "running"]
          /\ UNCHANGED <<group, holders>>
  /\ UNCHANGED <<pipe, written, taken, reader, at, late, status, outcome, adopter>>

-----------------------------------------------------------------------------
(***************************************************************************)
(* The command and its helpers.                                            *)
(***************************************************************************)
Fork(p, h) ==
  /\ Running(p)
  /\ proc[h] = "unborn"
  /\ proc' = [proc EXCEPT ![h] = "running"]
  /\ group' = IF p \in group THEN group \cup {h} ELSE group
  /\ holders' = [s \in Pipes |-> IF p \in holders[s] THEN holders[s] \cup {h} ELSE holders[s]]
  /\ UNCHANGED <<pipe, written, taken, reader, at, late, status, outcome, adopter>>

LeaveGroup(h) ==
  /\ Running(h)
  /\ h \in group
  /\ group' = group \ {h}
  /\ UNCHANGED <<proc, holders, pipe, written, taken, reader, at, late, status, outcome, adopter>>

ClosePipe(h, s) ==
  /\ Running(h)
  /\ h \in holders[s]
  /\ holders' = [holders EXCEPT ![s] = @ \ {h}]
  /\ UNCHANGED <<proc, group, pipe, written, taken, reader, at, late, status, outcome, adopter>>

\* Nobody can write to a full pipe, nor to one that nobody will read.
Write(p, s) ==
  /\ Running(p)
  /\ p \in holders[s]
  /\ at # "crashed"
  /\ pipe[s] < Capacity
  /\ written[s] < MaxWrites
  /\ pipe' = [pipe EXCEPT ![s] = @ + 1]
  /\ written' = [written EXCEPT ![s] = @ + 1]
  /\ UNCHANGED <<proc, group, holders, taken, reader, at, late, status, outcome, adopter>>

\* The child becomes a zombie if run_command is there to wait for it.
Exit(p) ==
  /\ Running(p)
  /\ End({p}, IF at = "crashed" THEN "gone" ELSE "zombie")
  /\ IF p = Nix THEN status' \in {"success", "failure"} ELSE UNCHANGED status
  /\ UNCHANGED <<pipe, written, taken, reader, at, late, outcome, adopter>>

-----------------------------------------------------------------------------
(***************************************************************************)
(* The two readers.                                                        *)
(***************************************************************************)
\* Mutant: stderr is read after stdout, by one thread.
TakeInTurn(s) ==
  /\ reader[s] = "reads"
  /\ s = "stderr" => reader["stdout"] = "finished"
  /\ pipe[s] > 0
  /\ pipe' = [pipe EXCEPT ![s] = @ - 1]
  /\ taken' = [taken EXCEPT ![s] = @ + 1]
  /\ UNCHANGED <<childVars, reader, at, late, outcome>>

Take(s) ==
  /\ reader[s] = "reads"
  /\ pipe[s] > 0
  /\ pipe' = [pipe EXCEPT ![s] = @ - 1]
  /\ taken' = [taken EXCEPT ![s] = @ + 1]
  /\ UNCHANGED <<childVars, reader, at, late, outcome>>

\* A read returns nothing once the pipe is empty and nobody holds it.
EndOfFile(s) ==
  /\ reader[s] = "reads"
  /\ pipe[s] = 0
  /\ holders[s] = {}
  /\ reader' = [reader EXCEPT ![s] = "finished"]
  /\ UNCHANGED <<childVars, pipe, taken, at, late, outcome>>

Joined == \A s \in Pipes : reader[s] = "finished"

\* Retention::Head keeps the first Limit chunks and knows that there were more.
Kept == IF taken["stdout"] > Limit THEN Limit ELSE taken["stdout"]
Truncated == taken["stdout"] > Limit

-----------------------------------------------------------------------------
(***************************************************************************)
(* run_command.                                                            *)
(***************************************************************************)
Return(o) == at' = "done" /\ outcome' = o

\* fork, setpgid, prctl or exec fail; spawn has waited for the child.
SpawnFails ==
  /\ at = "spawn"
  /\ proc[Nix] \in {"forked", "grouped", "tied"}
  /\ End({Nix}, "gone")
  /\ Return("failed")
  /\ UNCHANGED <<pipe, written, taken, reader, late, status, adopter>>

Spawned ==
  /\ at = "spawn"
  /\ proc[Nix] \in {"running", "zombie"}
  /\ at' = "poll"
  /\ reader' = [s \in Pipes |-> "reads"]
  /\ UNCHANGED <<childVars, pipe, taken, late, outcome>>

\* try_wait sees the child's exit and reaps it.
Reap ==
  /\ at = "poll"
  /\ proc[Nix] = "zombie"
  /\ proc' = [proc EXCEPT ![Nix] = "gone"]
  /\ group' = group \ {Nix}
  /\ at' = "drain"
  /\ UNCHANGED <<holders, pipe, written, taken, reader, late, status, outcome, adopter>>

\* Mutant: only the child is killed.
ExpireKillsChild ==
  /\ at \in {"poll", "drain"}
  /\ late
  /\ End({Nix}, "gone")
  /\ at' = "join"
  /\ UNCHANGED <<pipe, written, taken, reader, late, status, outcome, adopter>>

\* Mutant: the child is killed but not waited for.
ExpireLeavesZombie ==
  /\ at \in {"poll", "drain"}
  /\ late
  /\ End(group, IF proc[Nix] = "gone" THEN "gone" ELSE "zombie")
  /\ at' = "join"
  /\ UNCHANGED <<pipe, written, taken, reader, late, status, outcome, adopter>>

\* Either loop finds the timeout elapsed, although the child may have exited or
\* the readers finished since the loop looked: the group is killed and the child
\* waited for.
Expire ==
  /\ at \in {"poll", "drain"}
  /\ late
  /\ End(group \cup {Nix}, "gone")
  /\ at' = "join"
  /\ UNCHANGED <<pipe, written, taken, reader, late, status, outcome, adopter>>

JoinExpired ==
  /\ at = "join"
  /\ Joined
  /\ Return("timeout")
  /\ UNCHANGED <<childVars, pipe, taken, reader, late>>

\* Mutant: the output is taken as soon as the child has exited.
DrainedEarly ==
  /\ at = "drain"
  /\ Return(IF Truncated \/ status # "success" THEN "failed" ELSE "ok")
  /\ UNCHANGED <<childVars, pipe, taken, reader, late>>

Drained ==
  /\ at = "drain"
  /\ Joined
  /\ Return(IF Truncated \/ status # "success" THEN "failed" ELSE "ok")
  /\ UNCHANGED <<childVars, pipe, taken, reader, late>>

-----------------------------------------------------------------------------
(***************************************************************************)
(* The world around it.                                                    *)
(***************************************************************************)
DeadlinePasses ==
  /\ ~late
  /\ at \in {"poll", "drain"}
  /\ late' = TRUE
  /\ UNCHANGED <<childVars, pipe, taken, reader, at, outcome>>

\* The resolver is killed, or the thread in run_command unwinds: the kernel
\* kills a child that is tied to it, and nobody else.  A zombie is reaped by
\* whoever adopts it; a child that is not tied yet is adopted, too, and lives.
Crash ==
  /\ at \in {"spawn", "poll", "drain", "join"}
  /\ IF proc[Nix] \in {"tied", "running", "zombie"}
     THEN End({Nix}, "gone") /\ UNCHANGED adopter
     ELSE /\ UNCHANGED <<proc, group, holders>>
          /\ adopter' \in IF proc[Nix] = "gone" THEN {"none"} ELSE Adopters
  /\ at' = "crashed"
  /\ reader' = [s \in Pipes |-> "finished"]
  /\ UNCHANGED <<pipe, written, taken, late, status, outcome>>

Child == SetGroup \/ TieToParent \/ Exec

Thread == Spawned \/ Reap \/ Expire \/ JoinExpired \/ Drained

Next ==
  \/ Child \/ Thread
  \/ SpawnFails \/ DeadlinePasses \/ Crash
  \/ \E p \in Procs, h \in Helpers : Fork(p, h)
  \/ \E h \in Strays : LeaveGroup(h)
  \/ \E h \in Helpers, s \in Pipes : ClosePipe(h, s)
  \/ \E p \in Procs, s \in Pipes : Write(p, s)
  \/ \E p \in Procs : Exit(p)
  \/ \E s \in Pipes : Take(s) \/ EndOfFile(s)

\* The kernel runs the threads and the child's few calls before exec.  The
\* command itself, and the clock, owe nobody a step.
Fairness ==
  /\ WF_vars(Child)
  /\ WF_vars(Thread)
  /\ \A s \in Pipes : WF_vars(Take(s) \/ EndOfFile(s))

Spec == Init /\ [][Next]_vars /\ Fairness

-----------------------------------------------------------------------------
(***************************************************************************)
(* Properties.                                                             *)
(***************************************************************************)
\* A command that succeeds hands over all of stdout, what a helper wrote after
\* the command had exited included: the path it prints is parsed out of it.
CompleteOnSuccess ==
  outcome = "ok" => status = "success" /\ Kept = written["stdout"]

\* Whatever run_command returned, the child has been waited for, and after a
\* timeout nothing of its process group is left, nor of its process tree if
\* nobody in it was free to leave the group.
NothingLeft ==
  at = "done" =>
    /\ proc[Nix] = "gone"
    /\ outcome = "timeout" => group = {}
    /\ outcome = "timeout" /\ (\E p \in Procs : Running(p))
         => \E h \in Strays : proc[h] # "unborn"

\* A child whose parent dies at any moment after the fork ends, too, unless it
\* was not tied yet and a subreaper adopted it: such a child runs on.
OrphanEnds == at = "crashed" ~> (proc[Nix] = "gone" \/ adopter = "subreaper")

\* Nobody is blocked on a full pipe for good: the two are read at the same time.
PipesAreRead ==
  \A s \in Pipes : pipe[s] = Capacity ~> (pipe[s] < Capacity \/ at = "crashed")

HeldByStray == \E s \in Pipes : holders[s] \ group # {}

\* After the deadline run_command returns, unless a process that left the group
\* still holds a pipe.
EndsUnlessHeld == late ~> (at \in {"done", "crashed"} \/ HeldByStray)

\* What the comment on the second loop says: the draining is kept inside the
\* deadline, and no helper that outlives the command can make it wait forever.
EndsByDeadline == late ~> at \in {"done", "crashed"}

=============================================================================
