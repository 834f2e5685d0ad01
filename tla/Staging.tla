------------------------------ MODULE Staging ------------------------------
(***************************************************************************)
(* stage_development_installable, and materialize_development around it:   *)
(* the source tree is copied into a scratch directory, within the budgets  *)
(* and with every stamp set to the epoch; the command evaluates the copy,  *)
(* with a cache directory of its own; both directories go with their       *)
(* guards.  The walk holds what lstat said of a name until it copies it.   *)
(***************************************************************************)
EXTENDS SourceTree

CONSTANTS
  MaxTries,   \* how often create_dir is tried: 128
  Leftovers,  \* scratch directories there may be before, by kind
  WithWorker  \* development_worker is configured

ScratchKinds == {"source", "cache"}

VARIABLES
  stager,   \* where materialize_development is
  next,     \* the two NEXT counters
  tries,    \* how often this allocation has tried
  scratch,  \* the scratch directories there are, by kind
  owned,    \* those with a guard in this call: at most one of a kind
  todo,     \* the directories the walk is in and the names left there, the innermost first
  held,     \* the file it has looked at, or opened
  copy,     \* the staged tree
  spent,    \* the StagingBudget
  late,     \* the deadline has passed
  faults    \* how many system calls may still fail

allocVars == <<next, tries, scratch, owned>>
walkVars == <<todo, held, spent>>
stageVars == <<stager, next, tries, scratch, owned, todo, held, copy, spent, late, faults>>

Stamps == {"now", "epoch"}

Staged(node, stamp) == [node |-> node, stamp |-> stamp]

Nothing == [p \in Paths |-> Staged(Absent, "epoch")]

StageInit ==
  /\ stager = "begin"
  /\ next = [k \in ScratchKinds |-> 0]
  /\ tries = 0
  /\ scratch \in Leftovers
  /\ owned = [k \in ScratchKinds |-> {}]
  /\ todo = <<>>
  /\ held = NoHandle
  /\ copy = Nothing
  /\ spent = [entries |-> 0, bytes |-> 0]
  /\ late = FALSE

Over == stager \in {"done", "failed"}

\* The guards remove what they hold, on every way out.
DropGuards ==
  /\ scratch' = [k \in ScratchKinds |-> scratch[k] \ owned[k]]
  /\ owned' = [k \in ScratchKinds |-> {}]
  /\ copy' = Nothing

Returns(outcome) ==
  /\ stager' = outcome
  /\ DropGuards
  /\ UNCHANGED <<tree, next, tries, todo, held, spent, late>>

Fails == Returns("failed") /\ UNCHANGED faults

\* A system call fails although nothing is wrong with the source.
Faulty == faults > 0 /\ faults' = faults - 1

\* The worker's ids are looked up, and the first directory is asked for.
Begin ==
  /\ stager = "begin"
  /\ \/ /\ stager' = "source" /\ tries' = 0
        /\ UNCHANGED <<tree, next, scratch, owned, copy, late, faults>> /\ UNCHANGED walkVars
     \/ Faulty /\ Returns("failed")

Make(k, guard) ==
  /\ next' = [next EXCEPT ![k] = @ + 1]
  /\ scratch' = [scratch EXCEPT ![k] = @ \cup {next[k]}]
  /\ owned' = [owned EXCEPT ![k] = guard]

\* Mutant: the same name is tried again.
CollideAgain(k) ==
  /\ stager = k
  /\ next[k] \in scratch[k]
  /\ UNCHANGED <<tree, stager, copy, late, faults>> /\ UNCHANGED allocVars /\ UNCHANGED walkVars

\* create_dir of the next name: exclusive, so what is there already is left alone
\* and the next name is tried.
Collide(k) ==
  /\ stager = k
  /\ tries < MaxTries /\ next[k] \in scratch[k]
  /\ next' = [next EXCEPT ![k] = @ + 1]
  /\ tries' = tries + 1
  /\ UNCHANGED <<tree, stager, scratch, owned, copy, late, faults>> /\ UNCHANGED walkVars

Exhausted(k) ==
  /\ stager = k
  /\ tries = MaxTries
  /\ Fails

CanMake(k) == stager = k /\ tries < MaxTries /\ next[k] \notin scratch[k]

\* create_staging_directory: the guard is made after the directory's access is
\* set, so that a directory whose access cannot be set stays.
CreateSource ==
  /\ CanMake("source")
  /\ \/ /\ Make("source", {next["source"]})
        /\ copy' = [copy EXCEPT ![<<>>] = Staged(Directory, "epoch")]
        /\ stager' = "enter"
        /\ UNCHANGED <<tree, tries, late, faults>> /\ UNCHANGED walkVars
     \/ /\ Faulty
        /\ Make("source", {})
        /\ stager' = "failed"
        /\ UNCHANGED <<tree, tries, copy, late>> /\ UNCHANGED walkVars

\* Mutant: the cache directory has no guard once the command is built.
CreateCacheUnguarded ==
  /\ CanMake("cache")
  /\ Make("cache", {})
  /\ stager' = "run"
  /\ UNCHANGED <<tree, tries, copy, late, faults>> /\ UNCHANGED walkVars

\* create_worker_cache_directory: here the guard comes first.
CreateCache ==
  /\ CanMake("cache")
  /\ \/ /\ Make("cache", {next["cache"]})
        /\ stager' = "run"
        /\ UNCHANGED <<tree, tries, copy, late, faults>> /\ UNCHANGED walkVars
     \/ Faulty /\ Returns("failed")

\* Something new in the copy: its directory's stamp is "now" again.
Created(p, node) ==
  [copy EXCEPT ![p] = Staged(node, "now"),
               ![IF p = <<>> THEN p ELSE Front(p)].stamp = "now"]

Stamped(p) == [copy EXCEPT ![p].stamp = "epoch"]

\* copy_staged_tree of p, as far as the entry's charge.
Refused(p) ==
  \/ late
  \/ tree[p].kind \in {"absent", "link"}
  \/ spent.entries + 1 > MaxEntries

Charge(bytes) == spent' = [entries |-> spent.entries + 1, bytes |-> spent.bytes + bytes]

\* The root's destination is there already; any other directory is created, and
\* listed next.
EnterDirectory(p, rest) ==
  /\ Charge(0)
  /\ copy' = IF p = <<>> THEN copy ELSE Created(p, Directory)
  /\ todo' = <<[of |-> p, left |-> {}]>> \o rest
  /\ stager' = "list"
  /\ UNCHANGED <<tree, held, late, faults>> /\ UNCHANGED allocVars

EnterRoot ==
  /\ stager = "enter"
  /\ IF Refused(<<>>) THEN Fails ELSE EnterDirectory(<<>>, <<>>)

\* read_dir, in no order.
List ==
  /\ stager = "list"
  /\ LET p == Head(todo).of
     IN  IF tree[p] # Directory
         THEN Fails
         ELSE /\ todo' = <<[of |-> p, left |-> Children(p)]>> \o Tail(todo)
              /\ stager' = "walk"
              /\ UNCHANGED <<tree, held, copy, spent, late, faults>> /\ UNCHANGED allocVars

\* The next of the names, whichever that is.
Next(p) == stager = "walk" /\ todo # <<>> /\ p \in Head(todo).left

Without(p) == <<[Head(todo) EXCEPT !.left = @ \ {p}]>> \o Tail(todo)

LookFails(p) ==
  /\ Next(p)
  /\ Refused(p) \/ tree[p].kind = "pipe"
  /\ Fails

LookDirectory(p) ==
  /\ Next(p)
  /\ ~Refused(p)
  /\ tree[p] = Directory
  /\ EnterDirectory(p, Without(p))

LookFile(p) ==
  /\ Next(p)
  /\ ~Refused(p)
  /\ tree[p].kind = "file"
  /\ IF spent.bytes + tree[p].length > MaxBytes
     THEN Fails
     ELSE /\ Charge(tree[p].length)
          /\ held' = [NoHandle EXCEPT !.path = p, !.expected = tree[p].length]
          /\ todo' = Without(p)
          /\ stager' = "open"
          /\ UNCHANGED <<tree, copy, late, faults>> /\ UNCHANGED allocVars

\* O_NOFOLLOW keeps links out, and nothing else: what is there is opened, and to
\* open a pipe is to wait for its writer, past any deadline.
Open ==
  /\ stager = "open"
  /\ tree[held.path].kind # "pipe"
  /\ IF tree[held.path].kind # "file"
     THEN Fails
     ELSE /\ held' = Handle(held.path, tree[held.path], held.expected)
          /\ copy' = Created(held.path, Node("file", 0))
          /\ stager' = "copy"
          /\ UNCHANGED <<tree, todo, spent, late, faults>> /\ UNCHANGED allocVars

\* At most one byte more than lstat said is copied.
CopyOf(h) == IF h.node.length > h.expected THEN h.expected + 1 ELSE h.node.length

\* Mutant: the whole file is copied, however long it has become.
CopyAll ==
  /\ stager = "copy"
  /\ copy' = [copy EXCEPT ![held.path].node = held.node]
  /\ stager' = "check"
  /\ UNCHANGED <<tree, late, faults>> /\ UNCHANGED allocVars /\ UNCHANGED walkVars

Copy ==
  /\ stager = "copy"
  /\ copy' = [copy EXCEPT ![held.path].node = Node("file", CopyOf(held))]
  /\ stager' = "check"
  /\ UNCHANGED <<tree, late, faults>> /\ UNCHANGED allocVars /\ UNCHANGED walkVars

\* Another length is an error; fsync and set_staged_access may fail.
Check ==
  /\ stager = "check"
  /\ \/ /\ copy[held.path].node.length = held.expected
        /\ copy' = Stamped(held.path)
        /\ held' = NoHandle
        /\ stager' = "walk"
        /\ UNCHANGED <<tree, todo, spent, late, faults>> /\ UNCHANGED allocVars
     \/ copy[held.path].node.length # held.expected /\ Fails
     \/ Faulty /\ Returns("failed")

\* Mutant: a directory keeps the stamp it got when it was created.
LeaveUnstamped ==
  /\ stager = "walk" /\ todo # <<>>
  /\ Head(todo).left = {}
  /\ todo' = Tail(todo)
  /\ UNCHANGED <<tree, stager, held, copy, spent, late, faults>> /\ UNCHANGED allocVars

\* The directory's own stamp, after its children's.
Leave ==
  /\ stager = "walk" /\ todo # <<>>
  /\ Head(todo).left = {}
  /\ copy' = Stamped(Head(todo).of)
  /\ todo' = Tail(todo)
  /\ UNCHANGED <<tree, stager, held, spent, late, faults>> /\ UNCHANGED allocVars

\* A permit is waited for, until the deadline; then a worker gets its cache.
Permitted ==
  /\ stager = "walk" /\ todo = <<>>
  /\ IF late
     THEN Fails
     ELSE /\ stager' = IF WithWorker THEN "cache" ELSE "run"
          /\ tries' = 0
          /\ UNCHANGED <<tree, next, scratch, owned, copy, late, faults>> /\ UNCHANGED walkVars

\* The command has evaluated the copy, or has failed, or is killed.
CommandEnds ==
  /\ stager = "run"
  /\ \/ /\ ~late
        /\ stager' = "register"
        /\ UNCHANGED <<tree, copy, late, faults>>
        /\ UNCHANGED allocVars /\ UNCHANGED walkVars
     \/ late /\ Fails
     \/ Faulty /\ Returns("failed")

\* register_root, and the way out.
Register ==
  /\ stager = "register"
  /\ \/ ~late /\ Returns("done") /\ UNCHANGED faults
     \/ late /\ Fails
     \/ Faulty /\ Returns("failed")

StageStep ==
  \/ Begin
  \/ \E k \in ScratchKinds : Collide(k) \/ Exhausted(k)
  \/ CreateSource \/ CreateCache
  \/ EnterRoot \/ List
  \/ \E p \in Paths : LookFails(p) \/ LookDirectory(p) \/ LookFile(p)
  \/ Open \/ Copy \/ Check \/ Leave
  \/ Permitted \/ CommandEnds \/ Register

DeadlinePasses ==
  /\ ~late /\ ~Over
  /\ late' = TRUE
  /\ UNCHANGED <<tree, stager, copy, faults>>
  /\ UNCHANGED allocVars /\ UNCHANGED walkVars
=============================================================================
