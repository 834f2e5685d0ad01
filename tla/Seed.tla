-------------------------------- MODULE Seed --------------------------------
(***************************************************************************)
(* A seed from the author's directory to the evaluator: the client packs   *)
(* the directory, the layer is unpacked on the node, the daemon stages     *)
(* what it finds there.  An editor may change the directory while it is    *)
(* packed, or the unpacked tree while it is staged.                        *)
(***************************************************************************)
EXTENDS SourceTree, FiniteSetsExt

CONSTANTS
  Sources,     \* the directories to start with
  IncludeVcs, Unfit, MaxTries, Leftovers, WithWorker,
  MaxEdits,    \* bound: how often the editor changes something
  MaxFaults    \* bound: how many system calls of the staging fail

VARIABLES
  packer, names, opened, layer, charged,
  stager, next, tries, scratch, owned, todo, held, copy, spent, late, faults,
  phase,   \* "packing", or "staging"
  edits,   \* the changes still to come
  edited,  \* the tree was changed in this phase
  before   \* the scratch directories there were

Pack == INSTANCE Packing
Stage == INSTANCE Staging

ASSUME SeedAssumption ==
  /\ Sources \subseteq Trees
  /\ IncludeVcs \in BOOLEAN
  /\ Unfit \subseteq Paths
  /\ MaxTries \in Nat \ {0}
  /\ Leftovers \subseteq [Stage!ScratchKinds -> SUBSET (0 .. 2 * MaxTries)]
  /\ WithWorker \in BOOLEAN
  /\ MaxEdits \in Nat /\ MaxFaults \in Nat

seedVars == <<phase, edits, edited, before>>
packVars == <<packer, names, opened, layer, charged>>
stageVars == <<stager, next, tries, scratch, owned, todo, held, copy, spent, late, faults>>
vars == <<tree, packVars, stageVars, seedVars>>

Init ==
  /\ tree \in Sources
  /\ Pack!PackInit /\ Stage!StageInit
  /\ faults = MaxFaults
  /\ phase = "packing"
  /\ edits = MaxEdits
  /\ edited = FALSE
  /\ before = scratch

Packs ==
  /\ phase = "packing"
  /\ Pack!PackStep
  /\ UNCHANGED <<stageVars, seedVars>>

\* The image is pushed and pulled: the node has the layer's tree, whose files are
\* unpacked in the layer's order, a directory before what it holds.
Unpack ==
  /\ phase = "packing" /\ packer = "packed"
  /\ phase' = "staging"
  /\ edited' = FALSE
  /\ tree' = [p \in Paths |-> LET at == {i \in DOMAIN layer : layer[i].path = p}
                              IN  IF at = {} THEN Absent ELSE layer[Max(at)].node]
  /\ UNCHANGED <<packVars, stageVars, edits, before>>

Stages ==
  /\ phase = "staging"
  /\ Stage!StageStep
  /\ UNCHANGED <<packVars, seedVars>>

DeadlinePasses ==
  /\ phase = "staging"
  /\ Stage!DeadlinePasses
  /\ UNCHANGED <<packVars, seedVars>>

\* There is something to change, and a walk that may see it.
Editing ==
  /\ edits > 0
  /\ IF phase = "packing" THEN packer \in {"list", "walk", "open", "read"}
                          ELSE stager \in {"enter", "list", "walk", "open", "copy"}
  /\ edits' = edits - 1
  /\ edited' = TRUE
  /\ UNCHANGED <<packer, names, layer, charged, phase, before>>
  /\ UNCHANGED <<stager, next, tries, scratch, owned, todo, copy, spent, late, faults>>

EditorWrites(p, node) ==
  /\ Editing
  /\ tree[p].kind = "file" /\ node.kind = "file" /\ node # tree[p]
  /\ tree' = Rewrite(p, node)
  /\ opened' = SeesRewrite(opened, p, node)
  /\ held' = SeesRewrite(held, p, node)

EditorReplaces(p, node) ==
  /\ Editing
  /\ p # <<>> /\ tree[Front(p)] = Directory
  /\ node # Absent \/ tree[p] # Absent
  /\ tree' = Replace(p, node)
  /\ opened' = SeesReplace(opened, p)
  /\ held' = SeesReplace(held, p)

Next ==
  \/ Packs \/ Unpack \/ Stages \/ DeadlinePasses
  \/ \E p \in Paths, node \in Nodes : EditorWrites(p, node) \/ EditorReplaces(p, node)

\* The client and the daemon go on while they can; nobody has to edit, and
\* nothing has to be late.
Spec == Init /\ [][Next]_vars /\ WF_vars(Packs) /\ WF_vars(Unpack) /\ WF_vars(Stages)
-----------------------------------------------------------------------------
BytesOf(t) == MapThenSumSet(LAMBDA p : t[p].length, Paths)

Copied == [p \in Paths |-> copy[p].node]

\* Whatever the editor does, a layer that is packed is a tree the node has room
\* for: no path twice, a directory before what it holds, siblings by name, within
\* both budgets; and when nobody edits it is the directory (pack_source,
\* read_regular).
PackedIsTree ==
  packer = "packed" /\ phase = "packing" =>
    /\ \A i, j \in DOMAIN layer : i < j => Before(layer[i].path, layer[j].path)
    /\ \A i \in 2..Len(layer) : \E j \in 1..i - 1 : layer[j] = Pack!Entry(Front(layer[i].path), Directory)
    /\ Len(layer) <= MaxEntries
    /\ MapThenSumSet(LAMBDA i : layer[i].node.length, DOMAIN layer) <= MaxBytes
    /\ ~edited => layer = Pack!Listing

\* What the client accepts the node stages: without an edit, a fault or the
\* deadline the staging does not fail, however far the source went to the limits,
\* and what is evaluated is the tree that was unpacked (the two walks and their
\* two budgets).
PackedIsStaged ==
  phase = "staging" /\ ~edited =>
    /\ stager = "failed" => late \/ faults < MaxFaults \/ tries = MaxTries
    /\ stager \in {"cache", "run", "register"} => Copied = tree

\* An editor can make the copy one byte larger than the budget and no more, until
\* the next check; what is evaluated is as large as it was charged for
\* (copy_staged_tree).
CopyIsBounded ==
  /\ BytesOf(Copied) <= MaxBytes + 1
  /\ Cardinality({p \in Paths : Copied[p] # Absent}) <= MaxEntries
  /\ stager \in {"cache", "run", "register"} => BytesOf(Copied) = spent.bytes

\* What the evaluator gets is a tree with the epoch for every stamp, even when the
\* source was edited meanwhile: nothing is created in a directory that has its
\* stamp already (set_staged_access).
EvaluatedIsStamped ==
  stager \in {"cache", "run", "register"} =>
    /\ \A p \in Paths : copy[p].stamp = "epoch"
    /\ \A p \in Paths \ {<<>>} : Copied[p] # Absent => Copied[Front(p)] = Directory

\* The command has its copy and its cache until its output is registered; after
\* that neither is there, and nobody else's directory went with them.  (A failed
\* create_staging_directory leaves an empty one.)
ScratchOutlivesCommand ==
  /\ \A k \in Stage!ScratchKinds : before[k] \subseteq scratch[k]
  /\ stager \in {"run", "register"} =>
       /\ owned["source"] # {} /\ owned["source"] \cap before["source"] = {}
       /\ WithWorker => owned["cache"] # {} /\ owned["cache"] \cap before["cache"] = {}
  /\ Stage!Over => scratch["cache"] = before["cache"] /\ Copied[<<>>] = Absent
  /\ stager = "done" => scratch = before

\* A walk ends, unless somebody puts a pipe where it has seen a file.
AtPipe ==
  IF phase = "packing" THEN packer = "open" /\ tree[Pack!Name].kind = "pipe"
                       ELSE stager = "open" /\ tree[held.path].kind = "pipe"

SeedEnds == <>(packer = "failed" \/ Stage!Over \/ AtPipe)
=============================================================================
