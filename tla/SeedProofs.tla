------------------------------ MODULE SeedProofs ------------------------------
(***************************************************************************)
(* Proofs about Seed, for any source, any budgets, any editor and any      *)
(* faults.  First, who owns the scratch directories on the node: a call    *)
(* owns what it has made, and what was there before it is never among      *)
(* that, because create_dir is exclusive.  Second, what the command gets   *)
(* to evaluate: the walk stamps a directory last, and while it is in one   *)
(* nobody else creates anything there, so no stamp is lost again.  Third,  *)
(* how large the copy may become: what is charged for a file and what is   *)
(* in the copy of it differ by one byte at most.  Fourth, the layer: the   *)
(* client's listings are a stack in path order, what is charged is what    *)
(* is written, and no name is forgotten.  Fifth, the copy: what was packed *)
(* fits the budgets of the node, what is copied is as in the source, and   *)
(* what is not copied yet is still to come.                                *)
(***************************************************************************)
EXTENDS Seed, SequenceTheorems, FiniteSetTheorems, WellFoundedInduction, TLAPS

-----------------------------------------------------------------------------
(***************************************************************************)
(* The scratch directories.                                                *)
(***************************************************************************)
\* Before stage_development_installable has made its directory, and after both
\* guards are dropped.
Unstaged == {"begin", "source", "done", "failed"}

ScratchTypes ==
  /\ scratch \in [Stage!ScratchKinds -> SUBSET Nat]
  /\ owned \in [Stage!ScratchKinds -> SUBSET Nat]
  /\ before \in [Stage!ScratchKinds -> SUBSET Nat]
  /\ next \in [Stage!ScratchKinds -> Nat]

\* What there is was there before or is owned, and never both.  Only a
\* create_staging_directory that failed leaves a directory without a guard.
Accounted ==
  /\ \A k \in Stage!ScratchKinds : before[k] \subseteq scratch[k] /\ owned[k] \cap before[k] = {}
  /\ scratch["cache"] = before["cache"] \cup owned["cache"]
  /\ stager # "failed" => scratch["source"] = before["source"] \cup owned["source"]

\* The guards live as long as their directories are needed, and no longer.
Guarded ==
  /\ stager \in Unstaged <=> owned["source"] = {}
  /\ stager \in {"run", "register"} /\ WithWorker => owned["cache"] # {}
  /\ stager \notin {"run", "register"} => owned["cache"] = {}

Emptied == stager \in Unstaged => copy = Stage!Nothing

ScratchInv == ScratchTypes /\ Accounted /\ Guarded /\ Emptied

LEMMA InitScratch == Init => ScratchInv
  BY SeedAssumption DEF Init, Stage!StageInit, ScratchInv, ScratchTypes, Accounted, Guarded,
     Emptied, Unstaged, Stage!ScratchKinds

\* The guards take away what the call has made, and nothing else.
LEMMA DropGuardsKeeps ==
  ASSUME ScratchInv, Stage!DropGuards, UNCHANGED <<next, before>>,
         stager # "failed", stager' \in {"done", "failed"}
  PROVE  ScratchInv'
  BY DEF ScratchInv, ScratchTypes, Accounted, Guarded, Emptied, Unstaged, Stage!DropGuards,
     Stage!ScratchKinds

LEMMA StageKeepsScratch ==
  ASSUME ScratchInv, Stage!StageStep, UNCHANGED before
  PROVE  ScratchInv'
<1>. USE DEF Stage!allocVars, Stage!walkVars, Stage!ScratchKinds
<1>1. ASSUME NEW outcome \in {"done", "failed"}, Stage!Returns(outcome), stager # "failed"
      PROVE  ScratchInv'
  BY <1>1, DropGuardsKeeps DEF Stage!Returns
<1>2. ASSUME Stage!Fails, stager # "failed" PROVE ScratchInv'
  BY <1>1, <1>2 DEF Stage!Fails
<1>3. CASE Stage!Begin
  BY <1>1, <1>3 DEF Stage!Begin, ScratchInv, ScratchTypes, Accounted, Guarded, Emptied, Unstaged
<1>4. ASSUME NEW k \in Stage!ScratchKinds, Stage!Collide(k) PROVE ScratchInv'
  BY <1>4 DEF Stage!Collide, ScratchInv, ScratchTypes, Accounted, Guarded, Emptied, Unstaged
<1>5. ASSUME NEW k \in Stage!ScratchKinds, Stage!Exhausted(k) PROVE ScratchInv'
  BY <1>2, <1>5 DEF Stage!Exhausted
<1>6. CASE Stage!CreateSource
  <2>. DEFINE new == next["source"]
  <2>1. /\ stager = "source" /\ owned["source"] = {} /\ owned["cache"] = {}
        /\ new \in Nat /\ new \notin scratch["source"]
        /\ scratch' = [scratch EXCEPT !["source"] = @ \cup {new}]
        /\ next' = [next EXCEPT !["source"] = @ + 1]
    BY <1>6 DEF Stage!CreateSource, Stage!CanMake, Stage!Make, ScratchInv, ScratchTypes, Guarded,
       Unstaged
  <2>2. CASE stager' = "enter" /\ owned' = [owned EXCEPT !["source"] = {new}]
    BY <2>1, <2>2 DEF ScratchInv, ScratchTypes, Accounted, Guarded, Emptied, Unstaged
  <2>3. CASE stager' = "failed" /\ owned' = [owned EXCEPT !["source"] = {}] /\ UNCHANGED copy
    BY <2>1, <2>3 DEF ScratchInv, ScratchTypes, Accounted, Guarded, Emptied, Unstaged
  <2>. QED
    BY <1>6, <2>2, <2>3 DEF Stage!CreateSource, Stage!Make
<1>7. CASE Stage!CreateCache
  BY <1>1, <1>7 DEF Stage!CreateCache, Stage!CanMake, Stage!Make, ScratchInv, ScratchTypes,
     Accounted, Guarded, Emptied, Unstaged
<1>8. CASE Stage!EnterRoot \/ Stage!List
  BY <1>2, <1>8 DEF Stage!EnterRoot, Stage!EnterDirectory, Stage!List, ScratchInv, ScratchTypes,
     Accounted, Guarded, Emptied, Unstaged
<1>9. ASSUME NEW p \in Paths, Stage!LookFails(p) \/ Stage!LookDirectory(p) \/ Stage!LookFile(p)
      PROVE  ScratchInv'
  BY <1>2, <1>9 DEF Stage!LookFails, Stage!LookDirectory, Stage!LookFile, Stage!Next,
     Stage!EnterDirectory, ScratchInv, ScratchTypes, Accounted, Guarded, Emptied, Unstaged
<1>10. CASE Stage!Open \/ Stage!Copy \/ Stage!Check \/ Stage!Leave
  BY <1>1, <1>2, <1>10 DEF Stage!Open, Stage!Copy, Stage!Check, Stage!Leave, ScratchInv,
     ScratchTypes, Accounted, Guarded, Emptied, Unstaged
<1>11. CASE Stage!Permitted
  BY <1>2, <1>11 DEF Stage!Permitted, ScratchInv, ScratchTypes, Accounted, Guarded, Emptied,
     Unstaged
<1>12. CASE Stage!CommandEnds \/ Stage!Register
  BY <1>1, <1>2, <1>12 DEF Stage!CommandEnds, Stage!Register, ScratchInv, ScratchTypes,
     Accounted, Guarded, Emptied, Unstaged
<1>. QED
  BY <1>3, <1>4, <1>5, <1>6, <1>7, <1>8, <1>9, <1>10, <1>11, <1>12 DEF Stage!StageStep

LEMMA NextScratch == ASSUME ScratchInv, [Next]_vars PROVE ScratchInv'
<1>1. CASE Stages
  BY <1>1, StageKeepsScratch DEF Stages, seedVars
<1>2. CASE UNCHANGED <<stager, next, scratch, owned, copy, before>>
  BY <1>2 DEF ScratchInv, ScratchTypes, Accounted, Guarded, Emptied
<1>3. CASE Packs \/ Unpack \/ DeadlinePasses \/ UNCHANGED vars
  BY <1>2, <1>3 DEF Packs, Unpack, DeadlinePasses, Stage!DeadlinePasses, Stage!allocVars, vars,
     stageVars, seedVars
<1>4. ASSUME NEW p \in Paths, NEW node \in Nodes, EditorWrites(p, node) \/ EditorReplaces(p, node)
      PROVE  ScratchInv'
  BY <1>2, <1>4 DEF EditorWrites, EditorReplaces, Editing
<1>. QED
  BY <1>1, <1>3, <1>4 DEF Next

\* While the command runs and its output is registered, the copy and the cache
\* are there; when the call is over they are gone, and nobody else's directory
\* went with them (StagedDirectory and WorkerCacheDirectory, on every way out).
THEOREM ScratchIsTheCallsOwn == Spec => []ScratchOutlivesCommand
<1>1. ASSUME ScratchInv PROVE ScratchOutlivesCommand
  <2>1. ASSUME stager \in {"run", "register"}
        PROVE  /\ owned["source"] # {} /\ owned["source"] \cap before["source"] = {}
               /\ WithWorker => owned["cache"] # {} /\ owned["cache"] \cap before["cache"] = {}
    BY <1>1, <2>1 DEF ScratchInv, Accounted, Guarded, Unstaged, Stage!ScratchKinds
  <2>2. ASSUME Stage!Over
        PROVE  scratch["cache"] = before["cache"] /\ Copied[<<>>] = Absent
    <3>1. copy = Stage!Nothing /\ owned["cache"] = {}
      BY <1>1, <2>2 DEF ScratchInv, Guarded, Emptied, Unstaged, Stage!Over
    <3>2. Copied[<<>>] = Absent
      BY <3>1, SourceTreeAssumption
         DEF Copied, Stage!Nothing, Stage!Staged, Stage!Absent, Stage!Node, Absent, Node
    <3>. QED
      BY <1>1, <3>1, <3>2 DEF ScratchInv, Accounted
  <2>3. ASSUME stager = "done" PROVE scratch = before
    BY <1>1, <2>3 DEF ScratchInv, ScratchTypes, Accounted, Guarded, Unstaged, Stage!ScratchKinds
  <2>. QED
    BY <1>1, <2>1, <2>2, <2>3 DEF ScratchInv, Accounted, ScratchOutlivesCommand
<1>2. ScratchInv /\ [Next]_vars => ScratchInv'
  BY NextScratch
<1>. QED
  BY <1>1, <1>2, InitScratch, PTL DEF Spec

-----------------------------------------------------------------------------
(***************************************************************************)
(* The walk.                                                               *)
(***************************************************************************)
\* What there is in the copy, and what it is stamped with.
NodeAt(p) == copy[p].node
StampAt(p) == copy[p].stamp

IsCopy(c) == c = [p \in Paths |-> Stage!Staged(c[p].node, c[p].stamp)]

Rows == [of : Paths, left : SUBSET Paths]

Formed ==
  /\ IsCopy(copy)
  /\ todo \in Seq(Rows)
  /\ held = [path |-> held.path, named |-> held.named, node |-> held.node,
             expected |-> held.expected]

\* The walk is in directories it has created, each once, and what is left in one
\* of them is not in the copy.
Descent == stager \notin Unstaged => \A i \in 1..Len(todo) :
  /\ NodeAt(todo[i].of) = Directory
  /\ \A j \in 1..Len(todo) : todo[i].of = todo[j].of => i = j
  /\ \A q \in todo[i].left : q # <<>> /\ Front(q) = todo[i].of /\ NodeAt(q) = Absent

\* The file it is at is in the innermost of them.
AtFile == stager \in {"open", "copy", "check"} =>
  /\ todo # <<>>
  /\ held.path \in Paths \ {<<>>}
  /\ Front(held.path) = todo[1].of
  /\ held.path \notin todo[1].left
  /\ NodeAt(held.path) # Directory
  /\ stager = "open" => NodeAt(held.path) = Absent

\* A directory is listed when it is new.
AtListing == stager = "list" =>
  /\ todo # <<>>
  /\ \A q \in Paths \ {<<>>} : Front(q) = todo[1].of => NodeAt(q) = Absent

AtEnds ==
  /\ stager = "enter" => \A q \in Paths : NodeAt(q) = IF q = <<>> THEN Directory ELSE Absent
  /\ stager \in {"begin", "source", "enter", "cache", "run", "register"} => todo = <<>>

CopyIsTree == \A p \in Paths \ {<<>>} : NodeAt(p) # Absent => NodeAt(Front(p)) = Directory

\* A stamp is missing only where the walk still is.
StampsAreLeft == \A p \in Paths :
  \/ StampAt(p) = "epoch"
  \/ \E i \in 1..Len(todo) : p = todo[i].of
  \/ stager \in {"copy", "check"} /\ p = held.path

WalkInv == Formed /\ Descent /\ AtFile /\ AtListing /\ AtEnds /\ CopyIsTree /\ StampsAreLeft

\* The names of Staging for what a path can be are those of Seed.
LEMMA SameNodes == Stage!Absent = Absent /\ Stage!Directory = Directory /\ Absent # Directory
  BY DEF Stage!Absent, Stage!Directory, Stage!Node, Absent, Directory, Node

LEMMA SameFront == \A p : Stage!Front(p) = Front(p)
  BY DEF Stage!Front, Front

LEMMA FileIsOther ==
  \A l : Stage!Node("file", l) # Absent /\ Stage!Node("file", l) # Directory
  BY DEF Stage!Node, Absent, Directory, Node

LEMMA PushRow ==
  ASSUME NEW t \in Seq(Rows), NEW r \in Rows
  PROVE  LET s == <<r>> \o t
         IN  /\ s \in Seq(Rows) /\ s # <<>> /\ Len(s) = Len(t) + 1
             /\ s[1] = r
             /\ \A i \in 1..Len(s) : i # 1 => i - 1 \in 1..Len(t) /\ s[i] = t[i - 1]
  OBVIOUS

LEMMA PopRow ==
  ASSUME NEW t \in Seq(Rows), t # <<>>
  PROVE  /\ Head(t) = t[1] /\ t[1] \in Rows
         /\ Tail(t) \in Seq(Rows) /\ Len(Tail(t)) = Len(t) - 1
         /\ \A i \in 1..Len(Tail(t)) : Tail(t)[i] = t[i + 1]
  OBVIOUS

LEMMA SetRow ==
  ASSUME NEW t \in Seq(Rows), t # <<>>, NEW r \in Rows
  PROVE  LET s == <<r>> \o Tail(t)
         IN  /\ s \in Seq(Rows) /\ s # <<>> /\ Len(s) = Len(t)
             /\ s[1] = r
             /\ \A i \in 1..Len(s) : i # 1 => s[i] = t[i]
  BY PopRow, PushRow

\* What is made, and what is stamped.
LEMMA CreatedIs ==
  ASSUME IsCopy(copy), NEW p \in Paths \ {<<>>}, NEW node, copy' = Stage!Created(p, node)
  PROVE  /\ IsCopy(copy)'
         /\ \A q \in Paths : NodeAt(q)' = IF q = p THEN node ELSE NodeAt(q)
         /\ \A q \in Paths : StampAt(q)' = IF q = p \/ q = Front(p) THEN "now" ELSE StampAt(q)
<1>1. Front(p) \in Paths
  BY SourceTreeAssumption
<1>2. copy = [q \in Paths |-> Stage!Staged(NodeAt(q), StampAt(q))]
  BY DEF IsCopy, NodeAt, StampAt
<1>3. copy' = [copy EXCEPT ![p] = Stage!Staged(node, "now"), ![Front(p)].stamp = "now"]
  BY SameFront DEF Stage!Created
<1>4. copy' = [q \in Paths |-> Stage!Staged(IF q = p THEN node ELSE NodeAt(q),
                                           IF q = p \/ q = Front(p) THEN "now" ELSE StampAt(q))]
  BY <1>1, <1>2, <1>3 DEF Stage!Staged
<1>. QED
  BY <1>4 DEF IsCopy, NodeAt, StampAt, Stage!Staged

LEMMA StampedIs ==
  ASSUME IsCopy(copy), NEW p \in Paths, copy' = Stage!Stamped(p)
  PROVE  /\ IsCopy(copy)'
         /\ \A q \in Paths : NodeAt(q)' = NodeAt(q)
         /\ \A q \in Paths : StampAt(q)' = IF q = p THEN "epoch" ELSE StampAt(q)
<1>1. copy = [q \in Paths |-> Stage!Staged(NodeAt(q), StampAt(q))]
  BY DEF IsCopy, NodeAt, StampAt
<1>2. copy' = [q \in Paths |-> Stage!Staged(NodeAt(q), IF q = p THEN "epoch" ELSE StampAt(q))]
  BY <1>1 DEF Stage!Stamped, Stage!Staged
<1>. QED
  BY <1>2 DEF IsCopy, NodeAt, StampAt, Stage!Staged

LEMMA FilledIs ==
  ASSUME IsCopy(copy), NEW p \in Paths, NEW node, copy' = [copy EXCEPT ![p].node = node]
  PROVE  /\ IsCopy(copy)'
         /\ \A q \in Paths : NodeAt(q)' = IF q = p THEN node ELSE NodeAt(q)
         /\ \A q \in Paths : StampAt(q)' = StampAt(q)
<1>1. copy = [q \in Paths |-> Stage!Staged(NodeAt(q), StampAt(q))]
  BY DEF IsCopy, NodeAt, StampAt
<1>2. copy' = [q \in Paths |-> Stage!Staged(IF q = p THEN node ELSE NodeAt(q), StampAt(q))]
  BY <1>1 DEF Stage!Staged
<1>. QED
  BY <1>2 DEF IsCopy, NodeAt, StampAt, Stage!Staged

LEMMA NothingIs ==
  ASSUME copy' = Stage!Nothing
  PROVE  /\ IsCopy(copy)'
         /\ \A q \in Paths : NodeAt(q)' = Absent /\ StampAt(q)' = "epoch"
  BY SameNodes DEF Stage!Nothing, Stage!Staged, IsCopy, NodeAt, StampAt

\* A call that is over, or has not begun to stage, has nothing to walk.
LEMMA UnstagedWalk ==
  ASSUME WalkInv, ScratchInv', UNCHANGED <<todo, held>>,
         \/ stager' \in {"done", "failed"}
         \/ stager' = "source" /\ todo = <<>>
  PROVE  WalkInv'
<1>1. /\ IsCopy(copy)'
      /\ \A q \in Paths : NodeAt(q)' = Absent /\ StampAt(q)' = "epoch"
  BY NothingIs DEF ScratchInv, Emptied, Unstaged
<1>2. StampsAreLeft' /\ CopyIsTree'
  BY <1>1 DEF StampsAreLeft, CopyIsTree, NodeAt, StampAt
<1>. QED
  BY <1>1, <1>2 DEF WalkInv, Formed, Descent, AtFile, AtListing, AtEnds, Unstaged

LEMMA FailedWalk ==
  ASSUME WalkInv, ScratchInv', Stage!Fails \/ \E o \in {"done", "failed"} : Stage!Returns(o)
  PROVE  WalkInv'
  BY UnstagedWalk DEF Stage!Fails, Stage!Returns

\* Around the walk nothing of it changes.
LEMMA OutsideWalk ==
  ASSUME WalkInv, UNCHANGED <<copy, todo, held>>, todo = <<>>,
         stager \in {"walk", "cache", "run", "register"},
         stager' \in {"cache", "run", "register"}
  PROVE  WalkInv'
  BY DEF WalkInv, Formed, Descent, AtFile, AtListing, AtEnds, CopyIsTree, StampsAreLeft, NodeAt,
     StampAt, Unstaged

LEMMA CreateSourceKeepsWalk ==
  ASSUME ScratchInv, ScratchInv', WalkInv, Stage!CreateSource PROVE WalkInv'
<1>1. CASE stager' = "failed"
  BY <1>1, UnstagedWalk DEF Stage!CreateSource, Stage!walkVars
<1>2. CASE stager' = "enter" /\ copy' = [copy EXCEPT ![<<>>] = Stage!Staged(Directory, "epoch")]
  <2>1. stager = "source" /\ todo = <<>> /\ todo' = <<>> /\ held' = held
    BY Stage!CreateSource DEF Stage!CreateSource, Stage!CanMake, Stage!walkVars, WalkInv, AtEnds
  <2>2. copy = [q \in Paths |-> Stage!Staged(Absent, "epoch")]
    BY <2>1, SameNodes DEF ScratchInv, Emptied, Unstaged, Stage!Nothing
  <2>3. copy' = [q \in Paths |-> Stage!Staged(IF q = <<>> THEN Directory ELSE Absent, "epoch")]
    BY <1>2, <2>2, SourceTreeAssumption
  <2>4. /\ IsCopy(copy)'
        /\ \A q \in Paths : /\ NodeAt(q)' = IF q = <<>> THEN Directory ELSE Absent
                            /\ StampAt(q)' = "epoch"
    BY <2>3 DEF IsCopy, NodeAt, StampAt, Stage!Staged
  <2>5. CopyIsTree' /\ StampsAreLeft'
    BY <2>4 DEF CopyIsTree, StampsAreLeft, NodeAt, StampAt
  <2>. QED
    BY <1>2, <2>1, <2>4, <2>5
       DEF WalkInv, Formed, Descent, AtFile, AtListing, AtEnds, NodeAt
<1>. QED
  BY <1>1, <1>2, SameNodes DEF Stage!CreateSource

LEMMA RowsAre ==
  ASSUME NEW t \in Seq(Rows), NEW i \in 1..Len(t)
  PROVE  t[i].of \in Paths /\ t[i].left \subseteq Paths
<1>1. t[i] \in Rows
  OBVIOUS
<1>. QED
  BY <1>1 DEF Rows

LEMMA EnterRootKeepsWalk ==
  ASSUME ScratchInv', WalkInv, Stage!EnterRoot PROVE WalkInv'
<1>1. CASE Stage!Fails
  BY <1>1, FailedWalk
<1>2. CASE Stage!EnterDirectory(<<>>, <<>>)
  <2>. DEFINE root == [of |-> <<>>, left |-> {}]
  <2>1. root \in Rows /\ <<>> \in Seq(Rows)
    BY SourceTreeAssumption DEF Rows
  <2>2. todo' = <<root>> \o <<>> /\ copy' = copy /\ held' = held /\ stager' = "list"
    BY <1>2 DEF Stage!EnterDirectory
  <2>. HIDE DEF root
  <2>3. todo' \in Seq(Rows) /\ todo' # <<>> /\ Len(todo') = 1 /\ todo'[1] = root
    BY <2>1, <2>2, PushRow
  <2>4. \A q \in Paths : NodeAt(q)' = (IF q = <<>> THEN Directory ELSE Absent) /\ StampAt(q)' = "epoch"
    BY <2>2 DEF Stage!EnterRoot, WalkInv, AtEnds, StampsAreLeft, NodeAt, StampAt
  <2>5. Formed' /\ AtFile' /\ AtEnds' /\ StampsAreLeft'
    BY <2>2, <2>3, <2>4 DEF WalkInv, Formed, AtFile, AtEnds, StampsAreLeft, IsCopy
  <2>6. Descent'
    BY <2>1, <2>3, <2>4, SourceTreeAssumption DEF Descent, root
  <2>7. AtListing' /\ CopyIsTree'
    BY <2>2, <2>3, <2>4 DEF WalkInv, AtListing, CopyIsTree, NodeAt
  <2>. QED
    BY <2>5, <2>6, <2>7 DEF WalkInv
<1>. QED
  BY <1>1, <1>2 DEF Stage!EnterRoot

LEMMA ListKeepsWalk ==
  ASSUME ScratchInv', WalkInv, Stage!List PROVE WalkInv'
<1>1. CASE Stage!Fails
  BY <1>1, FailedWalk
<1>2. CASE ~Stage!Fails
  <2>1. stager = "list" /\ todo # <<>> /\ todo \in Seq(Rows)
    BY DEF Stage!List, WalkInv, Formed, AtListing
  <2>2. Head(todo) = todo[1] /\ todo[1] \in Rows
    BY <2>1, PopRow
  <2>. DEFINE p == todo[1].of
              row == [of |-> p, left |-> Stage!Children(p)]
  <2>3. /\ todo' = <<row>> \o Tail(todo) /\ stager' = "walk"
        /\ UNCHANGED <<copy, held>>
    BY <1>2, <2>2 DEF Stage!List
  <2>4. row \in Rows /\ \A q \in row.left : q \in Paths \ {<<>>} /\ Front(q) = p
    BY <2>2, SameFront DEF Stage!Children, Rows
  <2>. HIDE DEF row
  <2>5. /\ todo' \in Seq(Rows) /\ Len(todo') = Len(todo) /\ todo'[1] = row
        /\ \A i \in 1..Len(todo') : i # 1 => todo'[i] = todo[i]
    BY <2>1, <2>3, <2>4, SetRow
  <2>6. \A i \in 1..Len(todo') : todo'[i].of = todo[i].of
    BY <2>5 DEF row
  <2>7. Formed' /\ AtFile' /\ AtListing' /\ AtEnds' /\ CopyIsTree'
    BY <2>3, <2>5 DEF WalkInv, Formed, AtFile, AtListing, AtEnds, CopyIsTree, NodeAt
  <2>8. Descent'
    <3>1. \A q \in row.left : NodeAt(q) = Absent
      BY <2>1, <2>4 DEF WalkInv, AtListing
    <3>. QED
      BY <2>1, <2>3, <2>4, <2>5, <2>6, <3>1 DEF WalkInv, Descent, NodeAt, Unstaged
  <2>9. StampsAreLeft'
    BY <2>1, <2>3, <2>5, <2>6 DEF WalkInv, StampsAreLeft, StampAt
  <2>. QED
    BY <2>7, <2>8, <2>9 DEF WalkInv
<1>. QED
  BY <1>1, <1>2

\* A name is taken from the innermost listing.
LEMMA WithoutIs ==
  ASSUME WalkInv, NEW p \in Paths, Stage!Next(p)
  PROVE  /\ todo # <<>> /\ todo \in Seq(Rows) /\ stager = "walk"
         /\ p # <<>> /\ Front(p) = todo[1].of /\ NodeAt(p) = Absent
         /\ 1 \in 1..Len(todo) /\ p \in todo[1].left
         /\ LET w == Stage!Without(p)
            IN  /\ w \in Seq(Rows) /\ w # <<>> /\ Len(w) = Len(todo)
                /\ w[1] = [of |-> todo[1].of, left |-> todo[1].left \ {p}]
                /\ \A i \in 1..Len(w) : i # 1 => w[i] = todo[i]
<1>1. todo # <<>> /\ todo \in Seq(Rows) /\ stager = "walk"
  BY DEF Stage!Next, WalkInv, Formed
<1>2. Head(todo) = todo[1] /\ todo[1] \in Rows /\ 1 \in 1..Len(todo)
  BY <1>1, PopRow
<1>3. p \in todo[1].left
  BY <1>2 DEF Stage!Next
<1>4. p # <<>> /\ Front(p) = todo[1].of /\ NodeAt(p) = Absent
  BY <1>1, <1>2, <1>3 DEF WalkInv, Descent, Unstaged
<1>. DEFINE row == [of |-> todo[1].of, left |-> todo[1].left \ {p}]
<1>5. row \in Rows /\ [todo[1] EXCEPT !.left = @ \ {p}] = row
  <2>1. todo[1] = [of |-> todo[1].of, left |-> todo[1].left]
    BY <1>2 DEF Rows
  <2>2. todo[1].of \in Paths /\ todo[1].left \in SUBSET Paths
    BY <1>2 DEF Rows
  <2>. QED
    BY <2>1, <2>2 DEF Rows
<1>6. Stage!Without(p) = <<row>> \o Tail(todo)
  BY <1>2, <1>5 DEF Stage!Without
<1>. HIDE DEF row
<1>7. /\ Stage!Without(p) \in Seq(Rows) /\ Stage!Without(p) # <<>>
      /\ Len(Stage!Without(p)) = Len(todo) /\ Stage!Without(p)[1] = row
      /\ \A i \in 1..Len(Stage!Without(p)) : i # 1 => Stage!Without(p)[i] = todo[i]
  BY <1>1, <1>5, <1>6, SetRow
<1>. QED
  BY <1>1, <1>2, <1>3, <1>4, <1>7 DEF row

LEMMA LookFileKeepsWalk ==
  ASSUME ScratchInv', WalkInv, NEW p \in Paths, Stage!LookFile(p) PROVE WalkInv'
<1>1. CASE Stage!Fails
  BY <1>1, FailedWalk
<1>2. CASE ~Stage!Fails
  <2>. DEFINE w == Stage!Without(p)
  <2>1. /\ stager = "walk" /\ p # <<>> /\ Front(p) = todo[1].of /\ NodeAt(p) = Absent
        /\ 1 \in 1..Len(todo) /\ p \in todo[1].left
        /\ w \in Seq(Rows) /\ w # <<>> /\ Len(w) = Len(todo)
        /\ w[1] = [of |-> todo[1].of, left |-> todo[1].left \ {p}]
        /\ \A i \in 1..Len(w) : i # 1 => w[i] = todo[i]
    BY WithoutIs DEF Stage!LookFile
  <2>2. /\ todo' = w /\ stager' = "open" /\ copy' = copy
        /\ held' = [Stage!NoHandle EXCEPT !.path = p, !.expected = tree[p].length]
    BY <1>2 DEF Stage!LookFile
  <2>. HIDE DEF w
  <2>3. \A i \in 1..Len(todo') : todo'[i].of = todo[i].of /\ todo'[i].left \subseteq todo[i].left
    BY <2>1, <2>2
  <2>4. held'.path = p /\ Formed'
    BY <2>1, <2>2 DEF WalkInv, Formed, Stage!NoHandle
  <2>5. Descent'
    BY <2>1, <2>2, <2>3 DEF WalkInv, Descent, NodeAt, Unstaged
  <2>6. AtFile'
    BY <2>1, <2>2, <2>4, SameNodes DEF AtFile, NodeAt
  <2>7. AtListing' /\ AtEnds' /\ CopyIsTree'
    BY <2>2 DEF WalkInv, AtListing, AtEnds, CopyIsTree, NodeAt
  <2>8. StampsAreLeft'
    BY <2>1, <2>2, <2>3 DEF WalkInv, StampsAreLeft, StampAt
  <2>. QED
    BY <2>4, <2>5, <2>6, <2>7, <2>8 DEF WalkInv
<1>. QED
  BY <1>1, <1>2

LEMMA LookDirectoryKeepsWalk ==
  ASSUME ScratchInv', WalkInv, NEW p \in Paths, Stage!LookDirectory(p) PROVE WalkInv'
<1>. DEFINE w == Stage!Without(p)
            row == [of |-> p, left |-> {}]
<1>1. /\ stager = "walk" /\ p # <<>> /\ Front(p) = todo[1].of /\ NodeAt(p) = Absent
      /\ 1 \in 1..Len(todo) /\ p \in todo[1].left
      /\ w \in Seq(Rows) /\ w # <<>> /\ Len(w) = Len(todo)
      /\ w[1] = [of |-> todo[1].of, left |-> todo[1].left \ {p}]
      /\ \A i \in 1..Len(w) : i # 1 => w[i] = todo[i]
  BY WithoutIs DEF Stage!LookDirectory
<1>2. /\ todo' = <<row>> \o w /\ stager' = "list" /\ held' = held
      /\ copy' = Stage!Created(p, Directory)
  BY <1>1, SameNodes DEF Stage!LookDirectory, Stage!EnterDirectory
<1>3. row \in Rows
  BY DEF Rows
<1>. HIDE DEF w, row
<1>4. /\ todo' \in Seq(Rows) /\ todo' # <<>> /\ Len(todo') = Len(todo) + 1 /\ todo'[1] = row
      /\ \A i \in 1..Len(todo') : i # 1 => i - 1 \in 1..Len(w) /\ todo'[i] = w[i - 1]
  BY <1>1, <1>2, <1>3, PushRow
<1>5. \A i \in 1..Len(w) : w[i].of = todo[i].of /\ w[i].left \subseteq todo[i].left \ {p}
  <2>1. \A i \in 1..Len(todo) : i # 1 => p \notin todo[i].left
    BY <1>1 DEF WalkInv, Descent, Unstaged
  <2>. QED
    BY <1>1, <2>1
<1>6. /\ IsCopy(copy)'
      /\ \A q \in Paths : NodeAt(q)' = IF q = p THEN Directory ELSE NodeAt(q)
      /\ \A q \in Paths : StampAt(q)' = IF q = p \/ q = Front(p) THEN "now" ELSE StampAt(q)
  BY <1>1, <1>2, CreatedIs DEF WalkInv, Formed
<1>7. Formed' /\ AtFile' /\ AtEnds'
  BY <1>2, <1>4, <1>6 DEF WalkInv, Formed, AtFile, AtEnds
<1>8. ASSUME NEW i \in 1..Len(w)
      PROVE  /\ w[i].of \in Paths /\ w[i].left \subseteq Paths
             /\ w[i].of # p /\ NodeAt(w[i].of) = Directory
  <2>1. w[i] \in Rows
    BY <1>1
  <2>2. NodeAt(todo[i].of) = Directory
    BY <1>1 DEF WalkInv, Descent, Unstaged
  <2>3. w[i].of \in Paths /\ w[i].left \subseteq Paths
    BY <2>1 DEF Rows
  <2>. QED
    BY <1>1, <1>5, <2>2, <2>3, SameNodes
<1>9. Descent'
  <2>. DEFINE Now(q) == copy'[q].node
  <2>1. \A q \in Paths : Now(q) = IF q = p THEN Directory ELSE NodeAt(q)
    BY <1>6 DEF NodeAt
  <2>. HIDE DEF Now
  <2>2. ASSUME NEW i \in 1..Len(w)
        PROVE  /\ Now(w[i].of) = Directory
               /\ \A j \in 1..Len(w) : w[i].of = w[j].of => i = j
               /\ \A q \in w[i].left : q # <<>> /\ Front(q) = w[i].of /\ Now(q) = Absent
    <3>1. /\ \A j \in 1..Len(todo) : todo[i].of = todo[j].of => i = j
          /\ \A q \in todo[i].left : q # <<>> /\ Front(q) = todo[i].of /\ NodeAt(q) = Absent
      BY <1>1 DEF WalkInv, Descent, Unstaged
    <3>2. Now(w[i].of) = Directory
      BY <1>8, <2>1
    <3>3. \A j \in 1..Len(w) : w[i].of = w[j].of => i = j
      BY <1>1, <1>5, <3>1
    <3>4. ASSUME NEW q \in w[i].left
          PROVE  q # <<>> /\ Front(q) = w[i].of /\ Now(q) = Absent
      BY <1>5, <1>8, <2>1, <3>1
    <3>. QED
      BY <3>2, <3>3, <3>4
  <2>3. Now(row.of) = Directory /\ row.of = p /\ row.left = {}
    BY <2>1 DEF row
  <2>4. ASSUME NEW i \in 1..Len(todo')
        PROVE  /\ Now(todo'[i].of) = Directory
               /\ \A j \in 1..Len(todo') : todo'[i].of = todo'[j].of => i = j
               /\ \A q \in todo'[i].left : q # <<>> /\ Front(q) = todo'[i].of /\ Now(q) = Absent
    <3>1. CASE i = 1
      <4>1. \A j \in 1..Len(todo') : j # 1 => todo'[j].of # p
        BY <1>4, <1>8
      <4>. QED
        BY <1>4, <2>3, <3>1, <4>1
    <3>2. CASE i # 1
      <4>1. i - 1 \in 1..Len(w) /\ todo'[i] = w[i - 1]
        BY <1>4, <3>2
      <4>2. \A j \in 1..Len(todo') : todo'[i].of = todo'[j].of => i = j
        <5>1. todo'[i].of # todo'[1].of
          BY <1>4, <1>8, <2>3, <4>1
        <5>2. ASSUME NEW j \in 1..Len(todo'), j # 1, todo'[i].of = todo'[j].of PROVE i = j
          <6>1. j - 1 \in 1..Len(w) /\ todo'[j] = w[j - 1]
            BY <1>4, <5>2
          <6>2. i - 1 = j - 1
            BY <2>2, <4>1, <5>2, <6>1
          <6>. QED
            BY <6>2
        <5>. QED
          BY <5>1, <5>2
      <4>. QED
        BY <2>2, <4>1, <4>2
    <3>. QED
      BY <3>1, <3>2
  <2>. QED
    BY <2>4 DEF Descent, NodeAt, Now
<1>10. CopyIsTree' /\ AtListing'
  <2>1. \A q \in Paths \ {<<>>} : NodeAt(q) # Absent => NodeAt(Front(q)) = Directory
    BY DEF WalkInv, CopyIsTree
  <2>2. \A q \in Paths \ {<<>>} : Front(q) \in Paths
    BY SourceTreeAssumption
  <2>3. NodeAt(Front(p)) = Directory
    BY <1>1 DEF WalkInv, Descent, Unstaged
  <2>4. CopyIsTree'
    BY <1>6, <2>1, <2>2, <2>3 DEF CopyIsTree
  <2>5. \A q \in Paths \ {<<>>} : Front(q) = p => NodeAt(q)' = Absent
    BY <1>1, <1>6, <2>1, <2>3, SameNodes
  <2>. QED
    BY <1>4, <2>4, <2>5 DEF AtListing, row, NodeAt
<1>11. StampsAreLeft'
  <2>1. ASSUME NEW q \in Paths, \E i \in 1..Len(todo) : q = todo[i].of
        PROVE  \E i \in 1..Len(todo') : q = todo'[i].of
    <3>1. PICK i \in 1..Len(todo) : q = todo[i].of
      BY <2>1
    <3>2. i + 1 \in 1..Len(todo') /\ todo'[i + 1] = w[i]
      BY <1>1, <1>4
    <3>. QED
      BY <1>1, <1>5, <3>1, <3>2
  <2>2. \E i \in 1..Len(todo') : p = todo'[i].of
    BY <1>1, <1>4 DEF row
  <2>3. \E i \in 1..Len(todo') : Front(p) = todo'[i].of
    BY <1>1, <2>1, SourceTreeAssumption
  <2>4. ASSUME NEW q \in Paths
        PROVE  StampAt(q)' = "epoch" \/ \E i \in 1..Len(todo') : q = todo'[i].of
    BY <1>1, <1>6, <2>1, <2>2, <2>3 DEF WalkInv, StampsAreLeft
  <2>. QED
    BY <2>4 DEF StampsAreLeft
<1>. QED
  BY <1>7, <1>9, <1>10, <1>11 DEF WalkInv

LEMMA OpenKeepsWalk ==
  ASSUME ScratchInv', WalkInv, Stage!Open PROVE WalkInv'
<1>1. CASE Stage!Fails
  BY <1>1, FailedWalk
<1>2. CASE ~Stage!Fails
  <2>. DEFINE p == held.path
              empty == Stage!Node("file", 0)
  <2>1. /\ stager = "open" /\ todo # <<>> /\ todo \in Seq(Rows)
        /\ p \in Paths \ {<<>>} /\ Front(p) = todo[1].of /\ p \notin todo[1].left
        /\ NodeAt(p) = Absent
    BY DEF Stage!Open, WalkInv, Formed, AtFile
  <2>2. /\ held' = Stage!Handle(p, tree[p], held.expected)
        /\ copy' = Stage!Created(p, empty) /\ stager' = "copy" /\ todo' = todo
    BY <1>2 DEF Stage!Open
  <2>3. empty # Absent /\ empty # Directory
    BY FileIsOther
  <2>4. 1 \in 1..Len(todo)
    BY <2>1, PopRow
  <2>. HIDE DEF empty
  <2>5. /\ IsCopy(copy)'
        /\ \A q \in Paths : copy'[q].node = IF q = p THEN empty ELSE NodeAt(q)
        /\ \A q \in Paths : StampAt(q)' = IF q = p \/ q = Front(p) THEN "now" ELSE StampAt(q)
    BY <2>1, <2>2, CreatedIs DEF WalkInv, Formed, NodeAt
  <2>6. held'.path = p /\ Formed' /\ AtFile' /\ AtListing' /\ AtEnds'
    BY <2>1, <2>2, <2>3, <2>5 DEF WalkInv, Formed, AtFile, AtListing, AtEnds, Stage!Handle, NodeAt
  <2>7. Descent'
    <3>1. ASSUME NEW i \in 1..Len(todo)
          PROVE  /\ copy'[todo[i].of].node = Directory
                 /\ \A j \in 1..Len(todo) : todo[i].of = todo[j].of => i = j
                 /\ \A q \in todo[i].left : q # <<>> /\ Front(q) = todo[i].of /\ copy'[q].node = Absent
      <4>1. /\ NodeAt(todo[i].of) = Directory
            /\ \A j \in 1..Len(todo) : todo[i].of = todo[j].of => i = j
            /\ \A q \in todo[i].left : q # <<>> /\ Front(q) = todo[i].of /\ NodeAt(q) = Absent
        BY <2>1 DEF WalkInv, Descent, Unstaged
      <4>2. todo[i].of \in Paths /\ todo[i].left \subseteq Paths
        BY <2>1, RowsAre
      <4>3. p \notin todo[i].left
        BY <2>1, <2>4, <4>1
      <4>. QED
        BY <2>1, <2>5, <4>1, <4>2, <4>3, SameNodes
    <3>. QED
      BY <2>2, <3>1 DEF Descent, NodeAt
  <2>8. CopyIsTree'
    <3>1. \A q \in Paths \ {<<>>} : /\ Front(q) \in Paths
                                    /\ NodeAt(q) # Absent => NodeAt(Front(q)) = Directory
      BY SourceTreeAssumption DEF WalkInv, CopyIsTree
    <3>2. NodeAt(Front(p)) = Directory
      BY <2>1, <2>4 DEF WalkInv, Descent, Unstaged
    <3>3. ASSUME NEW q \in Paths \ {<<>>}, copy'[q].node # Absent
          PROVE  copy'[Front(q)].node = Directory
      BY <2>1, <2>5, <3>1, <3>2, <3>3, SameNodes
    <3>. QED
      BY <3>3 DEF CopyIsTree, NodeAt
  <2>9. StampsAreLeft'
    BY <2>1, <2>2, <2>4, <2>5, <2>6 DEF WalkInv, StampsAreLeft
  <2>. QED
    BY <2>6, <2>7, <2>8, <2>9 DEF WalkInv
<1>. QED
  BY <1>1, <1>2

\* The file that was opened gets what was read of it.
LEMMA CopyKeepsWalk ==
  ASSUME WalkInv, Stage!Copy PROVE WalkInv'
<1>. DEFINE p == held.path
            full == Stage!Node("file", Stage!CopyOf(held))
<1>1. /\ stager = "copy" /\ todo # <<>> /\ todo \in Seq(Rows) /\ IsCopy(copy)
      /\ p \in Paths \ {<<>>} /\ Front(p) = todo[1].of /\ p \notin todo[1].left
      /\ NodeAt(p) # Directory
  BY DEF Stage!Copy, WalkInv, Formed, AtFile
<1>2. /\ copy' = [copy EXCEPT ![p].node = full] /\ stager' = "check"
      /\ UNCHANGED <<todo, held>>
  BY DEF Stage!Copy, Stage!walkVars
<1>3. full # Absent /\ full # Directory
  BY FileIsOther
<1>4. 1 \in 1..Len(todo)
  BY <1>1, PopRow
<1>. HIDE DEF full
<1>5. /\ IsCopy(copy)'
      /\ \A q \in Paths : copy'[q].node = IF q = p THEN full ELSE NodeAt(q)
      /\ \A q \in Paths : StampAt(q)' = StampAt(q)
  BY <1>1, <1>2, FilledIs DEF NodeAt
<1>6. Formed' /\ AtFile' /\ AtListing' /\ AtEnds'
  BY <1>1, <1>2, <1>3, <1>5 DEF WalkInv, Formed, AtFile, AtListing, AtEnds, NodeAt
<1>7. Descent'
  <2>1. ASSUME NEW i \in 1..Len(todo)
        PROVE  /\ copy'[todo[i].of].node = Directory
               /\ \A j \in 1..Len(todo) : todo[i].of = todo[j].of => i = j
               /\ \A q \in todo[i].left : q # <<>> /\ Front(q) = todo[i].of /\ copy'[q].node = Absent
    <3>1. /\ NodeAt(todo[i].of) = Directory
          /\ \A j \in 1..Len(todo) : todo[i].of = todo[j].of => i = j
          /\ \A q \in todo[i].left : q # <<>> /\ Front(q) = todo[i].of /\ NodeAt(q) = Absent
      BY <1>1 DEF WalkInv, Descent, Unstaged
    <3>2. todo[i].of \in Paths /\ todo[i].left \subseteq Paths
      BY <1>1, RowsAre
    <3>3. p \notin todo[i].left
      BY <1>1, <1>4, <3>1
    <3>. QED
      BY <1>1, <1>5, <3>1, <3>2, <3>3
  <2>. QED
    BY <1>2, <2>1 DEF Descent, NodeAt
<1>8. CopyIsTree'
  <2>1. \A q \in Paths \ {<<>>} : /\ Front(q) \in Paths
                                  /\ NodeAt(q) # Absent => NodeAt(Front(q)) = Directory
    BY SourceTreeAssumption DEF WalkInv, CopyIsTree
  <2>2. NodeAt(Front(p)) = Directory
    BY <1>1, <1>4 DEF WalkInv, Descent, Unstaged
  <2>3. ASSUME NEW q \in Paths \ {<<>>}, copy'[q].node # Absent
        PROVE  copy'[Front(q)].node = Directory
    BY <1>1, <1>5, <2>1, <2>2, <2>3
  <2>. QED
    BY <2>3 DEF CopyIsTree, NodeAt
<1>9. StampsAreLeft'
  BY <1>1, <1>2, <1>5 DEF WalkInv, StampsAreLeft
<1>. QED
  BY <1>6, <1>7, <1>8, <1>9 DEF WalkInv

\* A stamp changes nothing else.
LEMMA CheckKeepsWalk ==
  ASSUME ScratchInv', WalkInv, Stage!Check PROVE WalkInv'
<1>1. CASE Stage!Fails \/ Stage!Returns("failed")
  BY <1>1, FailedWalk
<1>2. CASE /\ copy' = Stage!Stamped(held.path) /\ held' = Stage!NoHandle
           /\ stager' = "walk" /\ todo' = todo
  <2>1. stager = "check" /\ held.path \in Paths
    BY DEF Stage!Check, WalkInv, AtFile
  <2>2. /\ IsCopy(copy)'
        /\ \A q \in Paths : copy'[q].node = NodeAt(q)
        /\ \A q \in Paths : StampAt(q)' = IF q = held.path THEN "epoch" ELSE StampAt(q)
    BY <1>2, <2>1, StampedIs DEF WalkInv, Formed, NodeAt
  <2>3. Formed' /\ AtFile' /\ AtListing' /\ AtEnds'
    BY <1>2, <2>2 DEF WalkInv, Formed, AtFile, AtListing, AtEnds, Stage!NoHandle
  <2>4. \A i \in 1..Len(todo) : todo[i].of \in Paths /\ todo[i].left \subseteq Paths
    BY RowsAre DEF WalkInv, Formed
  <2>5. Descent'
    BY <1>2, <2>1, <2>2, <2>4 DEF WalkInv, Descent, Unstaged, NodeAt
  <2>6. CopyIsTree'
    BY <2>2, SourceTreeAssumption DEF WalkInv, CopyIsTree, NodeAt
  <2>7. StampsAreLeft'
    BY <1>2, <2>1, <2>2 DEF WalkInv, StampsAreLeft
  <2>. QED
    BY <2>3, <2>5, <2>6, <2>7 DEF WalkInv
<1>. QED
  BY <1>1, <1>2 DEF Stage!Check

\* The directory the walk leaves is stamped last.
LEMMA LeaveKeepsWalk ==
  ASSUME WalkInv, Stage!Leave PROVE WalkInv'
<1>1. /\ stager = "walk" /\ stager' = "walk" /\ todo # <<>> /\ todo \in Seq(Rows)
      /\ todo' = Tail(todo) /\ held' = held /\ copy' = Stage!Stamped(Head(todo).of)
  BY DEF Stage!Leave, WalkInv, Formed
<1>2. /\ Head(todo) = todo[1] /\ todo[1].of \in Paths
      /\ todo' \in Seq(Rows) /\ Len(todo') = Len(todo) - 1
      /\ \A i \in 1..Len(todo') : todo'[i] = todo[i + 1] /\ i + 1 \in 1..Len(todo)
  <2>1. Head(todo) = todo[1] /\ todo[1] \in Rows /\ Len(todo) \in Nat
        /\ todo' \in Seq(Rows) /\ Len(todo') = Len(todo) - 1
        /\ \A i \in 1..Len(todo') : todo'[i] = todo[i + 1]
    BY <1>1, PopRow
  <2>. QED
    BY <2>1 DEF Rows
<1>3. /\ IsCopy(copy)'
      /\ \A q \in Paths : copy'[q].node = NodeAt(q)
      /\ \A q \in Paths : StampAt(q)' = IF q = todo[1].of THEN "epoch" ELSE StampAt(q)
  BY <1>1, <1>2, StampedIs DEF WalkInv, Formed, NodeAt
<1>4. Formed' /\ AtFile' /\ AtListing' /\ AtEnds'
  BY <1>1, <1>2, <1>3 DEF WalkInv, Formed, AtFile, AtListing, AtEnds
<1>5. \A i \in 1..Len(todo) : todo[i].of \in Paths /\ todo[i].left \subseteq Paths
  BY <1>1, RowsAre
<1>6. Descent'
  <2>1. ASSUME NEW i \in 1..Len(todo)
        PROVE  /\ copy'[todo[i].of].node = Directory
               /\ \A j \in 1..Len(todo) : todo[i].of = todo[j].of => i = j
               /\ \A q \in todo[i].left : q # <<>> /\ Front(q) = todo[i].of /\ copy'[q].node = Absent
    BY <1>1, <1>3, <1>5 DEF WalkInv, Descent, Unstaged
  <2>2. ASSUME NEW i \in 1..Len(todo'), NEW j \in 1..Len(todo'), todo'[i].of = todo'[j].of
        PROVE  i = j
    <3>1. i + 1 = j + 1
      BY <1>2, <2>1, <2>2
    <3>. QED
      BY <3>1
  <2>3. ASSUME NEW i \in 1..Len(todo')
        PROVE  /\ copy'[todo'[i].of].node = Directory
               /\ \A q \in todo'[i].left :
                    q # <<>> /\ Front(q) = todo'[i].of /\ copy'[q].node = Absent
    BY <1>2, <2>1
  <2>. QED
    BY <2>2, <2>3 DEF Descent, NodeAt
<1>7. CopyIsTree'
  BY <1>3, SourceTreeAssumption DEF WalkInv, CopyIsTree, NodeAt
<1>8. StampsAreLeft'
  <2>1. ASSUME NEW i \in 1..Len(todo), i # 1
        PROVE  \E j \in 1..Len(todo') : todo[i].of = todo'[j].of
    <3>1. i - 1 \in 1..Len(todo') /\ todo'[i - 1] = todo[i]
      BY <1>1, <1>2, <2>1
    <3>. QED
      BY <3>1
  <2>2. ASSUME NEW q \in Paths
        PROVE  StampAt(q)' = "epoch" \/ \E j \in 1..Len(todo') : q = todo'[j].of
    <3>1. CASE StampAt(q) = "epoch" \/ q = todo[1].of
      BY <1>3, <3>1
    <3>2. CASE StampAt(q) # "epoch" /\ q # todo[1].of
      <4>1. PICK i \in 1..Len(todo) : q = todo[i].of
        BY <1>1, <3>2 DEF WalkInv, StampsAreLeft
      <4>. QED
        BY <2>1, <3>2, <4>1
    <3>. QED
      BY <3>1, <3>2
  <2>. QED
    BY <2>2 DEF StampsAreLeft
<1>. QED
  BY <1>4, <1>6, <1>7, <1>8 DEF WalkInv

LEMMA StageKeepsWalk ==
  ASSUME ScratchInv, ScratchInv', WalkInv, Stage!StageStep PROVE WalkInv'
<1>1. CASE Stage!Begin
  BY <1>1, FailedWalk, UnstagedWalk DEF Stage!Begin, Stage!walkVars, WalkInv, AtEnds
<1>2. ASSUME NEW k \in Stage!ScratchKinds, Stage!Collide(k) PROVE WalkInv'
  BY <1>2, UnstagedWalk, OutsideWalk
     DEF Stage!Collide, Stage!walkVars, Stage!ScratchKinds, WalkInv, AtEnds
<1>3. ASSUME NEW k \in Stage!ScratchKinds, Stage!Exhausted(k) PROVE WalkInv'
  BY <1>3, FailedWalk DEF Stage!Exhausted
<1>4. CASE Stage!CreateCache
  BY <1>4, FailedWalk, OutsideWalk
     DEF Stage!CreateCache, Stage!CanMake, Stage!walkVars, WalkInv, AtEnds
<1>5. ASSUME NEW p \in Paths, Stage!LookFails(p) PROVE WalkInv'
  BY <1>5, FailedWalk DEF Stage!LookFails
<1>6. CASE Stage!Permitted
  BY <1>6, FailedWalk, OutsideWalk DEF Stage!Permitted, Stage!walkVars
<1>7. CASE Stage!CommandEnds \/ Stage!Register
  BY <1>7, FailedWalk, OutsideWalk
     DEF Stage!CommandEnds, Stage!Register, Stage!walkVars, WalkInv, AtEnds
<1>. QED
  BY <1>1, <1>2, <1>3, <1>4, <1>5, <1>6, <1>7, CreateSourceKeepsWalk, EnterRootKeepsWalk,
     ListKeepsWalk, LookDirectoryKeepsWalk, LookFileKeepsWalk, OpenKeepsWalk, CopyKeepsWalk,
     CheckKeepsWalk, LeaveKeepsWalk
     DEF Stage!StageStep

\* The editor changes what is held open, not the name it was opened under.
LEMMA NextWalk == ASSUME ScratchInv, ScratchInv', WalkInv, [Next]_vars PROVE WalkInv'
<1>1. CASE Stages
  BY <1>1, StageKeepsWalk DEF Stages
<1>2. ASSUME UNCHANGED <<stager, copy, todo>>, held'.path = held.path,
             held' = [path |-> held'.path, named |-> held'.named, node |-> held'.node,
                      expected |-> held'.expected]
      PROVE  WalkInv'
  BY <1>2 DEF WalkInv, Formed, Descent, AtFile, AtListing, AtEnds, CopyIsTree, StampsAreLeft,
     NodeAt, StampAt
<1>3. CASE Packs \/ Unpack \/ DeadlinePasses \/ UNCHANGED vars
  BY <1>2, <1>3 DEF Packs, Unpack, DeadlinePasses, Stage!DeadlinePasses, Stage!walkVars, vars,
     stageVars, WalkInv, Formed
<1>4. ASSUME NEW p \in Paths, NEW node \in Nodes, EditorWrites(p, node) \/ EditorReplaces(p, node)
      PROVE  WalkInv'
  <2>1. held = [path |-> held.path, named |-> held.named, node |-> held.node,
                expected |-> held.expected]
    BY DEF WalkInv, Formed
  <2>2. /\ held'.path = held.path
        /\ held' = [path |-> held'.path, named |-> held'.named, node |-> held'.node,
                    expected |-> held'.expected]
    BY <1>4, <2>1 DEF EditorWrites, EditorReplaces, SeesRewrite, SeesReplace
  <2>. QED
    BY <1>2, <1>4, <2>2 DEF EditorWrites, EditorReplaces, Editing
<1>. QED
  BY <1>1, <1>3, <1>4 DEF Next

LEMMA InitWalk == Init => WalkInv
<1>. SUFFICES ASSUME Init PROVE WalkInv
  OBVIOUS
<1>1. /\ stager = "begin" /\ todo = <<>> /\ copy = [p \in Paths |-> Stage!Staged(Absent, "epoch")]
      /\ held = [path |-> <<>>, named |-> FALSE, node |-> Stage!Absent, expected |-> 0]
  BY SameNodes DEF Init, Stage!StageInit, Stage!Nothing, Stage!NoHandle
<1>2. \A q \in Paths : NodeAt(q) = Absent /\ StampAt(q) = "epoch" /\ IsCopy(copy)
  BY <1>1 DEF NodeAt, StampAt, IsCopy, Stage!Staged
<1>. QED
  BY <1>1, <1>2, SourceTreeAssumption
     DEF WalkInv, Formed, Descent, AtFile, AtListing, AtEnds, CopyIsTree, StampsAreLeft, Unstaged

\* Whatever the source's editor does to it meanwhile, what the command evaluates
\* is a tree, and no stamp in it tells when it was staged (copy_staged_tree,
\* set_staged_access).
THEOREM EvaluatedTreeIsStamped == Spec => []EvaluatedIsStamped
<1>1. ASSUME WalkInv PROVE EvaluatedIsStamped
  <2>1. ASSUME stager \in {"cache", "run", "register"} PROVE \A p \in Paths : copy[p].stamp = "epoch"
    BY <1>1, <2>1 DEF WalkInv, AtEnds, StampsAreLeft, StampAt
  <2>2. ASSUME NEW p \in Paths \ {<<>>}, Copied[p] # Absent PROVE Copied[Front(p)] = Directory
    BY <1>1, <2>2, SourceTreeAssumption DEF WalkInv, CopyIsTree, NodeAt, Copied
  <2>. QED
    BY <2>1, <2>2 DEF EvaluatedIsStamped
<1>2. ScratchInv /\ ScratchInv' /\ WalkInv /\ [Next]_vars => WalkInv'
  BY NextWalk
<1>3. ScratchInv /\ [Next]_vars => ScratchInv'
  BY NextScratch
<1>. QED
  BY <1>1, <1>2, <1>3, InitScratch, InitWalk, PTL DEF Spec

-----------------------------------------------------------------------------
(***************************************************************************)
(* The order of paths: strict and total, so that a listing in that order   *)
(* has every path once.                                                    *)
(***************************************************************************)
\* Induction over the numbers, as a fact without an operator for a parameter.
LEMMA Least ==
  ASSUME NEW T \in SUBSET Nat, T # {}
  PROVE  \E n \in T : \A m \in T : n <= m
<1>. DEFINE R == {ss \in Nat \X Nat : ss[1] < ss[2]}
<1>1. IsWellFoundedOn(R, Nat)
  BY NatLessThanWellFounded DEF OpToRel
<1>2. \A m, n \in Nat : <<m, n>> \in R <=> m < n
  OBVIOUS
<1>. HIDE DEF R
<1>3. PICK n \in T : \A m \in T : ~(<<m, n>> \in R)
  BY <1>1, WFMin
<1>4. ASSUME NEW m \in T PROVE n <= m
  BY <1>2, <1>3, ~(m < n)
<1>. QED
  BY <1>4

\* The first n names are the same.
Agree(p, q, n) == \A k \in 1..n : p[k] = q[k]

LEMMA AgreeIs ==
  ASSUME NEW p \in Seq(Nat), NEW q \in Seq(Nat), NEW n \in Nat, n <= Len(p), n <= Len(q)
  PROVE  SubSeq(p, 1, n) = SubSeq(q, 1, n) <=> Agree(p, q, n)
<1>1. /\ SubSeq(p, 1, n) = [k \in 1..n |-> p[k]]
      /\ SubSeq(q, 1, n) = [k \in 1..n |-> q[k]]
  OBVIOUS
<1>. QED
  BY <1>1 DEF Agree

LEMMA SameIs ==
  ASSUME NEW p \in Seq(Nat), NEW q \in Seq(Nat), Len(p) = Len(q), Agree(p, q, Len(p))
  PROVE  p = q
  BY DEF Agree

\* The first name in which two paths differ decides; a path that ends there is first.
LEMMA BeforeIs ==
  ASSUME NEW p \in Seq(Nat), NEW q \in Seq(Nat)
  PROVE  Before(p, q) <=> \E i \in 1..Len(q) :
                            /\ i - 1 <= Len(p) /\ Agree(p, q, i - 1)
                            /\ i > Len(p) \/ p[i] < q[i]
<1>1. IsStrictPrefix(p, q) <=> Len(p) < Len(q) /\ Agree(p, q, Len(p))
  <2>1. IsPrefix(p, q) <=> Len(p) <= Len(q) /\ Agree(p, q, Len(p))
    BY AgreeIs DEF IsPrefix
  <2>2. Len(p) < Len(q) => p # q
    OBVIOUS
  <2>. QED
    BY <2>1, <2>2, SameIs DEF IsStrictPrefix
<1>2. ASSUME NEW i \in 1..Len(p), i <= Len(q)
      PROVE  SubSeq(p, 1, i - 1) = SubSeq(q, 1, i - 1) <=> Agree(p, q, i - 1)
  <2>1. i - 1 \in Nat /\ i - 1 <= Len(p) /\ i - 1 <= Len(q)
    BY <1>2
  <2>. QED
    BY <2>1, AgreeIs
<1>3. ASSUME IsStrictPrefix(p, q)
      PROVE  /\ Len(p) + 1 \in 1..Len(q) /\ (Len(p) + 1) - 1 <= Len(p)
             /\ Agree(p, q, (Len(p) + 1) - 1) /\ Len(p) + 1 > Len(p)
  BY <1>1, <1>3
<1>4. ASSUME NEW i \in 1..Len(q), i > Len(p), i - 1 <= Len(p), Agree(p, q, i - 1)
      PROVE  IsStrictPrefix(p, q)
  <2>1. i - 1 = Len(p)
    BY <1>4
  <2>. QED
    BY <1>1, <1>4, <2>1
<1>5. ASSUME Before(p, q)
      PROVE  \E i \in 1..Len(q) : /\ i - 1 <= Len(p) /\ Agree(p, q, i - 1)
                                  /\ i > Len(p) \/ p[i] < q[i]
  <2>1. CASE IsStrictPrefix(p, q)
    BY <1>3, <2>1
  <2>2. CASE ~IsStrictPrefix(p, q)
    <3>1. PICK i \in 1..Len(p) : /\ i <= Len(q) /\ p[i] < q[i]
                                /\ SubSeq(p, 1, i - 1) = SubSeq(q, 1, i - 1)
      BY <1>5, <2>2 DEF Before
    <3>2. i \in 1..Len(q) /\ i - 1 <= Len(p) /\ Agree(p, q, i - 1)
      BY <1>2, <3>1
    <3>. QED
      BY <3>1, <3>2
  <2>. QED
    BY <2>1, <2>2
<1>6. ASSUME NEW i \in 1..Len(q), i - 1 <= Len(p), Agree(p, q, i - 1), i > Len(p) \/ p[i] < q[i]
      PROVE  Before(p, q)
  <2>1. CASE i > Len(p)
    BY <1>4, <1>6, <2>1 DEF Before
  <2>2. CASE i <= Len(p)
    <3>1. i \in 1..Len(p) /\ i <= Len(q) /\ p[i] < q[i]
      BY <1>6, <2>2
    <3>. QED
      BY <1>2, <1>6, <3>1 DEF Before
  <2>. QED
    BY <2>1, <2>2
<1>. QED
  BY <1>5, <1>6

LEMMA BeforeIsStrict == \A p \in Seq(Nat) : ~Before(p, p)
  BY BeforeIs

LEMMA BeforeIsTransitive ==
  ASSUME NEW p \in Seq(Nat), NEW q \in Seq(Nat), NEW r \in Seq(Nat), Before(p, q), Before(q, r)
  PROVE  Before(p, r)
<1>1. PICK i \in 1..Len(q) : /\ i - 1 <= Len(p) /\ Agree(p, q, i - 1)
                             /\ i > Len(p) \/ p[i] < q[i]
  BY BeforeIs
<1>2. PICK j \in 1..Len(r) : /\ j - 1 <= Len(q) /\ Agree(q, r, j - 1)
                             /\ j > Len(q) \/ q[j] < r[j]
  BY BeforeIs
<1>3. CASE i <= j
  <2>1. i \in 1..Len(r)
    BY <1>2, <1>3
  <2>2. Agree(p, r, i - 1)
    BY <1>1, <1>2, <1>3 DEF Agree
  <2>3. ASSUME i <= Len(p) PROVE p[i] < r[i]
    <3>. i \in 1..Len(p) /\ i \in 1..Len(q) /\ i \in 1..Len(r)
      BY <2>1, <2>3
    <3>0. p[i] \in Nat /\ q[i] \in Nat /\ r[i] \in Nat
      BY ElementOfSeq
    <3>1. p[i] < q[i]
      BY <1>1, <2>3
    <3>2. CASE i = j
      <4>1. q[i] < r[i]
        BY <1>2, <3>2
      <4>. QED
        BY <3>0, <3>1, <4>1
    <3>3. CASE i < j
      <4>1. q[i] = r[i]
        BY <1>2, <3>3 DEF Agree
      <4>. QED
        BY <3>1, <4>1
    <3>. QED
      BY <1>3, <3>2, <3>3
  <2>. QED
    BY <1>1, <2>1, <2>2, <2>3, BeforeIs
<1>4. CASE j < i
  <2>1. Agree(p, r, j - 1)
    BY <1>1, <1>2, <1>4 DEF Agree
  <2>2. j \in 1..Len(p) /\ j \in 1..Len(q)
    BY <1>1, <1>4
  <2>3. p[j] = q[j]
    BY <1>1, <1>4, <2>2 DEF Agree
  <2>4. q[j] < r[j]
    BY <1>2, <2>2
  <2>. QED
    BY <2>1, <2>2, <2>3, <2>4, BeforeIs
<1>. QED
  BY <1>3, <1>4

LEMMA BeforeIsTotal ==
  ASSUME NEW p \in Seq(Nat), NEW q \in Seq(Nat), p # q
  PROVE  Before(p, q) \/ Before(q, p)
<1>. DEFINE T == {i \in Nat \ {0} : i > Len(p) \/ i > Len(q) \/ p[i] # q[i]}
<1>1. Len(p) + 1 \in T
  OBVIOUS
<1>2. PICK i \in T : \A k \in T : i <= k
  BY <1>1, Least
<1>3. \A k \in 1..(i - 1) : k <= Len(p) /\ k <= Len(q) /\ p[k] = q[k]
  BY <1>2
<1>4. i - 1 <= Len(p) /\ i - 1 <= Len(q)
  BY <1>2, <1>3
<1>5. Agree(p, q, i - 1) /\ Agree(q, p, i - 1)
  BY <1>3 DEF Agree
<1>6. ~(i > Len(p) /\ i > Len(q))
  <2>1. ASSUME i > Len(p), i > Len(q) PROVE FALSE
    <3>1. Len(p) = i - 1 /\ Len(q) = i - 1
      BY <1>2, <1>4, <2>1
    <3>. QED
      BY <1>5, <3>1, SameIs
  <2>. QED
    BY <2>1
<1>7. CASE i > Len(p) \/ (i <= Len(q) /\ p[i] < q[i])
  <2>1. i \in 1..Len(q)
    BY <1>2, <1>6, <1>7
  <2>. QED
    BY <1>4, <1>5, <1>7, <2>1, BeforeIs
<1>8. CASE i > Len(q) \/ (i <= Len(p) /\ q[i] < p[i])
  <2>1. i \in 1..Len(p)
    BY <1>2, <1>6, <1>8
  <2>. QED
    BY <1>4, <1>5, <1>8, <2>1, BeforeIs
<1>9. i <= Len(p) /\ i <= Len(q) => p[i] \in Nat /\ q[i] \in Nat /\ p[i] # q[i]
  BY <1>2
<1>. QED
  BY <1>2, <1>7, <1>8, <1>9

\* What comes before p, and so how many places p is from the first.
Below(S, p) == {q \in S : Before(q, p)}

LEMMA BelowGrows ==
  ASSUME NEW S \in SUBSET Paths, NEW p \in S, NEW q \in S, Before(p, q)
  PROVE  Cardinality(Below(S, p)) < Cardinality(Below(S, q))
<1>1. IsFiniteSet(S)
  BY SourceTreeAssumption, FS_Subset
<1>2. IsFiniteSet(Below(S, p)) /\ IsFiniteSet(Below(S, q))
  BY <1>1, FS_Subset DEF Below
<1>3. p \notin Below(S, p)
  BY SourceTreeAssumption, BeforeIsStrict DEF Below
<1>4. Below(S, p) \cup {p} \in SUBSET Below(S, q)
  BY SourceTreeAssumption, BeforeIsTransitive DEF Below
<1>5. Cardinality(Below(S, p) \cup {p}) = Cardinality(Below(S, p)) + 1
  BY <1>2, <1>3, FS_AddElement
<1>6. Cardinality(Below(S, p) \cup {p}) <= Cardinality(Below(S, q))
  BY <1>2, <1>4, FS_Subset
<1>. QED
  BY <1>2, <1>5, <1>6, FS_CardinalityType

LEMMA OneAtEach ==
  ASSUME NEW S \in SUBSET Paths, NEW i \in 1..Cardinality(S)
  PROVE  \E p \in S : Cardinality(Below(S, p)) = i - 1
<1>. DEFINE n == Cardinality(S)
            f == [p \in S |-> Cardinality(Below(S, p)) + 1]
<1>1. IsFiniteSet(S) /\ n \in Nat
  BY SourceTreeAssumption, FS_Subset, FS_CardinalityType
<1>2. ASSUME NEW p \in S PROVE Cardinality(Below(S, p)) \in 0..(n - 1)
  <2>1. Below(S, p) \in SUBSET (S \ {p})
    BY SourceTreeAssumption, BeforeIsStrict DEF Below
  <2>2. IsFiniteSet(S \ {p}) /\ Cardinality(S \ {p}) = n - 1
    BY <1>1, FS_RemoveElement
  <2>. QED
    BY <1>1, <2>1, <2>2, FS_Subset, FS_CardinalityType
<1>3. f \in [S -> 1..n]
  BY <1>1, <1>2
<1>4. ASSUME NEW p \in S, NEW q \in S, p # q PROVE f[p] # f[q]
  <2>1. Before(p, q) \/ Before(q, p)
    BY <1>4, SourceTreeAssumption, BeforeIsTotal
  <2>. QED
    BY <1>2, <2>1, BelowGrows
<1>. HIDE DEF f
<1>5. f \in Injection(S, 1..n)
  BY <1>3, <1>4 DEF Injection, IsInjective
<1>6. IsFiniteSet(1..n) /\ Cardinality(1..n) = n
  BY <1>1, FS_Interval
<1>7. f \in Surjection(S, 1..n)
  BY <1>1, <1>5, <1>6, FS_Injection
<1>8. PICK p \in S : f[p] = i
  BY <1>7 DEF Surjection
<1>. QED
  BY <1>2, <1>8 DEF f

\* A set in order has each of its paths once, each before the next.
LEMMA InOrderIs ==
  ASSUME NEW S \in SUBSET Paths
  PROVE  /\ InOrder(S) \in Seq(S)
         /\ \A i, j \in 1..Len(InOrder(S)) : i < j => Before(InOrder(S)[i], InOrder(S)[j])
         /\ \A p \in S : \E i \in 1..Len(InOrder(S)) : InOrder(S)[i] = p
<1>. DEFINE n == Cardinality(S)
            s == InOrder(S)
<1>1. IsFiniteSet(S) /\ n \in Nat
  BY SourceTreeAssumption, FS_Subset, FS_CardinalityType
<1>2. ASSUME NEW i \in 1..n PROVE s[i] \in S /\ Cardinality(Below(S, s[i])) = i - 1
  <2>1. s[i] = CHOOSE p \in S : Cardinality(Below(S, p)) = i - 1
    BY DEF InOrder, Below
  <2>. QED
    BY <2>1, OneAtEach
<1>3. DOMAIN s = 1..n
  BY DEF InOrder
<1>4. s \in [1..n -> S]
  BY <1>2 DEF InOrder
<1>. HIDE DEF s
<1>5. s \in Seq(S) /\ Len(s) = n
  BY <1>1, <1>4
<1>6. ASSUME NEW i \in 1..n, NEW j \in 1..n, i < j PROVE Before(s[i], s[j])
  <2>1. s[i] # s[j]
    BY <1>2, <1>6
  <2>2. Before(s[i], s[j]) \/ Before(s[j], s[i])
    BY <1>2, <2>1, SourceTreeAssumption, BeforeIsTotal
  <2>3. ~Before(s[j], s[i])
    BY <1>2, <1>6, BelowGrows
  <2>. QED
    BY <2>2, <2>3
<1>7. ASSUME NEW p \in S PROVE \E i \in 1..n : s[i] = p
  <2>. DEFINE i == Cardinality(Below(S, p)) + 1
  <2>1. Below(S, p) \in SUBSET (S \ {p})
    BY SourceTreeAssumption, BeforeIsStrict DEF Below
  <2>2. IsFiniteSet(S \ {p}) /\ Cardinality(S \ {p}) = n - 1
    BY <1>1, FS_RemoveElement
  <2>3. i \in 1..n
    BY <1>1, <2>1, <2>2, FS_Subset, FS_CardinalityType
  <2>. HIDE DEF i
  <2>4. Cardinality(Below(S, s[i])) = Cardinality(Below(S, p)) /\ s[i] \in S
    BY <1>2, <2>1, <2>2, <2>3, FS_Subset, FS_CardinalityType DEF i
  <2>5. s[i] = p
    <3>1. ~Before(s[i], p) /\ ~Before(p, s[i])
      BY <2>1, <2>2, <2>4, BelowGrows, FS_Subset, FS_CardinalityType
    <3>. QED
      BY <2>4, <3>1, SourceTreeAssumption, BeforeIsTotal
  <2>. QED
    BY <2>3, <2>5
<1>. QED
  BY <1>5, <1>6, <1>7 DEF s

\* The element a fold takes first.

-----------------------------------------------------------------------------
(***************************************************************************)
(* Sums over a set do not depend on the order they are taken in, and       *)
(* change by what one element changes.                                     *)
(***************************************************************************)
Some(s) == CHOOSE x \in s : TRUE

\* h has the sums of f over the sets in D, one element after the other, ...
Adds(h, f, D) ==
  h = [s \in D |-> IF s = {} THEN 0 ELSE f[Some(s)] + h[s \ {Some(s)}]]

\* ... or over all the subsets of S.
Sums(h, f, S) == Adds(h, f, SUBSET S)

\* The subsets of S that have n elements at most.
UpTo(n, S) == {s \in SUBSET S : Cardinality(s) <= n}

LEMMA SomeIs == \A s : s # {} => Some(s) \in s
  BY DEF Some

LEMMA Smaller ==
  ASSUME NEW S, IsFiniteSet(S), NEW s \in SUBSET S, s # {}
  PROVE  /\ Some(s) \in s
         /\ s \ {Some(s)} \in SUBSET S
         /\ Cardinality(s) \in Nat \ {0}
         /\ Cardinality(s \ {Some(s)}) = Cardinality(s) - 1
<1>1. IsFiniteSet(s) /\ IsFiniteSet(s \ {Some(s)})
  BY FS_Subset
<1>. QED
  BY <1>1, SomeIs, FS_RemoveElement, FS_CardinalityType, FS_EmptySet

LEMMA AddsOneMore ==
  ASSUME NEW S, IsFiniteSet(S), NEW f, NEW n \in Nat, NEW h, Adds(h, f, UpTo(n, S))
  PROVE  \E g : Adds(g, f, UpTo(n + 1, S))
<1>. DEFINE g == [s \in UpTo(n + 1, S) |-> IF s = {} THEN 0 ELSE f[Some(s)] + h[s \ {Some(s)}]]
<1>1. ASSUME NEW s \in UpTo(n, S) PROVE g[s] = h[s]
  <2>1. s \in UpTo(n + 1, S)
    BY <1>1, FS_Subset, FS_CardinalityType DEF UpTo
  <2>. QED
    BY <1>1, <2>1 DEF Adds
<1>2. ASSUME NEW s \in UpTo(n + 1, S), s # {} PROVE g[s \ {Some(s)}] = h[s \ {Some(s)}]
  <2>1. s \ {Some(s)} \in UpTo(n, S)
    BY <1>2, Smaller DEF UpTo
  <2>. QED
    BY <1>1, <2>1
<1>3. g = [s \in UpTo(n + 1, S) |-> IF s = {} THEN 0 ELSE f[Some(s)] + g[s \ {Some(s)}]]
  <2>. HIDE DEF g
  <2>1. g = [s \in UpTo(n + 1, S) |-> IF s = {} THEN 0 ELSE f[Some(s)] + h[s \ {Some(s)}]]
    BY DEF g
  <2>. QED
    BY <1>2, <2>1
<1>. QED
  BY <1>3 DEF Adds

LEMMA AddsExists ==
  ASSUME NEW S, IsFiniteSet(S), NEW f
  PROVE  \E h : Sums(h, f, S)
<1>. DEFINE T == {n \in Nat : ~ \E h : Adds(h, f, UpTo(n, S))}
<1>1. T = {}
  <2>1. SUFFICES ASSUME T # {} PROVE FALSE
    OBVIOUS
  <2>2. PICK n \in T : \A m \in T : n <= m
    BY <2>1, Least
  <2>3. n # 0
    <3>1. \A s \in UpTo(0, S) : s = {}
      BY FS_Subset, FS_EmptySet, FS_CardinalityType DEF UpTo
    <3>2. Adds([s \in UpTo(0, S) |-> 0], f, UpTo(0, S))
      BY <3>1 DEF Adds
    <3>. QED
      BY <2>2, <3>2
  <2>4. n - 1 \in Nat /\ n - 1 \notin T
    BY <2>2, <2>3
  <2>5. PICK h : Adds(h, f, UpTo(n - 1, S))
    BY <2>4
  <2>6. \E g : Adds(g, f, UpTo((n - 1) + 1, S))
    BY <2>4, <2>5, AddsOneMore
  <2>. QED
    BY <2>2, <2>6
<1>2. UpTo(Cardinality(S), S) = SUBSET S
  BY FS_Subset DEF UpTo
<1>3. Cardinality(S) \in Nat
  BY FS_CardinalityType
<1>4. \E h : Adds(h, f, UpTo(Cardinality(S), S))
  BY <1>1, <1>3
<1>. QED
  BY <1>2, <1>4 DEF Sums

\* The sums of the subsets do not depend on what else there is.
LEMMA AddsAgree ==
  ASSUME NEW T, IsFiniteSet(T), NEW S \in SUBSET T,
         NEW f, NEW g, \A x \in S : f[x] = g[x],
         NEW h, Sums(h, f, T), NEW k, Sums(k, g, S)
  PROVE  \A s \in SUBSET S : h[s] = k[s]
<1>. DEFINE C == {n \in Nat : \E s \in SUBSET S : Cardinality(s) = n /\ h[s] # k[s]}
<1>1. ASSUME NEW s \in SUBSET S
      PROVE  /\ h[s] = IF s = {} THEN 0 ELSE f[Some(s)] + h[s \ {Some(s)}]
             /\ k[s] = IF s = {} THEN 0 ELSE g[Some(s)] + k[s \ {Some(s)}]
  BY DEF Sums, Adds
<1>2. C = {}
  <2>1. SUFFICES ASSUME C # {} PROVE FALSE
    OBVIOUS
  <2>2. PICK n \in C : \A m \in C : n <= m
    BY <2>1, Least
  <2>3. PICK s \in SUBSET S : Cardinality(s) = n /\ h[s] # k[s]
    BY <2>2
  <2>4. s # {}
    BY <1>1, <2>3
  <2>5. /\ s \ {Some(s)} \in SUBSET S /\ Some(s) \in S
        /\ Cardinality(s \ {Some(s)}) \in Nat /\ Cardinality(s \ {Some(s)}) < n
    BY <2>3, <2>4, Smaller, FS_Subset
  <2>6. h[s \ {Some(s)}] = k[s \ {Some(s)}]
    BY <2>2, <2>5
  <2>. QED
    BY <1>1, <2>3, <2>4, <2>5, <2>6
<1>3. \A s \in SUBSET S : Cardinality(s) \in Nat
  BY FS_Subset, FS_CardinalityType
<1>. QED
  BY <1>2, <1>3

\* The sum of what f says of the elements of S.
Total(f, S) == MapThenSumSet(LAMBDA x : f[x], S)

LEMMA TotalIs ==
  ASSUME NEW T, IsFiniteSet(T), NEW S \in SUBSET T,
         NEW f, NEW g, \A x \in S : f[x] = g[x], NEW h, Sums(h, f, T)
  PROVE  Total(g, S) = h[S]
<1>1. IsFiniteSet(S)
  BY FS_Subset
<1>2. PICK k : k = CHOOSE x : Sums(x, g, S)
  OBVIOUS
<1>3. Sums(k, g, S)
  BY <1>1, <1>2, AddsExists
<1>4. Total(g, S) = k[S]
  BY <1>2 DEF Total, MapThenSumSet, MapThenFoldSet, Sums, Adds, Some
<1>5. h[S] = k[S]
  BY <1>3, AddsAgree
<1>. QED
  BY <1>4, <1>5

LEMMA TotalSame ==
  ASSUME NEW S, IsFiniteSet(S), NEW f, NEW g, \A x \in S : f[x] = g[x]
  PROVE  Total(f, S) = Total(g, S)
<1>1. PICK h : Sums(h, f, S)
  BY AddsExists
<1>. QED
  BY <1>1, TotalIs

\* Any element may be the first to be added.
LEMMA AddsAny ==
  ASSUME NEW S, IsFiniteSet(S), NEW f, \A x \in S : f[x] \in Nat, NEW h, Sums(h, f, S)
  PROVE  h[S] \in Nat /\ \A x \in S : h[S] = f[x] + h[S \ {x}]
<1>. DEFINE Right(s) == h[s] \in Nat /\ \A x \in s : h[s] = f[x] + h[s \ {x}]
            C == {n \in Nat : \E s \in SUBSET S : Cardinality(s) = n /\ ~Right(s)}
<1>1. ASSUME NEW s \in SUBSET S
      PROVE  h[s] = IF s = {} THEN 0 ELSE f[Some(s)] + h[s \ {Some(s)}]
  BY DEF Sums, Adds
<1>2. C = {}
  <2>1. SUFFICES ASSUME C # {} PROVE FALSE
    OBVIOUS
  <2>2. PICK n \in C : \A m \in C : n <= m
    BY <2>1, Least
  <2>3. PICK s \in SUBSET S : Cardinality(s) = n /\ ~Right(s)
    BY <2>2
  <2>4. s # {}
    <3>1. h[{}] = 0
      BY <1>1
    <3>2. Right({})
      BY <3>1
    <3>. HIDE DEF Right
    <3>. QED
      BY <2>3, <3>2
  <2>5. ASSUME NEW x \in s PROVE Right(s \ {x})
    <3>1. IsFiniteSet(s)
      BY FS_Subset
    <3>2. Cardinality(s \ {x}) = n - 1 /\ Cardinality(s \ {x}) \in Nat
      BY <2>3, <3>1, FS_RemoveElement, FS_CardinalityType
    <3>3. s \ {x} \in SUBSET S /\ Cardinality(s \ {x}) < n
      BY <2>3, <3>2
    <3>. HIDE DEF Right
    <3>. QED
      BY <2>2, <3>2, <3>3
  <2>. DEFINE c == Some(s)
  <2>6. c \in s /\ h[s] = f[c] + h[s \ {c}]
    BY <1>1, <2>4, SomeIs
  <2>7. h[s \ {c}] \in Nat /\ f[c] \in Nat
    BY <2>5, <2>6
  <2>. HIDE DEF c
  <2>8. ASSUME NEW x \in s, x # c PROVE h[s] = f[x] + h[s \ {x}]
    <3>1. h[s \ {c}] = f[x] + h[(s \ {c}) \ {x}]
      BY <2>5, <2>6, <2>8
    <3>2. h[s \ {x}] = f[c] + h[(s \ {x}) \ {c}]
      BY <2>5, <2>6, <2>8
    <3>3. (s \ {c}) \ {x} = (s \ {x}) \ {c}
      OBVIOUS
    <3>4. h[(s \ {x}) \ {c}] \in Nat
      <4>1. Right(s \ {x}) /\ Right(s \ {c})
        BY <2>5, <2>6, <2>8
      <4>2. (s \ {x}) \ {c} \in SUBSET S /\ Cardinality((s \ {x}) \ {c}) \in Nat
            /\ Cardinality((s \ {x}) \ {c}) < n
        <5>1. IsFiniteSet(s) /\ IsFiniteSet(s \ {x}) /\ IsFiniteSet((s \ {x}) \ {c})
          BY FS_Subset
        <5>2. Cardinality(s \ {x}) = n - 1
          BY <2>3, <5>1, FS_RemoveElement
        <5>3. Cardinality((s \ {x}) \ {c}) = n - 1 - 1
          BY <2>6, <2>8, <5>1, <5>2, FS_RemoveElement
        <5>4. Cardinality((s \ {x}) \ {c}) \in Nat
          BY <5>1, FS_CardinalityType
        <5>. QED
          BY <5>3, <5>4
      <4>3. Right((s \ {x}) \ {c})
        <5>. HIDE DEF Right
        <5>. QED
          BY <2>2, <4>2
      <4>. QED
        BY <4>3
    <3>. QED
      <4>1. f[x] \in Nat
        BY <2>8
      <4>2. h[(s \ {c}) \ {x}] = h[(s \ {x}) \ {c}]
        BY <3>3
      <4>. QED
        BY <2>6, <2>7, <3>1, <3>2, <3>4, <4>1, <4>2
  <2>9. Right(s)
    <3>1. h[s] \in Nat
      BY <2>6, <2>7
    <3>2. \A x \in s : h[s] = f[x] + h[s \ {x}]
      BY <2>6, <2>8
    <3>. QED
      BY <3>1, <3>2
  <2>. QED
    BY <2>3, <2>9
<1>3. Cardinality(S) \in Nat
  BY FS_CardinalityType
<1>. QED
  BY <1>2, <1>3

LEMMA TotalSplit ==
  ASSUME NEW S, IsFiniteSet(S), NEW f, \A x \in S : f[x] \in Nat
  PROVE  Total(f, S) \in Nat /\ \A x \in S : Total(f, S) = f[x] + Total(f, S \ {x})
<1>1. PICK h : Sums(h, f, S)
  BY AddsExists
<1>2. \A s \in SUBSET S : Total(f, s) = h[s]
  BY <1>1, TotalIs
<1>3. h[S] \in Nat /\ \A x \in S : h[S] = f[x] + h[S \ {x}]
  BY <1>1, AddsAny
<1>. QED
  BY <1>2, <1>3

LEMMA TotalZero ==
  ASSUME NEW S, IsFiniteSet(S), NEW f, \A x \in S : f[x] = 0
  PROVE  Total(f, S) = 0
<1>1. PICK h : Sums(h, f, S)
  BY AddsExists
<1>. DEFINE k == [s \in SUBSET S |-> 0]
<1>2. Sums(k, f, S)
  <2>1. \A s \in SUBSET S : s # {} => f[Some(s)] = 0 /\ s \ {Some(s)} \in SUBSET S
    BY SomeIs
  <2>. QED
    BY <2>1 DEF Sums, Adds
<1>3. k[S] = 0
  OBVIOUS
<1>. HIDE DEF k
<1>4. Total(f, S) = k[S]
  BY <1>2, TotalIs
<1>. QED
  BY <1>3, <1>4

\* The code's sums fold the lengths themselves.
LengthsIn(t, S) == MapThenSumSet(LAMBDA p : t[p].length, S)

LEMMA LengthsTotal ==
  ASSUME NEW S, IsFiniteSet(S), NEW t
  PROVE  LengthsIn(t, S) = Total([p \in S |-> t[p].length], S)
<1>. DEFINE f == [p \in S |-> t[p].length]
            Def(h) == h = [s \in SUBSET S |->
                            IF s = {} THEN 0 ELSE t[Some(s)].length + h[s \ {Some(s)}]]
<1>1. LengthsIn(t, S) = (CHOOSE h : Def(h))[S]
  BY DEF LengthsIn, MapThenSumSet, MapThenFoldSet, Some
<1>2. ASSUME NEW h PROVE Sums(h, f, S) <=> Def(h)
  <2>1. \A s \in SUBSET S : s # {} => f[Some(s)] = t[Some(s)].length
    BY SomeIs
  <2>. QED
    BY <2>1 DEF Sums, Adds
<1>3. \E h : Def(h)
  BY <1>2, AddsExists
<1>. HIDE DEF Def, f
<1>4. Def(CHOOSE h : Def(h))
  BY <1>3
<1>. DEFINE h == CHOOSE x : Def(x)
<1>5. Sums(h, f, S)
  BY <1>2, <1>4
<1>6. LengthsIn(t, S) = h[S]
  BY <1>1
<1>. HIDE DEF h
<1>7. Total(f, S) = h[S]
  BY <1>5, TotalIs
<1>. QED
  BY <1>6, <1>7 DEF f

LEMMA BytesTotal ==
  ASSUME NEW t
  PROVE  BytesOf(t) = Total([p \in Paths |-> t[p].length], Paths)
<1>1. BytesOf(t) = LengthsIn(t, Paths)
  BY DEF BytesOf, LengthsIn
<1>. QED
  BY <1>1, LengthsTotal, SourceTreeAssumption

\* What becomes of the sum when one file changes.
LEMMA BytesChange ==
  ASSUME NEW t, NEW u, NEW p \in Paths,
         \A q \in Paths : t[q].length \in Nat,
         \A q \in Paths \ {p} : u[q].length = t[q].length,
         u[p].length \in Nat
  PROVE  /\ BytesOf(t) \in Nat
         /\ BytesOf(u) = BytesOf(t) + u[p].length - t[p].length
<1>. DEFINE f == [q \in Paths |-> t[q].length]
            g == [q \in Paths |-> u[q].length]
<1>1. IsFiniteSet(Paths) /\ IsFiniteSet(Paths \ {p})
  BY SourceTreeAssumption, FS_Subset
<1>2. /\ \A q \in Paths : f[q] \in Nat /\ g[q] \in Nat
      /\ \A q \in Paths \ {p} : f[q] = g[q]
      /\ f[p] = t[p].length /\ g[p] = u[p].length
  OBVIOUS
<1>3. BytesOf(t) = Total(f, Paths) /\ BytesOf(u) = Total(g, Paths)
  BY BytesTotal
<1>. HIDE DEF f, g
<1>4. /\ Total(f, Paths) \in Nat /\ Total(f, Paths) = f[p] + Total(f, Paths \ {p})
      /\ Total(g, Paths) = g[p] + Total(g, Paths \ {p})
  BY <1>1, <1>2, TotalSplit
<1>5. Total(f, Paths \ {p}) = Total(g, Paths \ {p}) /\ Total(f, Paths \ {p}) \in Nat
  BY <1>1, <1>2, TotalSame, TotalSplit
<1>. QED
  BY <1>2, <1>3, <1>4, <1>5

-----------------------------------------------------------------------------
(***************************************************************************)
(* What the two walks handle.                                              *)
(***************************************************************************)
Handles == [path : Paths, named : BOOLEAN, node : Nodes, expected : Nat]

Entries == [path : Paths, node : Nodes]

\* A name is looked at, opened and read where a listing has one.
PackTypes ==
  /\ names \in Seq(Seq(Paths))
  /\ packer = "start" => names = <<>>
  /\ packer \in {"open", "read"} => names # <<>> /\ Head(names) # <<>>
  /\ packer = "list" => names = <<>> \/ Head(names) # <<>>
  /\ opened \in Handles
  /\ layer \in Seq(Entries)

SeedTypes == tree \in [Paths -> Nodes] /\ PackTypes /\ held \in Handles

LEMMA NodesAre ==
  /\ Absent \in Nodes /\ Directory \in Nodes
  /\ Pack!Absent = Absent /\ Pack!Directory = Directory
  /\ \A n \in Nodes : n.length \in Nat /\ (n = Absent <=> n.kind = "absent")
  BY SourceTreeAssumption DEF Nodes, Node, Absent, Directory, Pack!Absent, Pack!Directory, Pack!Node

LEMMA NoHandleIs == Pack!NoHandle \in Handles /\ Stage!NoHandle \in Handles
  BY NodesAre, SameNodes, SourceTreeAssumption DEF Handles, Pack!NoHandle, Stage!NoHandle

LEMMA HandleIs ==
  ASSUME NEW p \in Paths, NEW n \in Nodes, NEW l \in Nat
  PROVE  Pack!Handle(p, n, l) \in Handles /\ Stage!Handle(p, n, l) \in Handles
  BY DEF Handles, Pack!Handle, Stage!Handle

\* The listing of Packing is that of Seed.
LEMMA SameInOrder == \A S : Pack!InOrder(S) = InOrder(S)
  BY DEF Pack!InOrder, InOrder, Pack!Cardinality, Cardinality, Pack!Before, Before,
     Pack!IsStrictPrefix, IsStrictPrefix, Pack!IsPrefix, IsPrefix

LEMMA ListingIs ==
  ASSUME NEW p
  PROVE  Pack!Children(p) \in SUBSET Paths /\ Pack!InOrder(Pack!Children(p)) \in Seq(Paths)
<1>1. Pack!Children(p) \in SUBSET Paths
  BY DEF Pack!Children
<1>2. InOrder(Pack!Children(p)) \in Seq(Pack!Children(p))
  BY <1>1, InOrderIs
<1>3. InOrder(Pack!Children(p)) \in Seq(Paths)
  BY <1>1, <1>2
<1>. QED
  BY <1>1, <1>3, SameInOrder

\* The name that is next, and the listings without it.
LEMMA AdvanceIs ==
  ASSUME PackTypes, names # <<>>, Head(names) # <<>>
  PROVE  Pack!Name \in Paths /\ Pack!Advance \in Seq(Seq(Paths)) /\ Pack!Advance # <<>>
<1>1. Head(names) \in Seq(Paths) /\ Tail(names) \in Seq(Seq(Paths))
  BY DEF PackTypes
<1>2. Pack!Name \in Paths /\ Tail(Head(names)) \in Seq(Paths)
  BY <1>1 DEF Pack!Name
<1>. DEFINE t == Tail(Head(names))
            r == Tail(names)
<1>3. t \in Seq(Paths) /\ r \in Seq(Seq(Paths)) /\ Pack!Advance = <<t>> \o r
  BY <1>1, <1>2 DEF Pack!Advance
<1>. HIDE DEF t, r
<1>. QED
  BY <1>2, <1>3

LEMMA GrowLayer ==
  ASSUME PackTypes, NEW p \in Paths, NEW n \in Nodes, layer' = Append(layer, Pack!Entry(p, n))
  PROVE  layer' \in Seq(Entries)
<1>1. Pack!Entry(p, n) \in Entries
  BY DEF Pack!Entry, Entries
<1>. QED
  BY <1>1 DEF PackTypes

LEMMA EnterKeepsTypes ==
  ASSUME PackTypes, NEW p \in Paths, Pack!Enter(p), names = <<>> \/ Head(names) # <<>>
  PROVE  PackTypes' /\ tree' = tree
<1>1. CASE Pack!PackFails
  BY <1>1 DEF Pack!PackFails, PackTypes
<1>2. CASE ~Pack!PackFails
  <2>1. /\ layer' = Append(layer, Pack!Entry(p, Directory)) /\ packer' = "list"
        /\ UNCHANGED <<tree, names, opened>>
    BY <1>2, NodesAre DEF Pack!Enter
  <2>. QED
    BY <2>1, GrowLayer, NodesAre DEF PackTypes
<1>. QED
  BY <1>1, <1>2

LEMMA PackKeepsTypes ==
  ASSUME tree \in [Paths -> Nodes], PackTypes, Pack!PackStep PROVE PackTypes' /\ tree' = tree
<1>. USE DEF PackTypes
<1>1. CASE Pack!PackFails
  BY <1>1 DEF Pack!PackFails
<1>2. CASE Pack!Start
  <2>1. packer = "start" /\ <<>> \in Paths
    BY <1>2, SourceTreeAssumption DEF Pack!Start
  <2>2. CASE Pack!Enter(<<>>) /\ names = <<>>
    BY <2>1, <2>2, EnterKeepsTypes
  <2>. QED
    BY <1>1, <1>2, <2>1, <2>2 DEF Pack!Start
<1>3. CASE Pack!Generate /\ ~Pack!PackFails
  <2>. DEFINE order == <<<<>>>> \o Pack!InOrder(Pack!Generated)
  <2>1. Pack!Generated \in SUBSET Paths
    BY DEF Pack!Generated
  <2>2. Pack!InOrder(Pack!Generated) \in Seq(Paths)
    <3>. DEFINE g == Pack!Generated
    <3>1. InOrder(g) \in Seq(g)
      BY <2>1, InOrderIs
    <3>2. InOrder(g) \in Seq(Paths)
      BY <2>1, <3>1
    <3>. QED
      BY <3>2, SameInOrder
  <2>3. order \in Seq(Paths)
    BY <2>2, SourceTreeAssumption
  <2>4. /\ layer' = [i \in DOMAIN order |-> Pack!Entry(order[i], tree[order[i]])]
        /\ packer' = "packed" /\ UNCHANGED <<tree, names, opened>>
    BY <1>3 DEF Pack!Generate
  <2>. HIDE DEF order
  <2>5. \A i \in 1..Len(order) : Pack!Entry(order[i], tree[order[i]]) \in Entries
    BY <2>3 DEF Pack!Entry, Entries
  <2>6. layer' \in Seq(Entries)
    <3>1. Len(order) \in Nat /\ DOMAIN order = 1..Len(order)
      BY <2>3
    <3>. DEFINE n == Len(order)
                l == [i \in 1..n |-> Pack!Entry(order[i], tree[order[i]])]
    <3>2. l \in [1..n -> Entries]
      BY <2>5
    <3>3. layer' = l
      BY <2>4, <3>1
    <3>. HIDE DEF n, l
    <3>4. n \in Nat
      BY <3>1 DEF n
    <3>5. l \in Seq(Entries)
      BY <3>2, <3>4
    <3>. QED
      BY <3>3, <3>5
  <2>. QED
    BY <2>4, <2>6
<1>4. CASE Pack!List /\ ~Pack!PackFails
  <2>. DEFINE p == IF names = <<>> THEN <<>> ELSE Pack!Name
              l == Pack!InOrder(Pack!Children(p))
              r == IF names = <<>> THEN <<>> ELSE Pack!Advance
  <2>1. names' = <<l>> \o r /\ packer' = "walk" /\ UNCHANGED <<tree, opened, layer>>
    BY <1>4 DEF Pack!List
  <2>2. l \in Seq(Paths)
    BY ListingIs
  <2>3. r \in Seq(Seq(Paths))
    BY <1>4, AdvanceIs DEF Pack!List
  <2>. HIDE DEF l, r
  <2>4. names' \in Seq(Seq(Paths))
    BY <2>1, <2>2, <2>3
  <2>. QED
    BY <2>1, <2>4
<1>5. CASE Pack!Leave
  BY <1>5 DEF Pack!Leave
<1>6. CASE Pack!LookFails
  BY <1>1, <1>6 DEF Pack!LookFails
<1>7. CASE Pack!LookDirectory
  <2>1. names # <<>> /\ Head(names) # <<>> /\ packer = "walk"
    BY <1>7 DEF Pack!LookDirectory, Pack!Walking
  <2>2. CASE Pack!Enter(Pack!Name)
    BY <2>1, <2>2, AdvanceIs, EnterKeepsTypes
  <2>3. CASE names' = Pack!Advance /\ UNCHANGED <<tree, packer, opened, layer, charged>>
    BY <2>1, <2>3, AdvanceIs
  <2>. QED
    BY <1>7, <2>2, <2>3 DEF Pack!LookDirectory
<1>8. CASE Pack!LookFile /\ ~Pack!PackFails
  BY <1>8 DEF Pack!LookFile, Pack!Walking
<1>9. CASE Pack!Open /\ ~Pack!PackFails
  <2>1. names # <<>> /\ Head(names) # <<>> /\ Pack!Name \in Paths
    BY <1>9, AdvanceIs DEF Pack!Open
  <2>2. tree[Pack!Name] \in Nodes /\ tree[Pack!Name].length \in Nat
    BY <2>1, NodesAre
  <2>3. opened' \in Handles
    BY <1>9, <2>1, <2>2, HandleIs DEF Pack!Open
  <2>. QED
    BY <1>9, <2>1, <2>3 DEF Pack!Open
<1>10. CASE Pack!Read /\ ~Pack!PackFails
  <2>1. /\ names # <<>> /\ Head(names) # <<>>
        /\ Pack!Name \in Paths /\ Pack!Advance \in Seq(Seq(Paths))
    BY <1>10, AdvanceIs DEF Pack!Read
  <2>2. opened.node \in Nodes
    BY DEF Handles
  <2>3. layer' \in Seq(Entries)
    BY <1>10, <2>1, <2>2, GrowLayer DEF Pack!Read
  <2>. QED
    BY <1>10, <2>1, <2>3, NoHandleIs DEF Pack!Read
<1>11. CASE Pack!Packed
  BY <1>11 DEF Pack!Packed
<1>. QED
  BY <1>1, <1>2, <1>3, <1>4, <1>5, <1>6, <1>7, <1>8, <1>9, <1>10, <1>11
     DEF Pack!PackStep, Pack!PackFails

\* Of the places a path has in a layer the last is one of them.
LEMMA MaxIs ==
  ASSUME NEW n \in Nat, NEW S \in SUBSET (1..n), S # {}
  PROVE  Max(S) \in S /\ \A x \in S : x <= Max(S)
<1>. DEFINE T == {n - x : x \in S}
<1>1. T \in SUBSET Nat /\ T # {}
  <2>1. \A x \in 1..n : n - x \in Nat
    OBVIOUS
  <2>2. PICK x : x \in S
    OBVIOUS
  <2>3. n - x \in T
    BY <2>2
  <2>. QED
    BY <2>1, <2>3
<1>2. PICK y \in T : \A z \in T : y <= z
  BY <1>1, Least
<1>3. PICK m \in S : y = n - m
  BY <1>2
<1>4. \A x \in S : m >= x
  BY <1>2, <1>3
<1>. QED
  BY <1>4 DEF Max

LEMMA StageKeepsHeld ==
  ASSUME tree \in [Paths -> Nodes], held \in Handles, WalkInv, Stage!StageStep
  PROVE  held' \in Handles /\ tree' = tree
<1>1. ASSUME NEW p \in Paths, Stage!LookFile(p), ~Stage!Fails
      PROVE  held' \in Handles /\ tree' = tree
  <2>1. tree[p].length \in Nat
    BY NodesAre
  <2>. QED
    BY <1>1, <2>1, NoHandleIs DEF Stage!LookFile, Handles
<1>2. CASE Stage!Open /\ ~Stage!Fails
  BY <1>2, HandleIs DEF Stage!Open, Handles, WalkInv, AtFile
<1>3. CASE Stage!Check
  BY <1>3, NoHandleIs DEF Stage!Check, Stage!Fails, Stage!Returns
<1>. QED
  BY <1>1, <1>2, <1>3
     DEF Stage!StageStep, Stage!Begin, Stage!Collide, Stage!Exhausted, Stage!CreateSource,
         Stage!CreateCache, Stage!EnterRoot, Stage!EnterDirectory, Stage!List, Stage!LookFails,
         Stage!LookDirectory, Stage!LookFile, Stage!Open, Stage!Copy, Stage!Leave,
         Stage!Permitted, Stage!CommandEnds, Stage!Register, Stage!Fails, Stage!Returns,
         Stage!walkVars

LEMMA NextTypes == ASSUME SeedTypes, WalkInv, [Next]_vars PROVE SeedTypes'
<1>. USE DEF SeedTypes
<1>1. CASE Packs
  BY <1>1, PackKeepsTypes DEF Packs, stageVars
<1>2. CASE Unpack
  <2>. DEFINE at(p) == {i \in DOMAIN layer : layer[i].path = p}
  <2>1. ASSUME NEW p \in Paths, at(p) # {} PROVE layer[Max(at(p))].node \in Nodes
    <3>1. Len(layer) \in Nat /\ at(p) \in SUBSET (1..Len(layer))
      BY DEF PackTypes
    <3>2. Max(at(p)) \in 1..Len(layer)
      BY <2>1, <3>1, MaxIs
    <3>3. layer[Max(at(p))] \in Entries
      BY <3>2 DEF PackTypes
    <3>. QED
      BY <3>3 DEF Entries
  <2>2. tree' \in [Paths -> Nodes]
    BY <1>2, <2>1, NodesAre DEF Unpack
  <2>. QED
    BY <1>2, <2>2 DEF Unpack, packVars, stageVars, PackTypes
<1>3. CASE Stages
  BY <1>3, StageKeepsHeld DEF Stages, packVars, PackTypes
<1>4. CASE DeadlinePasses \/ UNCHANGED vars
  BY <1>4 DEF DeadlinePasses, Stage!DeadlinePasses, Stage!walkVars, packVars, stageVars, vars,
     PackTypes
<1>5. ASSUME NEW p \in Paths, NEW node \in Nodes, EditorWrites(p, node) PROVE SeedTypes'
  <2>1. tree' \in [Paths -> Nodes]
    BY <1>5 DEF EditorWrites, Rewrite
  <2>2. opened' \in Handles /\ held' \in Handles
    BY <1>5 DEF EditorWrites, SeesRewrite, Handles, PackTypes
  <2>. QED
    BY <1>5, <2>1, <2>2 DEF EditorWrites, Editing, PackTypes
<1>6. ASSUME NEW p \in Paths, NEW node \in Nodes, EditorReplaces(p, node) PROVE SeedTypes'
  <2>1. tree' \in [Paths -> Nodes]
    BY <1>6, NodesAre DEF EditorReplaces, Replace
  <2>2. opened' \in Handles /\ held' \in Handles
    BY <1>6 DEF EditorReplaces, SeesReplace, Handles, PackTypes
  <2>. QED
    BY <1>6, <2>1, <2>2 DEF EditorReplaces, Editing, PackTypes
<1>. QED
  BY <1>1, <1>2, <1>3, <1>4, <1>5, <1>6 DEF Next

LEMMA InitTypes == Init => SeedTypes
<1>. SUFFICES ASSUME Init PROVE SeedTypes
  OBVIOUS
<1>1. tree \in [Paths -> Nodes]
  BY SeedAssumption DEF Init, Trees
<1>. QED
  BY <1>1, NoHandleIs DEF Init, Pack!PackInit, Stage!StageInit, SeedTypes, PackTypes

-----------------------------------------------------------------------------
(***************************************************************************)
(* The budget of the copy.                                                 *)
(***************************************************************************)
\* The walk is at a file it has charged for.
AtCharged == stager \in {"open", "copy", "check"}

\* What is in the copy.
Present == {p \in Paths : Copied[p] # Absent}

\* Of the file the walk is at, what was charged and is not in the copy yet, or
\* less than nothing.
Owed == IF AtCharged THEN held.expected - NodeAt(held.path).length ELSE 0

\* No charge exceeds its budget, and none is made before the walk.
Within ==
  /\ \A p \in Paths : NodeAt(p).length \in Nat
  /\ spent \in [entries : 0..MaxEntries, bytes : 0..MaxBytes]
  /\ stager \in {"begin", "source", "enter"} => spent = [entries |-> 0, bytes |-> 0]

\* A file is created empty, and gets no more than one byte more than its charge.
AtCopy ==
  /\ stager = "copy" => NodeAt(held.path).length = 0
  /\ stager = "check" => NodeAt(held.path).length <= held.expected + 1
  /\ stager \in {"copy", "check"} => NodeAt(held.path) # Absent

\* What was charged is in the copy, or owed.  The root is there before its charge,
\* a file after it.
Balance == stager \notin Unstaged =>
  /\ BytesOf(Copied) + Owed = spent.bytes
  /\ Cardinality(Present) + (IF stager = "open" THEN 1 ELSE 0)
       = spent.entries + (IF stager = "enter" THEN 1 ELSE 0)

Charged == Within /\ AtCopy /\ Balance

\* What becomes of the copy's size when one path of it changes.
LEMMA CopyChange ==
  ASSUME NEW p \in Paths,
         \A q \in Paths : NodeAt(q).length \in Nat,
         \A q \in Paths \ {p} : NodeAt(q)' = NodeAt(q),
         NodeAt(p)'.length \in Nat
  PROVE  /\ BytesOf(Copied) \in Nat
         /\ BytesOf(Copied)' = BytesOf(Copied) + NodeAt(p)'.length - NodeAt(p).length
         /\ Cardinality(Present) \in Nat
         /\ (NodeAt(p)' = Absent <=> NodeAt(p) = Absent) => Present' = Present
         /\ NodeAt(p) = Absent /\ NodeAt(p)' # Absent
              => Cardinality(Present)' = Cardinality(Present) + 1
<1>1. /\ \A q \in Paths : Copied[q] = NodeAt(q)
      /\ \A q \in Paths : Copied'[q] = NodeAt(q)'
  BY DEF Copied, NodeAt
<1>2. /\ BytesOf(Copied) \in Nat
      /\ BytesOf(Copied') = BytesOf(Copied) + Copied'[p].length - Copied[p].length
  <2>1. /\ \A q \in Paths : Copied[q].length \in Nat
        /\ \A q \in Paths \ {p} : Copied'[q].length = Copied[q].length
        /\ Copied'[p].length \in Nat
    BY <1>1
  <2>. QED
    BY <2>1, BytesChange
<1>3. IsFiniteSet(Present) /\ Cardinality(Present) \in Nat
  BY SourceTreeAssumption, FS_Subset, FS_CardinalityType DEF Present
<1>4. (NodeAt(p)' = Absent <=> NodeAt(p) = Absent) => Present' = Present
  BY <1>1 DEF Present
<1>5. ASSUME NodeAt(p) = Absent, NodeAt(p)' # Absent
      PROVE  Cardinality(Present)' = Cardinality(Present) + 1
  <2>1. p \notin Present /\ Present' = Present \cup {p}
    BY <1>1, <1>5 DEF Present
  <2>. QED
    BY <1>3, <2>1, FS_AddElement
<1>. QED
  BY <1>1, <1>2, <1>3, <1>4, <1>5

LEMMA SizesAre ==
  ASSUME Within PROVE BytesOf(Copied) \in Nat /\ Cardinality(Present) \in Nat
<1>1. <<>> \in Paths /\ \A q \in Paths : NodeAt(q).length \in Nat
  BY SourceTreeAssumption DEF Within
<1>2. \A q \in Paths : Copied[q].length \in Nat
  BY <1>1 DEF Copied, NodeAt
<1>3. BytesOf(Copied) \in Nat
  BY <1>1, <1>2, BytesChange
<1>. QED
  BY <1>3, SourceTreeAssumption, FS_Subset, FS_CardinalityType DEF Present

LEMMA SpentIs ==
  ASSUME Within
  PROVE  /\ spent.entries \in 0..MaxEntries /\ spent.bytes \in 0..MaxBytes
         /\ spent.entries \in Nat /\ spent.bytes \in Nat
         /\ MaxEntries \in Nat \ {0} /\ MaxBytes \in Nat
  BY SourceTreeAssumption DEF Within

LEMMA NothingCopied ==
  ASSUME \A q \in Paths : NodeAt(q) = Absent
  PROVE  BytesOf(Copied) = 0 /\ Present = {} /\ Cardinality(Present) = 0
<1>1. \A q \in Paths : Copied[q] = Absent
  BY DEF Copied, NodeAt
<1>2. BytesOf(Copied) = 0
  <2>. DEFINE f == [p \in Paths |-> Copied[p].length]
  <2>1. \A q \in Paths : f[q] = 0
    BY <1>1 DEF Absent, Node
  <2>. HIDE DEF f
  <2>2. Total(f, Paths) = 0
    BY <2>1, TotalZero, SourceTreeAssumption
  <2>3. BytesOf(Copied) = Total(f, Paths)
    BY BytesTotal DEF f
  <2>. QED
    BY <2>2, <2>3
<1>3. Present = {}
  BY <1>1 DEF Present
<1>. QED
  BY <1>2, <1>3, FS_EmptySet

\* No node of the copy changes.
LEMMA SameCopy ==
  ASSUME Within, \A q \in Paths : NodeAt(q)' = NodeAt(q)
  PROVE  BytesOf(Copied)' = BytesOf(Copied) /\ Present' = Present
<1>1. <<>> \in Paths
  BY SourceTreeAssumption
<1>. QED
  BY <1>1, CopyChange DEF Within

\* Once the guards are dropped there is no copy.
LEMMA GoneBudget ==
  ASSUME Charged, ScratchInv', UNCHANGED spent,
         \/ stager' \in {"done", "failed"}
         \/ stager = "begin" /\ stager' = "source"
  PROVE  Charged'
<1>1. \A q \in Paths : NodeAt(q)' = Absent
  BY NothingIs DEF ScratchInv, Emptied, Unstaged
<1>. QED
  BY <1>1, NodesAre DEF Charged, Within, AtCopy, Balance, Unstaged

LEMMA FailedBudget ==
  ASSUME Charged, ScratchInv', Stage!Fails \/ \E o \in {"done", "failed"} : Stage!Returns(o)
  PROVE  Charged'
  BY GoneBudget DEF Stage!Fails, Stage!Returns

\* Between two entries nothing is owed.
Calm == {"list", "walk", "cache", "run", "register"}

LEMMA CalmBudget ==
  ASSUME Charged, \A q \in Paths : NodeAt(q)' = NodeAt(q), UNCHANGED spent,
         stager \in Calm, stager' \in Calm
  PROVE  Charged'
  BY SameCopy DEF Charged, Within, AtCopy, Balance, Owed, AtCharged, Calm, Unstaged

LEMMA StillBudget ==
  ASSUME Charged, UNCHANGED <<stager, copy, spent, held.path, held.expected>>
  PROVE  Charged'
<1>1. \A q : NodeAt(q)' = NodeAt(q)
  BY DEF NodeAt
<1>. QED
  BY <1>1, SameCopy
       DEF Charged, Within, AtCopy, Balance, Owed, AtCharged

LEMMA CreateSourceCharges ==
  ASSUME ScratchInv, ScratchInv', WalkInv, Charged, Stage!CreateSource PROVE Charged'
<1>1. stager = "source" /\ spent = [entries |-> 0, bytes |-> 0] /\ <<>> \in Paths
  BY SourceTreeAssumption DEF Stage!CreateSource, Stage!CanMake, Charged, Within
<1>2. copy = Stage!Nothing
  BY <1>1 DEF ScratchInv, Emptied, Unstaged
<1>3. CASE stager' = "enter" /\ copy' = [copy EXCEPT ![<<>>] = Stage!Staged(Directory, "epoch")]
           /\ UNCHANGED <<spent, held>>
  <2>1. \A q \in Paths : NodeAt(q) = Absent /\ NodeAt(q)' = IF q = <<>> THEN Directory ELSE Absent
    BY <1>1, <1>2, <1>3, SameNodes DEF Stage!Nothing, Stage!Staged, NodeAt
  <2>2. Absent.length = 0 /\ Directory.length = 0 /\ Absent # Directory
    BY DEF Absent, Directory, Node
  <2>3. BytesOf(Copied) = 0 /\ Cardinality(Present) = 0
    BY <2>1, NothingCopied
  <2>4. BytesOf(Copied)' = 0 /\ Cardinality(Present)' = 1
    BY <1>1, <2>1, <2>2, <2>3, CopyChange
  <2>. QED
    BY <1>1, <1>3, <2>1, <2>2, <2>4, SourceTreeAssumption
       DEF Charged, Within, AtCopy, Balance, Owed, AtCharged
<1>4. CASE stager' = "failed" /\ UNCHANGED spent
  BY <1>4, GoneBudget
<1>. QED
  BY <1>3, <1>4, SameNodes DEF Stage!CreateSource, Stage!walkVars

LEMMA EnterCharges ==
  ASSUME Charged, WalkInv, NEW p \in Paths, NEW rest,
         Stage!EnterDirectory(p, rest), ~Stage!Refused(p),
         \/ p = <<>> /\ stager = "enter"
         \/ p # <<>> /\ stager = "walk" /\ NodeAt(p) = Absent
  PROVE  Charged'
<1>1. /\ stager' = "list" /\ spent' = [entries |-> spent.entries + 1, bytes |-> spent.bytes]
      /\ spent.entries + 1 \in 0..MaxEntries /\ spent.bytes \in 0..MaxBytes
      /\ spent.entries \in Nat
  BY SpentIs DEF Stage!EnterDirectory, Stage!Charge, Stage!Refused, Charged
<1>2. /\ BytesOf(Copied) = spent.bytes
      /\ Cardinality(Present) = spent.entries + IF p = <<>> THEN 1 ELSE 0
  BY <1>1, SizesAre, SpentIs DEF Charged, Balance, Owed, AtCharged, Unstaged
<1>3. CASE p = <<>>
  <2>1. \A q \in Paths : NodeAt(q)' = NodeAt(q)
    BY <1>3 DEF Stage!EnterDirectory, NodeAt
  <2>. QED
    BY <1>1, <1>2, <1>3, <2>1, SameCopy
       DEF Charged, Within, AtCopy, Balance, Owed, AtCharged
<1>4. CASE p # <<>>
  <2>1. copy' = Stage!Created(p, Directory)
    BY <1>4, SameNodes DEF Stage!EnterDirectory
  <2>2. \A q \in Paths : NodeAt(q)' = IF q = p THEN Directory ELSE NodeAt(q)
    BY <1>4, <2>1, CreatedIs DEF WalkInv, Formed
  <2>3. Absent.length = 0 /\ Directory.length = 0 /\ Absent # Directory
    BY DEF Absent, Directory, Node
  <2>4. /\ BytesOf(Copied)' = BytesOf(Copied)
        /\ Cardinality(Present)' = Cardinality(Present) + 1
    BY <1>4, <2>2, <2>3, CopyChange DEF Charged, Within
  <2>. QED
    BY <1>1, <1>2, <1>4, <2>2, <2>3, <2>4 DEF Charged, Within, AtCopy, Balance, Owed, AtCharged
<1>. QED
  BY <1>3, <1>4

LEMMA LookFileCharges ==
  ASSUME SeedTypes, Charged, WalkInv, ScratchInv', NEW p \in Paths, Stage!LookFile(p) PROVE Charged'
<1>1. CASE Stage!Fails
  BY <1>1, FailedBudget
<1>2. CASE ~Stage!Fails
  <2>. DEFINE l == tree[p].length
  <2>1. stager = "walk" /\ todo # <<>> /\ p \in todo[1].left
    BY PopRow DEF Stage!LookFile, Stage!Next, WalkInv, Formed
  <2>2. NodeAt(p) = Absent /\ l \in Nat
    BY <2>1, NodesAre, PopRow DEF WalkInv, Formed, Descent, Unstaged, SeedTypes
  <2>3. /\ stager' = "open" /\ copy' = copy /\ held'.path = p /\ held'.expected = l
        /\ spent' = [entries |-> spent.entries + 1, bytes |-> spent.bytes + l]
        /\ ~(spent.entries + 1 > MaxEntries) /\ ~(spent.bytes + l > MaxBytes)
    BY <1>2 DEF Stage!LookFile, Stage!Charge, Stage!Refused, Stage!NoHandle
  <2>4. /\ spent.entries + 1 \in 0..MaxEntries /\ spent.bytes + l \in 0..MaxBytes
         /\ spent.entries \in Nat /\ spent.bytes \in Nat
    BY <2>2, <2>3, SpentIs DEF Charged
  <2>5. \A q : NodeAt(q)' = NodeAt(q)
    BY <2>3 DEF NodeAt
  <2>6. BytesOf(Copied) = spent.bytes /\ Cardinality(Present) = spent.entries
    BY <2>1, SizesAre, SpentIs DEF Charged, Balance, Owed, AtCharged, Unstaged
  <2>7. NodeAt(held.path)' = Absent /\ Absent.length = 0
    BY <2>2, <2>3, <2>5 DEF NodeAt, Absent, Node
  <2>. HIDE DEF l
  <2>. QED
    BY <2>2, <2>3, <2>4, <2>5, <2>6, <2>7, SameCopy
       DEF Charged, Within, AtCopy, Balance, Owed, AtCharged
<1>. QED
  BY <1>1, <1>2

LEMMA OpenCharges ==
  ASSUME SeedTypes, Charged, WalkInv, ScratchInv', Stage!Open PROVE Charged'
<1>1. CASE Stage!Fails
  BY <1>1, FailedBudget
<1>2. CASE ~Stage!Fails
  <2>. DEFINE p == held.path
              empty == Stage!Node("file", 0)
  <2>1. /\ stager = "open" /\ stager' = "copy" /\ spent' = spent
        /\ held'.path = p /\ held'.expected = held.expected
        /\ copy' = Stage!Created(p, empty)
    BY <1>2 DEF Stage!Open, Stage!Handle
  <2>2. p \in Paths \ {<<>>} /\ NodeAt(p) = Absent
    BY <2>1 DEF WalkInv, AtFile
  <2>3. empty # Absent /\ empty.length = 0 /\ Absent.length = 0
    BY FileIsOther DEF Stage!Node, Absent, Node
  <2>. HIDE DEF empty
  <2>4. \A q \in Paths : NodeAt(q)' = IF q = p THEN empty ELSE NodeAt(q)
    BY <2>1, <2>2, CreatedIs DEF WalkInv, Formed
  <2>5. /\ BytesOf(Copied)' = BytesOf(Copied)
        /\ Cardinality(Present)' = Cardinality(Present) + 1
    BY <2>2, <2>3, <2>4, CopyChange DEF Charged, Within
  <2>6. NodeAt(held.path)' = empty
    BY <2>1, <2>2, <2>4 DEF NodeAt
  <2>7. BytesOf(Copied) + held.expected = spent.bytes /\ Cardinality(Present) + 1 = spent.entries
        /\ BytesOf(Copied) \in Nat /\ Cardinality(Present) \in Nat /\ held.expected \in Nat
    BY <2>1, <2>2, <2>3, SizesAre, SpentIs DEF Charged, Balance, Owed, AtCharged, Unstaged,
           SeedTypes, Handles
  <2>. QED
    BY <2>1, <2>2, <2>3, <2>4, <2>5, <2>6, <2>7 DEF Charged, Within, AtCopy, Balance, Owed, AtCharged
<1>. QED
  BY <1>1, <1>2

LEMMA CopyCharges ==
  ASSUME SeedTypes, Charged, WalkInv, Stage!Copy PROVE Charged'
<1>. DEFINE p == held.path
            full == Stage!Node("file", Stage!CopyOf(held))
<1>1. /\ stager = "copy" /\ stager' = "check" /\ UNCHANGED <<spent, held>>
      /\ copy' = [copy EXCEPT ![p].node = full]
  BY DEF Stage!Copy, Stage!walkVars
<1>2. /\ p \in Paths /\ NodeAt(p) # Absent /\ NodeAt(p).length = 0
      /\ held.expected \in Nat /\ held.node.length \in Nat
  BY <1>1, NodesAre DEF WalkInv, AtFile, Charged, AtCopy, SeedTypes, Handles
<1>3. full # Absent /\ full.length \in Nat /\ full.length <= held.expected + 1
  BY <1>2, FileIsOther DEF Stage!Node, Stage!CopyOf
<1>. HIDE DEF full
<1>4. \A q \in Paths : NodeAt(q)' = IF q = p THEN full ELSE NodeAt(q)
  BY <1>1, <1>2, FilledIs DEF WalkInv, Formed
<1>5. /\ BytesOf(Copied) \in Nat
      /\ BytesOf(Copied)' = BytesOf(Copied) + full.length
      /\ Present' = Present
  BY <1>2, <1>3, <1>4, CopyChange DEF Charged, Within
<1>6. NodeAt(held.path)' = full
  BY <1>1, <1>2, <1>4 DEF NodeAt
<1>7. /\ BytesOf(Copied) + held.expected = spent.bytes
      /\ Cardinality(Present) = spent.entries /\ Cardinality(Present) \in Nat
  BY <1>1, <1>2, SizesAre, SpentIs DEF Charged, Balance, Owed, AtCharged, Unstaged
<1>. QED
  BY <1>1, <1>2, <1>3, <1>4, <1>5, <1>6, <1>7
     DEF Charged, Within, AtCopy, Balance, Owed, AtCharged

LEMMA CheckCharges ==
  ASSUME SeedTypes, Charged, WalkInv, ScratchInv', Stage!Check PROVE Charged'
<1>1. CASE Stage!Fails \/ Stage!Returns("failed")
  BY <1>1, FailedBudget
<1>2. CASE /\ copy[held.path].node.length = held.expected
           /\ copy' = Stage!Stamped(held.path) /\ stager' = "walk" /\ spent' = spent
  <2>1. stager = "check" /\ held.path \in Paths /\ NodeAt(held.path).length = held.expected
    BY <1>2 DEF Stage!Check, WalkInv, AtFile, NodeAt
  <2>2. held.expected \in Nat
    BY DEF SeedTypes, Handles
  <2>3. \A q \in Paths : NodeAt(q)' = NodeAt(q)
    BY <1>2, <2>1, StampedIs DEF WalkInv, Formed
  <2>4. BytesOf(Copied) = spent.bytes /\ Cardinality(Present) = spent.entries
        /\ Cardinality(Present) \in Nat
    BY <2>1, <2>2, SizesAre, SpentIs DEF Charged, Balance, Owed, AtCharged, Unstaged
  <2>. QED
    BY <1>2, <2>3, <2>4, SameCopy
       DEF Charged, Within, AtCopy, Balance, Owed, AtCharged
<1>. QED
  BY <1>1, <1>2 DEF Stage!Check

LEMMA StageCharges ==
  ASSUME SeedTypes, ScratchInv, ScratchInv', WalkInv, Charged, Stage!StageStep PROVE Charged'
<1>. USE DEF Stage!walkVars, Stage!allocVars
<1>1. CASE Stage!Begin
  BY <1>1, FailedBudget, GoneBudget DEF Stage!Begin
<1>2. ASSUME NEW k \in Stage!ScratchKinds, Stage!Collide(k) PROVE Charged'
  BY <1>2, StillBudget DEF Stage!Collide
<1>3. ASSUME NEW k \in Stage!ScratchKinds, Stage!Exhausted(k) PROVE Charged'
  BY <1>3, FailedBudget DEF Stage!Exhausted
<1>4. ASSUME stager \in Calm, stager' \in Calm, copy' = copy, spent' = spent PROVE Charged'
  BY <1>4, CalmBudget DEF NodeAt
<1>5. CASE Stage!CreateCache \/ Stage!Permitted \/ Stage!CommandEnds \/ Stage!Register
  BY <1>4, <1>5, FailedBudget
     DEF Stage!CreateCache, Stage!CanMake, Stage!Permitted, Stage!CommandEnds, Stage!Register, Calm
<1>6. CASE Stage!EnterRoot
  BY <1>6, FailedBudget, EnterCharges, SourceTreeAssumption DEF Stage!EnterRoot
<1>7. CASE Stage!List
  BY <1>4, <1>7, FailedBudget DEF Stage!List, Calm
<1>8. ASSUME NEW p \in Paths, Stage!LookFails(p) PROVE Charged'
  BY <1>8, FailedBudget DEF Stage!LookFails
<1>9. ASSUME NEW p \in Paths, Stage!LookDirectory(p) PROVE Charged'
  <2>1. stager = "walk" /\ todo # <<>> /\ p \in todo[1].left /\ todo \in Seq(Rows)
    BY <1>9, PopRow DEF Stage!LookDirectory, Stage!Next, WalkInv, Formed
  <2>2. p # <<>> /\ NodeAt(p) = Absent
    BY <2>1 DEF WalkInv, Descent, Unstaged
  <2>. QED
    BY <1>9, <2>1, <2>2, EnterCharges DEF Stage!LookDirectory
<1>10. CASE Stage!Leave
  <2>1. todo[1].of \in Paths /\ copy' = Stage!Stamped(todo[1].of) /\ stager = "walk"
        /\ UNCHANGED <<stager, spent>>
    BY <1>10, RowsAre, PopRow DEF Stage!Leave, WalkInv, Formed
  <2>2. \A q \in Paths : NodeAt(q)' = NodeAt(q)
    BY <2>1, StampedIs DEF WalkInv, Formed
  <2>. QED
    BY <2>1, <2>2, CalmBudget DEF Calm
<1>. QED
  BY <1>1, <1>2, <1>3, <1>5, <1>6, <1>7, <1>8, <1>9, <1>10, CreateSourceCharges, LookFileCharges,
     OpenCharges, CopyCharges, CheckCharges
     DEF Stage!StageStep

LEMMA NextCharges ==
  ASSUME SeedTypes, ScratchInv, ScratchInv', WalkInv, Charged, [Next]_vars PROVE Charged'
<1>1. CASE Stages
  BY <1>1, StageCharges DEF Stages
<1>2. CASE Packs \/ Unpack \/ DeadlinePasses \/ UNCHANGED vars
  BY <1>2, StillBudget DEF Packs, Unpack, DeadlinePasses, Stage!DeadlinePasses, Stage!walkVars,
     vars, stageVars
<1>3. ASSUME NEW p \in Paths, NEW node \in Nodes, EditorWrites(p, node) \/ EditorReplaces(p, node)
      PROVE  Charged'
  <2>1. held'.path = held.path /\ held'.expected = held.expected
    BY <1>3 DEF EditorWrites, EditorReplaces, SeesRewrite, SeesReplace, SeedTypes, Handles
  <2>. QED
    BY <1>3, <2>1, StillBudget DEF EditorWrites, EditorReplaces, Editing
<1>. QED
  BY <1>1, <1>2, <1>3 DEF Next

LEMMA InitCharges == Init => Charged
<1>. SUFFICES ASSUME Init PROVE Charged
  OBVIOUS
<1>1. /\ stager = "begin" /\ spent = [entries |-> 0, bytes |-> 0]
      /\ \A q \in Paths : NodeAt(q) = Absent
  BY SameNodes DEF Init, Stage!StageInit, Stage!Nothing, Stage!Staged, NodeAt
<1>. QED
  BY <1>1, NodesAre, SourceTreeAssumption DEF Charged, Within, AtCopy, Balance, Unstaged

\* Whatever the editor does between the look at a file and the copy of it, the
\* copy is within both budgets, but for one byte until the next check; and what is
\* evaluated is what was charged (StagingBudget, copy_staged_tree).
THEOREM CopyKeepsBudget == Spec => []CopyIsBounded
<1>1. ASSUME SeedTypes, ScratchInv, WalkInv, Charged PROVE CopyIsBounded
  <2>1. /\ spent.entries \in 0..MaxEntries /\ spent.bytes \in 0..MaxBytes
        /\ MaxEntries \in Nat \ {0} /\ MaxBytes \in Nat
    BY <1>1, SpentIs DEF Charged
  <2>2. CASE stager \in Unstaged
    <3>1. \A q \in Paths : NodeAt(q) = Absent
      BY <1>1, <2>2, SameNodes DEF ScratchInv, Emptied, Stage!Nothing, Stage!Staged, NodeAt
    <3>2. BytesOf(Copied) = 0 /\ Cardinality(Present) = 0
      BY <3>1, NothingCopied
    <3>. QED
      BY <2>1, <2>2, <3>2 DEF CopyIsBounded, Present, Unstaged
  <2>3. CASE stager \notin Unstaged
    <3>1. BytesOf(Copied) \in Nat /\ Cardinality(Present) \in Nat
      BY <1>1, SizesAre DEF Charged
    <3>2. /\ BytesOf(Copied) + Owed = spent.bytes /\ Owed >= -1 /\ Owed \in Int
          /\ ~AtCharged => Owed = 0
      <4>1. held.expected \in Nat
        BY <1>1 DEF SeedTypes, Handles
      <4>2. AtCharged => NodeAt(held.path).length \in 0..(held.expected + 1)
        <5>1. AtCharged => held.path \in Paths /\ (stager = "open" => NodeAt(held.path) = Absent)
          BY <1>1 DEF WalkInv, AtFile, AtCharged
        <5>2. Absent.length = 0
          BY DEF Absent, Node
        <5>. QED
          BY <1>1, <4>1, <5>1, <5>2 DEF Charged, Within, AtCopy, AtCharged
      <4>3. (AtCharged => Owed \in Int /\ Owed >= -1) /\ (~AtCharged => Owed = 0)
        BY <4>1, <4>2 DEF Owed
      <4>. QED
        BY <1>1, <2>3, <4>3 DEF Charged, Balance
    <3>3. /\ Cardinality(Present) + (IF stager = "open" THEN 1 ELSE 0)
               = spent.entries + (IF stager = "enter" THEN 1 ELSE 0)
          /\ stager = "enter" => spent.entries = 0
      BY <1>1, <2>3 DEF Charged, Within, Balance
    <3>4. BytesOf(Copied) <= MaxBytes + 1 /\ Cardinality(Present) <= MaxEntries
      BY <2>1, <3>1, <3>2, <3>3
    <3>5. stager \in {"cache", "run", "register"} => BytesOf(Copied) = spent.bytes
      BY <3>1, <3>2 DEF AtCharged
    <3>. QED
      BY <3>4, <3>5 DEF CopyIsBounded, Present
  <2>. QED
    BY <2>2, <2>3
<1>2. SeedTypes /\ ScratchInv /\ ScratchInv' /\ WalkInv /\ Charged /\ [Next]_vars => Charged'
  BY NextCharges
<1>3. ScratchInv /\ ScratchInv' /\ WalkInv /\ [Next]_vars => WalkInv'
  BY NextWalk
<1>4. ScratchInv /\ [Next]_vars => ScratchInv'
  BY NextScratch
<1>5. SeedTypes /\ WalkInv /\ [Next]_vars => SeedTypes'
  BY NextTypes
<1>. QED
  BY <1>1, <1>2, <1>3, <1>4, <1>5, InitScratch, InitWalk, InitTypes, InitCharges, PTL DEF Spec

-----------------------------------------------------------------------------
(***************************************************************************)
(* Paths in order: there is one way to put them so.                        *)
(***************************************************************************)
\* A sequence without repetition has as many elements as places.
LEMMA Distinct ==
  ASSUME NEW n \in Nat, NEW T, NEW f \in [1..n -> T],
         \A x \in T : \E i \in 1..n : f[i] = x,
         \A i, j \in 1..n : f[i] = f[j] => i = j
  PROVE  IsFiniteSet(T) /\ Cardinality(T) = n
<1>1. IsFiniteSet(1..n) /\ Cardinality(1..n) = n
  BY FS_Interval
<1>2. f \in Surjection(1..n, T) /\ f \in Injection(1..n, T)
  BY DEF Surjection, Injection, IsInjective
<1>. QED
  BY <1>1, <1>2, FS_Surjection

Sorted(s) == \A i, j \in 1..Len(s) : i < j => Before(s[i], s[j])

\* In a sequence in order, as many are before one as have a place before its own.
LEMMA PlaceIs ==
  ASSUME NEW S \in SUBSET Paths, NEW s \in Seq(S), Sorted(s),
         \A p \in S : \E i \in 1..Len(s) : s[i] = p
  PROVE  /\ Cardinality(S) = Len(s)
         /\ \A i \in 1..Len(s) : s[i] \in S /\ Cardinality(Below(S, s[i])) = i - 1
<1>1. /\ Len(s) \in Nat /\ s \in [1..Len(s) -> S]
      /\ \A i \in 1..Len(s) : s[i] \in S /\ s[i] \in Seq(Nat)
  BY SourceTreeAssumption
<1>2. ASSUME NEW i \in 1..Len(s), NEW j \in 1..Len(s), Before(s[i], s[j]) PROVE i < j
  <2>1. CASE i = j
    BY <1>1, <1>2, <2>1, BeforeIsStrict
  <2>2. CASE j < i
    <3>1. Before(s[j], s[i])
      BY <2>2 DEF Sorted
    <3>2. Before(s[i], s[i])
      BY <1>1, <1>2, <3>1, BeforeIsTransitive
    <3>. QED
      BY <1>1, <3>2, BeforeIsStrict
  <2>. QED
    BY <1>1, <2>1, <2>2
<1>3. ASSUME NEW i \in 1..Len(s), NEW j \in 1..Len(s), s[i] = s[j] PROVE i = j
  <2>1. ~(i < j) /\ ~(j < i)
    BY <1>1, <1>3, BeforeIsStrict DEF Sorted
  <2>. QED
    BY <1>1, <2>1
<1>4. Cardinality(S) = Len(s)
  BY <1>1, <1>3, Distinct
<1>5. ASSUME NEW i \in 1..Len(s) PROVE Cardinality(Below(S, s[i])) = i - 1
  <2>. DEFINE f == [j \in 1..(i - 1) |-> s[j]]
  <2>1. i - 1 \in Nat /\ \A j \in 1..(i - 1) : j \in 1..Len(s) /\ j < i
    BY <1>1
  <2>2. f \in [1..(i - 1) -> Below(S, s[i])]
    BY <1>1, <2>1 DEF Below, Sorted
  <2>3. ASSUME NEW x \in Below(S, s[i]) PROVE \E j \in 1..(i - 1) : f[j] = x
    <3>1. PICK j \in 1..Len(s) : s[j] = x
      BY DEF Below
    <3>2. j < i
      BY <1>2, <3>1 DEF Below
    <3>3. j \in 1..(i - 1)
      BY <1>1, <3>2
    <3>. QED
      BY <3>1, <3>3
  <2>4. \A j, k \in 1..(i - 1) : f[j] = f[k] => j = k
    BY <1>3, <2>1
  <2>. HIDE DEF f
  <2>. QED
    BY <2>1, <2>2, <2>3, <2>4, Distinct
<1>. QED
  BY <1>1, <1>4, <1>5

\* There is one listing of a set in order.
\* There is one sequence in order of a set.
LEMMA OrderIsUnique ==
  ASSUME NEW S \in SUBSET Paths, NEW s \in Seq(S), Sorted(s),
         \A p \in S : \E i \in 1..Len(s) : s[i] = p
  PROVE  s = InOrder(S)
<1>. DEFINE t == InOrder(S)
<1>1. t \in Seq(S) /\ Sorted(t) /\ \A p \in S : \E i \in 1..Len(t) : t[i] = p
  BY InOrderIs DEF Sorted
<1>. HIDE DEF t
<1>2. Len(s) = Len(t)
  BY <1>1, PlaceIs
<1>3. ASSUME NEW i \in 1..Len(s) PROVE s[i] = t[i]
  <2>1. s[i] \in S /\ Cardinality(Below(S, s[i])) = i - 1
    BY PlaceIs
  <2>2. t[i] \in S /\ Cardinality(Below(S, t[i])) = i - 1
    BY <1>1, <1>2, PlaceIs
  <2>3. ~Before(s[i], t[i]) /\ ~Before(t[i], s[i])
    <3>1. i - 1 \in Int /\ ~(i - 1 < i - 1)
      OBVIOUS
    <3>2. ~Before(s[i], t[i])
      BY <2>1, <2>2, <3>1, BelowGrows
    <3>3. ~Before(t[i], s[i])
      BY <2>1, <2>2, <3>1, BelowGrows
    <3>. QED
      BY <3>2, <3>3
  <2>. QED
    BY <2>1, <2>2, <2>3, SourceTreeAssumption, BeforeIsTotal
<1>4. s = t
  BY <1>1, <1>2, <1>3, SeqEqual
<1>. QED
  BY <1>4 DEF t

-----------------------------------------------------------------------------
(***************************************************************************)
(* How long the files of a layer are together.                             *)
(***************************************************************************)
Weight(w) == MapThenSumSet(LAMBDA i : w[i].node.length, DOMAIN w)

LEMMA WeightTotal ==
  ASSUME NEW w, IsFiniteSet(DOMAIN w)
  PROVE  Weight(w) = Total([i \in DOMAIN w |-> w[i].node.length], DOMAIN w)
<1>. DEFINE D == DOMAIN w
            f == [i \in D |-> w[i].node.length]
            Def(h) == h = [s \in SUBSET D |->
                            IF s = {} THEN 0 ELSE w[Some(s)].node.length + h[s \ {Some(s)}]]
<1>1. Weight(w) = (CHOOSE h : Def(h))[D]
  BY DEF Weight, MapThenSumSet, MapThenFoldSet, Some
<1>2. ASSUME NEW h PROVE Sums(h, f, D) <=> Def(h)
  <2>1. \A s \in SUBSET D : s # {} => f[Some(s)] = w[Some(s)].node.length
    BY SomeIs
  <2>. QED
    BY <2>1 DEF Sums, Adds
<1>3. \E h : Def(h)
  BY <1>2, AddsExists
<1>. HIDE DEF Def, f
<1>4. Def(CHOOSE h : Def(h))
  BY <1>3
<1>. DEFINE h == CHOOSE x : Def(x)
<1>5. Sums(h, f, D)
  BY <1>2, <1>4
<1>6. Weight(w) = h[D]
  BY <1>1
<1>. HIDE DEF h
<1>7. Total(f, D) = h[D]
  BY <1>5, TotalIs
<1>. QED
  BY <1>6, <1>7 DEF f

LEMMA WeightEmpty == Weight(<<>>) = 0
<1>1. DOMAIN <<>> = {} /\ IsFiniteSet({})
  BY FS_EmptySet
<1>. DEFINE f == [i \in DOMAIN <<>> |-> <<>>[i].node.length]
<1>2. Weight(<<>>) = Total(f, {})
  BY <1>1, WeightTotal
<1>3. \A x \in {} : f[x] = 0
  OBVIOUS
<1>. HIDE DEF f
<1>. QED
  BY <1>1, <1>2, <1>3, TotalZero

\* An entry weighs what its node is long.
LEMMA WeightGrows ==
  ASSUME NEW w \in Seq(Entries), NEW e \in Entries
  PROVE  /\ Weight(w) \in Nat
         /\ Weight(Append(w, e)) = Weight(w) + e.node.length
<1>. DEFINE n == Len(w)
            u == Append(w, e)
            f == [i \in DOMAIN w |-> w[i].node.length]
            g == [i \in DOMAIN u |-> u[i].node.length]
<1>1. /\ n \in Nat /\ DOMAIN w = 1..n /\ DOMAIN u = 1..(n + 1)
      /\ \A i \in 1..n : u[i] = w[i] /\ i \in 1..(n + 1)
      /\ u[n + 1] = e
  OBVIOUS
<1>2. /\ \A i \in 1..n : w[i] \in Entries
      /\ \A x \in Entries : x.node.length \in Nat
  <2>1. \A x \in Entries : x.node \in Nodes
    BY DEF Entries
  <2>. QED
    BY <2>1, NodesAre
<1>3. IsFiniteSet(1..n) /\ IsFiniteSet(1..(n + 1))
  BY <1>1, FS_Interval
<1>4. /\ \A i \in 1..n : f[i] \in Nat /\ g[i] = f[i]
      /\ g[n + 1] = e.node.length /\ g[n + 1] \in Nat
  BY <1>1, <1>2
<1>5. Weight(w) = Total(f, 1..n) /\ Weight(u) = Total(g, 1..(n + 1))
  BY <1>1, <1>3, WeightTotal
<1>. HIDE DEF f, g, u
<1>6. Total(f, 1..n) \in Nat
  BY <1>3, <1>4, TotalSplit
<1>7. Total(g, 1..(n + 1)) = g[n + 1] + Total(g, (1..(n + 1)) \ {n + 1})
  <2>1. \A i \in 1..(n + 1) : g[i] \in Nat
    BY <1>1, <1>4
  <2>2. n + 1 \in 1..(n + 1)
    BY <1>1
  <2>. QED
    BY <1>3, <2>1, <2>2, TotalSplit
<1>8. (1..(n + 1)) \ {n + 1} = 1..n
  BY <1>1
<1>9. Total(g, 1..n) = Total(f, 1..n)
  BY <1>3, <1>4, TotalSame
<1>10. Weight(u) = Weight(w) + e.node.length /\ Weight(w) \in Nat
  <2>1. Total(g, 1..(n + 1)) = g[n + 1] + Total(f, 1..n)
    BY <1>7, <1>8, <1>9
  <2>. HIDE DEF n
  <2>. QED
    BY <1>4, <1>5, <1>6, <2>1
<1>. QED
  BY <1>10 DEF u

\* Paths may be summed over in any sequence that has each of them once.
LEMMA TotalOfSequence ==
  ASSUME NEW S, IsFiniteSet(S), NEW f, \A x \in S : f[x] \in Nat,
         NEW n \in Nat, NEW s \in [1..n -> S],
         \A x \in S : \E i \in 1..n : s[i] = x,
         \A i, j \in 1..n : s[i] = s[j] => i = j
  PROVE  Total([i \in 1..n |-> f[s[i]]], 1..n) = Total(f, S)
<1>. DEFINE g == [i \in 1..n |-> f[s[i]]]
            First(m) == {s[i] : i \in 1..m}
            C == {m \in Nat : m <= n /\ Total(g, 1..m) # Total(f, First(m))}
<1>0. /\ \A i \in 1..n : g[i] = f[s[i]] /\ s[i] \in S
      /\ \A i \in 1..n : g[i] \in Nat
  OBVIOUS
<1>. HIDE DEF g
<1>1. \A m \in Nat : IsFiniteSet(1..m)
  BY FS_Interval
<1>2. C = {}
  <2>1. SUFFICES ASSUME C # {} PROVE FALSE
    OBVIOUS
  <2>2. PICK m \in C : \A k \in C : m <= k
    BY <2>1, Least
  <2>3. m # 0
    <3>1. 1..0 = {} /\ First(0) = {}
      OBVIOUS
    <3>2. \A h : Total(h, {}) = 0
      BY FS_EmptySet, TotalZero
    <3>. QED
      BY <2>2, <3>1, <3>2
  <2>4. m - 1 \in Nat /\ m - 1 <= n /\ m - 1 \notin C /\ m \in 1..n
    BY <2>2, <2>3
  <2>5. Total(g, 1..(m - 1)) = Total(f, First(m - 1))
    BY <2>4
  <2>6. Total(g, 1..m) = g[m] + Total(g, 1..(m - 1))
    <3>1. (1..m) \ {m} = 1..(m - 1) /\ m \in 1..m /\ \A i \in 1..m : g[i] \in Nat
      BY <1>0, <2>4
    <3>2. IsFiniteSet(1..m)
      BY <1>1, <2>2
    <3>3. Total(g, 1..m) = g[m] + Total(g, (1..m) \ {m})
      BY <3>1, <3>2, TotalSplit
    <3>. QED
      BY <3>1, <3>3
  <2>7. Total(f, First(m)) = f[s[m]] + Total(f, First(m - 1))
    <3>1. First(m) \in SUBSET S /\ s[m] \in First(m)
      BY <1>0, <2>4
    <3>2. First(m) \ {s[m]} = First(m - 1)
      <4>1. ASSUME NEW x \in First(m) \ {s[m]} PROVE x \in First(m - 1)
        <5>1. PICK i \in 1..m : x = s[i]
          BY <4>1
        <5>2. i \in 1..(m - 1)
          BY <2>4, <4>1, <5>1
        <5>. QED
          BY <5>1, <5>2
      <4>2. ASSUME NEW x \in First(m - 1) PROVE x \in First(m) \ {s[m]}
        <5>1. PICK i \in 1..(m - 1) : x = s[i]
          BY <4>2
        <5>2. i \in 1..m /\ i # m /\ i \in 1..n
          BY <2>4, <5>1
        <5>3. s[i] # s[m]
          BY <2>4, <5>2
        <5>. QED
          BY <5>1, <5>2, <5>3
      <4>. QED
        BY <4>1, <4>2
    <3>3. IsFiniteSet(First(m)) /\ \A x \in First(m) : f[x] \in Nat
      BY <3>1, FS_Subset
    <3>. HIDE DEF First
    <3>4. Total(f, First(m)) = f[s[m]] + Total(f, First(m) \ {s[m]})
      BY <3>1, <3>3, TotalSplit
    <3>. QED
      BY <3>2, <3>4
  <2>. QED
    BY <1>0, <2>2, <2>4, <2>5, <2>6, <2>7
<1>3. First(n) = S
  <2>1. \A x \in S : x \in First(n)
    OBVIOUS
  <2>2. \A x \in First(n) : x \in S
    BY <1>0
  <2>. QED
    BY <2>1, <2>2
<1>4. Total(g, 1..n) = Total(f, First(n))
  <2>. HIDE DEF First
  <2>. QED
    BY <1>2
<1>. QED
  BY <1>3, <1>4 DEF g

-----------------------------------------------------------------------------
(***************************************************************************)
(* The order of the layer.  The listings that are still to come are in     *)
(* order, too: what is in an inner listing lies before what is in an outer *)
(* one, and deeper; a directory's children come between it and both.       *)
(***************************************************************************)
LEMMA FrontIs ==
  ASSUME NEW p \in Seq(Nat), p # <<>>
  PROVE  /\ Front(p) \in Seq(Nat) /\ Len(Front(p)) = Len(p) - 1 /\ Len(p) \in Nat \ {0}
         /\ \A i \in 1..(Len(p) - 1) : Front(p)[i] = p[i]
<1>1. Len(p) \in Nat \ {0}
  OBVIOUS
<1>2. Front(p) = [i \in 1..(Len(p) - 1) |-> p[i]]
  BY <1>1 DEF Front
<1>3. \A i \in 1..(Len(p) - 1) : i \in 1..Len(p) /\ p[i] \in Nat
  BY <1>1
<1>. DEFINE n == Len(p) - 1
            f == [i \in 1..n |-> p[i]]
<1>4. n \in Nat /\ f \in [1..n -> Nat]
  BY <1>1, <1>3
<1>5. f \in Seq(Nat) /\ Len(f) = n
  <2>. HIDE DEF f, n
  <2>. QED
    BY <1>4
<1>. QED
  BY <1>1, <1>2, <1>5

LEMMA PrefixIs ==
  ASSUME NEW p \in Seq(Nat), NEW q \in Seq(Nat)
  PROVE  /\ IsPrefix(p, q) <=> Len(p) <= Len(q) /\ Agree(p, q, Len(p))
         /\ IsStrictPrefix(p, q) <=> Len(p) < Len(q) /\ Agree(p, q, Len(p))
<1>1. IsPrefix(p, q) <=> Len(p) <= Len(q) /\ Agree(p, q, Len(p))
  BY AgreeIs DEF IsPrefix
<1>2. Len(p) < Len(q) => p # q
  OBVIOUS
<1>. QED
  BY <1>1, <1>2, SameIs DEF IsStrictPrefix

LEMMA RootIsFirst == \A p \in Paths : p # <<>> => Before(<<>>, p)
<1>1. ASSUME NEW p \in Paths, p # <<>> PROVE Before(<<>>, p)
  <2>1. p \in Seq(Nat) /\ <<>> \in Seq(Nat) /\ Len(<<>>) = 0
    BY SourceTreeAssumption
  <2>2. Len(p) \in Nat /\ Len(p) > 0
    BY <1>1, <2>1
  <2>3. Agree(<<>>, p, 0)
    BY DEF Agree
  <2>. QED
    BY <2>1, <2>2, <2>3, PrefixIs DEF Before
<1>. QED
  BY <1>1

\* What lies in a directory comes after it, and before what comes after it and
\* does not lie in it.
LEMMA ChildIs ==
  ASSUME NEW d \in Paths, NEW c \in Paths \ {<<>>}, Front(c) = d
  PROVE  /\ Len(c) = Len(d) + 1 /\ Len(d) \in Nat /\ IsStrictPrefix(d, c)
         /\ Before(d, c)
         /\ \A n \in Paths : Before(d, n) /\ Len(n) <= Len(d) => Before(c, n) /\ Len(n) <= Len(c)
<1>1. c \in Seq(Nat) /\ d \in Seq(Nat)
  BY SourceTreeAssumption
<1>2. Len(c) = Len(d) + 1 /\ Len(d) \in Nat /\ Agree(d, c, Len(d))
  <2>1. c # <<>> /\ Len(c) \in Nat \ {0} /\ Len(d) = Len(c) - 1
        /\ \A i \in 1..(Len(c) - 1) : d[i] = c[i]
    BY <1>1, FrontIs
  <2>. QED
    BY <2>1 DEF Agree
<1>3. IsStrictPrefix(d, c)
  BY <1>1, <1>2, PrefixIs
<1>4. ASSUME NEW n \in Paths, Before(d, n), Len(n) <= Len(d) PROVE Before(c, n) /\ Len(n) <= Len(c)
  <2>1. n \in Seq(Nat) /\ Len(n) \in Nat
    BY SourceTreeAssumption
  <2>2. PICK i \in 1..Len(n) : /\ i - 1 <= Len(d) /\ Agree(d, n, i - 1)
                               /\ i > Len(d) \/ d[i] < n[i]
    BY <1>1, <1>4, <2>1, BeforeIs
  <2>3. i \in 1..Len(d) /\ d[i] < n[i] /\ c[i] = d[i]
    BY <1>2, <1>4, <2>1, <2>2 DEF Agree
  <2>4. Agree(c, n, i - 1) /\ i - 1 <= Len(c)
    BY <1>2, <2>2, <2>3 DEF Agree
  <2>5. Before(c, n)
    BY <1>1, <2>1, <2>2, <2>3, <2>4, BeforeIs
  <2>. QED
    BY <1>2, <1>4, <2>1, <2>5
<1>. QED
  BY <1>2, <1>3, <1>4 DEF Before

Walks == packer \in {"list", "walk", "open", "read"}

\* The listings without the directory that is listed next.
Rest == IF packer = "list" THEN IF names = <<>> THEN <<>> ELSE Pack!Advance ELSE names

In(r, n) == \E k \in 1..Len(r) : \E i \in 1..Len(r[k]) : r[k][i] = n

\* A listing has siblings in order; what it lies in comes later and is no deeper.
Listed(r) ==
  /\ \A k \in 1..Len(r) : \A i, j \in 1..Len(r[k]) :
       Len(r[k][i]) = Len(r[k][j]) /\ (i < j => Before(r[k][i], r[k][j]))
  /\ \A k, l \in 1..Len(r) : k < l =>
       \A i \in 1..Len(r[k]), j \in 1..Len(r[l]) :
         Len(r[l][j]) <= Len(r[k][i]) /\ Before(r[k][i], r[l][j])

\* A layer whose paths are in order, each in a directory that is there.
Written(w) ==
  /\ \A i, j \in 1..Len(w) : i < j => Before(w[i].path, w[j].path)
  /\ \A i \in 2..Len(w) : \E j \in 1..i - 1 : w[j] = Pack!Entry(Front(w[i].path), Directory)

\* What is listed goes into directories the layer has, after what it has.
Follows(w, r) == \A n \in Paths : In(r, n) =>
  /\ n # <<>>
  /\ \A j \in 1..Len(w) : Before(w[j].path, n)
  /\ \E j \in 1..Len(w) : w[j] = Pack!Entry(Front(n), Directory)

LastPath == layer[Len(layer)].path

PackOrder ==
  /\ Written(layer)
  /\ packer = "start" => layer = <<>>
  /\ Walks => layer # <<>> /\ Listed(Rest) /\ Follows(layer, Rest)
  /\ packer = "list" =>
       /\ layer[Len(layer)] = Pack!Entry(LastPath, Directory)
       /\ LastPath = IF names = <<>> THEN <<>> ELSE Pack!Name
       /\ \A n \in Paths : In(Rest, n) => Len(n) <= Len(LastPath)

Listings == Seq(Seq(Paths))

\* A listing before the others.
LEMMA PushIs ==
  ASSUME NEW l \in Seq(Paths), NEW r \in Listings
  PROVE  LET s == <<l>> \o r
         IN  /\ s \in Listings /\ s # <<>> /\ Head(s) = l /\ Tail(s) = r
             /\ Len(s) = Len(r) + 1 /\ s[1] = l
             /\ \A k \in 1..Len(s) : k # 1 => k - 1 \in 1..Len(r) /\ s[k] = r[k - 1]
             /\ \A k \in 1..Len(r) : k + 1 \in 1..Len(s) /\ s[k + 1] = r[k]
  BY DEF Listings

LEMMA InPush ==
  ASSUME NEW l \in Seq(Paths), NEW r \in Listings, NEW n
  PROVE  In(<<l>> \o r, n) <=> In(r, n) \/ \E i \in 1..Len(l) : l[i] = n
<1>. DEFINE s == <<l>> \o r
<1>1. /\ Len(s) = Len(r) + 1 /\ s[1] = l /\ Len(r) \in Nat
      /\ \A k \in 1..Len(s) : k # 1 => k - 1 \in 1..Len(r) /\ s[k] = r[k - 1]
      /\ \A k \in 1..Len(r) : k + 1 \in 1..Len(s) /\ s[k + 1] = r[k]
  BY PushIs DEF Listings
<1>. HIDE DEF s
<1>2. ASSUME In(s, n) PROVE In(r, n) \/ \E i \in 1..Len(l) : l[i] = n
  <2>1. PICK k \in 1..Len(s) : \E i \in 1..Len(s[k]) : s[k][i] = n
    BY <1>2 DEF In
  <2>2. CASE k = 1
    BY <1>1, <2>1, <2>2
  <2>3. CASE k # 1
    BY <1>1, <2>1, <2>3 DEF In
  <2>. QED
    BY <2>2, <2>3
<1>3. ASSUME In(r, n) PROVE In(s, n)
  <2>1. PICK k \in 1..Len(r) : \E i \in 1..Len(r[k]) : r[k][i] = n
    BY <1>3 DEF In
  <2>. QED
    BY <1>1, <2>1 DEF In
<1>4. ASSUME NEW i \in 1..Len(l), l[i] = n PROVE In(s, n)
  <2>1. 1 \in 1..Len(s)
    BY <1>1
  <2>. QED
    BY <1>1, <1>4, <2>1 DEF In
<1>. QED
  BY <1>2, <1>3, <1>4 DEF s

Siblings(l) == \A i, j \in 1..Len(l) :
  Len(l[i]) = Len(l[j]) /\ (i < j => Before(l[i], l[j]))

Precedes(l, r) == \A n : In(r, n) =>
  \A i \in 1..Len(l) : Len(n) <= Len(l[i]) /\ Before(l[i], n)

LEMMA ListedPush ==
  ASSUME NEW l \in Seq(Paths), NEW r \in Listings
  PROVE  Listed(<<l>> \o r) <=> Listed(r) /\ Siblings(l) /\ Precedes(l, r)
<1>. DEFINE s == <<l>> \o r
<1>1. /\ Len(s) = Len(r) + 1 /\ s[1] = l /\ Len(r) \in Nat
      /\ \A k \in 1..Len(s) : k # 1 => k - 1 \in 1..Len(r) /\ s[k] = r[k - 1]
      /\ \A k \in 1..Len(r) : k + 1 \in 1..Len(s) /\ s[k + 1] = r[k]
  BY PushIs DEF Listings
<1>. HIDE DEF s
<1>2. ASSUME Listed(s) PROVE Listed(r) /\ Siblings(l) /\ Precedes(l, r)
  <2>1. 1 \in 1..Len(s)
    BY <1>1
  <2>2. Siblings(l)
    BY <1>1, <1>2, <2>1 DEF Listed, Siblings
  <2>3. ASSUME NEW n, In(r, n), NEW i \in 1..Len(l)
        PROVE  Len(n) <= Len(l[i]) /\ Before(l[i], n)
    <3>1. PICK k \in 1..Len(r) : \E j \in 1..Len(r[k]) : r[k][j] = n
      BY <2>3 DEF In
    <3>2. k + 1 \in 1..Len(s) /\ s[k + 1] = r[k] /\ 1 < k + 1
      BY <1>1
    <3>3. PICK j \in 1..Len(s[k + 1]) : s[k + 1][j] = n
      BY <3>1, <3>2
    <3>4. i \in 1..Len(s[1]) /\ l[i] = s[1][i]
      BY <1>1
    <3>. QED
      BY <1>2, <2>1, <3>2, <3>3, <3>4 DEF Listed
  <2>4. ASSUME NEW k \in 1..Len(r), NEW m \in 1..Len(r), k < m
        PROVE  \A i \in 1..Len(r[k]), j \in 1..Len(r[m]) :
                 Len(r[m][j]) <= Len(r[k][i]) /\ Before(r[k][i], r[m][j])
    <3>1. k + 1 \in 1..Len(s) /\ s[k + 1] = r[k] /\ m + 1 \in 1..Len(s) /\ s[m + 1] = r[m]
          /\ k + 1 < m + 1
      BY <1>1, <2>4
    <3>. QED
      BY <1>2, <3>1 DEF Listed
  <2>5. ASSUME NEW k \in 1..Len(r) PROVE Siblings(r[k])
    <3>1. k + 1 \in 1..Len(s) /\ s[k + 1] = r[k]
      BY <1>1
    <3>. QED
      BY <1>2, <3>1 DEF Listed, Siblings
  <2>. QED
    BY <2>2, <2>3, <2>4, <2>5 DEF Listed, Siblings, Precedes
<1>3. ASSUME Listed(r), Siblings(l), Precedes(l, r) PROVE Listed(s)
  <2>1. ASSUME NEW k \in 1..Len(s) PROVE Siblings(s[k])
    <3>1. CASE k = 1
      BY <1>1, <1>3, <3>1
    <3>2. CASE k # 1
      <4>1. k - 1 \in 1..Len(r) /\ s[k] = r[k - 1]
        BY <1>1, <3>2
      <4>2. Siblings(r[k - 1])
        BY <1>3, <4>1 DEF Listed, Siblings
      <4>. QED
        BY <4>1, <4>2
    <3>. QED
      BY <3>1, <3>2
  <2>2. ASSUME NEW k \in 1..Len(s), NEW m \in 1..Len(s), k < m,
               NEW i \in 1..Len(s[k]), NEW j \in 1..Len(s[m])
        PROVE  Len(s[m][j]) <= Len(s[k][i]) /\ Before(s[k][i], s[m][j])
    <3>1. m # 1 /\ m - 1 \in 1..Len(r) /\ s[m] = r[m - 1]
      BY <1>1, <2>2
    <3>2. CASE k = 1
      <4>1. In(r, s[m][j])
        BY <3>1 DEF In
      <4>. QED
        BY <1>1, <1>3, <3>2, <4>1 DEF Precedes
    <3>3. CASE k # 1
      <4>1. k - 1 \in 1..Len(r) /\ s[k] = r[k - 1] /\ k - 1 < m - 1
        BY <1>1, <2>2, <3>3
      <4>. QED
        BY <1>3, <3>1, <4>1 DEF Listed
    <3>. QED
      BY <3>2, <3>3
  <2>. QED
    BY <2>1, <2>2 DEF Listed, Siblings
<1>. QED
  BY <1>2, <1>3 DEF s

LEMMA PopIs ==
  ASSUME NEW r \in Listings, r # <<>>
  PROVE  Head(r) \in Seq(Paths) /\ Tail(r) \in Listings /\ r = <<Head(r)>> \o Tail(r)
  BY DEF Listings

LEMMA InListings ==
  ASSUME NEW r \in Listings
  PROVE  \A n : In(r, n) => n \in Paths
<1>1. ASSUME NEW n, NEW k \in 1..Len(r), NEW i \in 1..Len(r[k]), r[k][i] = n PROVE n \in Paths
  <2>1. r[k] \in Seq(Paths)
    BY DEF Listings
  <2>. QED
    BY <1>1, <2>1
<1>. QED
  BY <1>1 DEF In

\* The next name, and what the others are to it.
LEMMA AdvanceOrder ==
  ASSUME names \in Listings, names # <<>>, Head(names) # <<>>, Listed(names)
  PROVE  /\ Pack!Name \in Paths /\ In(names, Pack!Name)
         /\ Pack!Advance \in Listings /\ Listed(Pack!Advance)
         /\ \A n : In(names, n) <=> n = Pack!Name \/ In(Pack!Advance, n)
         /\ \A n : In(Pack!Advance, n) => Before(Pack!Name, n) /\ Len(n) <= Len(Pack!Name)
<1>. DEFINE l == Head(names)
            r == Tail(names)
            t == Tail(l)
<1>1. l \in Seq(Paths) /\ r \in Listings /\ names = <<l>> \o r /\ l # <<>>
  BY PopIs
<1>2. Listed(r) /\ Siblings(l) /\ Precedes(l, r)
  BY <1>1, ListedPush
<1>3. Pack!Name = Head(l) /\ Pack!Advance = <<t>> \o r
  BY DEF Pack!Name, Pack!Advance
<1>. HIDE DEF l, r
<1>4. /\ t \in Seq(Paths) /\ Head(l) = l[1] /\ l[1] \in Paths /\ 1 \in 1..Len(l)
      /\ Len(t) = Len(l) - 1 /\ Len(l) \in Nat
      /\ \A i \in 1..Len(t) : i + 1 \in 1..Len(l) /\ t[i] = l[i + 1]
      /\ \A i \in 1..Len(l) : i # 1 => i - 1 \in 1..Len(t) /\ t[i - 1] = l[i]
  BY <1>1
<1>. HIDE DEF t
<1>5. Siblings(t)
  <2>1. ASSUME NEW i \in 1..Len(t), NEW j \in 1..Len(t)
        PROVE  Len(t[i]) = Len(t[j]) /\ (i < j => Before(t[i], t[j]))
    <3>1. /\ i + 1 \in 1..Len(l) /\ t[i] = l[i + 1] /\ j + 1 \in 1..Len(l) /\ t[j] = l[j + 1]
          /\ i < j => i + 1 < j + 1
      BY <1>4
    <3>. QED
      BY <1>2, <3>1 DEF Siblings
  <2>. QED
    BY <2>1 DEF Siblings
<1>6. Precedes(t, r)
  BY <1>2, <1>4 DEF Precedes
<1>7. Pack!Advance \in Listings /\ Listed(Pack!Advance)
  BY <1>1, <1>2, <1>3, <1>4, <1>5, <1>6, ListedPush, PushIs
<1>8. ASSUME NEW n
      PROVE  /\ In(names, n) <=> n = Pack!Name \/ In(Pack!Advance, n)
             /\ In(Pack!Advance, n) => Before(Pack!Name, n) /\ Len(n) <= Len(Pack!Name)
  <2>1. In(names, n) <=> In(r, n) \/ \E i \in 1..Len(l) : l[i] = n
    BY <1>1, InPush
  <2>2. In(Pack!Advance, n) <=> In(r, n) \/ \E i \in 1..Len(t) : t[i] = n
    BY <1>1, <1>3, <1>4, InPush
  <2>3. (\E i \in 1..Len(l) : l[i] = n) <=> n = l[1] \/ \E i \in 1..Len(t) : t[i] = n
    BY <1>4
  <2>4. ASSUME In(r, n) PROVE Before(l[1], n) /\ Len(n) <= Len(l[1])
    BY <1>2, <1>4, <2>4 DEF Precedes
  <2>5. ASSUME NEW i \in 1..Len(t), t[i] = n PROVE Before(l[1], n) /\ Len(n) <= Len(l[1])
    <3>1. i + 1 \in 1..Len(l) /\ n = l[i + 1] /\ 1 < i + 1
      BY <1>4, <2>5
    <3>2. Before(l[1], l[i + 1]) /\ Len(l[i + 1]) = Len(l[1])
      BY <1>2, <1>4, <3>1 DEF Siblings
    <3>3. l[1] \in Seq(Nat)
      BY <1>4, SourceTreeAssumption
    <3>. QED
      BY <3>1, <3>2, <3>3
  <2>. QED
    BY <1>3, <1>4, <2>1, <2>2, <2>3, <2>4, <2>5
<1>9. Pack!Name \in Paths
  BY <1>3, <1>4
<1>. QED
  BY <1>7, <1>8, <1>9

\* One more entry, in a directory that is there.
LEMMA EntryIs ==
  \A p, node : Pack!Entry(p, node).path = p /\ Pack!Entry(p, node).node = node
  BY DEF Pack!Entry

LEMMA WrittenGrows ==
  ASSUME NEW w \in Seq(Entries), Written(w), NEW p \in Paths, NEW node \in Nodes,
         \A j \in 1..Len(w) : Before(w[j].path, p),
         w = <<>> \/ \E j \in 1..Len(w) : w[j] = Pack!Entry(Front(p), Directory),
         NEW u, u = Append(w, Pack!Entry(p, node))
  PROVE  /\ Written(u) /\ u # <<>>
         /\ u[Len(u)] = Pack!Entry(p, node)
         /\ Len(u) = Len(w) + 1 /\ \A j \in 1..Len(w) : u[j] = w[j]
<1>. DEFINE e == Pack!Entry(p, node)
            n == Len(w)
<1>1. e.path = p /\ n \in Nat
  BY DEF Pack!Entry
<1>2. /\ Len(u) = n + 1 /\ u[n + 1] = e /\ u # <<>>
      /\ \A i \in 1..n : u[i] = w[i] /\ i \in 1..Len(u)
  OBVIOUS
<1>. HIDE DEF e, n
<1>3. \A i \in 1..Len(u) : i \in 1..n \/ i = n + 1
  BY <1>1, <1>2
<1>4. Written(u)
  <2>1. ASSUME NEW i \in 1..Len(u), NEW j \in 1..Len(u), i < j
        PROVE  Before(u[i].path, u[j].path)
    <3>1. i \in 1..n
      BY <1>1, <1>2, <2>1
    <3>2. CASE j \in 1..n
      BY <1>2, <2>1, <3>1, <3>2 DEF Written, n
    <3>3. CASE j = n + 1
      BY <1>1, <1>2, <3>1, <3>3 DEF n
    <3>. QED
      BY <1>3, <3>2, <3>3
  <2>2. ASSUME NEW i \in 2..Len(u)
        PROVE  \E j \in 1..i - 1 : u[j] = Pack!Entry(Front(u[i].path), Directory)
    <3>1. CASE i \in 1..n
      <4>1. PICK j \in 1..i - 1 : w[j] = Pack!Entry(Front(w[i].path), Directory)
        BY <2>2, <3>1 DEF Written, n
      <4>2. j \in 1..n
        BY <1>1, <3>1, <4>1
      <4>. QED
        BY <1>2, <3>1, <4>1, <4>2
    <3>2. CASE i = n + 1
      <4>1. w # <<>>
        BY <1>1, <3>2 DEF n
      <4>2. PICK j \in 1..n : w[j] = Pack!Entry(Front(p), Directory)
        BY <4>1 DEF n
      <4>3. j \in 1..i - 1
        BY <1>1, <3>2
      <4>. QED
        BY <1>1, <1>2, <3>2, <4>2, <4>3
    <3>. QED
      BY <1>1, <1>2, <2>2, <3>1, <3>2
  <2>. QED
    BY <2>1, <2>2 DEF Written
<1>. QED
  BY <1>2, <1>4 DEF e, n

LEMMA FollowsGrows ==
  ASSUME NEW w \in Seq(Entries), NEW p, NEW node, NEW u, u = Append(w, Pack!Entry(p, node)),
         NEW r, Follows(w, r), \A n \in Paths : In(r, n) => Before(p, n)
  PROVE  Follows(u, r)
<1>1. /\ Len(u) = Len(w) + 1 /\ Len(w) \in Nat /\ u[Len(w) + 1].path = p
      /\ \A i \in 1..Len(w) : u[i] = w[i] /\ i \in 1..Len(u)
  BY DEF Pack!Entry
<1>2. \A i \in 1..Len(u) : i \in 1..Len(w) \/ i = Len(w) + 1
  BY <1>1
<1>. QED
  BY <1>1, <1>2 DEF Follows

LEMMA EnterKeepsOrder ==
  ASSUME PackTypes, NEW p \in Paths, Pack!Enter(p), ~Pack!PackFails, PackOrder,
         \/ p = <<>> /\ packer = "start"
         \/ p = Pack!Name /\ packer = "walk" /\ names # <<>> /\ Head(names) # <<>>
  PROVE  PackOrder'
<1>1. /\ layer' = Append(layer, Pack!Entry(p, Directory)) /\ packer' = "list" /\ names' = names
  BY NodesAre DEF Pack!Enter
<1>2. layer \in Seq(Entries) /\ Written(layer) /\ names \in Listings /\ Directory \in Nodes
  BY NodesAre DEF PackTypes, PackOrder, Listings
<1>3. CASE packer = "start"
  <2>1. p = <<>> /\ layer = <<>> /\ names = <<>>
    BY <1>3 DEF PackOrder, PackTypes
  <2>2. /\ Written(layer') /\ layer' # <<>> /\ layer'[Len(layer')] = Pack!Entry(p, Directory)
    <3>1. /\ \A j \in 1..Len(layer) : Before(layer[j].path, p)
          /\ layer = <<>> \/ \E j \in 1..Len(layer) : layer[j] = Pack!Entry(Front(p), Directory)
      BY <2>1
    <3>. QED
      BY <1>1, <1>2, <3>1, WrittenGrows
  <2>3. Rest' = <<>> /\ Listed(<<>>) /\ \A n : ~In(<<>>, n)
    BY <1>1, <2>1 DEF Rest, Listed, In
  <2>4. LastPath' = <<>>
    BY <2>1, <2>2 DEF LastPath, Pack!Entry
  <2>. QED
    BY <1>1, <2>1, <2>2, <2>3, <2>4 DEF PackOrder, Walks, Follows
<1>4. CASE packer = "walk"
  <2>1. /\ p = Pack!Name /\ names # <<>> /\ Head(names) # <<>> /\ Rest = names
        /\ layer # <<>> /\ Listed(names) /\ Follows(layer, names)
    BY <1>4 DEF PackOrder, Walks, Rest
  <2>2. Rest' = Pack!Advance
    BY <1>1, <2>1 DEF Rest, Pack!Advance
  <2>3. /\ In(names, p) /\ Listed(Pack!Advance)
        /\ \A n : In(Pack!Advance, n) => In(names, n) /\ Before(p, n) /\ Len(n) <= Len(p)
    BY <1>2, <2>1, AdvanceOrder
  <2>4. /\ \A j \in 1..Len(layer) : Before(layer[j].path, p)
        /\ \E j \in 1..Len(layer) : layer[j] = Pack!Entry(Front(p), Directory)
    BY <2>1, <2>3 DEF Follows
  <2>5. Follows(layer, Pack!Advance)
    BY <2>1, <2>3 DEF Follows
  <2>6. /\ Written(layer') /\ layer' # <<>> /\ layer'[Len(layer')] = Pack!Entry(p, Directory)
        /\ Follows(layer', Pack!Advance)
    <3>1. Follows(layer', Pack!Advance)
      BY <1>1, <1>2, <2>3, <2>5, FollowsGrows
    <3>. QED
      BY <1>1, <1>2, <2>4, <3>1, WrittenGrows
  <2>7. LastPath' = p /\ Pack!Name' = Pack!Name
    BY <1>1, <2>6 DEF LastPath, Pack!Entry, Pack!Name
  <2>. QED
    BY <1>1, <2>1, <2>2, <2>3, <2>6, <2>7 DEF PackOrder, Walks
<1>. QED
  BY <1>3, <1>4

LEMMA ListKeepsOrder ==
  ASSUME PackTypes, PackOrder, Pack!List, ~Pack!PackFails PROVE PackOrder'
<1>. DEFINE d == LastPath
            l == InOrder(Pack!Children(d))
<1>1. /\ packer = "list" /\ layer # <<>> /\ Written(layer) /\ Listed(Rest) /\ Follows(layer, Rest)
      /\ layer[Len(layer)] = Pack!Entry(d, Directory)
      /\ d = IF names = <<>> THEN <<>> ELSE Pack!Name
      /\ \A n \in Paths : In(Rest, n) => Len(n) <= Len(d)
      /\ layer \in Seq(Entries)
  BY DEF PackOrder, Walks, Pack!List, PackTypes
<1>2. /\ names' = <<l>> \o Rest /\ packer' = "walk" /\ layer' = layer
  BY <1>1, SameInOrder DEF Pack!List, Rest
<1>3. Rest \in Listings
  BY <1>1, AdvanceIs DEF Rest, Listings, PackTypes
<1>4. d \in Paths /\ Len(layer) \in 1..Len(layer)
  <2>1. Len(layer) \in 1..Len(layer)
    BY <1>1
  <2>2. layer[Len(layer)] \in Entries
    BY <1>1, <2>1
  <2>. QED
    BY <2>1, <2>2 DEF LastPath, Entries
<1>5. Pack!Children(d) \in SUBSET Paths /\ \A c \in Pack!Children(d) : c # <<>> /\ Front(c) = d
  BY DEF Pack!Children, Pack!Front, Front
<1>6. /\ l \in Seq(Pack!Children(d))
      /\ \A i, j \in 1..Len(l) : i < j => Before(l[i], l[j])
  BY <1>5, InOrderIs
<1>7. l \in Seq(Paths) /\ \A i \in 1..Len(l) : l[i] \in Pack!Children(d)
  BY <1>5, <1>6
<1>. HIDE DEF l
<1>8. \A c \in Pack!Children(d) :
        /\ Len(c) = Len(d) + 1 /\ Before(d, c) /\ c \in Paths
        /\ \A n \in Paths : Before(d, n) /\ Len(n) <= Len(d) => Before(c, n) /\ Len(n) <= Len(c)
  BY <1>4, <1>5, ChildIs
<1>9. Siblings(l)
  BY <1>6, <1>7, <1>8 DEF Siblings
<1>10. \A n : In(Rest, n) => n \in Paths
  BY <1>3, InListings
<1>11. \A n \in Paths : In(Rest, n) => Before(d, n)
  <2>1. layer[Len(layer)].path = d
    BY DEF LastPath
  <2>. QED
    BY <1>1, <1>4, <2>1 DEF Follows
<1>12. Precedes(l, Rest)
  BY <1>1, <1>7, <1>8, <1>10, <1>11 DEF Precedes
<1>13. Listed(names')
  BY <1>1, <1>2, <1>3, <1>7, <1>9, <1>12, ListedPush
<1>14. ASSUME NEW i \in 1..Len(l)
       PROVE  /\ l[i] # <<>>
              /\ \A j \in 1..Len(layer) : Before(layer[j].path, l[i])
              /\ \E j \in 1..Len(layer) : layer[j] = Pack!Entry(Front(l[i]), Directory)
  <2>1. l[i] \in Paths /\ l[i] # <<>> /\ Front(l[i]) = d /\ Before(d, l[i])
    BY <1>5, <1>7, <1>8
  <2>2. ASSUME NEW j \in 1..Len(layer) PROVE Before(layer[j].path, l[i])
    <3>1. layer[j].path \in Paths /\ Len(layer) \in Nat
      <4>1. layer[j] \in Entries /\ Len(layer) \in Nat
        BY <1>1
      <4>. QED
        BY <4>1 DEF Entries
    <3>2. CASE j = Len(layer)
      BY <1>1, <2>1, <3>2 DEF Pack!Entry
    <3>3. CASE j < Len(layer)
      <4>1. Before(layer[j].path, layer[Len(layer)].path)
        BY <1>1, <1>4, <3>3 DEF Written
      <4>2. Before(layer[j].path, d)
        BY <1>1, <4>1 DEF Pack!Entry
      <4>. QED
        BY <1>4, <2>1, <3>1, <4>2, SourceTreeAssumption, BeforeIsTransitive
    <3>. QED
      BY <1>4, <3>2, <3>3
  <2>. QED
    BY <1>1, <1>4, <2>1, <2>2
<1>15. Follows(layer, names')
  <2>1. \A n : In(names', n) <=> In(Rest, n) \/ \E i \in 1..Len(l) : l[i] = n
    BY <1>2, <1>3, <1>7, InPush
  <2>. QED
    BY <1>1, <1>14, <2>1 DEF Follows
<1>16. Rest' = names'
  BY <1>2 DEF Rest
<1>. QED
  BY <1>1, <1>2, <1>13, <1>15, <1>16 DEF PackOrder, Walks

\* What pack_generated writes: the root, and the files by name.
LEMMA GeneratedIs ==
  ASSUME tree \in [Paths -> Nodes], tree[<<>>] = Directory, Pack!Generate, ~Pack!PackFails
  PROVE  LET G == Pack!Generated
             order == <<<<>>>> \o InOrder(G)
         IN  /\ G \in SUBSET Paths /\ \A p \in G : p # <<>> /\ Len(p) = 1 /\ tree[p].kind = "file"
             /\ order \in Seq(Paths) /\ Len(order) = Cardinality(G) + 1 /\ order[1] = <<>>
             /\ \A i \in 2..Len(order) : order[i] \in G
             /\ \A p \in G : \E i \in 2..Len(order) : order[i] = p
             /\ \A i, j \in 1..Len(order) : i < j => Before(order[i], order[j])
             /\ layer' \in Seq(Entries) /\ Len(layer') = Len(order)
             /\ \A i \in 1..Len(order) : layer'[i] = Pack!Entry(order[i], tree[order[i]])
<1>. DEFINE G == Pack!Generated
            s == InOrder(G)
            order == <<<<>>>> \o s
<1>1. /\ layer' = [i \in DOMAIN order |-> Pack!Entry(order[i], tree[order[i]])]
      /\ \A p \in G : Len(p) = 1 /\ tree[p].kind = "file"
  BY SameInOrder DEF Pack!Generate
<1>2. G \in SUBSET Paths /\ \A p \in G : p # <<>>
  BY DEF Pack!Generated
<1>3. /\ s \in Seq(G) /\ Sorted(s)
      /\ \A p \in G : \E i \in 1..Len(s) : s[i] = p
  BY <1>2, InOrderIs DEF Sorted
<1>4. Len(s) = Cardinality(G)
  BY <1>2, <1>3, PlaceIs
<1>. HIDE DEF s, G
<1>5. s \in Seq(Paths) /\ \A i \in 1..Len(s) : s[i] \in G
  BY <1>2, <1>3
<1>6. /\ order \in Seq(Paths) /\ Len(order) = Len(s) + 1 /\ Len(s) \in Nat
      /\ order[1] = <<>>
      /\ \A i \in 1..Len(order) : i # 1 => i - 1 \in 1..Len(s) /\ order[i] = s[i - 1]
      /\ \A i \in 1..Len(s) : i + 1 \in 2..Len(order) /\ order[i + 1] = s[i]
      /\ DOMAIN order = 1..Len(order)
  BY <1>5, SourceTreeAssumption
<1>. HIDE DEF order
<1>7. \A i \in 2..Len(order) : i \in 1..Len(order) /\ i # 1 /\ order[i] \in G
  BY <1>5, <1>6
<1>8. ASSUME NEW i \in 1..Len(order), NEW j \in 1..Len(order), i < j
      PROVE  Before(order[i], order[j])
  <2>1. j # 1 /\ j - 1 \in 1..Len(s) /\ order[j] = s[j - 1]
    BY <1>6, <1>8
  <2>2. CASE i = 1
    BY <1>2, <1>5, <1>6, <2>1, <2>2, RootIsFirst
  <2>3. CASE i # 1
    <3>1. i - 1 \in 1..Len(s) /\ order[i] = s[i - 1] /\ i - 1 < j - 1
      BY <1>6, <1>8, <2>3
    <3>. QED
      BY <1>3, <2>1, <3>1 DEF Sorted
  <2>. QED
    BY <2>2, <2>3
<1>. DEFINE n == Len(order)
            w == [i \in 1..n |-> Pack!Entry(order[i], tree[order[i]])]
<1>9. w \in Seq(Entries) /\ Len(w) = n
  <2>1. \A i \in 1..n : Pack!Entry(order[i], tree[order[i]]) \in Entries
    BY <1>6 DEF Pack!Entry, Entries
  <2>2. n \in Nat
    BY <1>6
  <2>3. w \in [1..n -> Entries]
    BY <2>1
  <2>. HIDE DEF w, n
  <2>. QED
    BY <2>2, <2>3
<1>10. layer' = w
  BY <1>1, <1>6
<1>11. \A p \in G : \E i \in 2..Len(order) : order[i] = p
  BY <1>3, <1>6
<1>. HIDE DEF w
<1>12. \A i \in 1..n : w[i] = Pack!Entry(order[i], tree[order[i]])
  BY DEF w
<1>. QED
  BY <1>1, <1>2, <1>4, <1>6, <1>7, <1>8, <1>9, <1>10, <1>11, <1>12 DEF G, s, order

LEMMA GenerateKeepsOrder ==
  ASSUME tree \in [Paths -> Nodes], tree[<<>>] = Directory, PackTypes, PackOrder,
         Pack!Generate, ~Pack!PackFails
  PROVE  PackOrder'
<1>. DEFINE G == Pack!Generated
            order == <<<<>>>> \o InOrder(G)
<1>1. /\ G \in SUBSET Paths /\ \A p \in G : p # <<>> /\ Len(p) = 1
      /\ order[1] = <<>> /\ \A i \in 2..Len(order) : order[i] \in G
      /\ \A i, j \in 1..Len(order) : i < j => Before(order[i], order[j])
      /\ Len(layer') = Len(order) /\ order \in Seq(Paths)
      /\ \A i \in 1..Len(order) : layer'[i] = Pack!Entry(order[i], tree[order[i]])
  BY GeneratedIs
<1>2. packer' = "packed"
  BY DEF Pack!Generate
<1>. HIDE DEF order, G
<1>3. \A i \in 1..Len(order) : layer'[i].path = order[i]
  BY <1>1, EntryIs
<1>4. ASSUME NEW i \in 2..Len(order)
      PROVE  \E j \in 1..i - 1 : layer'[j] = Pack!Entry(Front(layer'[i].path), Directory)
  <2>1. i \in 1..Len(order) /\ 1 \in 1..Len(order) /\ 1 \in 1..i - 1
    BY <1>1
  <2>2. order[i] \in Seq(Nat) /\ order[i] # <<>> /\ Len(order[i]) = 1
    BY <1>1, SourceTreeAssumption
  <2>3. Front(order[i]) = <<>>
    BY <2>2, FrontIs
  <2>. QED
    BY <1>1, <1>3, <2>1, <2>3
<1>5. Written(layer')
  BY <1>1, <1>3, <1>4 DEF Written
<1>. QED
  BY <1>2, <1>5 DEF PackOrder, Walks

\* Every step of the client keeps the order.
LEMMA PackKeepsOrder ==
  ASSUME tree \in [Paths -> Nodes], packer = "start" => tree[<<>>] = Directory,
         PackTypes, PackOrder, Pack!PackStep
  PROVE  PackOrder'
<1>1. CASE Pack!PackFails
  BY <1>1 DEF Pack!PackFails, PackOrder, Walks
<1>2. names \in Listings /\ layer \in Seq(Entries)
  BY DEF PackTypes, Listings
<1>3. ASSUME packer \in {"walk", "open", "read"}, packer' \in {"walk", "open", "read"},
             names # <<>>, Head(names) # <<>>, names' = Pack!Advance, layer' = layer
      PROVE  PackOrder'
  <2>1. Rest = names /\ Rest' = Pack!Advance
    BY <1>3 DEF Rest
  <2>2. layer # <<>> /\ Written(layer) /\ Listed(names) /\ Follows(layer, names)
    BY <1>3, <2>1 DEF PackOrder, Walks
  <2>3. Listed(Pack!Advance) /\ \A n : In(Pack!Advance, n) => In(names, n)
    BY <1>2, <1>3, <2>2, AdvanceOrder
  <2>4. Follows(layer, Pack!Advance)
    BY <2>2, <2>3 DEF Follows
  <2>. QED
    BY <1>3, <2>1, <2>2, <2>3, <2>4 DEF PackOrder, Walks
<1>4. ASSUME packer \in {"walk", "open", "read"}, packer' \in {"walk", "open", "read"},
             UNCHANGED <<names, layer>>
      PROVE  PackOrder'
  BY <1>4 DEF PackOrder, Walks, Rest
<1>5. CASE Pack!Start /\ ~Pack!PackFails
  <2>1. Pack!Enter(<<>>) /\ packer = "start" /\ <<>> \in Paths
    BY <1>5, SourceTreeAssumption DEF Pack!Start
  <2>. QED
    BY <1>5, <2>1, EnterKeepsOrder
<1>6. CASE Pack!Generate /\ ~Pack!PackFails
  <2>1. packer = "start"
    BY <1>6 DEF Pack!Generate
  <2>. QED
    BY <1>6, <2>1, GenerateKeepsOrder
<1>7. CASE Pack!List /\ ~Pack!PackFails
  BY <1>7, ListKeepsOrder
<1>8. CASE Pack!Leave
  <2>1. /\ packer = "walk" /\ packer' = "walk" /\ names # <<>> /\ Head(names) = <<>>
        /\ names' = Tail(names) /\ layer' = layer
    BY <1>8 DEF Pack!Leave
  <2>2. layer # <<>> /\ Written(layer) /\ Listed(names) /\ Follows(layer, names)
    BY <2>1 DEF PackOrder, Walks, Rest
  <2>3. Tail(names) \in Listings /\ <<>> \in Seq(Paths) /\ names = <<<<>>>> \o Tail(names)
    BY <1>2, <2>1, PopIs
  <2>4. Listed(Tail(names)) /\ \A n : In(Tail(names), n) => In(names, n)
    BY <2>2, <2>3, ListedPush, InPush
  <2>5. Follows(layer, Tail(names))
    BY <2>2, <2>4 DEF Follows
  <2>. QED
    BY <2>1, <2>2, <2>4, <2>5 DEF PackOrder, Walks, Rest
<1>9. CASE Pack!LookFails
  BY <1>1, <1>9 DEF Pack!LookFails
<1>10. CASE Pack!LookDirectory /\ ~Pack!PackFails
  <2>1. packer = "walk" /\ names # <<>> /\ Head(names) # <<>>
    BY <1>10 DEF Pack!LookDirectory, Pack!Walking
  <2>2. CASE Pack!Enter(Pack!Name)
    <3>1. Pack!Name \in Paths
      BY <2>1, AdvanceIs
    <3>. QED
      BY <1>10, <2>1, <2>2, <3>1, EnterKeepsOrder
  <2>3. CASE names' = Pack!Advance /\ UNCHANGED <<packer, layer>>
    BY <1>3, <2>1, <2>3
  <2>. QED
    BY <1>10, <2>2, <2>3 DEF Pack!LookDirectory
<1>11. CASE (Pack!LookFile \/ Pack!Open) /\ ~Pack!PackFails
  BY <1>4, <1>11 DEF Pack!LookFile, Pack!Open, Pack!Walking
<1>12. CASE Pack!Read /\ ~Pack!PackFails
  <2>1. /\ packer = "read" /\ packer' = "walk" /\ names # <<>> /\ Head(names) # <<>>
        /\ layer' = Append(layer, Pack!Entry(Pack!Name, opened.node))
        /\ names' = Pack!Advance
    BY <1>12 DEF Pack!Read, PackTypes
  <2>2. Rest = names /\ Rest' = Pack!Advance
    BY <2>1 DEF Rest
  <2>3. layer # <<>> /\ Written(layer) /\ Listed(names) /\ Follows(layer, names)
    BY <2>1, <2>2 DEF PackOrder, Walks
  <2>4. /\ Pack!Name \in Paths /\ In(names, Pack!Name) /\ Listed(Pack!Advance)
        /\ \A n : In(Pack!Advance, n) => In(names, n) /\ Before(Pack!Name, n)
    BY <1>2, <2>1, <2>3, AdvanceOrder
  <2>5. /\ \A j \in 1..Len(layer) : Before(layer[j].path, Pack!Name)
        /\ \E j \in 1..Len(layer) : layer[j] = Pack!Entry(Front(Pack!Name), Directory)
        /\ Follows(layer, Pack!Advance)
    BY <2>3, <2>4 DEF Follows
  <2>6. opened.node \in Nodes
    BY DEF PackTypes, Handles
  <2>7. Follows(layer', Pack!Advance)
    <3>. DEFINE p == Pack!Name
                r == Pack!Advance
    <3>1. /\ \A n \in Paths : In(r, n) => Before(p, n)
          /\ Follows(layer, r)
          /\ layer' = Append(layer, Pack!Entry(p, opened.node))
      BY <2>1, <2>4, <2>5
    <3>. HIDE DEF p, r
    <3>2. Follows(layer', r)
      BY <1>2, <3>1, FollowsGrows
    <3>. QED
      BY <3>2 DEF r
  <2>8. Written(layer') /\ layer' # <<>>
    BY <1>2, <2>1, <2>3, <2>4, <2>5, <2>6, WrittenGrows
  <2>. QED
    BY <2>1, <2>2, <2>4, <2>7, <2>8 DEF PackOrder, Walks
<1>13. CASE Pack!Packed
  BY <1>13 DEF Pack!Packed, PackOrder, Walks
<1>. QED
  BY <1>1, <1>5, <1>6, <1>7, <1>8, <1>9, <1>10, <1>11, <1>12, <1>13 DEF Pack!PackStep

-----------------------------------------------------------------------------
(***************************************************************************)
(* The budget of the layer: what is charged is what is written, and the    *)
(* file that is looked at.                                                 *)
(***************************************************************************)
PackCharge ==
  /\ charged \in [entries : 0..MaxEntries, bytes : 0..MaxBytes]
  /\ packer = "start" => charged = [entries |-> 0, bytes |-> 0]
  /\ packer # "failed" =>
       /\ Len(layer) + (IF packer \in {"open", "read"} THEN 1 ELSE 0) = charged.entries
       /\ Weight(layer) + (IF packer = "read" THEN opened.expected ELSE 0) = charged.bytes

LEMMA ChargedIs ==
  ASSUME PackTypes, PackCharge
  PROVE  /\ charged.entries \in 0..MaxEntries /\ charged.bytes \in 0..MaxBytes
         /\ charged.entries \in Nat /\ charged.bytes \in Nat
         /\ MaxEntries \in Nat \ {0} /\ MaxBytes \in Nat
         /\ charged = [entries |-> charged.entries, bytes |-> charged.bytes]
         /\ Len(layer) \in Nat /\ Weight(layer) \in Nat /\ opened.expected \in Nat
<1>1. layer \in Seq(Entries) /\ opened.expected \in Nat
  BY DEF PackTypes, Handles
<1>2. Pack!Entry(<<>>, Absent) \in Entries
  BY NodesAre, SourceTreeAssumption DEF Pack!Entry, Entries
<1>3. Weight(layer) \in Nat
  BY <1>1, <1>2, WeightGrows
<1>. QED
  BY <1>1, <1>3, SourceTreeAssumption DEF PackCharge

\* One more entry weighs what its node is long.
LEMMA LayerGrows ==
  ASSUME PackTypes, NEW p \in Paths, NEW node \in Nodes, layer' = Append(layer, Pack!Entry(p, node))
  PROVE  Len(layer') = Len(layer) + 1 /\ Weight(layer)' = Weight(layer) + node.length
<1>1. layer \in Seq(Entries) /\ Pack!Entry(p, node) \in Entries /\ Pack!Entry(p, node).node = node
  BY DEF PackTypes, Entries, Pack!Entry
<1>2. Weight(Append(layer, Pack!Entry(p, node))) = Weight(layer) + node.length
  BY <1>1, WeightGrows
<1>3. Weight(layer)' = Weight(layer')
  OBVIOUS
<1>. QED
  BY <1>1, <1>2, <1>3

LEMMA EnterKeepsCharge ==
  ASSUME PackTypes, NEW p \in Paths, Pack!Enter(p), ~Pack!PackFails, PackCharge,
         packer \in {"start", "walk"}
  PROVE  PackCharge'
<1>1. /\ charged' = [charged EXCEPT !.entries = @ + 1] /\ ~(charged.entries + 1 > MaxEntries)
      /\ layer' = Append(layer, Pack!Entry(p, Directory)) /\ packer' = "list"
  BY NodesAre DEF Pack!Enter, Pack!OverEntries
<1>2. Directory \in Nodes /\ Directory.length = 0
  BY NodesAre DEF Directory, Node
<1>3. Len(layer') = Len(layer) + 1 /\ Weight(layer)' = Weight(layer)
  BY <1>1, <1>2, LayerGrows, ChargedIs
<1>4. Len(layer) = charged.entries /\ Weight(layer) = charged.bytes
  BY ChargedIs DEF PackCharge
<1>5. charged' = [entries |-> charged.entries + 1, bytes |-> charged.bytes]
      /\ charged.entries + 1 \in 0..MaxEntries
  BY <1>1, ChargedIs
<1>. QED
  BY <1>1, <1>3, <1>4, <1>5, ChargedIs DEF PackCharge

LEMMA GenerateKeepsCharge ==
  ASSUME tree \in [Paths -> Nodes], tree[<<>>] = Directory, PackTypes,
         Pack!Generate, ~Pack!PackFails
  PROVE  PackCharge'
<1>. DEFINE G == Pack!Generated
            order == <<<<>>>> \o InOrder(G)
            n == Len(order)
            all == G \cup {<<>>}
            f == [p \in all |-> tree[p].length]
            total == [entries |-> n, bytes |-> LengthsIn(tree, G)]
<1>1. /\ G \in SUBSET Paths /\ \A p \in G : p # <<>>
      /\ order \in Seq(Paths) /\ n = Cardinality(G) + 1 /\ order[1] = <<>>
      /\ \A i \in 2..n : order[i] \in G
      /\ \A p \in G : \E i \in 2..n : order[i] = p
      /\ \A i, j \in 1..n : i < j => Before(order[i], order[j])
      /\ layer' \in Seq(Entries) /\ Len(layer') = n
      /\ \A i \in 1..n : layer'[i] = Pack!Entry(order[i], tree[order[i]])
  BY GeneratedIs
<1>2. charged' = total /\ ~(total.entries > MaxEntries) /\ ~(total.bytes > MaxBytes)
      /\ packer' = "packed"
  BY SameInOrder DEF Pack!Generate, LengthsIn, MapThenSumSet, MapThenFoldSet,
     Pack!MapThenSumSet, Pack!MapThenFoldSet
<1>. HIDE DEF order, G
<1>3. /\ IsFiniteSet(G) /\ IsFiniteSet(all) /\ all \ {<<>>} = G /\ n \in Nat /\ n >= 1
      /\ all \in SUBSET Paths
  <2>1. all \in SUBSET Paths /\ all \ {<<>>} = G
    BY <1>1, SourceTreeAssumption
  <2>2. IsFiniteSet(G) /\ IsFiniteSet(all)
    BY <1>1, <2>1, SourceTreeAssumption, FS_Subset
  <2>3. Cardinality(G) \in Nat
    BY <2>2, FS_CardinalityType
  <2>. QED
    BY <1>1, <2>1, <2>2, <2>3
<1>4. \A p \in Paths : tree[p].length \in Nat
  BY NodesAre
<1>5. /\ order \in [1..n -> all]
      /\ \A p \in all : \E i \in 1..n : order[i] = p
      /\ \A i, j \in 1..n : order[i] = order[j] => i = j
  <2>1. \A i \in 1..n : i = 1 \/ i \in 2..n
    BY <1>3
  <2>2. \A i \in 1..n : order[i] \in all
    BY <1>1, <2>1
  <2>3. ASSUME NEW i \in 1..n, NEW j \in 1..n, order[i] = order[j] PROVE i = j
    <3>1. order[i] \in Seq(Nat)
      BY <1>3, <2>2, SourceTreeAssumption
    <3>2. ~Before(order[i], order[i])
      BY <3>1, BeforeIsStrict
    <3>. QED
      BY <1>1, <1>3, <2>3, <3>2
  <2>4. \A p \in all : \E i \in 1..n : order[i] = p
    <3>1. 1 \in 1..n /\ \A i \in 2..n : i \in 1..n
      BY <1>3
    <3>. QED
      BY <1>1, <3>1
  <2>. QED
    BY <1>1, <2>2, <2>3, <2>4
<1>6. Total([i \in 1..n |-> f[order[i]]], 1..n) = Total(f, all)
  <2>1. \A p \in all : f[p] \in Nat
    BY <1>3, <1>4
  <2>. HIDE DEF f, all, n
  <2>. QED
    BY <1>3, <1>5, <2>1, TotalOfSequence
<1>7. Weight(layer') = Total([i \in 1..n |-> f[order[i]]], 1..n)
  <2>1. DOMAIN layer' = 1..n /\ IsFiniteSet(1..n)
    BY <1>1, <1>3, FS_Interval
  <2>2. \A i \in 1..n : layer'[i].node.length = f[order[i]]
    BY <1>1, <1>5, EntryIs
  <2>3. [i \in DOMAIN layer' |-> layer'[i].node.length] = [i \in 1..n |-> f[order[i]]]
    BY <2>1, <2>2
  <2>. HIDE DEF f, n
  <2>. QED
    BY <2>1, <2>3, WeightTotal
<1>8. Total(f, all) = LengthsIn(tree, G) /\ LengthsIn(tree, G) \in Nat
  <2>. DEFINE g == [p \in G |-> tree[p].length]
  <2>1. \A p \in all : f[p] \in Nat
    BY <1>3, <1>4
  <2>2. f[<<>>] = 0 /\ <<>> \in all
    BY DEF Directory, Node
  <2>3. \A p \in G : f[p] = g[p] /\ g[p] \in Nat
    BY <1>1, <1>4
  <2>4. LengthsIn(tree, G) = Total(g, G)
    BY <1>3, LengthsTotal
  <2>. HIDE DEF f, g, all
  <2>5. Total(f, all) = f[<<>>] + Total(f, all \ {<<>>})
    BY <1>3, <2>1, <2>2, TotalSplit
  <2>6. Total(f, G) = Total(g, G)
    BY <1>3, <2>3, TotalSame
  <2>7. Total(g, G) \in Nat
    BY <1>3, <2>3, TotalSplit
  <2>8. Total(f, all \ {<<>>}) = Total(g, G)
    BY <1>3, <2>6
  <2>. QED
    BY <2>2, <2>4, <2>5, <2>7, <2>8
<1>9. Weight(layer)' = total.bytes /\ Len(layer') = total.entries
      /\ total.bytes \in 0..MaxBytes /\ total.entries \in 0..MaxEntries
  <2>1. Weight(layer)' = Weight(layer')
    OBVIOUS
  <2>2. total.bytes = LengthsIn(tree, G) /\ total.entries = n
    OBVIOUS
  <2>. HIDE DEF total
  <2>3. total.bytes \in Nat /\ total.entries \in Nat
    BY <1>3, <1>8, <2>2
  <2>4. ~(total.entries > MaxEntries) /\ ~(total.bytes > MaxBytes)
    BY <1>2
  <2>5. MaxEntries \in Nat /\ MaxBytes \in Nat
    BY SourceTreeAssumption
  <2>6. total.bytes \in 0..MaxBytes /\ total.entries \in 0..MaxEntries
    BY <2>3, <2>4, <2>5
  <2>7. Weight(layer') = total.bytes
    BY <1>6, <1>7, <1>8, <2>2
  <2>. QED
    BY <1>1, <2>1, <2>2, <2>6, <2>7
<1>10. charged' \in [entries : 0..MaxEntries, bytes : 0..MaxBytes]
  BY <1>2, <1>9
<1>11. Weight(layer)' + 0 = charged'.bytes /\ Len(layer') + 0 = charged'.entries
  BY <1>2, <1>9
<1>. QED
  BY <1>2, <1>10, <1>11 DEF PackCharge

\* Every step of the client charges for what it writes.
LEMMA PackKeepsCharge ==
  ASSUME tree \in [Paths -> Nodes], packer = "start" => tree[<<>>] = Directory,
         PackTypes, PackOrder, PackCharge, Pack!PackStep
  PROVE  PackCharge'
<1>1. CASE Pack!PackFails
  BY <1>1 DEF Pack!PackFails, PackCharge
<1>2. ASSUME UNCHANGED <<layer, charged>>,
             packer \in {"list", "walk"}, packer' \in {"list", "walk", "packed"}
      PROVE  PackCharge'
  <2>1. Weight(layer)' = Weight(layer)
    BY <1>2
  <2>. QED
    BY <1>2, <2>1 DEF PackCharge
<1>3. CASE Pack!Start /\ ~Pack!PackFails
  <2>1. Pack!Enter(<<>>) /\ packer = "start" /\ <<>> \in Paths
    BY <1>3, SourceTreeAssumption DEF Pack!Start
  <2>. QED
    BY <1>3, <2>1, EnterKeepsCharge
<1>4. CASE Pack!Generate /\ ~Pack!PackFails
  <2>1. packer = "start"
    BY <1>4 DEF Pack!Generate
  <2>. QED
    BY <1>4, <2>1, GenerateKeepsCharge
<1>5. CASE (Pack!List \/ Pack!Leave \/ Pack!Packed) /\ ~Pack!PackFails
  <2>1. /\ UNCHANGED <<layer, charged>>
        /\ packer \in {"list", "walk"} /\ packer' \in {"list", "walk", "packed"}
    BY <1>5 DEF Pack!List, Pack!Leave, Pack!Packed
  <2>. QED
    BY <1>2, <2>1
<1>6. CASE Pack!LookFails
  BY <1>1, <1>6 DEF Pack!LookFails
<1>7. CASE Pack!LookDirectory /\ ~Pack!PackFails
  <2>1. packer = "walk" /\ names # <<>> /\ Head(names) # <<>>
    BY <1>7 DEF Pack!LookDirectory, Pack!Walking
  <2>2. CASE Pack!Enter(Pack!Name)
    <3>1. Pack!Name \in Paths
      BY <2>1, AdvanceIs
    <3>. QED
      BY <1>7, <2>1, <2>2, <3>1, EnterKeepsCharge
  <2>3. CASE UNCHANGED <<packer, layer, charged>>
    BY <1>2, <2>1, <2>3
  <2>. QED
    BY <1>7, <2>2, <2>3 DEF Pack!LookDirectory
<1>. DEFINE e == charged.entries
            b == charged.bytes
<1>8. /\ e \in 0..MaxEntries /\ b \in 0..MaxBytes /\ e \in Nat /\ b \in Nat
      /\ MaxEntries \in Nat \ {0} /\ MaxBytes \in Nat
      /\ charged = [entries |-> e, bytes |-> b]
      /\ Len(layer) \in Nat /\ Weight(layer) \in Nat /\ opened.expected \in Nat
  BY ChargedIs
<1>9. CASE Pack!LookFile /\ ~Pack!PackFails
  <2>1. /\ packer = "walk" /\ packer' = "open" /\ layer' = layer
        /\ charged' = [charged EXCEPT !.entries = @ + 1] /\ ~(e + 1 > MaxEntries)
    BY <1>9 DEF Pack!LookFile, Pack!Walking, Pack!OverEntries
  <2>2. Len(layer) = e /\ Weight(layer) = b
    BY <1>8, <2>1 DEF PackCharge
  <2>3. charged' = [entries |-> e + 1, bytes |-> b] /\ e + 1 \in 0..MaxEntries
    BY <1>8, <2>1
  <2>4. Weight(layer)' = Weight(layer)
    BY <2>1
  <2>. QED
    BY <1>8, <2>1, <2>2, <2>3, <2>4 DEF PackCharge
<1>10. CASE Pack!Open /\ ~Pack!PackFails
  <2>1. /\ packer = "open" /\ packer' = "read" /\ layer' = layer
        /\ opened' = Pack!Handle(Pack!Name, tree[Pack!Name], tree[Pack!Name].length)
        /\ charged' = [charged EXCEPT !.bytes = @ + tree[Pack!Name].length]
        /\ ~(b + tree[Pack!Name].length > MaxBytes)
    BY <1>10 DEF Pack!Open
  <2>. DEFINE m == tree[Pack!Name].length
  <2>2. m \in Nat
    BY <2>1, AdvanceIs, NodesAre DEF PackTypes
  <2>3. opened'.expected = m
    BY <2>1 DEF Pack!Handle
  <2>. HIDE DEF m
  <2>4. Len(layer) + 1 = e /\ Weight(layer) = b
    BY <1>8, <2>1 DEF PackCharge
  <2>5. charged' = [entries |-> e, bytes |-> b + m] /\ b + m \in 0..MaxBytes
    BY <1>8, <2>1, <2>2 DEF m
  <2>6. Weight(layer)' = Weight(layer)
    BY <2>1
  <2>. QED
    BY <1>8, <2>1, <2>2, <2>3, <2>4, <2>5, <2>6 DEF PackCharge
<1>11. CASE Pack!Read /\ ~Pack!PackFails
  <2>1. /\ packer = "read" /\ packer' = "walk" /\ charged' = charged
        /\ layer' = Append(layer, Pack!Entry(Pack!Name, opened.node))
        /\ opened.node.length = opened.expected
    BY <1>11 DEF Pack!Read
  <2>2. Pack!Name \in Paths /\ opened.node \in Nodes
    BY <2>1, AdvanceIs DEF PackTypes, Handles
  <2>3. Len(layer') = Len(layer) + 1 /\ Weight(layer)' = Weight(layer) + opened.node.length
    BY <2>1, <2>2, LayerGrows
  <2>4. Len(layer) + 1 = e /\ Weight(layer) + opened.expected = b
    BY <1>8, <2>1 DEF PackCharge
  <2>. QED
    BY <1>8, <2>1, <2>3, <2>4 DEF PackCharge
<1>. QED
  BY <1>1, <1>3, <1>4, <1>5, <1>6, <1>7, <1>9, <1>10, <1>11 DEF Pack!PackStep

-----------------------------------------------------------------------------
(***************************************************************************)
(* The layer of a directory that nobody edits: what is to be packed is     *)
(* written, or in a name that is still to come, or below the directory     *)
(* that is listed next.                                                    *)
(***************************************************************************)
\* While nobody edits it, what the directory has is written or still to come.
Unedited == phase = "packing" /\ ~edited /\ packer # "failed"

Covered(p) ==
  \/ \E i \in 1..Len(layer) : layer[i].path = p
  \/ Walks /\ \E n \in Paths : In(Rest, n) /\ IsPrefix(n, p)
  \/ packer = "list" /\ IsStrictPrefix(LastPath, p)

AsInTree == \A i \in 1..Len(layer) :
  layer[i].path \in Pack!Taken /\ layer[i].node = tree[layer[i].path]

PackWhole ==
  /\ phase = "packing" /\ packer = "start" => ~edited
  /\ Unedited =>
       /\ tree \in Trees
       /\ AsInTree
       /\ Walks => \A n \in Paths : In(Rest, n) => tree[n] # Absent
       /\ packer = "read" => opened.node = tree[Pack!Name] /\ opened.node.kind = "file"
       /\ packer # "start" => \A p \in Pack!Taken : Covered(p)

PackInv == PackOrder /\ PackCharge /\ PackWhole

\* What is to be packed: all there is, but not what version control keeps.
LEMMA TakenIs ==
  /\ Pack!Skipped \in SUBSET (Paths \ {<<>>})
  /\ \A v \in Pack!Skipped : tree[v] = Directory /\ v \in VcsPaths /\ ~IncludeVcs
  /\ \A v \in VcsPaths : ~IncludeVcs /\ tree[v] = Directory => v \in Pack!Skipped
  /\ \A p : p \in Pack!Taken <=>
       p \in Paths /\ tree[p] # Absent /\ \A v \in Pack!Skipped : ~IsPrefix(v, p)
<1>1. VcsPaths \subseteq Paths \ {<<>>}
  BY SourceTreeAssumption
<1>2. Pack!Directory = Directory /\ Pack!Absent = Absent
  BY NodesAre
<1>3. \A v, p : Pack!IsPrefix(v, p) <=> IsPrefix(v, p)
  BY DEF Pack!IsPrefix, IsPrefix
<1>. QED
  BY <1>1, <1>2, <1>3 DEF Pack!Skipped, Pack!Taken

\* Whatever is there is in directories.
LEMMA AncestorIs ==
  ASSUME tree \in Trees, NEW p \in Paths, tree[p] # Absent, NEW m \in 0..(Len(p) - 1)
  PROVE  SubSeq(p, 1, m) \in Paths /\ tree[SubSeq(p, 1, m)] = Directory
<1>. DEFINE Good(k) == SubSeq(p, 1, k) \in Paths /\ tree[SubSeq(p, 1, k)] = Directory
            T == {k \in Nat : k \in 1..Len(p) /\ ~Good(Len(p) - k)}
<1>1. p \in Seq(Nat) /\ Len(p) \in Nat
  BY SourceTreeAssumption
<1>2. \A q \in Paths :
        q # <<>> /\ tree[q] # Absent => Front(q) \in Paths /\ tree[Front(q)] = Directory
  BY SourceTreeAssumption DEF Trees
<1>3. \A k \in 1..Len(p) : SubSeq(p, 1, k) # <<>> /\ Front(SubSeq(p, 1, k)) = SubSeq(p, 1, k - 1)
  <2>1. ASSUME NEW k \in 1..Len(p)
        PROVE  SubSeq(p, 1, k) # <<>> /\ Front(SubSeq(p, 1, k)) = SubSeq(p, 1, k - 1)
    <3>. DEFINE q == SubSeq(p, 1, k)
                r == SubSeq(p, 1, k - 1)
    <3>1. /\ q \in Seq(Nat) /\ Len(q) = k /\ \A i \in 1..k : q[i] = p[i]
          /\ r \in Seq(Nat) /\ Len(r) = k - 1 /\ \A i \in 1..(k - 1) : r[i] = p[i]
          /\ k \in Nat /\ k >= 1
      BY <1>1
    <3>. HIDE DEF q, r
    <3>2. q # <<>>
      BY <3>1
    <3>3. /\ Front(q) \in Seq(Nat) /\ Len(Front(q)) = k - 1
          /\ \A i \in 1..(k - 1) : Front(q)[i] = q[i]
      BY <3>1, <3>2, FrontIs
    <3>4. Agree(Front(q), r, Len(r))
      <4>1. ASSUME NEW i \in 1..(k - 1) PROVE Front(q)[i] = r[i]
        <5>1. i \in 1..k
          BY <3>1
        <5>. QED
          BY <3>1, <3>3, <5>1
      <4>. QED
        BY <3>1, <4>1 DEF Agree
    <3>5. Front(q) = r
      BY <3>1, <3>3, <3>4, SameIs
    <3>. QED
      BY <3>2, <3>5 DEF q, r
  <2>. QED
    BY <2>1
<1>4. SubSeq(p, 1, Len(p)) = p
  BY <1>1
<1>5. Absent # Directory
  BY SameNodes
<1>6. T = {}
  <2>1. SUFFICES ASSUME T # {} PROVE FALSE
    OBVIOUS
  <2>2. PICK k \in T : \A j \in T : k <= j
    BY <2>1, Least
  <2>. DEFINE q == SubSeq(p, 1, Len(p) - k + 1)
  <2>3. k \in 1..Len(p) /\ ~Good(Len(p) - k)
    BY <2>2
  <2>4. q \in Paths /\ tree[q] # Absent
    <3>1. CASE k = 1
      <4>1. Len(p) - k + 1 = Len(p)
        BY <1>1, <3>1
      <4>2. q = p
        BY <1>4, <4>1
      <4>. QED
        BY <4>2
    <3>2. CASE k # 1
      <4>1. /\ k - 1 \in Nat /\ k - 1 \in 1..Len(p) /\ ~(k <= k - 1)
            /\ Len(p) - (k - 1) = Len(p) - k + 1
        BY <1>1, <2>3, <3>2
      <4>2. k - 1 \notin T
        BY <2>2, <4>1
      <4>3. Good(Len(p) - (k - 1))
        BY <4>1, <4>2
      <4>. QED
        BY <1>5, <4>1, <4>3
    <3>. QED
      BY <3>1, <3>2
  <2>5. Len(p) - k + 1 \in 1..Len(p) /\ (Len(p) - k + 1) - 1 = Len(p) - k
    BY <1>1, <2>3
  <2>6. q # <<>> /\ Front(q) = SubSeq(p, 1, Len(p) - k)
    BY <1>3, <2>5
  <2>. QED
    BY <1>2, <2>3, <2>4, <2>6
<1>7. Len(p) - m \in Nat /\ Len(p) - m \in 1..Len(p) /\ Len(p) - (Len(p) - m) = m
  BY <1>1
<1>. QED
  BY <1>6, <1>7

\* The name below d on the way to p.
LEMMA StepBelow ==
  ASSUME tree \in Trees, NEW p \in Paths, tree[p] # Absent, NEW d \in Paths, IsStrictPrefix(d, p)
  PROVE  /\ tree[d] = Directory
         /\ \E c \in Paths \ {<<>>} : Front(c) = d /\ tree[c] # Absent /\ IsPrefix(c, p)
<1>1. p \in Seq(Nat) /\ d \in Seq(Nat) /\ Len(p) \in Nat /\ Len(d) \in Nat
  BY SourceTreeAssumption
<1>2. Len(d) < Len(p) /\ Agree(d, p, Len(d))
  BY <1>1, PrefixIs
<1>. DEFINE m == Len(d) + 1
            c == SubSeq(p, 1, m)
            e == SubSeq(p, 1, Len(d))
<1>3. /\ c \in Seq(Nat) /\ Len(c) = m /\ \A i \in 1..m : c[i] = p[i]
      /\ e \in Seq(Nat) /\ Len(e) = Len(d) /\ \A i \in 1..Len(d) : e[i] = p[i]
  BY <1>1, <1>2
<1>4. tree[e] = Directory
  BY <1>1, <1>2, AncestorIs
<1>5. c \in Paths /\ tree[c] # Absent
  <2>1. CASE m = Len(p)
    <3>1. c = p
      BY <1>1, <2>1
    <3>. QED
      BY <3>1
  <2>2. CASE m # Len(p)
    <3>1. m \in 0..(Len(p) - 1)
      BY <1>1, <1>2, <2>2
    <3>. HIDE DEF m
    <3>. QED
      BY <3>1, AncestorIs, SameNodes
  <2>. QED
    BY <2>1, <2>2
<1>. HIDE DEF c, e
<1>6. e = d
  BY <1>1, <1>2, <1>3, SameIs DEF Agree
<1>7. c # <<>> /\ Len(Front(c)) = Len(d) /\ Front(c) \in Seq(Nat)
      /\ \A i \in 1..Len(d) : Front(c)[i] = c[i]
  <2>1. c # <<>> /\ Len(c) - 1 = Len(d)
    BY <1>1, <1>3
  <2>2. /\ Front(c) \in Seq(Nat) /\ Len(Front(c)) = Len(c) - 1
        /\ \A i \in 1..(Len(c) - 1) : Front(c)[i] = c[i]
    BY <1>3, <2>1, FrontIs
  <2>. QED
    BY <2>1, <2>2
<1>8. Front(c) = d
  <2>1. \A i \in 1..Len(d) : i \in 1..m
    BY <1>1
  <2>2. Agree(Front(c), d, Len(d))
    BY <1>2, <1>3, <1>7, <2>1 DEF Agree
  <2>. QED
    BY <1>1, <1>7, <2>2, SameIs
<1>9. IsPrefix(c, p)
  <2>1. Agree(c, p, Len(c)) /\ Len(c) <= Len(p)
    BY <1>1, <1>2, <1>3 DEF Agree
  <2>. QED
    BY <1>1, <1>3, <2>1, PrefixIs
<1>. QED
  BY <1>4, <1>5, <1>6, <1>7, <1>8, <1>9

\* What lies in a directory that is packed is packed, unless it is left out itself.
LEMMA TakenBelow ==
  ASSUME NEW p \in Paths, p # <<>>, Front(p) \in Pack!Taken, tree[p] # Absent, p \notin Pack!Skipped
  PROVE  p \in Pack!Taken
<1>1. ASSUME NEW v \in Pack!Skipped, IsPrefix(v, p) PROVE FALSE
  <2>1. v \in Seq(Nat) /\ p \in Seq(Nat) /\ v # p
    BY TakenIs, SourceTreeAssumption
  <2>2. /\ Front(p) \in Seq(Nat) /\ Len(Front(p)) = Len(p) - 1 /\ Len(p) \in Nat \ {0}
        /\ \A i \in 1..(Len(p) - 1) : Front(p)[i] = p[i]
    BY <2>1, FrontIs
  <2>3. Len(v) <= Len(p) /\ Agree(v, p, Len(v)) /\ Len(v) \in Nat
    BY <1>1, <2>1, PrefixIs
  <2>4. Len(v) # Len(p)
    BY <2>1, <2>3, SameIs
  <2>5. Len(v) <= Len(p) - 1 /\ Agree(v, Front(p), Len(v))
    BY <2>2, <2>3, <2>4 DEF Agree
  <2>6. IsPrefix(v, Front(p))
    BY <2>1, <2>2, <2>5, PrefixIs
  <2>. QED
    BY <2>6, TakenIs
<1>. QED
  BY <1>1, TakenIs

LEMMA RootIsTaken == ASSUME tree \in Trees PROVE <<>> \in Pack!Taken
<1>1. ASSUME NEW v \in Pack!Skipped, IsPrefix(v, <<>>) PROVE FALSE
  <2>1. v \in Seq(Nat) /\ v # <<>> /\ <<>> \in Seq(Nat)
    BY TakenIs, SourceTreeAssumption
  <2>2. Len(v) <= Len(<<>>) /\ Len(<<>>) = 0 /\ Len(v) \in Nat
    <3>1. IsPrefix(v, <<>>) => Len(v) <= Len(<<>>)
      BY DEF IsPrefix
    <3>. QED
      BY <1>1, <2>1, <3>1
  <2>. QED
    BY <2>1, <2>2
<1>. QED
  BY <1>1, TakenIs, SourceTreeAssumption, SameNodes DEF Trees

LEMMA SameTaken ==
  ASSUME tree' = tree PROVE Pack!Taken' = Pack!Taken
  BY DEF Pack!Taken, Pack!Skipped

\* An entry for what there is keeps the layer a part of the tree.
LEMMA WrittenIsInTree ==
  ASSUME PackTypes, AsInTree, NEW p \in Paths, p \in Pack!Taken, NEW node, node = tree[p],
         layer' = Append(layer, Pack!Entry(p, node)), tree' = tree
  PROVE  /\ AsInTree'
         /\ \A q \in Paths : (\E i \in 1..Len(layer') : layer'[i].path = q)
              <=> q = p \/ \E i \in 1..Len(layer) : layer[i].path = q
<1>1. layer \in Seq(Entries)
  BY DEF PackTypes
<1>. DEFINE e == Pack!Entry(p, node)
            n == Len(layer)
<1>2. e.path = p /\ e.node = tree[p]
  BY DEF Pack!Entry
<1>3. /\ n \in Nat /\ Len(layer') = n + 1 /\ layer'[n + 1] = e
      /\ \A i \in 1..n : layer'[i] = layer[i] /\ i \in 1..(n + 1)
  BY <1>1
<1>4. Pack!Taken' = Pack!Taken
  BY SameTaken
<1>. HIDE DEF e
<1>5. \A i \in 1..(n + 1) : i \in 1..n \/ i = n + 1
  BY <1>3
<1>6. n + 1 \in 1..(n + 1)
  BY <1>3
<1>7. AsInTree'
  BY <1>2, <1>3, <1>4, <1>5 DEF AsInTree
<1>8. ASSUME NEW q
      PROVE  (\E i \in 1..(n + 1) : layer'[i].path = q)
               <=> q = p \/ \E i \in 1..n : layer[i].path = q
  BY <1>2, <1>3, <1>5, <1>6
<1>. QED
  BY <1>3, <1>7, <1>8

\* The next name is not below a version control directory that is left out.
LEMMA NameIsTaken ==
  ASSUME PackTypes, PackOrder, Unedited, PackWhole, packer \in {"walk", "open", "read"},
         names # <<>>, Head(names) # <<>>, Pack!Name \notin Pack!Skipped
  PROVE  Pack!Name \in Pack!Taken
<1>1. names \in Listings /\ Rest = names /\ Listed(names) /\ Follows(layer, names)
  BY DEF PackTypes, Listings, Rest, PackOrder, Walks
<1>2. Pack!Name \in Paths /\ In(names, Pack!Name)
  BY <1>1, AdvanceOrder
<1>3. /\ Pack!Name # <<>>
      /\ \E j \in 1..Len(layer) : layer[j] = Pack!Entry(Front(Pack!Name), Directory)
  BY <1>1, <1>2 DEF Follows
<1>4. PICK j \in 1..Len(layer) : layer[j] = Pack!Entry(Front(Pack!Name), Directory)
  BY <1>3
<1>5. layer[j].path = Front(Pack!Name) /\ layer[j].path \in Pack!Taken
  BY <1>4, EntryIs DEF PackWhole, AsInTree
<1>6. tree[Pack!Name] # Absent
  BY <1>1, <1>2 DEF PackWhole, Walks
<1>. QED
  BY <1>2, <1>3, <1>5, <1>6, TakenBelow

LEMMA EnterKeepsWhole ==
  ASSUME PackTypes, PackOrder, PackWhole, UNCHANGED <<phase, edited>>,
         NEW p \in Paths, Pack!Enter(p), ~Pack!PackFails,
         \/ p = <<>> /\ packer = "start"
         \/ /\ p = Pack!Name /\ packer = "walk" /\ names # <<>> /\ Head(names) # <<>>
            /\ tree[p] = Directory /\ (p \notin VcsPaths \/ IncludeVcs)
  PROVE  PackWhole'
<1>1. /\ layer' = Append(layer, Pack!Entry(p, Directory)) /\ packer' = "list"
      /\ names' = names /\ tree' = tree
  BY NodesAre DEF Pack!Enter
<1>2. SUFFICES ASSUME Unedited PROVE PackWhole'
  BY <1>1 DEF PackWhole, Unedited
<1>3. tree \in Trees /\ AsInTree /\ names \in Listings /\ layer \in Seq(Entries)
  BY <1>2 DEF PackWhole, PackTypes, Listings
<1>4. p \in Pack!Taken /\ tree[p] = Directory
  <2>1. CASE packer = "start"
    BY <1>3, <2>1, RootIsTaken DEF Trees
  <2>2. CASE packer = "walk"
    <3>1. p \notin Pack!Skipped
      BY <2>2, TakenIs
    <3>. QED
      BY <1>2, <2>2, <3>1, NameIsTaken
  <2>. QED
    BY <2>1, <2>2
<1>5. /\ AsInTree'
      /\ \A q \in Paths : (\E i \in 1..Len(layer') : layer'[i].path = q)
           <=> q = p \/ \E i \in 1..Len(layer) : layer[i].path = q
  BY <1>1, <1>3, <1>4, WrittenIsInTree
<1>6. LastPath' = p
  <2>1. Len(layer') = Len(layer) + 1 /\ layer'[Len(layer) + 1] = Pack!Entry(p, Directory)
    BY <1>1, <1>3
  <2>. QED
    BY <2>1, EntryIs DEF LastPath
<1>7. Pack!Taken' = Pack!Taken /\ \A q : q \in Pack!Taken => q \in Paths /\ tree[q] # Absent
  BY <1>1, SameTaken, TakenIs
<1>8. CASE packer = "start"
  <2>1. p = <<>> /\ names = <<>> /\ layer = <<>>
    BY <1>8 DEF PackTypes, PackOrder
  <2>2. Rest' = <<>> /\ \A n : ~In(<<>>, n)
    BY <1>1, <2>1 DEF Rest, In
  <2>3. ASSUME NEW q \in Paths PROVE Covered(q)'
    <3>1. CASE q = <<>>
      BY <1>5, <2>1, <3>1 DEF Covered
    <3>2. CASE q # <<>>
      <4>1. q \in Seq(Nat) /\ <<>> \in Seq(Nat)
        BY SourceTreeAssumption
      <4>2. Len(<<>>) < Len(q) /\ Agree(<<>>, q, Len(<<>>))
        BY <3>2, <4>1 DEF Agree
      <4>3. IsStrictPrefix(<<>>, q)
        BY <4>1, <4>2, PrefixIs
      <4>. QED
        BY <1>1, <1>6, <2>1, <4>3 DEF Covered
    <3>. QED
      BY <3>1, <3>2
  <2>. QED
    BY <1>1, <1>3, <1>5, <1>7, <2>2, <2>3 DEF PackWhole, Unedited
<1>9. CASE packer = "walk"
  <2>1. /\ p = Pack!Name /\ names # <<>> /\ Head(names) # <<>> /\ Rest = names
        /\ layer # <<>> /\ Listed(names)
    BY <1>9 DEF PackOrder, Walks, Rest
  <2>2. Rest' = Pack!Advance
    BY <1>1, <2>1 DEF Rest, Pack!Advance
  <2>3. \A n : In(names, n) <=> n = p \/ In(Pack!Advance, n)
    BY <1>3, <2>1, AdvanceOrder
  <2>4. \A n \in Paths : In(names, n) => tree[n] # Absent
    BY <1>2, <1>9, <2>1 DEF PackWhole, Walks
  <2>5. ASSUME NEW q \in Pack!Taken PROVE Covered(q)'
    <3>1. q \in Paths /\ Covered(q)
      BY <1>2, <1>7, <1>9 DEF PackWhole
    <3>2. CASE \E i \in 1..Len(layer) : layer[i].path = q
      BY <1>5, <3>1, <3>2 DEF Covered
    <3>3. CASE \E n \in Paths : In(names, n) /\ IsPrefix(n, q)
      <4>1. PICK n \in Paths : In(names, n) /\ IsPrefix(n, q)
        BY <3>3
      <4>2. CASE In(Pack!Advance, n)
        BY <1>1, <2>2, <4>1, <4>2 DEF Covered, Walks
      <4>3. CASE n = p /\ q = p
        BY <1>5, <3>1, <4>3 DEF Covered
      <4>4. CASE n = p /\ q # p
        <5>1. IsStrictPrefix(p, q)
          BY <4>1, <4>4 DEF IsStrictPrefix
        <5>. QED
          BY <1>1, <1>6, <5>1 DEF Covered
      <4>. QED
        BY <2>3, <4>1, <4>2, <4>3, <4>4
    <3>. QED
      BY <1>9, <2>1, <3>1, <3>2, <3>3 DEF Covered
  <2>. QED
    BY <1>1, <1>3, <1>5, <1>7, <2>2, <2>3, <2>4, <2>5 DEF PackWhole, Unedited
<1>. QED
  BY <1>8, <1>9

LEMMA ListKeepsWhole ==
  ASSUME PackTypes, PackOrder, PackWhole, UNCHANGED <<phase, edited>>, Pack!List, ~Pack!PackFails
  PROVE  PackWhole'
<1>. DEFINE d == LastPath
            l == InOrder(Pack!Children(d))
<1>1. /\ packer = "list" /\ layer # <<>> /\ layer \in Seq(Entries)
      /\ d = IF names = <<>> THEN <<>> ELSE Pack!Name
  BY DEF PackOrder, Walks, Pack!List, PackTypes
<1>2. /\ names' = <<l>> \o Rest /\ packer' = "walk" /\ layer' = layer /\ tree' = tree
  BY <1>1, SameInOrder DEF Pack!List, Rest
<1>3. SUFFICES ASSUME Unedited PROVE PackWhole'
  BY <1>1, <1>2 DEF PackWhole, Unedited
<1>4. tree \in Trees /\ AsInTree
  BY <1>3 DEF PackWhole
<1>5. Rest \in Listings /\ d \in Paths
  <2>1. Rest \in Listings
    BY <1>1, AdvanceIs DEF Rest, Listings, PackTypes
  <2>2. Len(layer) \in 1..Len(layer)
    BY <1>1
  <2>3. layer[Len(layer)] \in Entries
    BY <1>1, <2>2
  <2>. QED
    BY <2>1, <2>3 DEF LastPath, Entries
<1>6. \A c : c \in Pack!Children(d) <=> c \in Paths \ {<<>>} /\ Front(c) = d /\ tree[c] # Absent
  BY NodesAre DEF Pack!Children, Pack!Front, Front
<1>7. /\ l \in Seq(Pack!Children(d)) /\ \A c \in Pack!Children(d) : \E i \in 1..Len(l) : l[i] = c
  BY <1>6, InOrderIs
<1>8. l \in Seq(Paths) /\ \A i \in 1..Len(l) : l[i] \in Pack!Children(d)
  BY <1>6, <1>7
<1>. HIDE DEF l
<1>9. Rest' = names' /\ \A n : In(names', n) <=> In(Rest, n) \/ \E i \in 1..Len(l) : l[i] = n
  BY <1>2, <1>5, <1>8, InPush DEF Rest
<1>10. \A n \in Paths : In(names', n) => tree[n] # Absent
  BY <1>1, <1>3, <1>6, <1>8, <1>9 DEF PackWhole, Walks
<1>11. Pack!Taken' = Pack!Taken /\ \A q : q \in Pack!Taken => q \in Paths /\ tree[q] # Absent
  BY <1>2, SameTaken, TakenIs
<1>12. ASSUME NEW q \in Pack!Taken PROVE Covered(q)'
  <2>1. q \in Paths /\ tree[q] # Absent /\ Covered(q)
    BY <1>1, <1>3, <1>11 DEF PackWhole
  <2>2. CASE \E i \in 1..Len(layer) : layer[i].path = q
    BY <1>2, <2>2 DEF Covered
  <2>3. CASE \E n \in Paths : In(Rest, n) /\ IsPrefix(n, q)
    BY <1>2, <1>9, <2>3 DEF Covered, Walks
  <2>4. CASE IsStrictPrefix(d, q)
    <3>1. PICK c \in Paths \ {<<>>} : Front(c) = d /\ tree[c] # Absent /\ IsPrefix(c, q)
      BY <1>4, <1>5, <2>1, <2>4, StepBelow
    <3>2. In(names', c)
      BY <1>6, <1>7, <1>9, <3>1
    <3>. QED
      BY <1>2, <1>9, <3>1, <3>2 DEF Covered, Walks
  <2>. QED
    BY <2>1, <2>2, <2>3, <2>4 DEF Covered
<1>13. AsInTree'
  BY <1>2, <1>4, <1>11 DEF AsInTree
<1>. QED
  BY <1>2, <1>4, <1>9, <1>10, <1>11, <1>12, <1>13 DEF PackWhole, Unedited

LEMMA GenerateKeepsWhole ==
  ASSUME tree \in [Paths -> Nodes], tree[<<>>] = Directory, PackWhole,
         UNCHANGED <<phase, edited>>, Pack!Generate, ~Pack!PackFails
  PROVE  PackWhole'
<1>. DEFINE G == Pack!Generated
            order == <<<<>>>> \o InOrder(G)
            n == Len(order)
<1>1. /\ G \in SUBSET Paths /\ \A p \in G : p # <<>> /\ Len(p) = 1 /\ tree[p].kind = "file"
      /\ order \in Seq(Paths) /\ n = Cardinality(G) + 1 /\ order[1] = <<>>
      /\ \A i \in 2..n : order[i] \in G
      /\ \A p \in G : \E i \in 2..n : order[i] = p
      /\ Len(layer') = n
      /\ \A i \in 1..n : layer'[i] = Pack!Entry(order[i], tree[order[i]])
  BY GeneratedIs
<1>2. packer = "start" /\ packer' = "packed" /\ tree' = tree
  BY DEF Pack!Generate
<1>3. \A p : p \in G <=> p \in Paths \ {<<>>} /\ tree[p] # Absent
  BY NodesAre DEF Pack!Generated
<1>. HIDE DEF order, G
<1>4. SUFFICES ASSUME Unedited PROVE PackWhole'
  BY <1>2 DEF PackWhole, Unedited
<1>5. tree \in Trees
  BY <1>4 DEF PackWhole
<1>6. n \in Nat /\ n >= 1 /\ 1 \in 1..n /\ \A i \in 2..n : i \in 1..n
  <2>1. n \in Nat /\ n # 0
    <3>1. Cardinality(G) \in Nat
      BY <1>1, SourceTreeAssumption, FS_Subset, FS_CardinalityType
    <3>. QED
      BY <1>1, <3>1
  <2>. HIDE DEF n
  <2>. QED
    BY <2>1
<1>7. \A i \in 1..n : layer'[i].path = order[i] /\ layer'[i].node = tree[order[i]]
  BY <1>1, EntryIs
<1>8. Directory # Absent /\ Directory.kind # "file" /\ Absent.kind # "file"
  BY DEF Directory, Absent, Node
<1>9. \A v : v \notin Pack!Skipped
  <2>1. ASSUME NEW v \in Pack!Skipped PROVE FALSE
    <3>1. v \in Paths \ {<<>>} /\ tree[v] = Directory
      BY TakenIs
    <3>. QED
      BY <1>1, <1>3, <1>8, <3>1
  <2>. QED
    BY <2>1
<1>10. \A p : p \in Pack!Taken <=> p = <<>> \/ p \in G
  BY <1>3, <1>8, <1>9, TakenIs, SourceTreeAssumption
<1>11. \A i \in 1..n : order[i] \in Pack!Taken
  <2>1. \A i \in 1..n : i = 1 \/ i \in 2..n
    BY <1>6
  <2>. QED
    BY <1>1, <1>10, <2>1
<1>12. Pack!Taken' = Pack!Taken
  BY <1>2, SameTaken
<1>13. AsInTree'
  BY <1>1, <1>2, <1>7, <1>11, <1>12 DEF AsInTree
<1>14. \A p \in Pack!Taken : \E i \in 1..Len(layer') : layer'[i].path = p
  BY <1>1, <1>6, <1>7, <1>10
<1>. QED
  BY <1>2, <1>5, <1>12, <1>13, <1>14 DEF PackWhole, Unedited, Covered, Walks

LEMMA ReadKeepsWhole ==
  ASSUME PackTypes, PackOrder, PackWhole, UNCHANGED <<phase, edited>>, Pack!Read, ~Pack!PackFails
  PROVE  PackWhole'
<1>. DEFINE p == Pack!Name
<1>1. /\ packer = "read" /\ packer' = "walk" /\ names' = Pack!Advance /\ tree' = tree
      /\ layer' = Append(layer, Pack!Entry(p, opened.node))
  BY DEF Pack!Read
<1>2. SUFFICES ASSUME Unedited PROVE PackWhole'
  BY <1>1 DEF PackWhole, Unedited
<1>3. /\ tree \in Trees /\ AsInTree /\ names \in Listings /\ names # <<>> /\ Head(names) # <<>>
      /\ opened.node = tree[p] /\ opened.node.kind = "file" /\ opened.node \in Nodes
      /\ Rest = names /\ Listed(names) /\ Rest' = Pack!Advance
      /\ \A n \in Paths : In(names, n) => tree[n] # Absent
  BY <1>1, <1>2 DEF PackWhole, PackTypes, Listings, Handles, Rest, PackOrder, Walks
<1>4. p \in Paths /\ \A n : In(names, n) <=> n = p \/ In(Pack!Advance, n)
  BY <1>3, AdvanceOrder
<1>5. tree[p] # Directory
  BY <1>3 DEF Directory, Node
<1>6. p \in Pack!Taken
  <2>1. p \notin Pack!Skipped
    BY <1>5, TakenIs
  <2>. QED
    BY <1>1, <1>2, <1>3, <2>1, NameIsTaken
<1>7. /\ AsInTree'
      /\ \A q \in Paths : (\E i \in 1..Len(layer') : layer'[i].path = q)
           <=> q = p \/ \E i \in 1..Len(layer) : layer[i].path = q
  BY <1>1, <1>3, <1>4, <1>6, WrittenIsInTree
<1>8. Pack!Taken' = Pack!Taken /\ \A q : q \in Pack!Taken => q \in Paths /\ tree[q] # Absent
  BY <1>1, SameTaken, TakenIs
<1>. HIDE DEF p
<1>9. ASSUME NEW q \in Pack!Taken PROVE Covered(q)'
  <2>1. q \in Paths /\ tree[q] # Absent /\ Covered(q)
    BY <1>1, <1>2, <1>8 DEF PackWhole
  <2>2. CASE \E i \in 1..Len(layer) : layer[i].path = q
    BY <1>7, <2>1, <2>2 DEF Covered
  <2>3. CASE \E n \in Paths : In(names, n) /\ IsPrefix(n, q)
    <3>1. PICK n \in Paths : In(names, n) /\ IsPrefix(n, q)
      BY <2>3
    <3>2. CASE In(Pack!Advance, n)
      BY <1>1, <1>3, <3>1, <3>2 DEF Covered, Walks
    <3>3. CASE n = p /\ q = p
      BY <1>7, <2>1, <3>3 DEF Covered
    <3>4. CASE n = p /\ q # p
      <4>1. IsStrictPrefix(p, q)
        BY <3>1, <3>4 DEF IsStrictPrefix
      <4>2. tree[p] = Directory
        BY <1>3, <1>4, <2>1, <4>1, StepBelow
      <4>. QED
        BY <1>5, <4>2
    <3>. QED
      BY <1>4, <3>1, <3>2, <3>3, <3>4
  <2>. QED
    BY <1>1, <1>3, <2>1, <2>2, <2>3 DEF Covered
<1>. QED
  BY <1>1, <1>3, <1>4, <1>7, <1>8, <1>9 DEF PackWhole, Unedited

\* No step of the client forgets a name or takes one too many.
LEMMA PackKeepsWhole ==
  ASSUME tree \in [Paths -> Nodes], packer = "start" => tree[<<>>] = Directory,
         PackTypes, PackOrder, PackWhole, UNCHANGED <<phase, edited>>, Pack!PackStep
  PROVE  PackWhole'
<1>1. CASE Pack!PackFails
  BY <1>1 DEF Pack!PackFails, PackWhole, Unedited
<1>2. names \in Listings
  BY DEF PackTypes, Listings
<1>3. CASE Pack!Start /\ ~Pack!PackFails
  <2>1. Pack!Enter(<<>>) /\ packer = "start" /\ <<>> \in Paths
    BY <1>3, SourceTreeAssumption DEF Pack!Start
  <2>. QED
    BY <1>3, <2>1, EnterKeepsWhole
<1>4. CASE Pack!Generate /\ ~Pack!PackFails
  <2>1. packer = "start"
    BY <1>4 DEF Pack!Generate
  <2>. QED
    BY <1>4, <2>1, GenerateKeepsWhole
<1>5. CASE Pack!List /\ ~Pack!PackFails
  BY <1>5, ListKeepsWhole
<1>6. ASSUME packer \in {"walk", "open"}, packer' \in {"walk", "open", "read", "packed"},
             UNCHANGED <<tree, layer>>,
             packer' = "packed" => names = <<>>,
             packer' # "packed" => \A n \in Paths : In(names', n) => In(names, n),
             packer' # "packed" => \A q \in Pack!Taken, n \in Paths :
               In(names, n) /\ IsPrefix(n, q) => In(names', n),
             packer' = "read" => opened'.node = tree[Pack!Name'] /\ opened'.node.kind = "file"
      PROVE  PackWhole'
  <2>1. SUFFICES ASSUME Unedited PROVE PackWhole'
    BY <1>6 DEF PackWhole, Unedited
  <2>2. Rest = names /\ (packer' # "packed" => Rest' = names')
    BY <1>6 DEF Rest
  <2>3. Pack!Taken' = Pack!Taken
    BY <1>6, SameTaken
  <2>4. /\ tree \in Trees /\ AsInTree /\ \A q \in Pack!Taken : Covered(q)
        /\ \A n \in Paths : In(names, n) => tree[n] # Absent
    BY <1>6, <2>1, <2>2 DEF PackWhole, Walks
  <2>5. AsInTree'
    BY <1>6, <2>3, <2>4 DEF AsInTree
  <2>6. ASSUME NEW q \in Pack!Taken PROVE Covered(q)'
    <3>1. CASE \E i \in 1..Len(layer) : layer[i].path = q
      BY <1>6, <3>1 DEF Covered
    <3>2. CASE \E n \in Paths : In(names, n) /\ IsPrefix(n, q)
      <4>1. PICK n \in Paths : In(names, n) /\ IsPrefix(n, q)
        BY <3>2
      <4>2. packer' # "packed"
        <5>1. ~In(<<>>, n)
          BY DEF In
        <5>. QED
          BY <1>6, <4>1, <5>1
      <4>. QED
        BY <1>6, <2>2, <4>1, <4>2 DEF Covered, Walks
    <3>. QED
      BY <1>6, <2>2, <2>4, <3>1, <3>2 DEF Covered
  <2>. QED
    BY <1>6, <2>2, <2>3, <2>4, <2>5, <2>6 DEF PackWhole, Unedited, Walks
<1>7. CASE Pack!Leave
  <2>1. /\ packer = "walk" /\ packer' = "walk" /\ names # <<>> /\ Head(names) = <<>>
        /\ names' = Tail(names) /\ UNCHANGED <<tree, layer>>
    BY <1>7 DEF Pack!Leave
  <2>2. Tail(names) \in Listings /\ <<>> \in Seq(Paths) /\ names = <<<<>>>> \o Tail(names)
    BY <1>2, <2>1, PopIs
  <2>3. ASSUME NEW n PROVE In(names, n) <=> In(Tail(names), n)
    <3>1. In(<<<<>>>> \o Tail(names), n)
            <=> In(Tail(names), n) \/ \E i \in 1..Len(<<>>) : <<>>[i] = n
      BY <2>2, InPush
    <3>2. 1..Len(<<>>) = {}
      OBVIOUS
    <3>. QED
      BY <2>2, <3>1, <3>2
  <2>. QED
    BY <1>6, <2>1, <2>3
<1>8. CASE Pack!LookFails
  BY <1>1, <1>8 DEF Pack!LookFails
<1>9. CASE Pack!LookDirectory /\ ~Pack!PackFails
  <2>1. /\ packer = "walk" /\ names # <<>> /\ Head(names) # <<>>
        /\ tree[Pack!Name] = Directory
    BY <1>9, NodesAre DEF Pack!LookDirectory, Pack!Walking
  <2>2. Pack!Name \in Paths
    BY <2>1, AdvanceIs
  <2>3. CASE Pack!Enter(Pack!Name) /\ ~(Pack!Name \in VcsPaths /\ ~IncludeVcs)
    BY <1>9, <2>1, <2>2, <2>3, EnterKeepsWhole
  <2>4. CASE /\ Pack!Name \in VcsPaths /\ ~IncludeVcs
             /\ names' = Pack!Advance /\ UNCHANGED <<tree, packer, opened, layer, charged>>
    <3>1. Listed(names)
      BY <2>1 DEF PackOrder, Walks, Rest
    <3>2. \A n : In(names, n) <=> n = Pack!Name \/ In(Pack!Advance, n)
      BY <1>2, <2>1, <3>1, AdvanceOrder
    <3>3. Pack!Name \in Pack!Skipped
      BY <2>1, <2>4, TakenIs
    <3>4. \A q \in Pack!Taken : ~IsPrefix(Pack!Name, q)
      BY <3>3, TakenIs
    <3>5. /\ packer' = "walk" /\ UNCHANGED <<tree, layer>>
          /\ \A n \in Paths : In(names', n) => In(names, n)
          /\ \A q \in Pack!Taken, n \in Paths : In(names, n) /\ IsPrefix(n, q) => In(names', n)
      BY <2>1, <2>4, <3>2, <3>4
    <3>. QED
      BY <1>6, <2>1, <3>5
  <2>. QED
    BY <1>9, <2>3, <2>4 DEF Pack!LookDirectory
<1>10. CASE Pack!LookFile /\ ~Pack!PackFails
  <2>1. packer = "walk" /\ packer' = "open" /\ UNCHANGED <<tree, names, layer>>
    BY <1>10 DEF Pack!LookFile, Pack!Walking
  <2>. QED
    BY <1>6, <2>1
<1>11. CASE Pack!Open /\ ~Pack!PackFails
  <2>1. /\ packer = "open" /\ packer' = "read" /\ UNCHANGED <<tree, names, layer>>
        /\ opened' = Pack!Handle(Pack!Name, tree[Pack!Name], tree[Pack!Name].length)
        /\ tree[Pack!Name].kind = "file"
    BY <1>11 DEF Pack!Open
  <2>2. Pack!Name' = Pack!Name
    BY <2>1 DEF Pack!Name
  <2>3. opened'.node = tree[Pack!Name]
    BY <2>1 DEF Pack!Handle
  <2>. QED
    BY <1>6, <2>1, <2>2, <2>3
<1>12. CASE Pack!Read /\ ~Pack!PackFails
  BY <1>12, ReadKeepsWhole
<1>13. CASE Pack!Packed
  <2>1. packer = "walk" /\ packer' = "packed" /\ names = <<>> /\ UNCHANGED <<tree, layer>>
    BY <1>13 DEF Pack!Packed
  <2>. QED
    BY <1>6, <2>1
<1>. QED
  BY <1>1, <1>3, <1>4, <1>5, <1>7, <1>8, <1>9, <1>10, <1>11, <1>12, <1>13 DEF Pack!PackStep

\* Nobody else touches what the client has written; an edit sets it free from the
\* tree.
LEMMA NextPack == ASSUME SeedTypes, PackInv, [Next]_vars PROVE PackInv'
<1>1. ASSUME UNCHANGED <<packer, names, layer, charged, opened.expected>>,
             \/ phase' # "packing"
             \/ phase = "packing" /\ phase' = "packing" /\ edited' /\ packer # "start"
      PROVE  PackInv'
  <2>1. PackOrder'
    BY <1>1 DEF PackInv, PackOrder, Walks, Rest, LastPath, Pack!Name, Pack!Advance
  <2>2. PackCharge'
    <3>1. Weight(layer)' = Weight(layer)
      BY <1>1
    <3>. QED
      BY <1>1, <3>1 DEF PackInv, PackCharge
  <2>3. PackWhole'
    BY <1>1 DEF PackInv, PackWhole, Unedited
  <2>. QED
    BY <2>1, <2>2, <2>3 DEF PackInv
<1>2. CASE Packs
  <2>1. Pack!PackStep /\ phase = "packing" /\ UNCHANGED <<phase, edited>>
    BY <1>2 DEF Packs, seedVars
  <2>2. packer = "start" => tree[<<>>] = Directory
    BY <2>1 DEF PackInv, PackWhole, Unedited, Trees
  <2>3. tree \in [Paths -> Nodes] /\ PackTypes /\ PackOrder /\ PackCharge /\ PackWhole
    BY DEF SeedTypes, PackInv
  <2>4. PackOrder' /\ PackCharge'
    BY <2>1, <2>2, <2>3, PackKeepsOrder, PackKeepsCharge
  <2>5. PackWhole'
    BY <2>1, <2>2, <2>3, PackKeepsWhole
  <2>. QED
    BY <2>4, <2>5 DEF PackInv
<1>3. CASE Unpack
  BY <1>1, <1>3 DEF Unpack, packVars
<1>4. CASE Stages \/ DeadlinePasses
  BY <1>1, <1>4 DEF Stages, DeadlinePasses, packVars, seedVars
<1>5. ASSUME NEW p \in Paths, NEW node \in Nodes, EditorWrites(p, node) \/ EditorReplaces(p, node)
      PROVE  PackInv'
  <2>1. /\ UNCHANGED <<packer, names, layer, charged, phase>> /\ edited'
        /\ phase = "packing" => packer # "start"
    BY <1>5 DEF EditorWrites, EditorReplaces, Editing
  <2>2. opened'.expected = opened.expected
    <3>1. opened \in Handles
      BY DEF SeedTypes, PackTypes
    <3>. QED
      BY <1>5, <3>1 DEF EditorWrites, EditorReplaces, SeesRewrite, SeesReplace, Handles
  <2>. QED
    BY <1>1, <2>1, <2>2
<1>6. CASE UNCHANGED vars
  <2>1. UNCHANGED <<tree, packer, names, opened, layer, charged, phase, edited>>
    BY <1>6 DEF vars, packVars, seedVars
  <2>2. Weight(layer)' = Weight(layer) /\ Pack!Taken' = Pack!Taken
    BY <2>1, SameTaken
  <2>3. PackOrder' /\ PackCharge'
    BY <2>1, <2>2 DEF PackInv, PackOrder, PackCharge, Walks, Rest, LastPath, Pack!Name, Pack!Advance
  <2>4. PackWhole'
    BY <2>1, <2>2 DEF PackInv, PackWhole, Unedited, AsInTree, Covered, Walks, Rest, LastPath,
       Pack!Name, Pack!Advance
  <2>. QED
    BY <2>3, <2>4 DEF PackInv
<1>. QED
  BY <1>2, <1>3, <1>4, <1>5, <1>6 DEF Next

LEMMA InitPack == Init => PackInv
<1>1. SUFFICES ASSUME Init PROVE PackInv
  OBVIOUS
<1>2. /\ packer = "start" /\ layer = <<>> /\ charged = [entries |-> 0, bytes |-> 0]
      /\ ~edited /\ tree \in Trees
  BY <1>1, SeedAssumption DEF Init, Pack!PackInit
<1>3. PackOrder
  BY <1>2 DEF PackOrder, Written, Walks
<1>4. PackCharge
  BY <1>2, WeightEmpty, SourceTreeAssumption DEF PackCharge
<1>5. PackWhole
  BY <1>2 DEF PackWhole, AsInTree, Walks
<1>. QED
  BY <1>3, <1>4, <1>5 DEF PackInv

\* When nothing is to come, the layer is the listing of the tree.
LEMMA PackedIs == ASSUME SeedTypes, PackInv PROVE PackedIsTree
<1>1. SUFFICES ASSUME packer = "packed", phase = "packing" PROVE PackedIsTree
  BY DEF PackedIsTree
<1>2. layer \in Seq(Entries) /\ DOMAIN layer = 1..Len(layer) /\ Len(layer) \in Nat
  BY DEF SeedTypes, PackTypes
<1>3. Written(layer)
  BY DEF PackInv, PackOrder
<1>4. Len(layer) <= MaxEntries /\ Weight(layer) <= MaxBytes
  BY <1>1, ChargedIs DEF PackInv, PackCharge, SeedTypes
<1>5. Weight(layer) = MapThenSumSet(LAMBDA i : layer[i].node.length, DOMAIN layer)
  BY DEF Weight, MapThenSumSet, MapThenFoldSet
<1>6. ASSUME ~edited PROVE layer = Pack!Listing
  <2>. DEFINE n == Len(layer)
              s == [i \in 1..n |-> layer[i].path]
              T == Pack!Taken
  <2>1. AsInTree /\ \A p \in T : \E i \in 1..n : layer[i].path = p
    BY <1>1, <1>6 DEF PackInv, PackWhole, Unedited, Covered, Walks
  <2>2. T \in SUBSET Paths
    BY TakenIs
  <2>3. s \in [1..n -> T] /\ \A i \in 1..n : s[i] = layer[i].path
    BY <2>1 DEF AsInTree
  <2>4. s \in Seq(T) /\ Len(s) = n
    <3>. HIDE DEF s, n, T
    <3>. QED
      BY <1>2, <2>3 DEF n
  <2>5. Sorted(s) /\ \A p \in T : \E i \in 1..Len(s) : s[i] = p
    BY <1>3, <2>1, <2>3, <2>4 DEF Sorted, Written
  <2>. HIDE DEF s, T
  <2>6. s = InOrder(T)
    BY <2>2, <2>4, <2>5, OrderIsUnique
  <2>7. Pack!Listing = [i \in 1..n |-> Pack!Entry(s[i], tree[s[i]])]
    BY <2>4, <2>6, SameInOrder DEF Pack!Listing, T
  <2>8. \A i \in 1..n : layer[i] = Pack!Entry(s[i], tree[s[i]])
    <3>1. ASSUME NEW i \in 1..n PROVE layer[i] = Pack!Entry(s[i], tree[s[i]])
      <4>1. layer[i] \in Entries
        BY <1>2
      <4>2. layer[i] = Pack!Entry(layer[i].path, layer[i].node)
        BY <4>1 DEF Entries, Pack!Entry
      <4>. QED
        BY <2>1, <2>3, <4>2 DEF AsInTree
    <3>. QED
      BY <3>1
  <2>9. layer = [i \in 1..n |-> layer[i]]
    BY <1>2
  <2>. QED
    BY <2>7, <2>8, <2>9
<1>. QED
  BY <1>2, <1>3, <1>4, <1>5, <1>6 DEF PackedIsTree, Written

\* Whatever is edited while it is packed, the layer is a tree within both budgets,
\* and without an edit it is the directory (pack_source).
THEOREM PackedLayerIsTree == Spec => []PackedIsTree
<1>1. Init => ScratchInv /\ WalkInv /\ SeedTypes /\ PackInv
  BY InitScratch, InitWalk, InitTypes, InitPack
<1>2. ScratchInv /\ WalkInv /\ SeedTypes /\ PackInv /\ [Next]_vars
        => ScratchInv' /\ WalkInv' /\ SeedTypes' /\ PackInv'
  <2>1. SUFFICES ASSUME ScratchInv, WalkInv, SeedTypes, PackInv, [Next]_vars
                 PROVE  ScratchInv' /\ WalkInv' /\ SeedTypes' /\ PackInv'
    OBVIOUS
  <2>2. ScratchInv'
    BY <2>1, NextScratch
  <2>3. WalkInv'
    BY <2>1, <2>2, NextWalk
  <2>. QED
    BY <2>1, <2>2, <2>3, NextTypes, NextPack
<1>3. SeedTypes /\ PackInv => PackedIsTree
  BY PackedIs
<1>. QED
  BY <1>1, <1>2, <1>3, PTL DEF Spec

-----------------------------------------------------------------------------
(***************************************************************************)
(* What the node unpacks is within its budgets, because the layer was.     *)
(***************************************************************************)
\* More at each place is more in all.
LEMMA TotalGrows ==
  ASSUME NEW S, IsFiniteSet(S), NEW f, NEW g,
         \A x \in S : f[x] \in Nat /\ g[x] \in Nat /\ f[x] <= g[x]
  PROVE  Total(f, S) <= Total(g, S)
<1>. DEFINE Wrong(n) == \E s \in SUBSET S : Cardinality(s) = n /\ ~(Total(f, s) <= Total(g, s))
            C == {n \in Nat : Wrong(n)}
<1>1. C = {}
  <2>1. SUFFICES ASSUME C # {} PROVE FALSE
    OBVIOUS
  <2>2. PICK n \in C : \A m \in C : n <= m
    BY <2>1, Least
  <2>3. PICK s \in SUBSET S : Cardinality(s) = n /\ ~(Total(f, s) <= Total(g, s))
    BY <2>2
  <2>4. IsFiniteSet(s) /\ \A x \in s : f[x] \in Nat /\ g[x] \in Nat /\ f[x] <= g[x]
    BY FS_Subset
  <2>5. CASE s = {}
    <3>1. \A x \in s : f[x] = 0 /\ g[x] = 0
      BY <2>5
    <3>2. Total(f, s) = 0 /\ Total(g, s) = 0
      BY <2>4, <3>1, TotalZero
    <3>. QED
      BY <2>3, <3>2
  <2>6. CASE s # {}
    <3>1. PICK x : x \in s
      BY <2>6
    <3>. DEFINE r == s \ {x}
    <3>2. /\ r \in SUBSET S /\ IsFiniteSet(r) /\ Cardinality(r) = n - 1 /\ n - 1 \in Nat
      BY <2>3, <2>4, <2>6, <3>1, FS_RemoveElement, FS_CardinalityType, FS_EmptySet
    <3>3. ~Wrong(n - 1)
      BY <2>2, <3>2
    <3>4. Total(f, r) <= Total(g, r)
      BY <3>2, <3>3
    <3>5. /\ Total(f, s) = f[x] + Total(f, r) /\ Total(g, s) = g[x] + Total(g, r)
      BY <2>4, <3>1, TotalSplit
    <3>6. Total(f, r) \in Nat /\ Total(g, r) \in Nat
      BY <2>4, <3>2, TotalSplit
    <3>. QED
      BY <2>3, <2>4, <3>1, <3>4, <3>5, <3>6
  <2>. QED
    BY <2>5, <2>6
<1>2. Cardinality(S) \in Nat
  BY FS_CardinalityType
<1>. QED
  BY <1>1, <1>2

\* Where there is nothing, nothing is added.
LEMMA TotalOfPart ==
  ASSUME NEW S, IsFiniteSet(S), NEW f, \A x \in S : f[x] \in Nat,
         NEW T \in SUBSET S, \A x \in S \ T : f[x] = 0
  PROVE  Total(f, S) = Total(f, T)
<1>. DEFINE Wrong(n) == \E s \in SUBSET S : Cardinality(s) = n /\ Total(f, s) # Total(f, s \cap T)
            C == {n \in Nat : Wrong(n)}
<1>1. C = {}
  <2>1. SUFFICES ASSUME C # {} PROVE FALSE
    OBVIOUS
  <2>2. PICK n \in C : \A m \in C : n <= m
    BY <2>1, Least
  <2>3. PICK s \in SUBSET S : Cardinality(s) = n /\ Total(f, s) # Total(f, s \cap T)
    BY <2>2
  <2>4. /\ IsFiniteSet(s) /\ IsFiniteSet(s \cap T) /\ \A x \in s : f[x] \in Nat
    BY FS_Subset
  <2>5. s # {}
    <3>1. s = {} => s \cap T = s
      OBVIOUS
    <3>. QED
      BY <2>3, <3>1
  <2>6. PICK x : x \in s
    BY <2>5
  <2>. DEFINE r == s \ {x}
  <2>7. /\ r \in SUBSET S /\ IsFiniteSet(r) /\ Cardinality(r) = n - 1 /\ n - 1 \in Nat
    <3>1. /\ IsFiniteSet(r) /\ Cardinality(r) = Cardinality(s) - 1
          /\ Cardinality(s) \in Nat /\ Cardinality(r) \in Nat
      BY <2>4, <2>6, FS_RemoveElement, FS_CardinalityType
    <3>. QED
      BY <2>3, <3>1
  <2>8. ~Wrong(n - 1)
    <3>1. n \in Nat /\ ~(n <= n - 1)
      BY <2>2
    <3>2. n - 1 \notin C
      BY <2>2, <3>1
    <3>. HIDE DEF Wrong
    <3>. QED
      BY <2>7, <3>2
  <2>9. Total(f, r) = Total(f, r \cap T)
    BY <2>7, <2>8
  <2>10. Total(f, s) = f[x] + Total(f, r) /\ Total(f, r) \in Nat
    BY <2>4, <2>6, <2>7, TotalSplit
  <2>11. CASE x \in T
    <3>1. Total(f, s \cap T) = f[x] + Total(f, (s \cap T) \ {x})
      BY <2>4, <2>6, <2>11, TotalSplit
    <3>2. (s \cap T) \ {x} = r \cap T
      OBVIOUS
    <3>. QED
      BY <2>3, <2>9, <2>10, <3>1, <3>2
  <2>12. CASE x \notin T
    <3>1. r \cap T = s \cap T /\ f[x] = 0
      BY <2>6, <2>12
    <3>2. Total(f, r \cap T) = Total(f, s \cap T)
      BY <3>1
    <3>3. Total(f, s) = Total(f, r)
      BY <2>10, <3>1
    <3>. QED
      BY <2>3, <2>9, <3>2, <3>3
  <2>. QED
    BY <2>11, <2>12
<1>2. Cardinality(S) \in Nat /\ S \cap T = T
  BY FS_CardinalityType
<1>. QED
  BY <1>1, <1>2

\* The form of the layer: the root first, and nothing but directories and files.
PackForm ==
  /\ layer # <<>> => layer[1] = Pack!Entry(<<>>, Directory)
  /\ packer \notin {"start", "failed"} => layer # <<>>
  /\ \A i \in 1..Len(layer) : layer[i].node.kind \in {"dir", "file"}
  /\ packer = "read" => opened.node.kind = "file"

LEMMA WriteKeepsForm ==
  ASSUME PackTypes, PackForm, NEW p, NEW node, node.kind \in {"dir", "file"},
         layer = <<>> => p = <<>> /\ node = Directory,
         layer' = Append(layer, Pack!Entry(p, node)), packer' # "read"
  PROVE  PackForm'
<1>. DEFINE n == Len(layer)
<1>1. layer \in Seq(Entries) /\ n \in Nat
  BY DEF PackTypes
<1>2. /\ Len(layer') = n + 1 /\ layer'[n + 1] = Pack!Entry(p, node)
      /\ \A i \in 1..n : layer'[i] = layer[i]
      /\ layer' # <<>> /\ (n = 0 <=> layer = <<>>)
  BY <1>1
<1>3. \A i \in 1..(n + 1) : i \in 1..n \/ i = n + 1
  BY <1>1
<1>. HIDE DEF n
<1>4. layer'[1] = Pack!Entry(<<>>, Directory)
  <2>1. CASE n = 0
    BY <1>2, <2>1
  <2>2. CASE n # 0
    BY <1>1, <1>2, <2>2 DEF PackForm
  <2>. QED
    BY <2>1, <2>2
<1>5. \A i \in 1..n : layer[i].node.kind \in {"dir", "file"}
  BY DEF PackForm, n
<1>6. \A i \in 1..Len(layer') : layer'[i].node.kind \in {"dir", "file"}
  BY <1>2, <1>3, <1>5, EntryIs
<1>. QED
  BY <1>2, <1>4, <1>6 DEF PackForm

LEMMA PackKeepsForm ==
  ASSUME tree \in [Paths -> Nodes], packer = "start" => tree[<<>>] = Directory,
         PackTypes, PackOrder, PackForm, Pack!PackStep
  PROVE  PackForm'
<1>1. CASE Pack!PackFails
  BY <1>1 DEF Pack!PackFails, PackForm
<1>2. Directory.kind = "dir"
  BY DEF Directory, Node
<1>3. ASSUME NEW p, Pack!Enter(p), ~Pack!PackFails, layer = <<>> => p = <<>> PROVE PackForm'
  <2>1. layer' = Append(layer, Pack!Entry(p, Directory)) /\ packer' = "list"
    BY <1>3, NodesAre DEF Pack!Enter
  <2>. QED
    BY <1>2, <1>3, <2>1, WriteKeepsForm
<1>4. CASE Pack!Start /\ ~Pack!PackFails
  BY <1>3, <1>4 DEF Pack!Start
<1>5. CASE Pack!Generate /\ ~Pack!PackFails
  <2>. DEFINE G == Pack!Generated
              order == <<<<>>>> \o InOrder(G)
  <2>1. packer = "start" /\ packer' = "packed" /\ tree[<<>>] = Directory
    BY <1>5 DEF Pack!Generate
  <2>2. /\ \A p \in G : tree[p].kind = "file"
        /\ order \in Seq(Paths) /\ Len(order) = Cardinality(G) + 1 /\ order[1] = <<>>
        /\ \A i \in 2..Len(order) : order[i] \in G
        /\ layer' \in Seq(Entries) /\ Len(layer') = Len(order) /\ G \in SUBSET Paths
        /\ \A i \in 1..Len(order) : layer'[i] = Pack!Entry(order[i], tree[order[i]])
    BY <1>5, <2>1, GeneratedIs
  <2>3. Cardinality(G) \in Nat
    BY <2>2, SourceTreeAssumption, FS_Subset, FS_CardinalityType
  <2>. HIDE DEF order, G
  <2>4. 1 \in 1..Len(order) /\ \A i \in 1..Len(order) : i = 1 \/ i \in 2..Len(order)
    BY <2>2, <2>3
  <2>5. layer'[1] = Pack!Entry(<<>>, Directory) /\ layer' # <<>>
    BY <2>1, <2>2, <2>3, <2>4
  <2>6. \A i \in 1..Len(layer') : layer'[i].node.kind \in {"dir", "file"}
    BY <1>2, <2>1, <2>2, <2>4, EntryIs
  <2>. QED
    BY <2>1, <2>5, <2>6 DEF PackForm
<1>6. CASE (Pack!List \/ Pack!Leave \/ Pack!Packed \/ Pack!LookFile) /\ ~Pack!PackFails
  <2>1. /\ layer' = layer /\ packer' \in {"walk", "packed", "open"} /\ packer \in {"list", "walk"}
    BY <1>6 DEF Pack!List, Pack!Leave, Pack!Packed, Pack!LookFile, Pack!Walking
  <2>. QED
    BY <2>1 DEF PackForm
<1>7. CASE Pack!LookFails
  BY <1>1, <1>7 DEF Pack!LookFails
<1>8. CASE Pack!LookDirectory /\ ~Pack!PackFails
  <2>1. packer = "walk"
    BY <1>8 DEF Pack!LookDirectory, Pack!Walking
  <2>2. layer # <<>>
    BY <2>1 DEF PackForm
  <2>3. CASE Pack!Enter(Pack!Name)
    BY <1>3, <1>8, <2>2, <2>3
  <2>4. CASE UNCHANGED <<packer, layer>>
    BY <2>1, <2>4 DEF PackForm
  <2>. QED
    BY <1>8, <2>3, <2>4 DEF Pack!LookDirectory
<1>9. CASE Pack!Open /\ ~Pack!PackFails
  <2>1. /\ packer = "open" /\ layer' = layer /\ tree[Pack!Name].kind = "file"
        /\ opened' = Pack!Handle(Pack!Name, tree[Pack!Name], tree[Pack!Name].length)
    BY <1>9 DEF Pack!Open
  <2>2. opened'.node.kind = "file"
    BY <2>1 DEF Pack!Handle
  <2>. QED
    BY <2>1, <2>2 DEF PackForm
<1>10. CASE Pack!Read /\ ~Pack!PackFails
  <2>1. /\ packer = "read" /\ packer' = "walk"
        /\ layer' = Append(layer, Pack!Entry(Pack!Name, opened.node))
    BY <1>10 DEF Pack!Read
  <2>2. layer # <<>> /\ opened.node.kind = "file"
    BY <2>1 DEF PackForm
  <2>. QED
    BY <2>1, <2>2, WriteKeepsForm
<1>. QED
  BY <1>1, <1>4, <1>5, <1>6, <1>7, <1>8, <1>9, <1>10 DEF Pack!PackStep

\* A source that the staging takes.
Fit ==
  /\ tree \in Trees
  /\ \A p \in Paths : tree[p].kind \in {"absent", "dir", "file"}
  /\ BytesOf(tree) <= MaxBytes
  /\ Cardinality({p \in Paths : tree[p] # Absent}) <= MaxEntries

\* The layer has each path once, so that what is unpacked is what is written.
LEMMA UnpackFits ==
  ASSUME PackTypes, PackOrder, PackCharge, PackForm, Unpack, tree' \in [Paths -> Nodes]
  PROVE  Fit'
<1>. DEFINE n == Len(layer)
            s == [i \in 1..n |-> layer[i].path]
            P == {layer[i].path : i \in 1..n}
            At(p) == {i \in DOMAIN layer : layer[i].path = p}
<1>1. /\ packer = "packed"
      /\ tree' = [p \in Paths |-> IF At(p) = {} THEN Absent ELSE layer[Max(At(p))].node]
  BY DEF Unpack
<1>2. /\ n \in Nat /\ DOMAIN layer = 1..n /\ n >= 1 /\ 1 \in 1..n
      /\ \A i \in 1..n : layer[i] \in Entries /\ layer[i].path \in Paths /\ layer[i].node \in Nodes
  <2>1. layer \in Seq(Entries) /\ layer # <<>>
    BY <1>1 DEF PackTypes, PackForm
  <2>2. n \in Nat /\ DOMAIN layer = 1..n /\ n >= 1 /\ \A i \in 1..n : layer[i] \in Entries
    BY <2>1
  <2>. QED
    BY <2>2 DEF Entries
<1>3. \A i, j \in 1..n : layer[i].path = layer[j].path => i = j
  <2>1. ASSUME NEW i \in 1..n, NEW j \in 1..n, layer[i].path = layer[j].path, i < j PROVE FALSE
    <3>1. Before(layer[i].path, layer[j].path) /\ layer[i].path \in Seq(Nat)
      BY <1>2, <2>1, SourceTreeAssumption DEF PackOrder, Written
    <3>. QED
      BY <2>1, <3>1, BeforeIsStrict
  <2>2. \A i, j \in 1..n : i = j \/ i < j \/ j < i
    BY <1>2
  <2>. QED
    BY <2>1, <2>2
<1>4. ASSUME NEW i \in 1..n PROVE tree'[layer[i].path] = layer[i].node
  <2>1. At(layer[i].path) = {i}
    BY <1>2, <1>3
  <2>2. Max({i}) = i
    <3>1. {i} \in SUBSET (1..n) /\ {i} # {}
      OBVIOUS
    <3>2. Max({i}) \in {i}
      BY <1>2, <3>1, MaxIs
    <3>. QED
      BY <3>2
  <2>3. At(layer[i].path) # {} /\ Max(At(layer[i].path)) = i /\ layer[i].path \in Paths
    BY <1>2, <2>1, <2>2
  <2>. HIDE DEF At
  <2>. QED
    BY <1>1, <2>3
<1>5. ASSUME NEW p \in Paths PROVE p \in P \/ tree'[p] = Absent
  BY <1>1, <1>2
<1>. HIDE DEF At
<1>6. ASSUME NEW i \in 1..n PROVE layer[i].node.kind \in {"dir", "file"} /\ layer[i].node # Absent
  BY DEF PackForm, Absent, Node
<1>7. \A p \in Paths : tree'[p] # Absent <=> p \in P
  BY <1>4, <1>5, <1>6
<1>8. P \in SUBSET Paths /\ s \in [1..n -> P]
  BY <1>2
<1>9. \A p \in P : \E i \in 1..n : s[i] = p
  OBVIOUS
<1>10. \A i, j \in 1..n : s[i] = s[j] => i = j
  BY <1>3
<1>11. IsFiniteSet(P) /\ Cardinality(P) = n
  <2>. HIDE DEF P, s, n
  <2>. QED
    BY <1>2, <1>8, <1>9, <1>10, Distinct
<1>12. n = charged.entries /\ Weight(layer) = charged.bytes /\ n <= MaxEntries
       /\ Weight(layer) <= MaxBytes
  BY <1>1, ChargedIs DEF PackCharge
<1>13. Cardinality({p \in Paths : tree'[p] # Absent}) <= MaxEntries
  <2>1. {p \in Paths : tree'[p] # Absent} = P
    BY <1>7, <1>8
  <2>. QED
    BY <1>11, <1>12, <2>1
<1>14. \A p \in Paths : tree'[p].kind \in {"absent", "dir", "file"}
  <2>1. ASSUME NEW p \in Paths PROVE tree'[p].kind \in {"absent", "dir", "file"}
    <3>1. CASE p \in P
      BY <1>4, <1>6, <3>1
    <3>2. CASE tree'[p] = Absent
      BY <3>2 DEF Absent, Node
    <3>. QED
      BY <1>5, <3>1, <3>2
  <2>. QED
    BY <2>1
<1>15. tree' \in Trees
  <2>1. layer[1] = Pack!Entry(<<>>, Directory)
    BY <1>1 DEF PackForm
  <2>2. layer[1].path = <<>> /\ layer[1].node = Directory
    BY <2>1, EntryIs
  <2>3. tree'[<<>>] = Directory
    BY <1>2, <1>4, <2>2
  <2>4. ASSUME NEW p \in Paths \ {<<>>}, tree'[p] # Absent PROVE tree'[Front(p)] = Directory
    <3>1. PICK i \in 1..n : layer[i].path = p
      BY <1>7, <2>4
    <3>2. i \in 2..n
      BY <1>2, <2>2, <3>1
    <3>3. PICK j \in 1..i - 1 : layer[j] = Pack!Entry(Front(p), Directory)
      BY <3>1, <3>2 DEF PackOrder, Written
    <3>4. j \in 1..n /\ layer[j].path = Front(p) /\ layer[j].node = Directory
      BY <1>2, <3>2, <3>3, EntryIs
    <3>. QED
      BY <1>4, <3>4
  <2>. QED
    BY <2>3, <2>4 DEF Trees
<1>16. BytesOf(tree') <= MaxBytes
  <2>. DEFINE f == [p \in Paths |-> tree'[p].length]
              g == [i \in 1..n |-> f[s[i]]]
  <2>1. BytesOf(tree') = Total(f, Paths)
    BY BytesTotal
  <2>2. \A p \in Paths : f[p] \in Nat
    BY NodesAre
  <2>3. \A p \in Paths \ P : f[p] = 0
    BY <1>7 DEF Absent, Node
  <2>4. Total(f, Paths) = Total(f, P)
    <3>. HIDE DEF f, P
    <3>. QED
      BY <1>8, <2>2, <2>3, TotalOfPart, SourceTreeAssumption
  <2>5. Total(g, 1..n) = Total(f, P)
    <3>1. \A p \in P : f[p] \in Nat
      BY <1>8, <2>2
    <3>2. n \in Nat /\ IsFiniteSet(P) /\ s \in [1..n -> P]
      BY <1>2, <1>8, <1>11
    <3>. HIDE DEF f, P, s, n
    <3>3. Total([i \in 1..n |-> f[s[i]]], 1..n) = Total(f, P)
      BY <1>9, <1>10, <3>1, <3>2, TotalOfSequence
    <3>. QED
      BY <3>3
  <2>6. Weight(layer) = Total(g, 1..n)
    <3>1. \A i \in 1..n : layer[i].node.length = g[i]
      BY <1>2, <1>4
    <3>2. [i \in DOMAIN layer |-> layer[i].node.length] = g
      BY <1>2, <3>1
    <3>3. IsFiniteSet(DOMAIN layer)
      BY <1>2, FS_Interval
    <3>. HIDE DEF g, n
    <3>. QED
      BY <1>2, <3>2, <3>3, WeightTotal
  <2>. QED
    BY <1>12, <2>1, <2>4, <2>5, <2>6
<1>. QED
  BY <1>13, <1>14, <1>15, <1>16 DEF Fit

-----------------------------------------------------------------------------
(***************************************************************************)
(* The copy of a source that nobody edits: what is in it is as it is in    *)
(* the source, and what is not there yet is still to come.                 *)
(***************************************************************************)
\* What a staging may fail for when nobody edits the tree.
Excused == late \/ faults < MaxFaults \/ tries = MaxTries

\* What is in the copy is what the source has, and the file that is being copied is
\* as it was when it was opened.
Same ==
  /\ \A p \in Paths : NodeAt(p) # Absent =>
       NodeAt(p) = tree[p] \/ (stager = "copy" /\ p = held.path)
  /\ stager \in {"open", "copy", "check"} =>
       tree[held.path].kind = "file" /\ held.expected = tree[held.path].length
  /\ stager = "copy" => held.node = tree[held.path]

\* The walk has been at p, or what it has left leads to p.
Reached(p) ==
  \/ NodeAt(p) # Absent
  \/ \E i \in 1..Len(todo) : \E q \in todo[i].left : IsPrefix(q, p)
  \/ stager = "list" /\ IsStrictPrefix(todo[1].of, p)
  \/ stager = "enter"
  \/ stager = "open" /\ p = held.path

\* What the walk has left is there, and nothing of the source is forgotten.
Coming ==
  /\ \A i \in 1..Len(todo) : \A q \in todo[i].left : tree[q] # Absent
  /\ \A p \in Paths : tree[p] # Absent => Reached(p)

Kept ==
  /\ stager = "failed" => Excused
  /\ stager \notin Unstaged => Same /\ Coming

Quiet == phase = "staging" /\ ~edited

StageWhole ==
  /\ phase = "packing" => stager = "begin"
  /\ faults \in 0..MaxFaults
  /\ Quiet => Fit /\ Kept

\* There is room for what is not in the copy yet.
LEMMA RoomLeft ==
  ASSUME SeedTypes, Charged, Fit, Same, stager = "walk",
         NEW p \in Paths, NodeAt(p) = Absent, tree[p] # Absent
  PROVE  /\ ~(spent.entries + 1 > MaxEntries)
         /\ ~(spent.bytes + tree[p].length > MaxBytes)
<1>. DEFINE There == {q \in Paths : tree[q] # Absent}
<1>1. /\ BytesOf(Copied) = spent.bytes /\ Cardinality(Present) = spent.entries
      /\ spent.entries \in Nat /\ spent.bytes \in Nat /\ MaxEntries \in Nat /\ MaxBytes \in Nat
      /\ \A q \in Paths : NodeAt(q).length \in Nat
  <2>1. Within
    BY DEF Charged
  <2>2. BytesOf(Copied) \in Nat /\ Cardinality(Present) \in Nat
    BY <2>1, SizesAre
  <2>3. /\ BytesOf(Copied) + 0 = spent.bytes /\ Cardinality(Present) + 0 = spent.entries
    <3>1. stager \notin Unstaged /\ ~AtCharged /\ stager # "open" /\ stager # "enter"
      BY DEF AtCharged, Unstaged
    <3>2. Owed = 0
      BY <3>1 DEF Owed
    <3>3. /\ BytesOf(Copied) + Owed = spent.bytes
          /\ Cardinality(Present) + (IF stager = "open" THEN 1 ELSE 0)
               = spent.entries + (IF stager = "enter" THEN 1 ELSE 0)
      BY <3>1 DEF Charged, Balance
    <3>4. spent.entries \in Nat
      BY <2>1, SpentIs
    <3>. QED
      BY <2>2, <3>1, <3>2, <3>3, <3>4
  <2>. QED
    BY <2>1, <2>2, <2>3, SpentIs DEF Within
<1>2. \A q \in Paths : NodeAt(q) # Absent => NodeAt(q) = tree[q]
  BY DEF Same
<1>3. \A q \in Paths : tree[q].length \in Nat
  BY NodesAre DEF SeedTypes
<1>4. ~(spent.entries + 1 > MaxEntries)
  <2>1. Present \cup {p} \subseteq There /\ p \notin Present
    BY <1>2 DEF Present, Copied, NodeAt
  <2>2. IsFiniteSet(There) /\ IsFiniteSet(Present)
    BY SourceTreeAssumption, FS_Subset DEF Present
  <2>3. Cardinality(Present \cup {p}) = Cardinality(Present) + 1
    BY <2>1, <2>2, FS_AddElement
  <2>4. Cardinality(Present \cup {p}) <= Cardinality(There) /\ Cardinality(There) \in Nat
    BY <2>1, <2>2, FS_Subset, FS_CardinalityType
  <2>5. Cardinality(There) <= MaxEntries
    BY DEF Fit
  <2>. HIDE DEF There
  <2>. QED
    BY <1>1, <2>3, <2>4, <2>5
<1>5. ~(spent.bytes + tree[p].length > MaxBytes)
  <2>. DEFINE u == [Copied EXCEPT ![p] = tree[p]]
  <2>1. /\ \A q \in Paths : Copied[q] = NodeAt(q)
        /\ \A q \in Paths : u[q] = IF q = p THEN tree[p] ELSE NodeAt(q)
    BY DEF Copied, NodeAt
  <2>2. Copied[p].length = 0
    BY <2>1 DEF Absent, Node
  <2>. HIDE DEF u
  <2>3. BytesOf(u) = BytesOf(Copied) + tree[p].length - 0
    BY <1>1, <1>3, <2>1, <2>2, BytesChange
  <2>. DEFINE f == [q \in Paths |-> u[q].length]
              g == [q \in Paths |-> tree[q].length]
  <2>4. \A q \in Paths : f[q] \in Nat /\ g[q] \in Nat /\ f[q] <= g[q]
    <3>1. ASSUME NEW q \in Paths PROVE u[q].length \in Nat /\ u[q].length <= tree[q].length
      <4>1. CASE q = p \/ NodeAt(q) = tree[q]
        BY <1>3, <2>1, <4>1
      <4>2. CASE q # p /\ NodeAt(q) = Absent
        <5>1. u[q].length = 0
          BY <2>1, <4>2 DEF Absent, Node
        <5>. QED
          BY <1>3, <5>1
      <4>. QED
        BY <1>2, <4>1, <4>2
    <3>. QED
      BY <1>3, <3>1
  <2>5. BytesOf(u) = Total(f, Paths) /\ BytesOf(tree) = Total(g, Paths)
    BY BytesTotal
  <2>. HIDE DEF f, g
  <2>6. Total(f, Paths) <= Total(g, Paths) /\ Total(f, Paths) \in Nat /\ Total(g, Paths) \in Nat
    BY <2>4, TotalGrows, TotalSplit, SourceTreeAssumption
  <2>7. BytesOf(tree) <= MaxBytes
    BY DEF Fit
  <2>. QED
    BY <1>1, <1>3, <2>3, <2>5, <2>6, <2>7
<1>. QED
  BY <1>4, <1>5

\* A source that fits is refused because of the deadline only.
LEMMA RefusedIsLate ==
  ASSUME SeedTypes, Charged, WalkInv, Fit, Same, Coming, NEW p \in Paths, Stage!Next(p)
  PROVE  /\ p # <<>> /\ NodeAt(p) = Absent /\ tree[p] # Absent /\ todo # <<>>
         /\ Stage!Refused(p) => late
         /\ tree[p].kind # "pipe"
         /\ ~(spent.bytes + tree[p].length > MaxBytes)
<1>1. /\ todo # <<>> /\ stager = "walk" /\ p # <<>> /\ NodeAt(p) = Absent
      /\ 1 \in 1..Len(todo) /\ p \in todo[1].left
  BY WithoutIs
<1>2. tree[p] # Absent
  BY <1>1 DEF Coming
<1>3. ~(spent.entries + 1 > MaxEntries) /\ ~(spent.bytes + tree[p].length > MaxBytes)
  BY <1>1, <1>2, RoomLeft
<1>4. tree[p].kind \in {"absent", "dir", "file"} /\ tree[p].kind # "absent"
  BY <1>2, NodesAre DEF Fit, SeedTypes
<1>. QED
  BY <1>1, <1>2, <1>3, <1>4 DEF Stage!Refused

LEMMA FailsKeeps ==
  ASSUME Stage!Fails, late \/ tries = MaxTries PROVE Kept'
  BY DEF Stage!Fails, Stage!Returns, Kept, Excused, Unstaged

LEMMA FaultKeeps ==
  ASSUME faults \in 0..MaxFaults, Stage!Faulty, stager' = "failed" PROVE Kept'
  BY SeedAssumption DEF Stage!Faulty, Kept, Excused, Unstaged

\* Nothing is copied outside the walk.
LEMMA CalmKeeps ==
  ASSUME Same, Coming, \A q \in Paths : NodeAt(q)' = NodeAt(q), UNCHANGED <<tree, todo>>,
         stager \in {"walk", "check", "cache", "run", "register"},
         stager' \in {"walk", "cache", "run", "register"}
  PROVE  Kept'
<1>1. Same'
  BY DEF Same
<1>2. Coming'
  BY DEF Coming, Reached
<1>. QED
  BY <1>1, <1>2 DEF Kept

LEMMA EnterRootKeeps ==
  ASSUME SeedTypes, WalkInv, Charged, Fit, Same, Stage!EnterRoot PROVE Kept'
<1>1. stager = "enter" /\ \A q \in Paths : NodeAt(q) = IF q = <<>> THEN Directory ELSE Absent
  BY DEF Stage!EnterRoot, WalkInv, AtEnds
<1>2. CASE Stage!Refused(<<>>) /\ Stage!Fails
  <2>1. spent.entries = 0 /\ ~(0 + 1 > MaxEntries)
    BY <1>1, SourceTreeAssumption DEF Charged, Within
  <2>2. tree[<<>>].kind \notin {"absent", "link"}
    BY DEF Fit, Trees, Directory, Node
  <2>3. late
    BY <1>2, <2>1, <2>2 DEF Stage!Refused
  <2>. QED
    BY <1>2, <2>3, FailsKeeps
<1>3. CASE Stage!EnterDirectory(<<>>, <<>>)
  <2>1. /\ copy' = copy /\ tree' = tree /\ held' = held /\ stager' = "list"
        /\ todo' = <<[of |-> <<>>, left |-> {}]>>
    BY <1>3 DEF Stage!EnterDirectory
  <2>2. Len(todo') = 1 /\ todo'[1].of = <<>> /\ todo'[1].left = {}
    BY <2>1
  <2>3. Same'
    BY <1>1, <2>1 DEF Same, NodeAt
  <2>4. ASSUME NEW p \in Paths PROVE Reached(p)'
    <3>1. CASE p = <<>>
      BY <1>1, <2>1, <3>1, SameNodes DEF Reached, NodeAt
    <3>2. CASE p # <<>>
      <4>1. p \in Seq(Nat) /\ <<>> \in Seq(Nat)
        BY SourceTreeAssumption
      <4>2. Len(<<>>) < Len(p) /\ Agree(<<>>, p, Len(<<>>))
        BY <3>2, <4>1 DEF Agree
      <4>3. IsStrictPrefix(<<>>, p)
        BY <4>1, <4>2, PrefixIs
      <4>. QED
        BY <2>1, <2>2, <4>3 DEF Reached
    <3>. QED
      BY <3>1, <3>2
  <2>5. Coming'
    BY <2>2, <2>4 DEF Coming
  <2>. QED
    BY <2>1, <2>3, <2>5 DEF Kept
<1>. QED
  BY <1>2, <1>3 DEF Stage!EnterRoot

\* All of a listing is still to come.
LEMMA ListKeeps ==
  ASSUME WalkInv, Fit, Same, Coming, Stage!List PROVE Kept'
<1>. DEFINE d == todo[1].of
<1>1. /\ stager = "list" /\ todo # <<>> /\ todo \in Seq(Rows)
      /\ Head(todo) = todo[1] /\ 1 \in 1..Len(todo)
  BY DEF Stage!List, WalkInv, AtListing, Formed
<1>2. d \in Paths /\ tree[d] = Directory /\ tree \in Trees
  BY <1>1, RowsAre, SameNodes DEF WalkInv, Descent, Same, Fit, Unstaged
<1>. DEFINE r == [of |-> d, left |-> Stage!Children(d)]
<1>3. /\ todo' = <<r>> \o Tail(todo) /\ stager' = "walk" /\ UNCHANGED <<tree, held, copy>>
  BY <1>1, <1>2, SameNodes DEF Stage!List
<1>4. \A c : c \in Stage!Children(d) <=> c \in Paths \ {<<>>} /\ Front(c) = d /\ tree[c] # Absent
  BY SameNodes, SameFront DEF Stage!Children
<1>5. r \in Rows /\ r.left = Stage!Children(d)
  BY <1>2, <1>4 DEF Rows
<1>. HIDE DEF r, d
<1>6. /\ Len(todo') = Len(todo) /\ todo'[1] = r
      /\ \A i \in 1..Len(todo) : i # 1 => todo'[i] = todo[i]
  BY <1>1, <1>3, <1>5, SetRow
<1>7. Same'
  BY <1>1, <1>3 DEF Same, NodeAt
<1>8. \A i \in 1..Len(todo') : \A q \in todo'[i].left : tree'[q] # Absent
  BY <1>3, <1>4, <1>5, <1>6 DEF Coming
<1>9. ASSUME NEW p \in Paths, tree[p] # Absent PROVE Reached(p)'
  <2>1. Reached(p)
    BY <1>9 DEF Coming
  <2>2. CASE NodeAt(p) # Absent
    BY <1>3, <2>2 DEF Reached, NodeAt
  <2>3. CASE \E i \in 1..Len(todo) : \E q \in todo[i].left : IsPrefix(q, p)
    <3>0. PICK i \in 1..Len(todo) : \E q \in todo[i].left : IsPrefix(q, p)
      BY <2>3
    <3>1. PICK q \in todo[i].left : IsPrefix(q, p)
      BY <3>0
    <3>2. CASE i = 1
      <4>1. q \in Paths /\ q # <<>> /\ Front(q) = d /\ tree[q] # Absent
        BY <1>1, <3>1, <3>2, RowsAre DEF WalkInv, Descent, Unstaged, Coming, d
      <4>. QED
        BY <1>1, <1>4, <1>5, <1>6, <3>1, <4>1 DEF Reached
    <3>3. CASE i # 1
      BY <1>6, <3>1, <3>3 DEF Reached
    <3>. QED
      BY <3>2, <3>3
  <2>4. CASE IsStrictPrefix(d, p)
    <3>1. PICK c \in Paths \ {<<>>} : Front(c) = d /\ tree[c] # Absent /\ IsPrefix(c, p)
      BY <1>2, <1>9, <2>4, StepBelow
    <3>. QED
      BY <1>1, <1>4, <1>5, <1>6, <3>1 DEF Reached
  <2>. QED
    BY <1>1, <2>1, <2>2, <2>3, <2>4 DEF Reached, d
<1>10. Coming'
  BY <1>3, <1>8, <1>9 DEF Coming
<1>. QED
  BY <1>3, <1>7, <1>10 DEF Kept

LEMMA LookDirectoryKeeps ==
  ASSUME WalkInv, Same, Coming, NEW p \in Paths, Stage!LookDirectory(p) PROVE Kept'
<1>. DEFINE w == Stage!Without(p)
            r == [of |-> p, left |-> {}]
<1>1. /\ Stage!Next(p) /\ tree[p] = Directory /\ UNCHANGED <<tree, held>> /\ stager' = "list"
      /\ copy' = IF p = <<>> THEN copy ELSE Stage!Created(p, Stage!Directory)
      /\ todo' = <<r>> \o w
  BY SameNodes DEF Stage!LookDirectory, Stage!EnterDirectory
<1>2. /\ todo # <<>> /\ todo \in Seq(Rows) /\ stager = "walk" /\ p # <<>>
      /\ 1 \in 1..Len(todo) /\ p \in todo[1].left
      /\ w \in Seq(Rows) /\ Len(w) = Len(todo)
      /\ w[1] = [of |-> todo[1].of, left |-> todo[1].left \ {p}]
      /\ \A i \in 1..Len(w) : i # 1 => w[i] = todo[i]
  BY <1>1, WithoutIs
<1>3. \A q \in Paths : NodeAt(q)' = IF q = p THEN Directory ELSE NodeAt(q)
  BY <1>1, <1>2, CreatedIs, SameNodes DEF WalkInv, Formed
<1>4. r \in Rows /\ r.of = p /\ r.left = {}
  BY DEF Rows
<1>. HIDE DEF w, r
<1>5. /\ Len(todo') = Len(w) + 1 /\ todo'[1] = r
      /\ \A i \in 1..Len(todo') : i # 1 => i - 1 \in 1..Len(w) /\ todo'[i] = w[i - 1]
      /\ \A i \in 1..Len(w) : i + 1 \in 1..Len(todo') /\ todo'[i + 1] = w[i]
  BY <1>1, <1>2, <1>4
<1>6. \A i \in 1..Len(w) : w[i].left \subseteq todo[i].left
  BY <1>2
<1>7. Same'
  BY <1>1, <1>2, <1>3 DEF Same
<1>8. ASSUME NEW i \in 1..Len(todo'), NEW q \in todo'[i].left PROVE tree[q] # Absent
  <2>1. i # 1 /\ i - 1 \in 1..Len(w) /\ q \in w[i - 1].left
    BY <1>4, <1>5, <1>8
  <2>. QED
    BY <1>2, <1>6, <2>1 DEF Coming
<1>9. ASSUME NEW n \in Paths, tree[n] # Absent PROVE Reached(n)'
  <2>1. Reached(n)
    BY <1>9 DEF Coming
  <2>2. CASE NodeAt(n) # Absent \/ n = p
    BY <1>3, <2>2, SameNodes DEF Reached
  <2>3. CASE n # p /\ \E i \in 1..Len(todo) : \E q \in todo[i].left : IsPrefix(q, n)
    <3>0. PICK i \in 1..Len(todo) : \E q \in todo[i].left : IsPrefix(q, n)
      BY <2>3
    <3>1. PICK q \in todo[i].left : IsPrefix(q, n)
      BY <3>0
    <3>2. CASE q = p
      <4>1. IsStrictPrefix(p, n)
        BY <2>3, <3>1, <3>2 DEF IsStrictPrefix
      <4>. QED
        BY <1>1, <1>4, <1>5, <4>1 DEF Reached
    <3>3. CASE q # p
      <4>1. q \in w[i].left
        BY <1>2, <3>1, <3>3
      <4>2. i + 1 \in 1..Len(todo') /\ q \in todo'[i + 1].left
        BY <1>2, <1>5, <4>1
      <4>. QED
        BY <3>1, <4>2 DEF Reached
    <3>. QED
      BY <3>2, <3>3
  <2>. QED
    BY <1>2, <2>1, <2>2, <2>3 DEF Reached
<1>10. Coming'
  BY <1>1, <1>8, <1>9 DEF Coming
<1>. QED
  BY <1>1, <1>7, <1>10 DEF Kept

LEMMA LookFileKeeps ==
  ASSUME SeedTypes, Charged, WalkInv, Fit, Same, Coming, NEW p \in Paths, Stage!LookFile(p)
  PROVE  Kept'
<1>. DEFINE w == Stage!Without(p)
<1>1. /\ Stage!Next(p) /\ tree[p].kind = "file" /\ tree \in Trees
      /\ ~(spent.bytes + tree[p].length > MaxBytes)
  BY RefusedIsLate DEF Stage!LookFile, Fit
<1>2. /\ UNCHANGED <<tree, copy>> /\ stager' = "open" /\ todo' = w
      /\ held' = [Stage!NoHandle EXCEPT !.path = p, !.expected = tree[p].length]
  BY <1>1 DEF Stage!LookFile
<1>3. held'.path = p /\ held'.expected = tree[p].length
  BY <1>2 DEF Stage!NoHandle
<1>4. /\ todo # <<>> /\ stager = "walk" /\ p # <<>>
      /\ 1 \in 1..Len(todo) /\ p \in todo[1].left
      /\ Len(w) = Len(todo)
      /\ w[1] = [of |-> todo[1].of, left |-> todo[1].left \ {p}]
      /\ \A i \in 1..Len(w) : i # 1 => w[i] = todo[i]
  BY <1>1, WithoutIs
<1>. HIDE DEF w
<1>5. Same'
  BY <1>1, <1>2, <1>3, <1>4 DEF Same, NodeAt
<1>6. \A i \in 1..Len(todo') : \A q \in todo'[i].left : tree[q] # Absent
  BY <1>2, <1>4 DEF Coming
<1>7. ASSUME NEW n \in Paths, tree[n] # Absent PROVE Reached(n)'
  <2>1. Reached(n)
    BY <1>7 DEF Coming
  <2>2. CASE NodeAt(n) # Absent
    BY <1>2, <2>2 DEF Reached, NodeAt
  <2>3. CASE \E i \in 1..Len(todo) : \E q \in todo[i].left : IsPrefix(q, n)
    <3>0. PICK i \in 1..Len(todo) : \E q \in todo[i].left : IsPrefix(q, n)
      BY <2>3
    <3>1. PICK q \in todo[i].left : IsPrefix(q, n)
      BY <3>0
    <3>2. CASE q = p /\ n = p
      BY <1>2, <1>3, <3>2 DEF Reached
    <3>3. CASE q = p /\ n # p
      <4>1. IsStrictPrefix(p, n)
        BY <3>1, <3>3 DEF IsStrictPrefix
      <4>2. tree[p] = Directory
        BY <1>1, <1>7, <4>1, StepBelow
      <4>. QED
        BY <1>1, <4>2 DEF Directory, Node
    <3>4. CASE q # p
      <4>1. i \in 1..Len(todo') /\ q \in todo'[i].left
        BY <1>2, <1>4, <3>1, <3>4
      <4>. QED
        BY <3>1, <4>1 DEF Reached
    <3>. QED
      BY <3>2, <3>3, <3>4
  <2>. QED
    BY <1>4, <2>1, <2>2, <2>3 DEF Reached
<1>8. Coming'
  BY <1>2, <1>6, <1>7 DEF Coming
<1>. QED
  BY <1>2, <1>5, <1>8 DEF Kept

LEMMA OpenKeeps ==
  ASSUME SeedTypes, WalkInv, Fit, Same, Coming, Stage!Open PROVE Kept'
<1>. DEFINE p == held.path
<1>1. stager = "open" /\ tree[p].kind = "file" /\ p \in Paths \ {<<>>}
  BY DEF Stage!Open, WalkInv, AtFile, Same
<1>2. /\ held' = Stage!Handle(p, tree[p], held.expected)
      /\ copy' = Stage!Created(p, Stage!Node("file", 0))
      /\ stager' = "copy" /\ UNCHANGED <<tree, todo>>
  BY <1>1 DEF Stage!Open
<1>3. held'.path = p /\ held'.node = tree[p] /\ held'.expected = held.expected
  BY <1>2 DEF Stage!Handle
<1>4. \A q \in Paths : NodeAt(q)' = IF q = p THEN Stage!Node("file", 0) ELSE NodeAt(q)
  BY <1>1, <1>2, CreatedIs DEF WalkInv, Formed
<1>. HIDE DEF p
<1>5. Same'
  BY <1>1, <1>2, <1>3, <1>4 DEF Same, p
<1>6. ASSUME NEW n \in Paths, tree[n] # Absent PROVE Reached(n)'
  <2>1. Reached(n)
    BY <1>6 DEF Coming
  <2>2. CASE NodeAt(n) # Absent \/ n = p
    BY <1>4, <2>2, FileIsOther DEF Reached
  <2>3. CASE \E i \in 1..Len(todo) : \E q \in todo[i].left : IsPrefix(q, n)
    BY <1>2, <2>3 DEF Reached
  <2>. QED
    BY <1>1, <2>1, <2>2, <2>3 DEF Reached, p
<1>7. Coming'
  BY <1>2, <1>6 DEF Coming
<1>. QED
  BY <1>2, <1>5, <1>7 DEF Kept

\* What is copied is what was opened, so it is what the source has.
LEMMA CopyKeeps ==
  ASSUME SeedTypes, WalkInv, Same, Coming, Stage!Copy PROVE Kept'
<1>. DEFINE p == held.path
            file == Stage!Node("file", Stage!CopyOf(held))
<1>1. /\ stager = "copy" /\ tree[p].kind = "file" /\ p \in Paths \ {<<>>}
      /\ held.expected = tree[p].length /\ held.node = tree[p]
  BY DEF Stage!Copy, WalkInv, AtFile, Same
<1>2. /\ copy' = [copy EXCEPT ![p].node = file]
      /\ stager' = "check" /\ UNCHANGED <<tree, todo, held>>
  BY DEF Stage!Copy, Stage!walkVars
<1>3. file = tree[p]
  <2>1. tree[p] \in Nodes /\ tree[p].length \in Nat
    BY <1>1, NodesAre DEF SeedTypes
  <2>2. tree[p] = Stage!Node("file", tree[p].length)
    <3>1. \A k \in {"absent", "dir", "link", "pipe"} : Node(k, 0).kind # "file"
      BY DEF Node
    <3>2. PICK l \in Lengths : tree[p] = Node("file", l)
      BY <1>1, <2>1, <3>1 DEF Nodes
    <3>. QED
      BY <3>2 DEF Node, Stage!Node
  <2>3. Stage!CopyOf(held) = tree[p].length
    BY <1>1, <2>1 DEF Stage!CopyOf
  <2>. QED
    BY <2>2, <2>3
<1>. HIDE DEF file
<1>4. \A q \in Paths : NodeAt(q)' = IF q = p THEN tree[p] ELSE NodeAt(q)
  BY <1>1, <1>2, <1>3, FilledIs DEF WalkInv, Formed
<1>5. Same'
  BY <1>1, <1>2, <1>4 DEF Same
<1>6. tree[p] # Absent
  BY <1>1 DEF Absent, Node
<1>7. Coming'
  BY <1>1, <1>2, <1>4, <1>6 DEF Coming, Reached
<1>. QED
  BY <1>2, <1>5, <1>7 DEF Kept

LEMMA CheckKeeps ==
  ASSUME WalkInv, Charged, Same, Coming, faults \in 0..MaxFaults, Stage!Check PROVE Kept'
<1>1. /\ stager = "check" /\ held.path \in Paths
      /\ NodeAt(held.path) # Absent
  BY DEF Stage!Check, WalkInv, AtFile, Charged, AtCopy
<1>2. NodeAt(held.path).length = held.expected
  BY <1>1 DEF Same
<1>3. CASE copy' = Stage!Stamped(held.path) /\ stager' = "walk" /\ UNCHANGED <<tree, todo>>
  <2>1. \A q \in Paths : NodeAt(q)' = NodeAt(q)
    BY <1>1, <1>3, StampedIs DEF WalkInv, Formed
  <2>. QED
    BY <1>1, <1>3, <2>1, CalmKeeps
<1>4. CASE Stage!Faulty /\ Stage!Returns("failed")
  BY <1>4, FaultKeeps DEF Stage!Returns
<1>. QED
  BY <1>2, <1>3, <1>4 DEF Stage!Check, NodeAt

\* A directory is left when nothing of it is still to come.
LEMMA LeaveKeeps ==
  ASSUME WalkInv, Same, Coming, Stage!Leave PROVE Kept'
<1>1. /\ stager = "walk" /\ stager' = "walk" /\ todo # <<>> /\ todo \in Seq(Rows)
      /\ todo' = Tail(todo) /\ UNCHANGED <<tree, held>> /\ copy' = Stage!Stamped(Head(todo).of)
      /\ Head(todo).left = {}
  BY DEF Stage!Leave, WalkInv, Formed
<1>2. /\ Head(todo) = todo[1] /\ todo[1].of \in Paths /\ Len(todo) \in Nat
      /\ Len(todo') = Len(todo) - 1
      /\ \A i \in 1..Len(todo') : todo'[i] = todo[i + 1]
  <2>1. Head(todo) = todo[1] /\ todo[1] \in Rows /\ Len(todo) \in Nat
        /\ Len(todo') = Len(todo) - 1
        /\ \A i \in 1..Len(todo') : todo'[i] = todo[i + 1]
    BY <1>1, PopRow
  <2>. QED
    BY <2>1 DEF Rows
<1>3. /\ \A i \in 1..Len(todo') : i + 1 \in 1..Len(todo)
      /\ \A i \in 1..Len(todo) : i # 1 => i - 1 \in 1..Len(todo') /\ todo'[i - 1] = todo[i]
  BY <1>2
<1>4. \A q \in Paths : NodeAt(q)' = NodeAt(q)
  BY <1>1, <1>2, StampedIs DEF WalkInv, Formed
<1>5. Same'
  BY <1>1, <1>4 DEF Same
<1>6. ASSUME NEW n \in Paths, tree[n] # Absent PROVE Reached(n)'
  <2>1. Reached(n)
    BY <1>6 DEF Coming
  <2>2. CASE NodeAt(n) # Absent
    BY <1>4, <2>2 DEF Reached
  <2>3. CASE \E i \in 1..Len(todo) : \E q \in todo[i].left : IsPrefix(q, n)
    BY <1>1, <1>2, <1>3, <2>3 DEF Reached
  <2>. QED
    BY <1>1, <2>1, <2>2, <2>3 DEF Reached
<1>7. \A i \in 1..Len(todo') : \A q \in todo'[i].left : tree[q] # Absent
  BY <1>2, <1>3 DEF Coming
<1>8. Coming'
  BY <1>1, <1>6, <1>7 DEF Coming
<1>. QED
  BY <1>1, <1>5, <1>8 DEF Kept

\* Every step of the staging of a source that fits keeps to the source, and fails
\* only with an excuse.
LEMMA StageKeeps ==
  ASSUME SeedTypes, ScratchInv, ScratchInv', WalkInv, WalkInv', Charged, Fit, Kept,
         faults \in 0..MaxFaults, Stage!StageStep
  PROVE  Kept'
<1>1. ASSUME stager \in {"enter", "list", "walk", "open", "copy", "check",
                          "cache", "run", "register"}
      PROVE  Same /\ Coming
  BY <1>1 DEF Kept, Unstaged
<1>2. CASE Stage!Begin
  <2>1. stager' = "source" \/ (Stage!Faulty /\ stager' = "failed")
    BY <1>2 DEF Stage!Begin, Stage!Returns
  <2>. QED
    BY <2>1, FaultKeeps DEF Kept, Unstaged
<1>3. ASSUME NEW k \in Stage!ScratchKinds, Stage!Collide(k) PROVE Kept'
  <2>1. stager' = stager /\ stager \in {"source", "cache"} /\ UNCHANGED <<tree, copy, todo>>
    BY <1>3 DEF Stage!Collide, Stage!walkVars, Stage!ScratchKinds
  <2>2. CASE stager = "source"
    BY <2>1, <2>2 DEF Kept, Unstaged
  <2>3. CASE stager = "cache"
    BY <1>1, <2>1, <2>3, CalmKeeps DEF NodeAt
  <2>. QED
    BY <2>1, <2>2, <2>3
<1>4. ASSUME NEW k \in Stage!ScratchKinds, Stage!Exhausted(k) PROVE Kept'
  BY <1>4, FailsKeeps DEF Stage!Exhausted
<1>5. CASE Stage!CreateSource
  <2>1. CASE Stage!Faulty /\ stager' = "failed"
    BY <2>1, FaultKeeps
  <2>2. CASE stager' = "enter" /\ tree' = tree
    <3>1. /\ todo' = <<>>
          /\ \A q \in Paths : NodeAt(q)' = IF q = <<>> THEN Directory ELSE Absent
      BY <2>2 DEF WalkInv, AtEnds
    <3>2. tree[<<>>] = Directory
      BY DEF Fit, Trees
    <3>3. Same'
      BY <2>2, <3>1, <3>2 DEF Same
    <3>4. Coming'
      BY <2>2, <3>1 DEF Coming, Reached
    <3>. QED
      BY <2>2, <3>3, <3>4 DEF Kept
  <2>. QED
    BY <1>5, <2>1, <2>2 DEF Stage!CreateSource
<1>6. CASE Stage!CreateCache
  <2>1. CASE Stage!Faulty /\ Stage!Returns("failed")
    BY <2>1, FaultKeeps DEF Stage!Returns
  <2>2. CASE /\ stager = "cache" /\ stager' = "run"
             /\ UNCHANGED <<tree, copy>> /\ UNCHANGED Stage!walkVars
    BY <1>1, <2>2, CalmKeeps DEF NodeAt, Stage!walkVars
  <2>. QED
    BY <1>6, <2>1, <2>2 DEF Stage!CreateCache, Stage!CanMake
<1>7. CASE Stage!EnterRoot
  BY <1>1, <1>7, EnterRootKeeps DEF Stage!EnterRoot
<1>8. CASE Stage!List
  BY <1>1, <1>8, ListKeeps DEF Stage!List
<1>9. ASSUME NEW p \in Paths, Stage!Next(p) PROVE Same /\ Coming
  BY <1>1, <1>9 DEF Stage!Next
<1>10. ASSUME NEW p \in Paths, Stage!LookFails(p) PROVE Kept'
  <2>1. Stage!Next(p) /\ Stage!Fails /\ (Stage!Refused(p) \/ tree[p].kind = "pipe")
    BY <1>10 DEF Stage!LookFails
  <2>2. late
    BY <1>9, <2>1, RefusedIsLate
  <2>. QED
    BY <2>1, <2>2, FailsKeeps
<1>11. ASSUME NEW p \in Paths, Stage!LookDirectory(p) PROVE Kept'
  BY <1>9, <1>11, LookDirectoryKeeps DEF Stage!LookDirectory
<1>12. ASSUME NEW p \in Paths, Stage!LookFile(p) PROVE Kept'
  BY <1>9, <1>12, LookFileKeeps DEF Stage!LookFile
<1>13. CASE Stage!Open
  BY <1>1, <1>13, OpenKeeps DEF Stage!Open
<1>14. CASE Stage!Copy
  BY <1>1, <1>14, CopyKeeps DEF Stage!Copy
<1>15. CASE Stage!Check
  BY <1>1, <1>15, CheckKeeps DEF Stage!Check
<1>16. CASE Stage!Leave
  BY <1>1, <1>16, LeaveKeeps DEF Stage!Leave
<1>17. CASE Stage!Permitted
  <2>1. CASE late /\ Stage!Fails
    BY <2>1, FailsKeeps
  <2>2. CASE stager = "walk" /\ stager' \in {"cache", "run"} /\ UNCHANGED <<tree, copy, todo>>
    BY <1>1, <2>2, CalmKeeps DEF NodeAt
  <2>. QED
    BY <1>17, <2>1, <2>2 DEF Stage!Permitted, Stage!walkVars
<1>18. CASE Stage!CommandEnds
  <2>1. CASE late /\ Stage!Fails
    BY <2>1, FailsKeeps
  <2>2. CASE Stage!Faulty /\ Stage!Returns("failed")
    BY <2>2, FaultKeeps DEF Stage!Returns
  <2>3. CASE stager = "run" /\ stager' = "register" /\ UNCHANGED <<tree, copy, todo>>
    BY <1>1, <2>3, CalmKeeps DEF NodeAt
  <2>. QED
    BY <1>18, <2>1, <2>2, <2>3 DEF Stage!CommandEnds, Stage!walkVars
<1>19. CASE Stage!Register
  <2>1. CASE late /\ Stage!Fails
    BY <2>1, FailsKeeps
  <2>2. CASE Stage!Faulty /\ Stage!Returns("failed")
    BY <2>2, FaultKeeps DEF Stage!Returns
  <2>3. CASE stager' = "done"
    BY <2>3 DEF Kept, Unstaged
  <2>. QED
    BY <1>19, <2>1, <2>2, <2>3 DEF Stage!Register, Stage!Returns
<1>. QED
  BY <1>2, <1>3, <1>4, <1>5, <1>6, <1>7, <1>8, <1>10, <1>11, <1>12, <1>13, <1>14, <1>15, <1>16,
     <1>17, <1>18, <1>19 DEF Stage!StageStep

\* The invariant: the form of the layer carries the budgets over to the node.
StagedInv == PackForm /\ StageWhole

\* The two walks keep their parts, and unpacking hands one to the other.
LEMMA NextStaged ==
  ASSUME SeedTypes, SeedTypes', ScratchInv, ScratchInv', WalkInv, WalkInv', Charged, PackInv,
         StagedInv, [Next]_vars
  PROVE  StagedInv'
<1>1. ASSUME UNCHANGED <<packer, layer, opened.node.kind>> PROVE PackForm'
  BY <1>1 DEF StagedInv, PackForm
<1>2. CASE Packs
  <2>1. /\ Pack!PackStep /\ phase = "packing" /\ UNCHANGED <<phase, edited>>
        /\ UNCHANGED <<stager, faults>>
    BY <1>2 DEF Packs, seedVars, stageVars
  <2>2. packer = "start" => tree[<<>>] = Directory
    BY <2>1 DEF PackInv, PackWhole, Unedited, Trees
  <2>3. PackForm'
    BY <2>1, <2>2, PackKeepsForm DEF StagedInv, SeedTypes, PackInv
  <2>4. StageWhole'
    BY <2>1 DEF StagedInv, StageWhole, Quiet
  <2>. QED
    BY <2>3, <2>4 DEF StagedInv
<1>3. CASE Unpack
  <2>1. /\ phase = "packing" /\ phase' = "staging" /\ UNCHANGED <<stager, faults>>
        /\ UNCHANGED <<packer, layer, opened>>
    BY <1>3 DEF Unpack, packVars, stageVars
  <2>2. stager = "begin" /\ faults \in 0..MaxFaults
    BY <2>1 DEF StagedInv, StageWhole
  <2>3. Fit'
    BY <1>3, UnpackFits DEF StagedInv, SeedTypes, PackInv
  <2>4. Kept'
    BY <2>1, <2>2 DEF Kept, Unstaged
  <2>. QED
    BY <1>1, <2>1, <2>2, <2>3, <2>4 DEF StagedInv, StageWhole
<1>4. CASE Stages
  <2>1. /\ Stage!StageStep /\ phase = "staging" /\ UNCHANGED <<phase, edited>>
        /\ UNCHANGED <<packer, layer, opened>>
    BY <1>4 DEF Stages, seedVars, packVars
  <2>2. tree' = tree
    BY <2>1, StageKeepsHeld DEF SeedTypes
  <2>3. faults \in 0..MaxFaults /\ faults' \in 0..MaxFaults
    <3>1. faults \in 0..MaxFaults
      BY DEF StagedInv, StageWhole
    <3>2. faults' = faults \/ Stage!Faulty
      BY <2>1 DEF Stage!StageStep, Stage!Begin, Stage!Collide, Stage!Exhausted,
         Stage!CreateSource, Stage!CreateCache, Stage!EnterRoot, Stage!EnterDirectory,
         Stage!List, Stage!LookFails, Stage!LookDirectory, Stage!LookFile, Stage!Open,
         Stage!Copy, Stage!Check, Stage!Leave, Stage!Permitted, Stage!CommandEnds,
         Stage!Register, Stage!Fails
    <3>. QED
      BY <3>1, <3>2, SeedAssumption DEF Stage!Faulty
  <2>4. Quiet => Fit' /\ Kept'
    <3>1. SUFFICES ASSUME Quiet PROVE Fit' /\ Kept'
      OBVIOUS
    <3>2. Fit /\ Kept
      BY <3>1 DEF StagedInv, StageWhole
    <3>3. Fit'
      BY <2>2, <3>2 DEF Fit
    <3>. QED
      BY <2>1, <2>3, <3>2, <3>3, StageKeeps
  <2>. QED
    BY <1>1, <2>1, <2>3, <2>4 DEF StagedInv, StageWhole, Quiet
<1>5. CASE DeadlinePasses
  <2>1. /\ UNCHANGED <<tree, stager, copy, faults, phase, edited, packer, layer, opened>>
        /\ UNCHANGED <<todo, held, tries>> /\ late' /\ phase = "staging"
    BY <1>5 DEF DeadlinePasses, Stage!DeadlinePasses, Stage!walkVars, Stage!allocVars,
             packVars, seedVars
  <2>2. Kept => Kept'
    BY <2>1 DEF Kept, Excused, Same, Coming, Reached, NodeAt
  <2>3. Fit => Fit'
    BY <2>1 DEF Fit
  <2>. QED
    BY <1>1, <2>1, <2>2, <2>3 DEF StagedInv, StageWhole, Quiet
<1>6. ASSUME NEW p \in Paths, NEW node \in Nodes, EditorWrites(p, node) \/ EditorReplaces(p, node)
      PROVE  StagedInv'
  <2>1. UNCHANGED <<packer, layer, phase, stager, faults>> /\ edited'
    BY <1>6 DEF EditorWrites, EditorReplaces, Editing
  <2>2. PackForm'
    <3>1. opened \in Handles
      BY DEF SeedTypes, PackTypes
    <3>2. opened.node.kind = "file" => opened'.node.kind = "file"
      BY <1>6, <3>1 DEF EditorWrites, EditorReplaces, SeesRewrite, SeesReplace, Handles
    <3>. QED
      BY <2>1, <3>2 DEF StagedInv, PackForm
  <2>. QED
    BY <2>1, <2>2 DEF StagedInv, StageWhole, Quiet
<1>7. CASE UNCHANGED vars
  <2>1. /\ UNCHANGED <<tree, stager, copy, faults, phase, edited, packer, layer, opened>>
        /\ UNCHANGED <<todo, held, tries, late>>
    BY <1>7 DEF vars, packVars, seedVars, stageVars
  <2>2. (Kept => Kept') /\ (Fit => Fit')
    BY <2>1 DEF Kept, Excused, Same, Coming, Reached, NodeAt, Fit
  <2>. QED
    BY <1>1, <2>1, <2>2 DEF StagedInv, StageWhole, Quiet
<1>. QED
  BY <1>2, <1>3, <1>4, <1>5, <1>6, <1>7 DEF Next

LEMMA InitStaged == Init => StagedInv
<1>1. SUFFICES ASSUME Init PROVE StagedInv
  OBVIOUS
<1>2. /\ packer = "start" /\ layer = <<>> /\ phase = "packing"
      /\ stager = "begin" /\ faults = MaxFaults
  BY <1>1 DEF Init, Pack!PackInit, Stage!StageInit
<1>. QED
  BY <1>2, SeedAssumption DEF StagedInv, PackForm, StageWhole, Quiet

LEMMA StagedIs ==
  ASSUME WalkInv, Charged, StagedInv, SeedTypes PROVE PackedIsStaged
<1>1. SUFFICES ASSUME phase = "staging", ~edited PROVE PackedIsStaged
  BY DEF PackedIsStaged
<1>2. Fit /\ Kept
  BY <1>1 DEF StagedInv, StageWhole, Quiet
<1>3. ASSUME stager \in {"cache", "run", "register"} PROVE Copied = tree
  <2>1. Same /\ Coming /\ todo = <<>>
    BY <1>2, <1>3 DEF Kept, Unstaged, WalkInv, AtEnds
  <2>2. ASSUME NEW p \in Paths PROVE NodeAt(p) = tree[p]
    <3>1. CASE NodeAt(p) # Absent
      BY <1>3, <2>1, <3>1 DEF Same
    <3>2. CASE tree[p] # Absent
      <4>1. Reached(p)
        BY <2>1, <3>2 DEF Coming
      <4>2. NodeAt(p) # Absent
        BY <1>3, <2>1, <4>1 DEF Reached
      <4>. QED
        BY <3>1, <4>2
    <3>. QED
      BY <3>1, <3>2
  <2>. QED
    BY <2>2 DEF Copied, NodeAt, SeedTypes
<1>. QED
  BY <1>1, <1>2, <1>3 DEF PackedIsStaged, Kept, Excused

\* What the client packs the node stages: unless it is edited on the node, a call
\* is too late or a system call fails, the unpacked tree is copied, and that is what
\* is evaluated (stage_development_installable, copy_staged_tree).
THEOREM PackedSeedIsStaged == Spec => []PackedIsStaged
<1>1. Init => ScratchInv /\ WalkInv /\ SeedTypes /\ Charged /\ PackInv /\ StagedInv
  BY InitScratch, InitWalk, InitTypes, InitCharges, InitPack, InitStaged
<1>2. ScratchInv /\ WalkInv /\ SeedTypes /\ Charged /\ PackInv /\ StagedInv /\ [Next]_vars
        => ScratchInv' /\ WalkInv' /\ SeedTypes' /\ Charged' /\ PackInv' /\ StagedInv'
  <2>1. SUFFICES ASSUME ScratchInv, WalkInv, SeedTypes, Charged, PackInv, StagedInv, [Next]_vars
                 PROVE  ScratchInv' /\ WalkInv' /\ SeedTypes' /\ Charged' /\ PackInv' /\ StagedInv'
    OBVIOUS
  <2>2. ScratchInv'
    BY <2>1, NextScratch
  <2>3. WalkInv'
    BY <2>1, <2>2, NextWalk
  <2>4. SeedTypes' /\ PackInv'
    BY <2>1, NextTypes, NextPack
  <2>5. Charged'
    BY <2>1, <2>2, NextCharges
  <2>6. StagedInv'
    BY <2>1, <2>2, <2>3, <2>4, NextStaged
  <2>. QED
    BY <2>2, <2>3, <2>4, <2>5, <2>6
<1>3. WalkInv /\ Charged /\ StagedInv /\ SeedTypes => PackedIsStaged
  BY StagedIs
<1>. QED
  BY <1>1, <1>2, <1>3, PTL DEF Spec
=============================================================================
