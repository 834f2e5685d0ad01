----------------------------- MODULE SourceTree -----------------------------
(***************************************************************************)
(* A source tree on a disk, and the editor that changes it while somebody  *)
(* walks it.  The client packs such a tree into a seed image               *)
(* (Packing.tla), the node stages it out of the image (Staging.tla); both  *)
(* look at a name first, open it later and read it last.                   *)
(*                                                                         *)
(* A path is the sequence of the positions of its names among their        *)
(* siblings, so that the byte order of names is the order of numbers.  Of  *)
(* a file only the length matters, and that is a small number.  A link     *)
(* leads nowhere.                                                          *)
(***************************************************************************)
EXTENDS Naturals, Sequences, SequencesExt

CONSTANTS
  Paths,       \* the paths there may be, <<>> for the root among them
  Lengths,     \* the lengths of files
  Flake,       \* the path of flake.nix
  VcsPaths,    \* the paths named .git, .hg, .jj or .svn
  MaxEntries,  \* MAX_STAGED_SOURCE_ENTRIES
  MaxBytes     \* MAX_STAGED_SOURCE_BYTES

ASSUME SourceTreeAssumption ==
  /\ <<>> \in Paths
  /\ Paths \subseteq Seq(Nat) /\ IsFiniteSet(Paths)
  /\ \A p \in Paths : p # <<>> => Front(p) \in Paths
  /\ Lengths \subseteq Nat
  /\ Flake \in Paths \ {<<>>}
  /\ VcsPaths \subseteq Paths \ {<<>>}
  /\ MaxEntries \in Nat \ {0} /\ MaxBytes \in Nat

VARIABLE tree  \* what there is at each path

\* What there is at a path.
Node(kind, length) == [kind |-> kind, length |-> length]

Absent == Node("absent", 0)
Directory == Node("dir", 0)

Nodes == {Node(k, 0) : k \in {"absent", "dir", "link", "pipe"}} \cup {Node("file", l) : l \in Lengths}

\* The root is a directory, and whatever is there is in a directory.
Trees == {t \in [Paths -> Nodes] :
            /\ t[<<>>] = Directory
            /\ \A p \in Paths \ {<<>>} : t[p] # Absent => t[Front(p)] = Directory}

Children(p) == {q \in Paths \ {<<>>} : Front(q) = p /\ tree[q] # Absent}

\* Directories before what they hold, siblings by name.
Before(p, q) ==
  \/ IsStrictPrefix(p, q)
  \/ \E i \in 1..Len(p) : i <= Len(q) /\ p[i] < q[i] /\ SubSeq(p, 1, i - 1) = SubSeq(q, 1, i - 1)

\* At place i is what i - 1 of the others come before.
InOrder(S) ==
  [i \in 1..Cardinality(S) |-> CHOOSE p \in S : Cardinality({q \in S : Before(q, p)}) = i - 1]

\* An open file: the path it was opened under, whether that still names it, what
\* it is now and the length the reader expects.
Handle(p, node, expected) == [path |-> p, named |-> TRUE, node |-> node, expected |-> expected]

NoHandle == [path |-> <<>>, named |-> FALSE, node |-> Absent, expected |-> 0]

\* The editor writes to the file at p, which those who have it open will see, ...
Rewrite(p, node) == [tree EXCEPT ![p] = node]

SeesRewrite(h, p, node) == IF h.named /\ h.path = p THEN [h EXCEPT !.node = node] ELSE h

\* ... or gives the name to something else, or to nothing, which they will not.
Replace(p, node) ==
  [q \in Paths |-> IF q = p THEN node ELSE IF IsStrictPrefix(p, q) THEN Absent ELSE tree[q]]

SeesReplace(h, p) == IF IsPrefix(p, h.path) THEN [h EXCEPT !.named = FALSE] ELSE h
=============================================================================
