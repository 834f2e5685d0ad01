------------------------------- MODULE Packing -------------------------------
(***************************************************************************)
(* pack_source: a directory becomes the layer of a seed image.  The walk   *)
(* charges the budgets the node will stage with, so that what is too much  *)
(* is refused here, and looks at each name before it opens it.  Or         *)
(* pack_generated, which takes its files from memory.                      *)
(***************************************************************************)
EXTENDS SourceTree, FiniteSetsExt

CONSTANTS
  IncludeVcs,  \* --include-vcs
  Unfit        \* the paths that fit in no tar header

VARIABLES
  packer,   \* where the walk is
  names,    \* the listings it still has to go through, the innermost first
  opened,   \* the file it has open
  layer,    \* what it has written
  charged   \* the budget: entries and bytes

packVars == <<packer, names, opened, layer, charged>>

PackInit ==
  /\ packer = "start"
  /\ names = <<>>
  /\ opened = NoHandle
  /\ layer = <<>>
  /\ charged = [entries |-> 0, bytes |-> 0]

Entry(p, node) == [path |-> p, node |-> node]

PackFails ==
  /\ packer' = "failed"
  /\ UNCHANGED <<tree, names, opened, layer, charged>>

\* charge_entry, for the entry that is looked at.
OverEntries == charged.entries + 1 > MaxEntries

\* A directory goes into the layer, and is listed next.
Enter(p) ==
  IF OverEntries \/ p \in Unfit
  THEN PackFails
  ELSE /\ charged' = [charged EXCEPT !.entries = @ + 1]
       /\ layer' = Append(layer, Entry(p, Directory))
       /\ packer' = "list"
       /\ UNCHANGED <<tree, names, opened>>

\* The checks before the walk, and the root.
Start ==
  /\ packer = "start"
  /\ IF tree[Flake].kind # "file" THEN PackFails ELSE Enter(<<>>)

\* Files without directories may as well have been generated: they are sorted,
\* charged and written in one go, and no flake.nix is asked for.
Generated == {p \in Paths \ {<<>>} : tree[p] # Absent}

Generate ==
  /\ packer = "start"
  /\ \A p \in Generated : Len(p) = 1 /\ tree[p].kind = "file"
  /\ LET order == <<<<>>>> \o InOrder(Generated)
         total == [entries |-> Len(order),
                   bytes |-> MapThenSumSet(LAMBDA p : tree[p].length, Generated)]
     IN  IF total.entries > MaxEntries \/ total.bytes > MaxBytes \/ Generated \cap Unfit # {}
         THEN PackFails
         ELSE /\ layer' = [i \in DOMAIN order |-> Entry(order[i], tree[order[i]])]
              /\ charged' = total
              /\ packer' = "packed"
              /\ UNCHANGED <<tree, names, opened>>

\* The next name of the innermost listing, and the listings without it.
Name == Head(Head(names))

Advance == <<Tail(Head(names))>> \o Tail(names)

\* read_dir and sort, for the root or the name that was looked at.
List ==
  /\ packer = "list"
  /\ LET p == IF names = <<>> THEN <<>> ELSE Name
     IN  IF tree[p] # Directory
         THEN PackFails
         ELSE /\ names' = <<InOrder(Children(p))>> \o (IF names = <<>> THEN <<>> ELSE Advance)
              /\ packer' = "walk"
              /\ UNCHANGED <<tree, opened, layer, charged>>

Leave ==
  /\ packer = "walk" /\ names # <<>>
  /\ Head(names) = <<>>
  /\ names' = Tail(names)
  /\ UNCHANGED <<tree, packer, opened, layer, charged>>

Walking == packer = "walk" /\ names # <<>> /\ Head(names) # <<>>

\* symlink_metadata of the next name: links and what is neither file nor
\* directory are refused.
LookFails ==
  /\ Walking
  /\ tree[Name].kind \in {"absent", "link", "pipe"}
  /\ PackFails

LookDirectory ==
  /\ Walking
  /\ tree[Name] = Directory
  /\ IF Name \in VcsPaths /\ ~IncludeVcs
     THEN names' = Advance /\ UNCHANGED <<tree, packer, opened, layer, charged>>
     ELSE Enter(Name)

LookFile ==
  /\ Walking
  /\ tree[Name].kind = "file"
  /\ IF OverEntries
     THEN PackFails
     ELSE /\ charged' = [charged EXCEPT !.entries = @ + 1]
          /\ packer' = "open"
          /\ UNCHANGED <<tree, names, opened, layer>>

\* Mutant: the bytes are charged nowhere.
OpenUncharged ==
  /\ packer = "open"
  /\ tree[Name].kind = "file"
  /\ opened' = Handle(Name, tree[Name], tree[Name].length)
  /\ packer' = "read"
  /\ UNCHANGED <<tree, names, layer, charged>>

\* read_regular: open with O_NOFOLLOW, fstat, charge.  To open a pipe is to wait
\* for its writer, who may never come: then there is no step.
Open ==
  /\ packer = "open"
  /\ tree[Name].kind # "pipe"
  /\ IF tree[Name].kind # "file" \/ charged.bytes + tree[Name].length > MaxBytes
     THEN PackFails
     ELSE /\ opened' = Handle(Name, tree[Name], tree[Name].length)
          /\ charged' = [charged EXCEPT !.bytes = @ + tree[Name].length]
          /\ packer' = "read"
          /\ UNCHANGED <<tree, names, layer>>

\* Mutant: what was read is taken for what was charged.
ReadUnchecked ==
  /\ packer = "read"
  /\ layer' = Append(layer, Entry(Name, opened.node))
  /\ names' = Advance
  /\ opened' = NoHandle
  /\ packer' = "walk"
  /\ UNCHANGED <<tree, charged>>

\* Exactly as many bytes as were charged, or the file has changed.
Read ==
  /\ packer = "read"
  /\ IF opened.node.length # opened.expected \/ Name \in Unfit
     THEN PackFails
     ELSE /\ layer' = Append(layer, Entry(Name, opened.node))
          /\ names' = Advance
          /\ opened' = NoHandle
          /\ packer' = "walk"
          /\ UNCHANGED <<tree, charged>>

Packed ==
  /\ packer = "walk" /\ names = <<>>
  /\ packer' = "packed"
  /\ UNCHANGED <<tree, names, opened, layer, charged>>

PackStep ==
  \/ Start \/ Generate
  \/ List \/ Leave
  \/ LookFails \/ LookDirectory \/ LookFile
  \/ Open \/ Read \/ Packed
-----------------------------------------------------------------------------
(***************************************************************************)
(* What packing an unchanging tree comes to, by definition.                *)
(***************************************************************************)
Skipped == IF IncludeVcs THEN {} ELSE {p \in VcsPaths : tree[p] = Directory}

Taken == {p \in Paths : tree[p] # Absent /\ ~\E v \in Skipped : IsPrefix(v, p)}

Listing == LET order == InOrder(Taken)
           IN  [i \in DOMAIN order |-> Entry(order[i], tree[order[i]])]
=============================================================================
