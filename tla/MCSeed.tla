------------------------------- MODULE MCSeed -------------------------------
(***************************************************************************)
(* A directory with .git, flake.nix and a directory of up to two names.    *)
(***************************************************************************)
EXTENDS Seed

Git == <<1>>
FlakeNix == <<2>>
Src == <<3>>

SomePaths == {<<>>, Git, FlakeNix, Src, <<3, 1>>, <<3, 2>>}

Vcs == {Git}

\* .git is there or not, flake.nix is a file or not, the rest is anything.
SomeSources ==
  {t \in Trees : /\ t[Git] \in {Absent, Directory, Node("file", 0)}
                 /\ t[FlakeNix] \in {Node("file", 1), Node("link", 0)}
                 /\ t[Src].kind # "file" \/ t[Src].length < 2
                 /\ t[<<3, 2>>] \in {Absent, Node("file", 1)}}

\* The first name is taken, or none, or all that are tried.
SomeLeftovers ==
  {[k \in {"source", "cache"} |-> {}],
   [k \in {"source", "cache"} |-> {0}],
   [k \in {"source", "cache"} |-> IF k = "source" THEN {} ELSE {0, 1}]}
=============================================================================
