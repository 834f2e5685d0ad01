------------------------------ MODULE MCResolver ------------------------------
(***************************************************************************)
(* The resolver for TLC: a release of two store paths and a development    *)
(* source of one.                                                          *)
(***************************************************************************)
EXTENDS Resolver, TLC

CONSTANTS release, source, c1, c2, c3, c4

\* One request for the source: the others share the release.
Requests == [c \in Callers |-> IF c = c3 THEN source ELSE release]

\* One request for the release: the others share the source.
TwoSources == [c \in Callers |-> IF c = c3 THEN release ELSE source]

Sizes == [k \in Keys |-> IF k = release THEN 2 ELSE 1]

OnePath == [k \in Keys |-> 1]

\* The second root of c1 is taken: c1 fails after it has realised a path.
OneObstacle == [c \in Callers |-> IF c = c1 THEN 2 ELSE 0]

\* Its only one is.
FirstObstacle == [c \in Callers |-> IF c = c1 THEN 1 ELSE 0]
=============================================================================
