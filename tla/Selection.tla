------------------------------ MODULE Selection ------------------------------
(***************************************************************************)
(* What a container is made of, by its annotations and its image: the      *)
(* decision of spec.rs that the shim takes before it asks anybody, and     *)
(* that kubectl-imageless takes before it prints a pod.                    *)
(*                                                                         *)
(* Annotations are a record with None for a key that is not there.  A      *)
(* selector is the set of the names it lists, or Malformed; `none` stands  *)
(* for a container without a CRI name.                                     *)
(***************************************************************************)
EXTENDS References

CONSTANTS None, Malformed

\* A reference to a release, as an annotation carries it.
ValidRelease(release) == release # Malformed

\* The image of a container, by what is at etc/imageless/flake.nix.
Images == {"plain", "flake", "symlink"}

NoAnnotations ==
  [sandbox |-> FALSE, name |-> None, source |-> None, output |-> None, release |-> None,
   skip |-> None, only |-> None, skipRelease |-> None, onlyRelease |-> None]

Pass == [kind |-> "pass"]
Refuse == [kind |-> "refuse"]
Selected(release) == [kind |-> "release", release |-> release]
Evaluable(uri, output) == [kind |-> "flake", installable |-> [uri |-> uri, output |-> output]]

\* The selectors of the annotation family that the container uses.
Skip(a) == IF a.release # None THEN a.skipRelease ELSE a.skip
Only(a) == IF a.release # None THEN a.onlyRelease ELSE a.only

\* A selector that skips the container wins before the other one is looked at.
Skipped(a) == Skip(a) \notin {None, Malformed} /\ a.name # None /\ a.name \in Skip(a)

SelectorsValid(a) == Skip(a) # Malformed /\ Only(a) # Malformed

Listed(a) == Only(a) # None => a.name # None /\ a.name \in Only(a)

\* Where a source in the image is, seen from the node.
InRootfs(source) == <<"path", ":", "rootfs">> \o source

Plan(a, default) ==
  LET output == IF a.output = None THEN default ELSE a.output
  IN IF a.sandbox \/ Skipped(a) THEN Pass
     ELSE IF ~SelectorsValid(a) THEN Refuse
     ELSE IF ~Listed(a) THEN Pass
     ELSE IF a.release # None
     THEN IF ValidRelease(a.release) /\ a.source = None THEN Selected(a.release) ELSE Refuse
     ELSE IF a.source = None THEN Pass
     ELSE IF ~ValidSource(a.source) \/ ~ValidOutput(output) THEN Refuse
     ELSE Evaluable(IF StartsWith(a.source, "/") THEN InRootfs(a.source) ELSE a.source, output)

EmbeddedSource == <<"/", "etc", "/", "imageless">>

\* What is there is not what is not.
ASSUME NoneAssumption == None # Malformed /\ None # EmbeddedSource

\* The embedded flake counts where neither annotation names anything; one that
\* is no regular file is refused.
ExpansionRequest(a, image, default) ==
  IF a.release # None \/ a.source # None \/ image = "plain" THEN Plan(a, default)
  ELSE IF image = "symlink" THEN Refuse
  ELSE Plan([a EXCEPT !.source = EmbeddedSource], default)
=============================================================================
