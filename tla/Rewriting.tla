------------------------------ MODULE Rewriting ------------------------------
(***************************************************************************)
(* What prepare_bundle makes of config.json: the root, the process and the *)
(* mounts of a resolution (bundle.rs), and the store that they need        *)
(* (mounts.rs).                                                            *)
(*                                                                         *)
(* A config is [root, process, mounts]; process is None or [args, env,     *)
(* cwd], a variable [name, value], a mount [destination, source, kind].  A *)
(* text is a sequence of lumps.                                            *)
(***************************************************************************)
EXTENDS Releases

\* The container path that a destination comes to.
Components(text) ==
  FoldLeft(LAMBDA path, l : IF l \in {"/", "."} THEN path ELSE Append(path, l), <<>>, text)

\* A text whose names are lumps of their own.
Spelled(text) ==
  /\ text \in Seq(Range(text))
  /\ \A i \in 2..Len(text) : text[i - 1] = "/" \/ text[i] = "/"

\* Where something is mounted.
SpelledMounts(mounts) ==
  mounts \in Seq(Range(mounts)) /\ \A i \in DOMAIN mounts : Spelled(mounts[i].destination)

\* One path is the other, or inside it.
Overlaps(text, other) ==
  \/ IsPrefix(Components(text), Components(other))
  \/ IsPrefix(Components(other), Components(text))

NormalizedDestination(text) == StartsWith(text, "/") /\ CanonicalPath(text)

-----------------------------------------------------------------------------
\* Without an entrypoint of the release the first argument stays; its arguments
\* replace the others.
Arguments(process, metadata) ==
  (IF metadata.entrypoint # None THEN metadata.entrypoint
   ELSE SubSeq(process.args, 1, IF process.args = <<>> THEN 0 ELSE 1))
    \o (IF metadata.defaultArgs # None THEN metadata.defaultArgs ELSE <<>>)

ReplacesArguments(metadata) == metadata.entrypoint # None \/ metadata.defaultArgs # None

\* The last of several variables of one name is the one that counts; one that the
\* workload may set keeps the workload's value.
SetVariable(env, entry) ==
  LET at == SelectLastInSeq(env, LAMBDA v : v.name = entry.name)
      variable == [name |-> entry.name, value |-> entry.value]
  IN IF at = 0 THEN Append(env, variable)
     ELSE IF entry.allowWorkloadOverride THEN env ELSE [env EXCEPT ![at] = variable]

ApplyProcess(process, metadata) ==
  [args |-> IF ReplacesArguments(metadata) THEN Arguments(process, metadata) ELSE process.args,
   cwd |-> IF metadata.workingDirectory # None THEN metadata.workingDirectory ELSE process.cwd,
   env |-> FoldLeft(SetVariable, process.env, metadata.environment)]

ProcessRefused(config, metadata) ==
  /\ metadata # None
  /\ \/ config.process = None
     \/ ReplacesArguments(metadata) /\ Arguments(config.process, metadata) = <<>>

-----------------------------------------------------------------------------
Destinations(mounts) == {mounts[i].destination : i \in DOMAIN mounts}

Bind(mount) == [destination |-> mount.destination, source |-> mount.source, kind |-> "bind"]

\* Equal texts collide, and nothing else.
MountsCollide(config, mounts) ==
  \/ \E i \in DOMAIN mounts : mounts[i].destination \in Destinations(config.mounts)
  \/ ~Distinct([i \in DOMAIN mounts |-> mounts[i].destination])

\* Mutant: destinations are taken as they are spelled.
ProjectionTakesAnyText(mounts) ==
  \E destination \in Destinations(mounts) : Overlaps(destination, NixStore)

\* Whatever is mounted must be elsewhere than the store.
ProjectionRefused(mounts) ==
  \E destination \in Destinations(mounts) :
    ~NormalizedDestination(destination) \/ Overlaps(destination, NixStore)

\* The whole store, or a tmpfs in its place and on it the closure, but for the
\* container's own root.
Projection(kind, root, closure) ==
  IF kind = "node"
  THEN <<[destination |-> NixStore, source |-> NixStore, kind |-> "bind"]>>
  ELSE <<[destination |-> NixStore, source |-> <<>>, kind |-> "tmpfs"]>>
         \o SetToSeq({Bind([destination |-> path, source |-> path]) : path \in closure \ {root}})

\* apply_resolution: the new config, or None.
Rewritten(config, resolution, kind, closure) ==
  LET mounts == config.mounts \o [i \in DOMAIN resolution.mounts |-> Bind(resolution.mounts[i])]
  IN IF \/ config.root = None
        \/ ProcessRefused(config, resolution.process)
        \/ MountsCollide(config, resolution.mounts)
        \/ ProjectionRefused(mounts)
     THEN None
     ELSE [root |-> resolution.rootfs,
           process |-> IF resolution.process = None THEN config.process
                       ELSE ApplyProcess(config.process, resolution.process),
           mounts |-> mounts \o Projection(kind, resolution.rootfs, closure)]
=============================================================================
