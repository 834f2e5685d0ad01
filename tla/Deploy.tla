------------------------------- MODULE Deploy -------------------------------
(***************************************************************************)
(* A deployment from the command line to the container: kubectl-imageless  *)
(* parses, pins or packs, pushes and prints a pod; on a node the shim      *)
(* selects, asks the daemon, rewrites the bundle and hands it to the       *)
(* runtime.  Meanwhile the channel moves and the catalog changes.  A pod   *)
(* may also be written by hand, and somebody may ask the daemon to prewarm *)
(* or to inspect a release.                                                *)
(***************************************************************************)
EXTENDS Rewriting, Scripts, Doctor

CONSTANTS
  Commands,      \* the command lines of `run`
  Examinations,  \* those of `doctor`
  Clusters,      \* what a cluster may answer to doctor
  Handwritten,   \* pods of another author: [annotations, image, command]
  Pointers,      \* what a channel's pointer may hold: a digest, None, or Malformed
  Offers,        \* what the node's catalog may come to serve in place of a body
  Nodes,         \* a node's [place, worker, file, explicit, carries, projection]
  Bundles,       \* the config.json that the runtime may be given
  System,        \* the node's own system
  Requisites,    \* the closure of each store path
  Answers,       \* what path-info may answer: a function to [nar, download]
  MaxSize,       \* u64::MAX
  MaxChanges,    \* bound: how often the channel or the catalog changes
  MaxCalls       \* bound: how often the daemon is asked

\* The bodies that somebody may name.
Bodies ==
  (Pointers \cup {p.annotations.release.digest :
                   p \in {q \in Handwritten : q.annotations.release \notin {None, Malformed}}})
    \ {None, Malformed}

\* A reference is a text, a borrowed image has something or nothing at etc/imageless,
\* sizes are numbers, and destinations are spelled out; the runtime mounts nothing
\* over something else; what store paths need is in the store.
ASSUME DeployAssumption ==
  /\ \A c \in Commands : /\ c.reference \in Seq(STRING)
                         /\ c.image \in {None, "placeholder"} \cup Images
  /\ MaxSize \in Nat
  /\ \A infos \in Answers : /\ IsFiniteSet(DOMAIN infos)
                            /\ \A path \in DOMAIN infos :
                                 /\ infos[path].nar \in Nat
                                 /\ infos[path].download # None => infos[path].download \in Nat

ASSUME MountsAssumption ==
  /\ \A c \in Bundles :
       /\ SpelledMounts(c.mounts)
       /\ \A i, j \in DOMAIN c.mounts :
            Components(c.mounts[i].destination) = Components(c.mounts[j].destination) => i = j
  /\ \A body \in Bodies : body.schema # None =>
       \A system \in DOMAIN body.targets : SpelledMounts(body.targets[system].mounts)

ASSUME AnnotationsAssumption == \A p \in Handwritten : DOMAIN p.annotations = DOMAIN NoAnnotations

ASSUME StoreAssumption ==
  /\ {"dev", "seed"} \subseteq StoreNames /\ {"/", "."} \cap StoreNames = {}
  /\ \A name \in StoreNames : /\ IsFiniteSet(Requisites[StorePath(name)])
                              /\ \A path \in Requisites[StorePath(name)] : ValidStorePath(path)

ASSUME ScriptsAssumption == \A c \in Commands : c.path = "script" => c.script.lines \in Lines

VARIABLES
  command,   \* what was typed
  author,    \* where kubectl-imageless is
  pinned,    \* the reference that the channel resolved to
  seed,      \* the files that were generated from a script, or None
  pushed,    \* the manifest is in the registry
  pod,       \* [annotations, image, command], or None
  verdict,   \* what doctor says: [checks, answers, exit]
  pointer,   \* what the channel's pointer holds
  served,    \* what the catalog serves instead of the body, by digest
  changes,   \* how often one of the two has changed
  node,      \* the node
  stage,     \* where the create, or the request, is; a container that was "passed" is as it was
  request,   \* what the daemon is asked
  resolution,\* what it found
  closure,   \* what the client found to be in the store with it
  roots,     \* the store paths with a root in the bundle
  bundle,    \* the config.json there was
  config,    \* the config.json there is
  temporary, \* the one being written
  fault,     \* where and why the create failed
  report,    \* the report of an inspection
  calls      \* how many creates and requests there were

authorVars == <<command, author, pinned, seed, pushed, pod, verdict>>
catalogVars == <<pointer, served, changes>>
answerVars == <<request, resolution, closure, roots, report>>
bundleVars == <<bundle, config, temporary>>
vars == <<authorVars, catalogVars, node, stage, answerVars, bundleVars, fault, calls>>

NoChange == [digest \in {} |-> None]

Init ==
  /\ \/ command \in Commands /\ author = "typed" /\ pod = None
     \/ command \in Examinations /\ author = "examining" /\ pod = None
     \/ command = None /\ author = "by hand" /\ pod \in Handwritten
  /\ pinned = None /\ seed = None /\ pushed = FALSE /\ verdict = None
  /\ pointer \in Pointers /\ served = NoChange /\ changes = 0
  /\ node \in Nodes
  /\ stage = "idle" /\ request = None /\ resolution = None
  /\ closure = {} /\ roots = {}
  /\ bundle = None /\ config = None /\ temporary = None
  /\ fault = None /\ report = None /\ calls = 0

-----------------------------------------------------------------------------
(***************************************************************************)
(* kubectl-imageless run.  A command line is a record of its flags, with   *)
(* its source read in each of three ways, as what is at a path, as a       *)
(* flake reference and as a coordinate [issuer, name, channel], and its    *)
(* image as what that has at etc/imageless.                                *)
(***************************************************************************)
Packs(c) == ~c.external /\ ~c.release

\* The channel is a lump, or None for "stable".  An issuer and a name are checked
\* where the pointer is read.
ValidCoordinate(coordinate) ==
  coordinate # Malformed /\ (coordinate.channel # None => ValidLabel(coordinate.channel))

\* A reference says which revision it is, or --unpinned says that it does not.
ValidExternal(c) ==
  /\ ValidReference(c.reference)
  /\ PinOf(c.reference) = "pinned" \/ (PinOf(c.reference) = "none" /\ c.unpinned)

\* Flags that say nothing for the mode are refused, not ignored.
ParseRefused(c) ==
  \/ c.external /\ c.release
  \/ Packs(c) /\ (c.image # None \/ (c.repo = None /\ ~c.emitSeed))
  \/ ~Packs(c) /\ (c.includeVcs \/ c.emitSeed \/ c.command = <<>> \/ (c.repo = None /\ c.image = None))
  \/ c.release /\ (c.unpinned \/ c.output # None \/ ~c.catalog \/ ~ValidCoordinate(c.coordinate))
  \/ c.external /\ (c.catalog \/ ~ValidExternal(c))
  \/ Packs(c) /\ c.catalog
  \/ c.image # None /\ (c.repo # None \/ c.tag # None \/ c.plainHttp)
  \/ Malformed \in {c.repo, c.tag}

\* run_packed: a directory is a seed, a file a script that one is generated from.
PackRefused(c) ==
  CASE c.path = "directory" -> c.unpinned \/ c.emitSeed \/ c.command = <<>>
    [] c.path = "script" -> ScriptRefused(c)
    [] OTHER -> TRUE

ParseRun ==
  /\ author = "typed"
  /\ author' = IF ParseRefused(command) THEN "failed"
               ELSE IF Packs(command) THEN "packing"
               ELSE IF command.release THEN "pinning" ELSE "pushing"
  /\ UNCHANGED <<command, pinned, seed, pushed, pod, verdict>>

\* The digest is chosen here, once; the node's own grammar has the last word.
Pin ==
  /\ author = "pinning"
  /\ LET reference == [issuer |-> command.coordinate.issuer, name |-> command.coordinate.name,
                       digest |-> pointer]
     IN IF \/ pointer \in {None, Malformed}
           \/ ~ValidLabel(reference.issuer) \/ ~ValidName(reference.name)
        THEN author' = "failed" /\ UNCHANGED pinned
        ELSE author' = "pushing" /\ pinned' = reference
  /\ UNCHANGED <<command, seed, pushed, pod, verdict>>

\* The packer refuses what it refuses (see Packing); a generated seed may be
\* written out instead.
Pack ==
  /\ author = "packing"
  /\ \/ author' = "failed" /\ UNCHANGED seed
     \/ /\ ~PackRefused(command)
        /\ seed' = IF command.path = "script"
                   THEN Generated(command.script, Parse(command.script.lines),
                                  NixSystem[command.arch], ~command.unpinned)
                   ELSE None
        /\ author' = IF command.emitSeed THEN "seeded" ELSE "pushing"
  /\ UNCHANGED <<command, pinned, pushed, pod, verdict>>

\* A borrowed image is not pushed, and nothing is in a dry run.
PushImage ==
  /\ author = "pushing"
  /\ IF command.image # None \/ command.dryRun
     THEN author' = "emitting" /\ UNCHANGED pushed
     ELSE \/ author' = "emitting" /\ pushed' = TRUE
          \/ author' = "failed" /\ UNCHANGED pushed
  /\ UNCHANGED <<command, pinned, seed, pod, verdict>>

PodAnnotations ==
  IF command.release THEN [NoAnnotations EXCEPT !.release = pinned]
  ELSE [NoAnnotations EXCEPT !.source = IF command.external THEN command.reference ELSE EmbeddedSource,
                             !.output = command.output]

\* A borrowed image is used verbatim: nobody looks whether it is a seed itself.
PodImage ==
  IF command.image # None THEN command.image ELSE IF Packs(command) THEN "seed" ELSE "placeholder"

PodCommand ==
  (IF seed = None THEN <<>> ELSE GeneratedCommand(command.script, Parse(command.script.lines)))
    \o command.command

Pod == [annotations |-> PodAnnotations, image |-> PodImage, command |-> PodCommand]

\* Mutant: the pod is printed without the node's own plan for it.
EmitUnplanned ==
  /\ author = "emitting"
  /\ author' = "emitted"
  /\ pod' = Pod
  /\ UNCHANGED <<command, pinned, seed, pushed, verdict>>

\* What the node would not materialise is not printed.
Emit ==
  /\ author = "emitting"
  /\ IF Pod.command = <<>> \/ command.badName \/ Plan(PodAnnotations, "rootfs") \in {Pass, Refuse}
     THEN author' = "failed" /\ UNCHANGED pod
     ELSE author' = "emitted" /\ pod' = Pod
  /\ UNCHANGED <<command, pinned, seed, pushed, verdict>>

\* doctor, which may be given the policy of the node and the reference of a pod.
Options ==
  [strict |-> command.strict, source |-> command.source, repo |-> command.repo,
   policy |-> IF ~command.policy THEN None ELSE IF node.file = None THEN Malformed ELSE node.file]

Examine ==
  /\ author = "examining"
  /\ author' = "examined"
  /\ \E answers \in Clusters :
       verdict' = [checks |-> Diagnose(Options, answers), answers |-> answers,
                   exit |-> ExitCode(Options, answers)]
  /\ UNCHANGED <<command, pinned, seed, pushed, pod>>

AuthorStep == ParseRun \/ Pin \/ Pack \/ PushImage \/ Emit \/ Examine

-----------------------------------------------------------------------------
\* The publisher moves the channel.
Publish ==
  /\ changes < MaxChanges
  /\ \E to \in Pointers \ {pointer} : pointer' = to
  /\ changes' = changes + 1
  /\ UNCHANGED served

\* The node's catalog loses a body, or serves something else for its digest.
Replaced(digest) ==
  /\ changes < MaxChanges
  /\ \E offer \in Offers \ {digest} : served' = (digest :> offer) @@ served
  /\ changes' = changes + 1
  /\ UNCHANGED pointer

ServedFor(digest) == IF digest \in DOMAIN served THEN served[digest] ELSE digest

-----------------------------------------------------------------------------
(***************************************************************************)
(* The shim and the daemon.                                                *)
(***************************************************************************)
\* The shim resolves in its own process, or asks a daemon; one that is to evaluate
\* does not start without a worker.  None: it did not start, or there is no policy.
Policy ==
  LET policy == LoadPolicy(node.file, node.explicit, System)
  IN IF node.place = "daemon" /\ policy # None /\ ~policy.cacheOnly /\ ~node.worker
     THEN None ELSE policy

\* The annotations that the runtime handler lets through, and the CRI's own.
Carried(a) ==
  [a EXCEPT !.release = IF "release" \in node.carries THEN @ ELSE None,
            !.source = IF "source" \in node.carries THEN @ ELSE None,
            !.output = IF "source" \in node.carries THEN @ ELSE None,
            !.name = IF a.name = None THEN "workload" ELSE @]

\* What is at etc/imageless in the image.
Embedded(image) == IF image \in {"seed", "placeholder"} THEN "flake" ELSE image

Fails(why) == stage' = "failed" /\ fault' = [at |-> stage, category |-> why]

\* create: passthrough, a refusal, or a request.
Select ==
  /\ stage = "idle" /\ calls < MaxCalls
  /\ pod # None /\ (author = "emitted" /\ command.image = None => pushed)
  /\ calls' = calls + 1
  /\ \E c \in Bundles : bundle' = c /\ config' = c
  /\ LET selected == ExpansionRequest(Carried(pod.annotations), Embedded(pod.image), "rootfs")
     IN CASE selected = Pass   -> stage' = "passed" /\ UNCHANGED <<request, fault>>
          [] selected = Refuse -> Fails("spec_conflict") /\ UNCHANGED request
          [] OTHER -> /\ stage' = "validate" /\ UNCHANGED fault
                      /\ request' = Request("runtime", selected, Carried(pod.annotations).name)
  /\ UNCHANGED <<resolution, closure, roots, report, temporary>>

\* Another client asks for the release that the pod names.
Ask(purpose) ==
  /\ stage = "idle" /\ calls < MaxCalls
  /\ pod # None /\ pod.annotations.release \notin {None, Malformed}
  /\ calls' = calls + 1
  /\ stage' = "validate"
  /\ request' = Request(purpose, Selected(pod.annotations.release), None)
  /\ UNCHANGED <<resolution, closure, roots, report, bundleVars, fault>>

Validate ==
  /\ stage = "validate"
  /\ IF Policy = None THEN Fails(IF node.place = "daemon" THEN "unavailable" ELSE "policy_denied")
     ELSE IF RequestFault(request, Policy) # None THEN Fails(RequestFault(request, Policy))
     ELSE /\ stage' = IF request.kind = "release" THEN "fetch" ELSE "realise"
          /\ UNCHANGED fault
  /\ UNCHANGED <<answerVars, bundleVars, calls>>

\* select_release: the catalog is read here, and what it serves is checked.
Fetch ==
  /\ stage = "fetch"
  /\ LET reference == request.release
         body == ServedFor(reference.digest)
         why == SelectFault(request, Policy, body)
     IN IF why # None THEN Fails(why) /\ UNCHANGED resolution
        ELSE /\ resolution' = Resolution(reference, body, Policy.system)
             /\ stage' = IF request.purpose = "inspect" THEN "query" ELSE "realise"
             /\ UNCHANGED fault
  /\ UNCHANGED <<request, closure, roots, report, bundleVars, calls>>

\* The flake of the image or of the reference; the placeholder's throws.
Evaluated(installable) ==
  [identity |-> DevelopmentIdentity(installable.uri),
   rootfs |-> StorePath(IF Staged(installable.uri) THEN "seed" ELSE "dev"),
   process |-> None, mounts |-> <<>>]

\* Substitution or evaluation, with a root for every path; a failure leaves none
\* (see Resolver).
Realise ==
  /\ stage = "realise"
  /\ \/ Fails("materialization") /\ UNCHANGED <<resolution, roots>>
     \/ /\ request.kind = "flake" /\ Staged(request.installable.uri) => pod.image # "placeholder"
        /\ resolution' = IF request.kind = "flake" THEN Evaluated(request.installable) ELSE resolution
        /\ roots' = StorePaths(resolution')
        /\ stage' = IF request.purpose = "runtime" THEN "prepare" ELSE "warm"
        /\ UNCHANGED fault
  /\ UNCHANGED <<request, closure, report, bundleVars, calls>>

-----------------------------------------------------------------------------
(***************************************************************************)
(* apply_resolution, and what prepare_bundle does when it fails.           *)
(***************************************************************************)
Abandon == Fails("spec_conflict") /\ roots' = {}

\* The store is asked for the closure, where the node projects only that; then
\* the new config is made, and its temporary file.
Prepare ==
  /\ stage = "prepare"
  /\ closure' = UNION {Requisites[path] : path \in StorePaths(resolution)}
  /\ temporary' = Rewritten(config, resolution, node.projection, closure')
  /\ IF temporary' = None THEN Abandon
     ELSE stage' = "write" /\ UNCHANGED <<roots, fault>>
  /\ UNCHANGED <<request, resolution, report, bundle, config, calls>>

\* One that cannot be written, or cannot be renamed, is removed.
Write ==
  /\ stage = "write"
  /\ \/ Abandon /\ temporary' = None
     \/ stage' = "rename" /\ UNCHANGED <<temporary, roots, fault>>
  /\ UNCHANGED <<request, resolution, closure, report, bundle, config, calls>>

Rename ==
  /\ stage = "rename"
  /\ temporary' = None
  /\ \/ Abandon /\ UNCHANGED config
     \/ config' = temporary /\ stage' = "sync" /\ UNCHANGED <<roots, fault>>
  /\ UNCHANGED <<request, resolution, closure, report, bundle, calls>>

\* The directory; the rename is not undone.
Sync ==
  /\ stage = "sync"
  /\ \/ Abandon
     \/ stage' = "started" /\ UNCHANGED <<roots, fault>>
  /\ UNCHANGED <<request, resolution, closure, report, bundleVars, calls>>

-----------------------------------------------------------------------------
(***************************************************************************)
(* Inspection.                                                             *)
(***************************************************************************)
Download(info) == IF info.download = None THEN info.nar ELSE info.download

Total(f) == MapThenSumSet(LAMBDA path : f[path], DOMAIN f)

Nar(infos) == [path \in DOMAIN infos |-> infos[path].nar]
\* Mutant: what is missing is what is there.
MissingPresent(infos, invalid) == [path \in DOMAIN infos \ invalid |-> Download(infos[path])]

Missing(infos, invalid) == [path \in DOMAIN infos \cap invalid |-> Download(infos[path])]

Report(infos, invalid) ==
  [release |-> resolution.identity,
   paths |-> [path \in DOMAIN infos |-> [nar |-> infos[path].nar, present |-> path \notin invalid,
                                         download |-> Download(infos[path])]],
   total |-> Total(Nar(infos)), missing |-> Total(Missing(infos, invalid))]

\* query_closure: the cache describes the closure, then the store says what of it
\* is not valid; a sum must fit into 64 bits.
Query ==
  /\ stage = "query"
  /\ \/ Fails("cache_query") /\ UNCHANGED report
     \/ \E infos \in Answers : \E invalid \in SUBSET DOMAIN infos :
          IF \/ ~(StorePaths(resolution) \subseteq DOMAIN infos)
             \/ \E path \in DOMAIN infos : ~ValidStorePath(path)
             \/ Total(Nar(infos)) > MaxSize \/ Total(Missing(infos, invalid)) > MaxSize
          THEN Fails("cache_query") /\ UNCHANGED report
          ELSE report' = Report(infos, invalid) /\ stage' = "reported" /\ UNCHANGED fault
  /\ UNCHANGED <<request, resolution, closure, roots, bundleVars, calls>>

\* validate_closure_report, at the client.
Believed(r, release) ==
  LET absent == {path \in DOMAIN r.paths : ~r.paths[path].present}
      missing == [path \in absent |-> r.paths[path].download]
  IN /\ r.release = release
     /\ DOMAIN r.paths # {} /\ \A path \in DOMAIN r.paths : ValidStorePath(path)
     /\ Total(Nar(r.paths)) <= MaxSize /\ Total(missing) <= MaxSize
     /\ r.total = Total(Nar(r.paths)) /\ r.missing = Total(missing)

-----------------------------------------------------------------------------
\* The container is gone, or its create failed: the pod is created again, in a
\* bundle of its own.
Again ==
  /\ stage \in {"passed", "started", "failed", "warm", "reported"} /\ calls < MaxCalls
  /\ stage' = "idle" /\ request' = None /\ resolution' = None
  /\ closure' = {} /\ roots' = {}
  /\ bundle' = None /\ config' = None /\ temporary' = None
  /\ fault' = None /\ report' = None
  /\ UNCHANGED calls

NodeStep ==
  \/ Select \/ Ask("prewarm") \/ Ask("inspect") \/ Validate \/ Fetch \/ Realise
  \/ Prepare \/ Write \/ Rename \/ Sync \/ Query \/ Again

Next ==
  \/ AuthorStep /\ UNCHANGED <<catalogVars, node, stage, answerVars, bundleVars, fault, calls>>
  \/ /\ (Publish \/ \E digest \in Pointers \ {None, Malformed} : Replaced(digest))
     /\ UNCHANGED <<authorVars, node, stage, answerVars, bundleVars, fault, calls>>
  \/ NodeStep /\ UNCHANGED <<authorVars, catalogVars, node>>

Spec == Init /\ [][Next]_vars

-----------------------------------------------------------------------------
\* The handler lets the annotation through that says what the command named.
Delivered == (IF command.release THEN "release" ELSE "source") \in node.carries

\* The pod that a command prints runs what the command named: the release of the
\* digest that the channel had when it was pinned, on a node that allows it,
\* whatever the channel and the catalog hold by then; or the flake, of the output
\* that was asked for, on a node that evaluates.  Where the handler drops the
\* annotation, a packed pod still runs its seed, and any other pod runs only if it
\* borrows its image: as it is, or, if that image is a seed, from its flake, which
\* the command did not name (run_release, run_external, parse_full_manifest,
\* embedded_source_annotations).
RunsWhatWasAuthored ==
  author = "emitted" /\ stage \in {"passed", "started"} =>
    IF stage = "passed"
    THEN ~Delivered /\ command.image = "plain"
    ELSE IF command.release /\ Delivered
    THEN /\ config.root = pinned.digest.targets[node.file.system].rootfs
         /\ pinned.digest.issuer = pinned.issuer /\ pinned.digest.name = pinned.name
         /\ node.file # None /\ pinned.issuer \in DOMAIN node.file.issuers
    ELSE /\ config.root = StorePath(IF command.external /\ Delivered THEN "dev" ELSE "seed")
         /\ Delivered \/ Packs(command) \/ command.image = "flake"
         /\ node.file # None /\ ~node.file.cacheOnly /\ (node.place = "daemon" => node.worker)
         /\ request.installable.output =
              IF "source" \in node.carries /\ command.output # None THEN command.output ELSE "rootfs"

\* A node refuses no pod that a command has printed for its form, and none for its
\* policy if the policy lists what the command said to list; except a reference
\* with nothing before its colon, which the planner takes and the daemon does not,
\* and a borrowed image whose flake is no regular file, where the handler drops the
\* annotation (podspec::pod, flakeref::policy_prefix, validate_request).
EmittedIsAdmitted ==
  author = "emitted" /\ fault # None =>
    /\ fault.at = "idle" => ~Delivered /\ command.image = "symlink"
    /\ fault.at = "validate" /\ fault.category = "invalid_request" =>
         command.external /\ Scheme(command.reference) = <<>>
    /\ fault.at = "validate" /\ fault.category = "policy_denied" /\ Policy # None =>
         IF request.kind = "release" THEN command.coordinate.issuer \notin DOMAIN Policy.issuers
         ELSE Staged(request.installable.uri) \/ PolicyPrefix(command.reference) \notin Policy.prefixes

\* The runtime gets the whole of a release or the create fails and leaves no root
\* and no temporary file, and the config as it was unless its directory could not
\* be synced.  Whole: a root for each path, the release's mounts and the
\* workload's, no two of them at one path, and every path of the closure to be
\* seen under /nix/store but for the rootfs itself, which is never mounted in
\* itself (apply_resolution, apply_node_store_projection, write_config_atomically).
DelegatesWhole ==
  /\ stage = "started" =>
       LET Places == {Components(config.mounts[i].destination) : i \in DOMAIN config.mounts}
           Bound(path) == \E i \in DOMAIN config.mounts :
             /\ config.mounts[i].kind = "bind" /\ config.mounts[i].source = path
             /\ config.mounts[i].destination = path
             /\ \A j \in i + 1..Len(config.mounts) : config.mounts[j].kind # "tmpfs"
       IN /\ config.root = resolution.rootfs /\ ~Bound(config.root)
          /\ StorePaths(resolution) \subseteq roots
          /\ Cardinality(Places) = Len(config.mounts)
          /\ IsPrefix(bundle.mounts, config.mounts)
          /\ \A i \in DOMAIN resolution.mounts : \E j \in DOMAIN config.mounts :
               /\ config.mounts[j].source = resolution.mounts[i].source
               /\ config.mounts[j].destination = resolution.mounts[i].destination
          /\ Bound(NixStore) \/ \A path \in closure \ {config.root} : Bound(path)
  /\ stage = "failed" =>
       /\ roots = {} /\ temporary = None
       /\ fault.at # "sync" => config = bundle

\* The client believes every report that the daemon makes, and a report says that
\* nothing has to be fetched only when nothing with a size does (query_closure,
\* validate_closure_report).
ReportIsBelieved ==
  stage = "reported" =>
    /\ Believed(report, request.release)
    /\ report.missing = 0 =>
         \A path \in DOMAIN report.paths : report.paths[path].present \/ report.paths[path].download = 0

\* What the lines say, read one after the other until one is not shebang.
Said(lines) ==
  LET Join(said, line) ==
        IF ~said.open \/ ~line.bang THEN [open |-> FALSE, words |-> said.words]
        ELSE [open |-> TRUE, words |-> said.words \o SubSeq(line.words, 2, Len(line.words))]
  IN FoldLeft(Join, [open |-> TRUE, words |-> <<>>], Tail(lines)).words

Held(files, name) == files[SelectInSeq(files, LAMBDA file : file.name = name)].holds

\* The words of a script's shebang are in the seed and in the pod, each where Nix
\* would have used it and none dropped; the flake builds from the script that is
\* in the seed and from the lock that is there if it says so; and the script has
\* its lines where they were, and no shebang (shebang::parse, generate::seed).
ScriptsRunAsWritten ==
  seed # None =>
    LET script == command.script
        said == Said(script.lines)
        at == CommandAt(said)
        flake == Held(seed, Flake)
        lines == Held(seed, flake.script)
    IN /\ Distinct([i \in DOMAIN seed |-> seed[i].name])
       /\ Distinct(flake.packages)
       /\ Range(flake.packages) = {said[i] : i \in 2..(at - 1)}
       /\ flake.pinned <=> \E i \in DOMAIN seed : seed[i].name = Lock
       /\ DOMAIN lines = DOMAIN script.lines /\ ~lines[1].bang
       /\ \A i \in DOMAIN lines : lines[i] # script.lines[i] =>
            lines[i] = Blank /\ \A j \in 1..i : script.lines[j].bang
       /\ pod # None =>
            pod.command = <<Binary(said[at + 1])>> \o SubSeq(said, at + 2, Len(said))
                            \o <<ScriptPath(flake.script)>> \o command.command

\* With the node's policy and a reference of its own, a strict doctor that finds
\* nothing wrong is right about the node: it evaluates the reference, if it loads
\* the policy at all, and a ready node has the label that the RuntimeClass asks
\* for.  A source that fails is refused, unless it is for its pin, about which no
\* node asks (check_policy, check_source, check_nodes).
DoctorForesees ==
  author = "examined" /\ command.source # None /\ command.policy
    /\ Policy # None /\ ~StartsWith(command.source, "/") /\ Scheme(command.source) # <<>> =>
    LET selected == Plan([NoAnnotations EXCEPT !.source = command.source], "rootfs")
        admitted == /\ selected.kind = "flake"
                    /\ RequestFault(Request("runtime", selected, None), Policy) = None
        answers == verdict.answers
    IN /\ verdict.exit = 0 /\ command.strict =>
            /\ admitted
            /\ answers.class.answer = "found" /\ answers.nodes.answer = "found" =>
                 \E n \in answers.nodes.items : n.ready /\ answers.class.selector \subseteq n.labels
       /\ verdict.checks["source"] = "fail" => ~admitted \/ PinOf(command.source) = "malformed"
=============================================================================
