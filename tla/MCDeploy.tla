------------------------------ MODULE MCDeploy ------------------------------
(* One pod at a time, typed or written by hand, on a node of every kind. *)
EXTENDS Deploy

\* A release of a rootfs and a library, with metadata and a mount.
App == StorePath("app")
Lib == StorePath("lib")
Old == StorePath("old")

Target(rootfs, mounts) ==
  [rootfs |-> rootfs, cache |-> "main", mounts |-> mounts, encoded |-> 2,
   process |-> [entrypoint |-> None, defaultArgs |-> <<"serve">>, workingDirectory |-> <<"/", "srv">>,
                environment |-> <<[name |-> "HOME", value |-> "/srv", allowWorkloadOverride |-> TRUE],
                                  [name |-> "MODE", value |-> "prod", allowWorkloadOverride |-> FALSE]>>]]

MountAt(destination) == <<[source |-> Lib, destination |-> destination]>>

Manifest(target) ==
  [schema |-> "v1", length |-> 1, canonical |-> TRUE, issuer |-> "acme", name |-> <<"web">>,
   selectors |-> [only |-> {}, skip |-> {}], targets |-> "x86" :> target, evidence |-> None]

Web == [Manifest(Target(App, MountAt(<<"/", "lib">>))) EXCEPT !.targets = @ @@ "arm" :> Target(Old, <<>>)]
Trailing == Manifest(Target(App, MountAt(<<"/", "data", "/">>)))
Older == Manifest([Target(Old, <<>>) EXCEPT !.process = None])
Junk == [Web EXCEPT !.schema = None]
Large == [Web EXCEPT !.length = 9]

\* Bodies whose digest somebody pinned although a node will not have them.
Misfits ==
  {Junk, Large, [Web EXCEPT !.canonical = FALSE], [Web EXCEPT !.schema = "v2"],
   [Web EXCEPT !.name = <<"other">>], [Web EXCEPT !.evidence = <<"">>],
   [Web EXCEPT !.selectors.only = {"sidecar"}], [Web EXCEPT !.selectors.skip = {"workload"}],
   [Web EXCEPT !.selectors.skip = {"_"}], [Web EXCEPT !.targets = "arm" :> Web.targets["x86"]],
   [Web EXCEPT !.targets = @ @@ "bad system" :> Web.targets["x86"]],
   Manifest([Target(App, <<>>) EXCEPT !.cache = "other"]),
   Manifest([Target(App, <<>>) EXCEPT !.encoded = 9]),
   Manifest([Target(App, <<>>) EXCEPT !.process.entrypoint = <<>>]),
   Manifest([Target(App, <<>>) EXCEPT !.process.environment = @ \o @]),
   Manifest(Target(<<"/", "app">>, <<>>)),
   Manifest(Target(App, MountAt(<<"/", "a">>) \o MountAt(<<"/", "a">>))),
   Manifest(Target(App, MountAt(<<"/", "a", "/", "..">>))),
   Manifest(Target(App, MountAt(<<"/", "nix">>))),
   Manifest(Target(App, MountAt(<<"/", "a", "/", ".">>)))}

Reference(body) == [issuer |-> "acme", name |-> <<"web">>, digest |-> body]

ByHand(annotations, image) == [annotations |-> annotations, image |-> image, command |-> <<>>]

MCHandwritten ==
  {ByHand([NoAnnotations EXCEPT !.release = Reference(body)], "plain") : body \in Misfits}
  \cup {ByHand(NoAnnotations, image) : image \in Images}
  \cup {ByHand(a, "flake") : a \in
         {[NoAnnotations EXCEPT !.sandbox = TRUE, !.release = Reference(Web)],
          [NoAnnotations EXCEPT !.release = Malformed],
          [NoAnnotations EXCEPT !.release = Reference(Web), !.source = EmbeddedSource],
          [NoAnnotations EXCEPT !.release = Reference(Web), !.skipRelease = {"workload"}],
          [NoAnnotations EXCEPT !.release = Reference(Web), !.onlyRelease = {"sidecar"}],
          [NoAnnotations EXCEPT !.release = Reference(Web), !.skip = {"workload"}],
          [NoAnnotations EXCEPT !.skip = Malformed], [NoAnnotations EXCEPT !.only = {"sidecar"}],
          [NoAnnotations EXCEPT !.source = <<"/", "etc", "/", "..">>],
          [NoAnnotations EXCEPT !.source = <<"git", "+", "file", ":", "//", "srv">>],
          [NoAnnotations EXCEPT !.source = <<"PATH", ":", "/", "srv">>],
          [NoAnnotations EXCEPT !.source = <<"nixpkgs">>],
          [NoAnnotations EXCEPT !.source = <<"github", ":", "myorg", "-evil", "/", "app">>]}}

-----------------------------------------------------------------------------
Flags == [external |-> FALSE, release |-> FALSE, path |-> "directory", reference |-> <<>>,
          coordinate |-> Malformed, repo |-> "repo",
          image |-> None, output |-> None, unpinned |-> FALSE, includeVcs |-> FALSE, tag |-> None,
          plainHttp |-> FALSE, dryRun |-> FALSE, emitSeed |-> FALSE, catalog |-> FALSE,
          command |-> <<<<"serve">>>>, arch |-> "amd64", vendored |-> TRUE, script |-> None,
          badName |-> FALSE]

Pinned == <<"github", ":", "myorg", "/", "app", "/", "commit">>
External == [Flags EXCEPT !.external = TRUE, !.reference = Pinned]
Coordinate == [issuer |-> "acme", name |-> <<"web">>, channel |-> None]
Release == [Flags EXCEPT !.release = TRUE, !.coordinate = Coordinate, !.catalog = TRUE]

\* Each of the modes, with one flag more or less.
OneFlag(c) ==
  {c, [c EXCEPT !.output = "web"], [c EXCEPT !.output = "bad/output"], [c EXCEPT !.unpinned = TRUE],
   [c EXCEPT !.includeVcs = TRUE], [c EXCEPT !.repo = None], [c EXCEPT !.repo = Malformed],
   [c EXCEPT !.image = "plain"],
   [c EXCEPT !.emitSeed = TRUE], [c EXCEPT !.catalog = ~@],
   [c EXCEPT !.command = <<>>], [c EXCEPT !.badName = TRUE], [c EXCEPT !.dryRun = TRUE]}
  \cup {[c EXCEPT !.repo = None, !.image = image] : image \in {"placeholder"} \cup Images}

Line(words) == [bang |-> TRUE, words |-> words]
Text(words) == [bang |-> FALSE, words |-> words]
Env == Line(<<<<"/", "usr", "/", "bin", "/", "env">>, <<"nix">>>>)
Package(name) == <<"nixpkgs", "#", name>>
Shell == <<<<"nix">>, <<"shell">>, Package("python"), Package("curl"), <<"-", "-", "command">>, <<"python">>, <<"-", "u">>>>
Body == <<Text(<<<<"import", "os">>>>), Line(<<<<"nix">>, <<"late">>>>)>>

Script(lines) == [Flags EXCEPT !.path = "script", !.command = <<>>,
                              !.script = [name |-> <<"job">>, lines |-> lines]]
Job == Script(<<Env, Line(Shell)>> \o Body)

\* A script, with one thing about it changed.
Scripted ==
  {Job, [Job EXCEPT !.command = <<<<"now">>>>], [Job EXCEPT !.emitSeed = TRUE], [Job EXCEPT !.unpinned = TRUE],
   [Job EXCEPT !.vendored = FALSE], [Job EXCEPT !.includeVcs = TRUE], [Job EXCEPT !.output = "web"],
   [Job EXCEPT !.arch = "arm64"], [Job EXCEPT !.arch = "riscv"]}
  \cup {[Job EXCEPT !.script.name = name, !.emitSeed = TRUE] : name \in
         {Flake, Lock, <<".", "job">>, <<"a", " ", "b">>}}
  \cup {Script(lines) : lines \in
         {<<Env, Line(SubSeq(Shell, 1, 3)), Line(<<>>), Line(<<<<"nix">>>> \o SubSeq(Shell, 3, 7))>> \o Body,
          <<Line(<<<<"/", "bin", "/", "nix">>>>), Line(Shell), Line(<<<<"nix">>, <<"-", "v">>>>)>>, <<Env, Line(Tail(Shell))>> \o Body, <<Env>> \o Body, Body,
          <<Line(<<<<"env">>, <<"-", "S">>, <<"nix">>>>), Line(Shell)>>, <<Line(<<>>)>>,
          <<Env, Line(SubSeq(Shell, 1, 5))>>, <<Env, Line(SubSeq(Shell, 1, 4))>>,
          <<Env, Line(SubSeq(Shell, 1, 2) \o SubSeq(Shell, 5, 7))>>, <<Env, Line(<<<<"nix">>, <<"run">>>> \o Shell)>>}
         \cup {<<Env, Line([Shell EXCEPT ![3] = word])>> : word \in
                 {<<"python">>, <<"other", "#", "python">>, <<"-", "-", "impure">>, <<"nixpkgs", "#">>,
                  <<"nixpkgs", "#", "a", ".", "b">>, <<"nixpkgs", "#", "a", ".", ".", "b">>,
                  <<"nixpkgs", "#", ".", "b">>, <<"nixpkgs", "#", "$">>, <<"quote", "python">>}}
         \cup {<<Env, Line([Shell EXCEPT ![6] = <<"/", "bin", "/", "sh">>])>>}}

MCCommands ==
  Scripted \cup
  OneFlag(Flags) \cup OneFlag(External) \cup OneFlag(Release)
  \cup {[Flags EXCEPT !.path = "missing"], [External EXCEPT !.release = TRUE],
        [Release EXCEPT !.coordinate.channel = "beta"], [Release EXCEPT !.coordinate.name = <<"_">>]}
  \cup {[External EXCEPT !.reference = text, !.unpinned = unpinned] : unpinned \in BOOLEAN, text \in
         {<<"github", ":", "myorg", "/", "app">>, <<":", "app">>, <<".", "/", "app">>,
          <<"gitlab", ":", "myorg", "/", "app", "/", "commit">>,
          <<"git", "+", "https", ":", "//", "host", "/", "app", "?", "rev=", "commit">>,
          <<"git", "+", "https", ":", "//", "host", "/", "app", "?", "rev=", "main">>}}

-----------------------------------------------------------------------------
Issuer == [source |-> "local", allowed |-> {<<"we", "*">>, <<"web">>},
           caches |-> "main" :> [substituter |-> "https"]]

MCPolicy ==
  [system |-> "x86", cacheOnly |-> FALSE, issuers |-> "acme" :> Issuer,
   prefixes |-> {<<"path", ":", "rootfs", "/">>, PolicyPrefix(Pinned), <<"git", "+", "https", ":", "//", "host", "/">>,
                 <<":">>}]

MCNode == [place |-> "daemon", worker |-> TRUE, file |-> MCPolicy, explicit |-> FALSE, carries |-> {"source", "release"},
           projection |-> "node"]

MCNodes ==
  {MCNode, [MCNode EXCEPT !.worker = FALSE], [MCNode EXCEPT !.place = "process", !.worker = FALSE],
   [MCNode EXCEPT !.projection = "closure"], [MCNode EXCEPT !.carries = {"release"}],
   [MCNode EXCEPT !.carries = {"source"}], [MCNode EXCEPT !.file = None],
   [MCNode EXCEPT !.place = "process", !.file = None, !.explicit = TRUE], [MCNode EXCEPT !.file = Malformed],
   [MCNode EXCEPT !.file.cacheOnly = TRUE], [MCNode EXCEPT !.file.system = "arm"], [MCNode EXCEPT !.file.prefixes = {<<"github", ":", "other">>}],
   [MCNode EXCEPT !.file.issuers = "other" :> Issuer],
   [MCNode EXCEPT !.file.issuers = "acme" :> [Issuer EXCEPT !.allowed = {<<"wiki", "*">>}]],
   [MCNode EXCEPT !.file.issuers = "acme" :> [Issuer EXCEPT !.allowed = {}]]}

Process == [args |-> <<"app", "wait">>, cwd |-> <<"/">>,
            env |-> <<[name |-> "HOME", value |-> "/root"], [name |-> "MODE", value |-> "dev"]>>]
Volume(destination) == [destination |-> destination, source |-> <<"volume">>, kind |-> "bind"]

MCBundles ==
  {[root |-> <<"rootfs">>, process |-> Process, mounts |-> <<Volume(<<"/", "data">>)>>],
   [root |-> <<"rootfs">>, process |-> None, mounts |-> <<>>],
   [root |-> <<"rootfs">>, process |-> Process, mounts |-> <<Volume(<<"/", "nix", "/", "store">>)>>]}

MCRequisites ==
  App :> {App, Lib} @@ Lib :> {Lib} @@ Old :> {Old, Lib} @@ StorePath("dev") :> {StorePath("dev")}
  @@ StorePath("seed") :> {StorePath("seed"), Lib}

Info(nar, download) == [nar |-> nar, download |-> download]

MCAnswers ==
  {App :> Info(2, 1) @@ Lib :> Info(3, None), App :> Info(3, None) @@ Lib :> Info(3, 0),
   App :> Info(1, 3) @@ Lib :> Info(1, 3), App :> Info(1, 0),
   App :> Info(1, 1) @@ Lib :> Info(1, None) @@ <<"lib">> :> Info(1, 1)}

-----------------------------------------------------------------------------
Examination == [strict |-> TRUE, policy |-> TRUE, source |-> Pinned, repo |-> None]

MCExaminations ==
  {Examination, [Examination EXCEPT !.strict = FALSE], [Examination EXCEPT !.policy = FALSE],
   [Examination EXCEPT !.source = None], [Examination EXCEPT !.repo = "repo"],
   [Examination EXCEPT !.repo = "loopback", !.strict = FALSE]}
  \cup {[Examination EXCEPT !.source = text] : text \in
         {<<"github", ":", "myorg", "/", "app">>, <<"github", ":", "other", "/", "app", "/", "commit">>,
          EmbeddedSource, <<"nixpkgs">>, <<":", "app", "?", "rev=", "commit">>, <<"PATH", ":", "/", "srv">>,
          <<"git", "+", "https", ":", "//", "host", "/", "app", "?", "rev=", "main">>}}

Labelled == [labels |-> {"v2", "linux"}, ready |-> TRUE]
Cluster ==
  [installed |-> TRUE, reached |-> TRUE, hasContext |-> TRUE, inCluster |-> FALSE, client |-> 30, server |-> 31,
   class |-> [answer |-> "found", handler |-> "imageless", selector |-> {"v2"}],
   nodes |-> [answer |-> "found", items |-> {Labelled, [labels |-> {"linux"}, ready |-> FALSE]}],
   connected |-> TRUE]

MCClusters ==
  {Cluster, [Cluster EXCEPT !.installed = FALSE], [Cluster EXCEPT !.reached = FALSE],
   [Cluster EXCEPT !.hasContext = FALSE], [Cluster EXCEPT !.hasContext = FALSE, !.inCluster = TRUE],
   [Cluster EXCEPT !.server = 32], [Cluster EXCEPT !.client = 33], [Cluster EXCEPT !.client = None],
   [Cluster EXCEPT !.class.handler = "runc"], [Cluster EXCEPT !.class.selector = {}],
   [Cluster EXCEPT !.nodes.items = {}], [Cluster EXCEPT !.nodes.items = {[Labelled EXCEPT !.ready = FALSE]}],
   [Cluster EXCEPT !.connected = FALSE]}
  \cup {[Cluster EXCEPT !.class.answer = answer] : answer \in {"absent", "forbidden", "other"}}
  \cup {[Cluster EXCEPT !.nodes.answer = answer] : answer \in {"forbidden", "other"}}

MCPointers == {None, Web, Trailing}
MCOffers == {None, Malformed, Older, Junk, Large}
=============================================================================
