------------------------------ MODULE Releases ------------------------------
(***************************************************************************)
(* Release manifests and the node's policy (release.rs), and how the daemon *)
(* gets from a reference to a release (resolver.rs).                       *)
(*                                                                         *)
(* Texts are sequences of lumps, as in References.  A body is what a       *)
(* catalog serves for a digest: a manifest, or [schema |-> None] for bytes *)
(* that are none, with `length` and `canonical`.  A digest is its body:    *)
(* SHA-256 does not collide.  Faults are the categories of the answer.     *)
(***************************************************************************)
EXTENDS Selection

CONSTANTS
  StoreNames,        \* names of store paths with a proper hash
  MaxManifestBytes,  \* MAX_MANIFEST_BYTES
  MaxFrameBytes      \* MAX_FRAME_BYTES

\* What no identifier has in it.
Symbols == {"/", ":", "@", "*", "_", ".", " "}

\* valid_identifier, for one lump and for a text.
ValidLabel(lump) == lump \notin Symbols \cup {"", "-"}
ValidName(text) ==
  /\ text # <<>>
  /\ \A i \in DOMAIN text : ValidLabel(text[i]) \/ text[i] = "/"
  /\ text[1] # "/" /\ Last(text) # "/"
  /\ \A i \in 2..Len(text) : ~(text[i - 1] = "/" /\ text[i] = "/")

NixStore == <<"/", "nix", "/", "store">>
StorePath(name) == NixStore \o <<"/", name>>
ValidStorePath(text) == \E name \in StoreNames : text = StorePath(name)

\* Rust's components() drops an inner `.` and what is empty: only `..` is seen.
ValidDestination(text) == StartsWith(text, "/") /\ ~Contains(text, "..")

Distinct(seq) == Cardinality(Range(seq)) = Len(seq)

-----------------------------------------------------------------------------
(***************************************************************************)
(* The manifest.  `selectors` is [only, skip], two sets of lumps; targets  *)
(* map a system to [rootfs, cache, process, mounts].                       *)
(***************************************************************************)
Permits(selectors, name) ==
  /\ name \notin selectors.skip
  /\ selectors.only # {} => name \in selectors.only

ValidProcess(process) ==
  process # None =>
    /\ process.entrypoint # <<>>
    /\ \A part \in {process.entrypoint, process.defaultArgs} \ {None} : ~Contains(part, "")
    /\ process.workingDirectory # None => ValidDestination(process.workingDirectory)
    /\ \A i \in DOMAIN process.environment : process.environment[i].name # ""
    /\ Distinct([i \in DOMAIN process.environment |-> process.environment[i].name])

ValidTarget(target) ==
  /\ ValidStorePath(target.rootfs)
  /\ ValidLabel(target.cache)
  /\ ValidProcess(target.process)
  /\ \A i \in DOMAIN target.mounts : /\ ValidStorePath(target.mounts[i].source)
                                     /\ ValidDestination(target.mounts[i].destination)
  /\ Distinct([i \in DOMAIN target.mounts |-> target.mounts[i].destination])

ValidSystem(system) == system \notin {"", "bad system"}

ValidEvidence(evidence) == evidence # None => ~Contains(evidence, "")

\* validate_manifest, after the bytes have been read as one.
ContentFault(body, reference) ==
  IF body.schema = None \/ ~body.canonical THEN "invalid_request"
  ELSE IF \/ body.schema # "v1"
          \/ ~ValidLabel(body.issuer) \/ ~ValidName(body.name) \/ DOMAIN body.targets = {}
          \/ body.issuer # reference.issuer \/ body.name # reference.name
  THEN "policy_denied"
  ELSE IF /\ \A label \in body.selectors.only \cup body.selectors.skip : ValidLabel(label)
          /\ \A system \in DOMAIN body.targets : ValidSystem(system) /\ ValidTarget(body.targets[system])
          /\ ValidEvidence(body.evidence)
  THEN None ELSE "invalid_request"

\* Mutant: a manifest of the right name is the right one.
ManifestFaultByName(body, reference) ==
  IF body.length > MaxManifestBytes THEN "manifest_fetch" ELSE ContentFault(body, reference)

\* parse_full_manifest: the fault of a body that is not what the reference names.
ManifestFault(body, reference) ==
  IF body.length > MaxManifestBytes THEN "manifest_fetch"
  ELSE IF body # reference.digest THEN "digest_mismatch"
  ELSE ContentFault(body, reference)

-----------------------------------------------------------------------------
(***************************************************************************)
(* The policy: [system, cacheOnly, prefixes, issuers], where issuers map   *)
(* an identity to [source, allowed, caches].  A source is a catalog of the *)
(* node, or one over HTTPS; a cache is [substituter, signed].              *)
(***************************************************************************)
\* A pattern is a name, or a prefix of bytes and a star.
PermitsRelease(issuer, name) ==
  \E pattern \in issuer.allowed :
    \/ pattern = name
    \/ pattern # <<>> /\ Last(pattern) = "*" /\ IsPrefix(Front(pattern), name)

\* A prefix may end in slashes.
ValidPattern(pattern) ==
  \/ pattern = <<"*">> \/ ValidName(pattern)
  \/ /\ pattern # <<>> /\ Last(pattern) = "*" /\ Len(pattern) > 1
     /\ \/ ValidName(Front(pattern))
        \/ Last(Front(pattern)) = "/" /\ ValidName(Front(Front(pattern)))

\* The catalogs a policy may name: "writable" is a directory of somebody else.
ValidPolicy(policy) ==
  /\ policy.system # ""
  /\ \A prefix \in policy.prefixes : prefix # <<>> /\ ~Contains(prefix, " ")
  /\ \A identity \in DOMAIN policy.issuers :
       LET issuer == policy.issuers[identity]
       IN /\ ValidLabel(identity)
          /\ issuer.source \in {"local", "https"}
          /\ issuer.allowed # {} /\ \A pattern \in issuer.allowed : ValidPattern(pattern)
          /\ DOMAIN issuer.caches # {}
          /\ \A cache \in DOMAIN issuer.caches :
               ValidLabel(cache) /\ issuer.caches[cache].substituter \in {"https", "file"}

\* A node without a policy evaluates nothing and knows no issuer.
DefaultPolicy(system) ==
  [system |-> system, cacheOnly |-> TRUE, prefixes |-> {}, issuers |-> [identity \in {} |-> None]]

\* What is at the policy's path is None, Malformed (not the daemon's own, or no
\* JSON), or a policy.  Only the default path may be empty.
LoadPolicy(file, explicit, system) ==
  IF file = None THEN IF explicit THEN None ELSE DefaultPolicy(system)
  ELSE IF file = Malformed \/ ~ValidPolicy(file) THEN None
  ELSE file

-----------------------------------------------------------------------------
\* The faults of a request; no fault is None.
Categories ==
  {"invalid_request", "policy_denied", "evaluation_disabled", "manifest_fetch", "digest_mismatch",
   "architecture_mismatch"}

ASSUME CategoryAssumption == None \notin Categories

\* What the daemon is asked for what a container selects.
Request(purpose, selected, name) ==
  IF selected.kind = "release"
  THEN [purpose |-> purpose, kind |-> "release", release |-> selected.release, name |-> name]
  ELSE [purpose |-> purpose, kind |-> "flake", installable |-> selected.installable, name |-> name]

\* validate_request, after the version, the timeout and the purpose: the fault of
\* a request under a policy.
RequestFault(request, policy) ==
  IF request.purpose # "runtime" /\ (request.kind # "release" \/ request.name # None)
  THEN "invalid_request"
  ELSE IF request.kind = "release"
  THEN IF request.release.issuer \in DOMAIN policy.issuers THEN None ELSE "policy_denied"
  ELSE IF ~ValidInstallable(request.installable) THEN "invalid_request"
  ELSE IF policy.cacheOnly THEN "evaluation_disabled"
  ELSE IF ~Staged(request.installable.uri) /\ ~RemoteScheme(request.installable.uri)
  THEN "invalid_request"
  ELSE IF ~Authorized(request.installable.uri, policy.prefixes) THEN "policy_denied"
  ELSE None

\* A catalog serves a body, or None for a digest it does not have; Malformed is a
\* link out of a catalog on the node.
FetchFault(served) ==
  IF served = None THEN "manifest_fetch"
  ELSE IF served = Malformed THEN "policy_denied"
  ELSE IF served.length > MaxManifestBytes THEN "manifest_fetch"
  ELSE None

\* select_release, with what the catalog serves for the reference's digest.
SelectFault(request, policy, served) ==
  LET reference == request.release
      issuer == policy.issuers[reference.issuer]
      target == served.targets[policy.system]
  IN IF ~PermitsRelease(issuer, reference.name) THEN "policy_denied"
     ELSE IF FetchFault(served) # None THEN FetchFault(served)
     ELSE IF ManifestFault(served, reference) # None THEN ManifestFault(served, reference)
     ELSE IF request.purpose = "runtime" /\ ~Permits(served.selectors, request.name)
     THEN "policy_denied"
     ELSE IF policy.system \notin DOMAIN served.targets THEN "architecture_mismatch"
     ELSE IF target.cache \notin DOMAIN issuer.caches THEN "policy_denied"
     ELSE IF target.encoded > MaxFrameBytes THEN "invalid_request"
     ELSE None

\* The release as the answer carries it; the rootfs is its first store path.
Resolution(reference, served, system) ==
  LET target == served.targets[system]
  IN [identity |-> reference, rootfs |-> target.rootfs, process |-> target.process,
      mounts |-> target.mounts]

StorePaths(resolution) ==
  {resolution.rootfs} \cup {resolution.mounts[i].source : i \in DOMAIN resolution.mounts}
=============================================================================
