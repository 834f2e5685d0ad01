# imageless in TLA+

This directory is a verification project for imageless: a runc interposer
(`imageless-runc`) that, at `create`, selects a Nix store path for a container,
has it materialized by a resolver daemon (`imageless-resolver`) and rewrites the
OCI bundle to run from it, and a kubectl plugin that authors such containers.

The modules model what the daemon and the shim do concurrently (coalescing,
permits, deadlines, Nix commands, GC roots and the garbage collector, staging,
connections); what the plugin, the shim and the daemon decide about one pod, from
the command line to the config.json that runc gets; and the plugin's push to a
registry that others push to. TLC checks small instances; TLAPS proves the
theorems for every instance.

## The system

| part | source | state | operations | talks to |
|---|---|---|---|---|
| resolver | `crates/imageless/src/resolver.rs` | `flights` (key -> flight: callers, result), `permits`, a condition variable for each | `resolve_detailed`, `inspect` | Nix commands; the bundle's directory; the catalog |
| socket | `resolver.rs` (`serve`, `handle_connection`) | the counter of connections | accept, refuse, one request per connection in a thread of its own | clients, by a UNIX socket |
| staging | `resolver.rs` (`stage_development_installable`) | a scratch directory with a copy of the source, one with the evaluator's cache | copy within budgets, stamp, hand over, remove | the image's unpacked tree, the development worker |
| GC roots | `gc.rs` | symbolic links in the bundle, registered with Nix | `prepare_gc_root`, `remove_bundle_gc_roots` | called by the resolver and by the shim, on the same bundle |
| selection | `spec.rs` | none | `plan`, `expansion_request`: what the annotations and the image ask for | called by the shim, and by the plugin before it prints a pod |
| bundle preparation | `bundle.rs`, `mounts.rs` | `config.json` | `prepare_bundle`: select, resolve, rewrite by rename | the resolver, directly or through the client |
| client | `client.rs`, `materialize.rs` | a connection | one framed request and answer, with a read timeout | the daemon |
| shim | `crates/imageless-runc/src/main.rs` | whether this run applied a resolution | intercepts `create`, delegates everything | the engine above, runc below |
| Nix commands | `nix.rs` | a process group and two pipe readers | `run_command`: run, poll every 10 ms, kill at the deadline | `nix-store`, `nix`, the development worker |
| manifests and policy | `release.rs` | none | parse and validate; authorize an issuer, a release, a cache | the issuer's catalog |
| kubectl plugin: run | `crates/kubectl-imageless` (`main.rs`, `pack.rs`, `shebang.rs`, `generate.rs`, `podspec.rs`) | none that outlives a call | pack a directory, or a seed generated from a script; pin a release; push; print a pod | a registry, a catalog |
| kubectl plugin: doctor | `doctor.rs`, `kubectl.rs` | none | conclude from what kubectl, a policy file, a reference and a registry say | `kubectl` |

What is hard about it, with the lines, is the list `hazards` of PROJECT.json. In
short:

- threads with deadlines of their own share flights and permits, and every wait
  can end by a wake-up, a timeout or for no reason at all;
- a flight is left in two critical sections of two locks;
- a thread may stay where no deadline reaches it, in the open of a pipe while it
  stages or joining the readers of a killed command, with its flight, its permit
  and its slot;
- a Nix command starts helpers that may outlive it and hold its pipes, and its
  parent may die at any moment after the fork;
- a Nix command has its effect (a path in the store, a link in the bundle)
  whether or not it is reported as a success;
- roots are removed by path, by two processes, neither of which knows whether
  the other is still at work, while the collector runs;
- the engine may kill the shim, or come back to the same bundle;
- a directory changes while it is packed, or the unpacked tree while it is staged:
  both walks look at a name, open it and read it at three times;
- a connection over the limit is answered and closed whether or not its request
  has arrived, and the daemon reads without a timeout;
- the channel moves and the catalog serves other bytes between the pin and the
  create; a handler drops annotations; the config is rewritten in five steps;
- the plugin's and the doctor's idea of what a node accepts is code of its own;
- a push is eight or nine calls, any of which may be challenged, fail, or succeed
  without an answer, while other pushes and the registry's own collector are at
  work.

What makes each part correct: permits are counted exactly and never lie idle
behind a queue; at most one caller materializes a key; everybody is answered by
its deadline whose own thread is not stuck; a success means that every path is in
the store and rooted in the request's own bundle; a failure leaves no root; a live
container stays rooted; a command's output is complete and nothing of it is left
after its deadline; a registry never holds a manifest without its blobs; what is
packed is one tree the node can stage, what is evaluated is what was checked;
connection slots come back; a pod that was printed runs what was authored or
fails, unless it borrows its image, and the node does not refuse it for its form;
a script runs the words of its shebang; a clean doctor is right.

## The modules

| module | models | how it corresponds |
|---|---|---|
| `Semaphore` | what permits promise | a set of holders, and callers turned away only at capacity |
| `Permits` | `acquire_permit`, `Permit::drop` | one action per critical section of the mutex; `seat[c]` is where a thread stands; the wait set of the condition variable is the callers that are "asleep" |
| `Coalescing` | what single flight promises | at most one worker per key; a success only for a key that was made |
| `Flights` | `resolve_detailed` without the work, `wait_for_flight`, `release_flight` | one action per critical section; a flight is named by its leader |
| `Resolver` | the daemon: `Flights` and `Permits` composed, with the roots, the store and the collector | conjoins an action of each part with what happens to the bundle; `step[c]` and `at[c]` are the program counter of the loop over store paths |
| `Lifecycle` | one bundle path: the engine, the shim, the daemon's handling of each request, the collector | `shim[a]` is the process of attempt a, later its container; `request[a]` is the daemon's side of it |
| `NixCommand` | `run_command`, its child and helpers, its two pipes and their readers | `at` is the program counter, `proc[p]` the life of a process (for the child, from the fork through the three calls of `pre_exec`), `holders[s]` who has an end of pipe s to write to |
| `Push` | `push`, `Registry::call` and what it calls; the registry as a setting | `call[p]` is the position in the sequence of calls, `access[p]` what the Authorization header is good for, `retried[p]` the local `authenticated` of `call` |
| `SourceTree` | a tree on a disk and the editor's two operations | a node is a kind and a length; a handle follows the file that was opened, not the name |
| `Packing` | `pack_source`, `read_regular`, `pack_generated` | `packer` is the program counter of the walk, `names` the stack of `pack_directory`, `charged` the `Budget` |
| `Staging` | `stage_development_installable`, `copy_staged_tree`, `set_staged_access`, the cache directory, the guards | `stager` is the program counter of `materialize_development`, `owned` the guards alive, `scratch` the directories there are, `todo` the stack of the recursion |
| `Seed` | the two composed: an author's directory to the evaluator, with an editor | `Unpack` is the image's way to the node |
| `Serve` | `serve`, `handle_connection`, `request_resolver` | `loop` is the accept loop, `conn[p]` the thread of p's connection, `ending` the threads that have closed it and have not run `Active::drop` |
| `References` | the grammars of flake references: the node's (`spec.rs`), the daemon's (`resolver.rs`), the plugin's (`flakeref.rs`) | operators over sequences of lumps |
| `Selection` | `plan`, `container_selected`, `expansion_request` | operators over an annotation record |
| `Releases` | `parse_full_manifest`, policies, `validate_request`, `select_release` | each check in its order, as the category of the error it returns |
| `Rewriting` | `apply_resolution`, `apply_node_store_projection` | an operator from a config to a config, or None |
| `Scripts` | `shebang::parse`, `generate::seed` | lines of words to the files of a seed and the pod's command |
| `Doctor` | the checks and the exit code | operators over the answers of a cluster |
| `Deploy` | one pod from the command line to the container, composing the six above; doctor; prewarm and inspect | `author` and `stage` are two program counters, one action per call that can fail or be seen from outside; the channel and the catalog change in between |
| `PermitsProofs`, `FlightsProofs`, `ResolverProofs`, `LifecycleProofs`, `PushProofs`, `SeedProofs`, `DeployProofs` | theorems about the module of the name | one step for each action of its next-state relation |
| `DaemonProofs` | theorems about `Serve` and `NixCommand`, the two ends of the daemon | the same |

`MC<Module>.tla` and the `.cfg` files give the constants their values. Definitions
marked "Mutant" are bugs the code does not have: each is a changed form of the
definition after it, and shows that a property would notice.

### Abstractions

- **Deadlines** are a flag per request (`late`) that becomes true at any moment:
  every interleaving of a timeout with everything else is covered, durations are
  not. `remaining()` fails exactly when the flag is set.
- **Nix** is, outside `NixCommand`, a command that ends with its effect, without
  it, or with it and nevertheless as a failure (a kill, a truncated output, an
  unexpected link).
- **Output** is counted in chunks in `NixCommand`; stderr's excerpt and the
  parsing of stdout are left out. That the kernel may give the group's number to
  somebody else once the group is empty is left out too.
- **The registry** is external: whether it refuses a manifest that lacks blobs,
  collects what nothing refers to, grants what it asks for, and says what it asks
  for, is a setting. The model excludes one kind, which collects and does not
  look: no order of calls would help there. A token of a granting registry lasts
  at least from the challenge to the repeated request.
- **Selection** is, in `Flights` and `Resolver`, a constant per caller, `Denied`.
  It depends on the request and on node policy, on nothing shared; what it decides
  is in `Selection` and `Releases`.
- **Texts** are sequences of lumps where a property depends on them: a separator
  is a lump, a word that another text continues is cut there, so that a prefix of
  lumps is a prefix of bytes. Lengths, encodings and wording are left out.
- **A digest is its body**: SHA-256 is taken to have no collisions, and a catalog
  that serves something else for a digest is one that was changed.
- **Trees**: a file is a length, a link leads nowhere, a directory is listed at
  once. The one thing this hides: `read_dir` after a directory was swapped for a
  link follows it. That the walks see a name at one time and its file at another
  is modelled.
- **An image** is, in `Deploy`, what it has at `etc/imageless`: no flake, a flake, or a
  link in its place; the plugin's own are a seed and the placeholder. A borrowed one
  may be any of them but the seed just packed. A borrowed tag that moves between two
  creates is left out.
- **A thread that is stuck**: in `Resolver` staging may block in its open of a pipe
  (`blocked`), and a killed command may leave its thread joining the readers
  (`joining`); `NixCommand` and `Staging` say when, in `Resolver` it is open. In `Serve`
  a handler may be `stuck` in either. Each may come loose and need not.
- **Realisation in `Deploy`** succeeds with a root for each path or fails without
  one; that it does is what `Resolver` and `Lifecycle` are about. What a flake
  evaluates to is one store path per flake.
- **Bundles** belong to one request each in `Resolver`. Two requests for one
  bundle are the subject of `Lifecycle`, where the daemon is cut down to what the
  bundle sees. The requests there do not wait for one another, as when both
  follow a flight that a third request leads; two requests alone in a flight
  would be ordered by it, and the model then has more behaviours than the code.
- **A thread that dies**: `run_command` starts its readers with `thread::spawn`,
  which panics when the OS refuses. The permit is returned by its destructor,
  the flight is not, and the child dies with its parent thread
  (`PR_SET_PDEATHSIG`).
- A key's flight can only be listed once in the registry, so `HashMap` is a
  function from keys. `Arc::ptr_eq` is equality of flight names.

## The runs

| run | instance | shows |
|---|---|---|
| `permits` | 4 callers, 2 permits | the count is exact, no wake-up is lost, `Permits` implements `Semaphore`, everybody who asks is answered |
| `flights` | 4 callers of one key, any may die; a fifth is refused | nobody waits for an unlisted flight or sleeps past a result, a listed flight is held, `Flights` implements `Coalescing` (one worker per key) |
| `resolver` | 3 requests for a release of two paths, one of which collides at its second root and one is refused, 1 for a source; 1 permit | permits are held around commands only; a success is rooted and in the store; failures leave no root; a release comes from its own cache; a selection is never lent |
| `resolver_faults` | 2 requests for a source, one of which collides and one may die, 1 for a release; 1 permit, one path each | every request ends but one whose own thread is stuck, also behind a flight's leader or a permit's holder that is stuck for good |
| `lifecycle` | 3 creates, in all 32 settings | with a patient shim a live container is rooted, and failure and removal release the root; otherwise only an earlier request can take it |
| `nix_command` | two helpers, one of which may leave the process group; pipes of one chunk, two chunks written to each, one kept | success means all of stdout; a timeout leaves nothing of the group; a child does not outlive its parent, unless a subreaper adopts it before it is tied; no pipe fills for good; the command returns by its deadline unless a stray holds a pipe |
| `push` | two pushes of images that share a layer and a tag, 12 registries | no manifest without its blobs; what was pushed is there; expired and narrow tokens are renewed; every push ends |
| `seed` | every tree over six paths (root, `.git`, `flake.nix`, a directory of two) that is worth telling apart, budgets of 4 entries and 2 bytes, one edit, one failing call, two tries for a name | what is packed is one tree within the budgets and, unedited, the directory; what is packed can be staged; an edited copy passes the byte budget by one byte at most; what is evaluated is stamped and was charged; scratch directories live as long as the command; both walks end |
| `serve` | three peers, each one that asks, is silent or is another user's, any of which may be killed; two connections; one fall of the daemon | the counter is exact and within its limit; everybody who asks ends, every slot comes back but those of silent peers while they live and of handlers that are stuck |
| `deploy` | 101 command lines, 36 pods written by hand, 13 examinations of 18 clusters; 15 nodes, 3 bundles, 3 pointers of a channel; one change of channel or catalog, two creates or requests | a printed pod runs what was authored, or, borrowed and its annotation dropped, its image; no node refuses its form; a rewrite is whole or undone; a report is believed and does not hide a download; a script runs the words of its shebang; a clean doctor is right about the node |

Four callers are the least that show a last caller stalled between its locks, a
newcomer that lists a new flight, a follower of that one and a third party; the
mutant `UnlistAnyFlight` survives with three. Two permits are the least for
which a wake-up may be owed while another permit is out. One permit and two
paths make a leader and its followers compete for permits between paths; for what
cannot wait for ever, one path is enough, and two keys are the least with a
follower behind a stuck leader and a stranger behind its permit. Three
creates let an earlier request meet both a live container and a third attempt.
A setting of `Lifecycle` says whether the engine deletes the bundle after an
attempt, what selects the store path, how a shim may end early, and whether an
answer is too long for a frame. Two helpers
are a child and a grandchild, or one of each kind; the third chunk that a pipe
could be written would fill it as the second does. Two pushes with different
configs and the same tag share a blob, race for it, and move the tag. A budget of
four entries is passed by the fifth of six paths, one of two bytes by a file of
length two beside one of length one; one edit is enough to swap a file for a pipe
or a link between the look and the open, or to change its length between the open
and the read, and one failing call to be the one after a directory was made. Three
peers on two connections are the least that refuse one while another thread
has closed its connection and still counts. In `deploy` every command line and
every pod differs from a good one in one thing, so that each check is what
refuses something; two creates let the channel or the catalog change between
them.

### Disagreements between the code and its documents

Two runs are expected to fail, each on one property that SPEC.md or a comment
states:

- `lifecycle_long_answer`: `select_release` measures the answer against the
  16 KiB of a frame with timings of zero, which are elided; the answer that is sent
  has real ones. In between, the release is realised and rooted, the daemon cannot
  write its answer, and the create fails with its root left (SPEC.md 4.6: roots
  are released when creation fails). `query_closure` measures the same way.
- `nix_command_stray`: the comment on the second loop of `run_command` keeps the
  draining inside the deadline. Past it the code joins the readers without a
  bound, which a helper outside the process group can make last.

More of them need no run of their own; the passing runs exclude each by the
condition named here, and without it TLC shows the behaviour.

- The shim times out, the daemon links the root a moment later and answers nobody:
  the failed create leaves a root (`FailureReleasesRoots` without `Patient`).
- The engine kills a shim and creates the container again at the same path; the
  failure of the first request, removing roots by path, takes the root of the
  second (`LiveIsRooted` without `Patient`; `LostOnlyToStragglers` says that
  nobody else does).
- With an embedded flake, a create repeated on a bundle whose config.json is
  already rewritten passes through: a container out of the store, without a root
  (`LiveIsRooted` without `Reselects`).
- A follower's `register_root` names no substituters. If the leader's bundle goes
  and the collector runs in between, a release is fetched through the node's own
  substituters; signatures are still required (`ReleaseFromItsCache` with a
  leader in `Discardable`).
- SPEC.md 4.6 releases the roots when "the container is deleted", and the shim
  treats `delete` as any other command: the root goes with the bundle's directory,
  which is how `PatientFailureReleasesRoots` has it.
- `release::validate_destination` takes `/data/`, `//data`, `/a/./b`, `/` and paths
  of the store, which the projection refuses after the release was realised; two
  spellings of one path count as two. `DelegatesWhole` has such a release fail
  with nothing left of it.
- `run_external` says that with a borrowed image and a handler that drops the
  annotation "the pod silently runs `{image}` instead". If that image has a flake at
  `etc/imageless`, the node evaluates it (or refuses to), and the container starts on
  a root that is neither the image's nor the command's (`RunsWhatWasAuthored` names
  it, by `command.image`).
- A reference with nothing before its colon is a reference for `spec.rs`, the
  plugin and doctor, and not for the daemon, although `flakeref.rs` means to have
  the node's grammar. `EmittedIsAdmitted` names the exception.
- doctor looks whether a policy parses, not whether the daemon would load it, and
  not at `cache_only`: without `--strict` it ends well on a node that evaluates
  nothing. `DoctorForesees` is about a strict doctor and a policy that loads.
- The look at the parent before the exec (`getppid() == 1`) misses an orphan that a
  subreaper has adopted, as happens to the in-process resolver of a shim under
  containerd-shim: it executes and lives on. `OrphanEnds` has that exception.
- A failed sync of the bundle's directory, after the rename, fails the create
  and leaves the new config.json; `DelegatesWhole` has that exception.

## Fairness

Weak fairness of each thread's own steps (the scheduler runs a runnable thread),
of the passing of deadlines (time goes on), and of `run_command` once its deadline
has passed: it kills the command, and then returns (`CommandEnds`) or joins its
readers (`KilledButHeld`). Nobody has to close a pipe that the readers wait for,
nor to open the other end of one that staging blocks in, so `EveryRequestEnds`
excepts a request whose own thread is stuck there for good, and only that one. In
`NixCommand` the waiting thread, the readers and the child before its exec are
fair, the command and its helpers are not; in `Push` every request returns,
because its agent has a timeout of 120 seconds. In `Seed` the client and the
daemon go on while they can (system calls return, an open of a pipe excepted), and
neither an edit nor the deadline need come. In `Serve` clients, threads and the
loop are fair, a client's read has its timeout, a handler ends or is stuck as its
request is (`EveryRequestEnds`), and systemd starts the daemon again (`Restart=`
in nix/module.nix); nothing makes a silent peer speak or a stuck handler come
loose. `Deploy` has safety properties only. Nothing is assumed of Nix, of spurious
wake-ups, of the arrival of requests, or of fairness of the condition variable or
the mutex: a caller can starve at the permits, and what is shown is that it is
told so.

## What is proved

`PermitsProofs`, for any finite set of callers and any positive bound, from
`PermitAssumption` alone:

- `PermitsTypeCorrect`, `PermitsBounded`, `PermitsWake`: the three invariants of
  `Permits`. They are inductive together: the count needs the types, and
  `NoLostWakeup` needs the count, because a `Take` that fills the last permit
  consumes the wake-up it may have been owed, and a `Refuse` of a notified caller
  is harmless only since it happens when all permits are out. The proof moves
  one caller between seats and accounts for the cardinality of the two seats
  that change.
- `PermitsImplementSemaphore`: every step of `Permits` is a step of `Semaphore`
  or leaves its variables alone, under the same invariant.

`FlightsProofs`, for any finite set of callers, any keys and any callers whose
thread may die, from `FlightAssumption`:

- `FlightsWaitForListed`, `FlightsWake`, `FlightsAreHeld`: the three invariants
  of `Flights`. `release_flight` counts down under one
  lock and unlists under another, so a newcomer may board in between and be left
  in a flight that is no longer listed. That is harmless only because such a
  flight has its result. The invariant carries why: the count of a flight is the
  number of its callers aboard, its dead ones included; a flight without a
  result still has its leader, at work or dead, so its count cannot reach zero
  and it stays listed; hence whoever is on the way to unlist a flight leaves a
  result behind.
- `FlightsImplementCoalescing`: every step of `Flights` is a step of `Coalescing`
  or leaves its variables alone. A caller that comes to lead begins, since a
  flight that is led is listed; whoever takes a result shares one of its own key.

`DaemonProofs` about `Serve`, for any peers and any bound, from `ServeAssumption`:

- `ServeCountsSlots`: the counter is the number of handlers and is within
  `MAX_CONNECTIONS`, across restarts of the unit. The invariant adds that the
  backlog holds no connection twice and none that is already handled, so that
  the one `serve` takes is nobody's yet, and that after the count there is room
  for the thread about to be spawned.

`DaemonProofs` about `NixCommand`, for any helpers, strays, capacity and output, from
`CommandAssumption`:

- `CommandComplete`, `CommandLeavesNothing`: the two invariants of `NixCommand`.
  They follow from `IInv`: what is written is in the pipe or taken; a finished
  reader leaves an empty pipe that nobody holds, and only a holder can pass a pipe
  on; an empty process group stays empty, since a member can only be born to a
  member; and the child is in its group before it can start a helper. Who adopts
  an orphan is settled in the crash and matters only there (`AdoptedFromDead`).

`ResolverProofs`, for any callers, releases of any number of paths, permits, bundles
that may go and threads that may die, from `ResolverAssumption`:

- `ResolverRunsFlights`, `ResolverRunsPermits`: every step of `Resolver` is a step of
  `Flights`, and one of `Permits`, or leaves the part alone. So the invariants and the
  refinements of the parts hold of the whole: `ResolverKeepsFlights`,
  `ResolverCountsPermits`, `ResolverImplementsPromises`. They are the results of
  `FlightsProofs` and `PermitsProofs`, instantiated.
- `PermitsAreForCommands`, `SuccessIsRooted`, `FailureIsUnrooted`, `RefusedStayRefused`
  and, with them, `ResolverKeepsItsTypes`. They need one invariant, `RInv`, which says
  what a caller's place in the loop over the paths means for its bundle: the roots it
  has are those of the paths behind it, of all of them once it succeeded and of none
  once it has cleaned up; what a root holds is in the store; a flight with a success
  is one whose leader was answered so. A step of one caller can only disturb another
  by the result of a flight, the permits or the store, and the invariants of the parts
  and the rule of the collector are what excludes that.
- `ReleasesComeFromTheirCache`, under the hypothesis that only bundles of development
  sources are deleted while requests are under way. Without it the statement is false:
  it is the disagreement about a follower's `register_root` above.

`LifecycleProofs`, for any number of creates of one path and all settings, from
`LifecycleAssumption`:

- `LiveContainersAreRooted`, `FailedCreatesReleaseRoots`, `RootsAreLostToStragglers`.
  The creates come one after the other, so one shim at most is under way (`Serial`); a
  patient shim is there as long as the daemon works for it (`Paired`, `Awaited`), hence
  no request removes a root behind its back (`Served`), and a root has somebody who is
  still to remove it (`Held`). `Written` and `Asked` are about the rewritten config.json
  that makes a create pass through. That only a straggler takes a live container's root
  needs `Serial` alone.

`PushProofs`, for any pushes with blobs, manifests and tags in common, from
`PushAssumption` (a manifest's digest determines its blobs; a tag is not a digest):

- `PushKeepsManifestsWhole`, if a registry that collects looks at the manifests it
  takes (`Careful`): the kind excluded above. A registry that looks is whole by
  itself; for one that does not, the invariant says what a client's place in the
  sequence of calls has put there.
- `PushedImagesStay`, `ExpiryCostsNothing`: a tag names a manifest that is there and was
  put under it; after the retry of a call the access is enough for that call.

`SeedProofs`, for any trees, editors, budgets, faults and leftovers, from
`SeedAssumption` and `SourceTreeAssumption`:

- `ScratchIsTheCallsOwn`: what is in a scratch area was there before or is owned by a
  guard, and never both, because `create_dir` is exclusive; the guards go with the call.
- `EvaluatedTreeIsStamped`: the copy is a tree, and its stamps are reset. `WalkInv` has
  the directories of the recursion as a path from the root, each created once by the
  walk itself; the names left in them are not in the copy yet; a stamp is missing only
  on what the walk is still in, since a directory is stamped after its entries.
- `CopyKeepsBudget`: the copy stays within both budgets but for one byte of the
  file that is being copied, and what is evaluated is as large as it was charged
  for. `Charged` says what the budget owes the copy at each step: nothing between
  two entries, a file's length from its `lstat` until its bytes are there, and
  what `take(expected + 1)` adds until the check, which may be a byte too much.
  The sum of the lengths is a fold over `Paths`: the sections before show by
  induction that it does not depend on the order it is taken in (`AddsAny`), and
  so changes by what one file changes (`BytesChange`). The induction is an appeal
  to the least counterexample (`Least`, from `WFMin`), which needs no operator for
  a parameter. `MaxEntries` is positive, as `MAX_STAGED_SOURCE_ENTRIES` is: the
  root is there before it is charged.
- `PackedLayerIsTree`: the layer is in path order, every entry in a directory before it,
  and within both budgets, whatever is edited meanwhile; without an edit it is
  `Pack!Listing`. `PackInv` has three parts. `PackOrder`: the names still to come are
  in order through all the listings (`Listed`), after what is written and in
  directories that are written (`Follows`); a directory's children come between it and
  the names that wait, because those are no deeper (`ChildIs`). `PackCharge`: the
  budget is what the layer has, and the entry of the file that is open. `PackWhole`:
  while nobody edits, each path to be packed is written, or in a name to come, or
  below the directory that is listed next (`Covered`); so at the end none is missing,
  and one set has one sequence in order (`OrderIsUnique`). TLC checks `PackInv` on
  `MCSeed` as well, where it was found.
- `PackedSeedIsStaged`: what the client packs the node stages, unless it is edited
  there, a system call fails or the call is too late. `PackForm` (the root first,
  directories and files only) carries the budgets over to what is unpacked
  (`UnpackFits`): the layer has every path once, so its sum is the sum over the
  tree (`TotalOfSequence`, `TotalOfPart`). On the node `Kept` has two halves.
  `Same`: what is in the copy is as in the source. `Coming`: what is not there yet
  is in the names that are left, or below them. So the budget never refuses: what
  is spent and the next file are at most the tree (`RoomLeft`, `TotalGrows`), and
  at the end nothing is missing.

`DeployProofs`, for any command lines, pods, clusters, channels, catalogs, nodes and
bundles, and any number of creates and changes, from the assumptions below:

- `DoctorIsRight`: the verdict was made of one set of answers (`Examined`), and with no
  check failed or warned of, each of the node's checks of the source passes: the two
  grammars of references and the two ways to read a policy are compared part by part.
- `EmittedAdmitted`: `Authored` says what is printed at each place of the author,
  whatever the channel does meanwhile; `NodeInv` says what the request asks for.
  The lemmas in between (`SelectionIs`, `RequestIs`, `TypedFault`) show which
  request a printed pod becomes, and that the prefix doctor and the plugin name
  for a policy (`PolicyPrefixIs`) authorizes the reference it was made of.
- `PodsRunWhatWasAuthored`: the root that starts is that of the release of the
  pinned digest, or of the reference and output typed, although channel and
  catalog may hold something else by then; the digest is what ties the two. A
  dropped annotation leaves what is in the image: the seed of a packed pod, the
  placeholder, whose flake throws, or a borrowed image, which passes if it has no
  flake, is refused if it has a link there and is expanded from its own flake if
  it has one (`ImageIs`). The proof had to settle which system's target is taken:
  that of the policy, not of the host (`select_release`), which `Fetch` now says
  and one node of the run tells apart.
- `ReportsAreBelieved`: the sums of a report are of one answer of the cache
  (`Reported`), hence what `validate_closure_report` asks of it holds; and a sum
  of zero has no part that is not (`ZeroTotal`). Sums are folds, which are shown
  to exist over every finite set (`AddsExists`) as in `SeedProofs`.
- `RuntimeGetsTheWhole`: `RewrittenIsWhole` is about the operators alone: what
  `apply_resolution` and the projection make of a bundle has the root, the mounts of the
  release, and every path of the closure bound unless the whole store is, with no two
  mounts at one place. Two places are one if their components are (`ComponentsAre`,
  `NormalTurns`): a store path's are `nix`, `store` and its name, so that distinct paths
  are at distinct places and none is at a mount that was let through. `NodeInv` carries
  that through the write, the rename and the sync; `Given` that pods and bundles stay
  what they were.
- `ScriptsAreRunAsWritten`: `Sown` says that a seed is what `generate::seed` makes
  of the script of the command. The property reads the lines one after the other;
  the model of the code joins the lines that are shebang, and `SaidIs` shows that
  this is the same. Reading lines, joining them, taking each installable once and
  taking a path apart are four folds; a lemma cannot have an operator for a
  parameter, so `Folded` gives them names, and `WalksExists` and `WalkAlong` say
  for all four that there is such a fold and that it goes position by position.
  What each makes is then shown by an appeal to the least position that is wrong
  (`Least`).

The assumptions are about what is given, and TLC evaluates each on the instance:
`DeployAssumption` (a reference is a text, a borrowed image has a flake, a link or
nothing at `etc/imageless`, sizes are numbers, an answer is finite);
`MountsAssumption` (the destinations of bundles and releases are spelled as texts,
and the bundle the engine hands over mounts nothing twice at one place: the engine
made it, and the code under proof does not look for duplicates that were there
before); `ScriptsAssumption` (the lines of a script are lines of words);
`AnnotationsAssumption` (a pod's annotations are a record of the names of the
contract); `StoreAssumption` (a store path's requisites are finite, and store
paths); `NoneAssumption` and `CategoryAssumption` (what is absent is none of the
things that are there).

What is model-checked only, and why:

- liveness: `AskedIsAnswered`, `EveryRequestEnds`, `OrphanEnds`, `PipesAreRead`,
  `EndsUnlessHeld`, `EveryPushEnds`, `SeedEnds`, `ServeSettles`. The prover has no rules
  for fairness, which is about ENABLED.

The safety properties and refinements of the passing runs are all proved; the
instances served to find the invariants, and show that each property can be
violated.

## What could come next

- Left to model: the lookup of credentials, and `NixCommand` in the place of the
  command of `Resolver`.

## What is not modelled

- `auth.rs` beyond what a token is good for: where credentials are looked up and
  how a challenge is parsed. These are parsers and a file lookup without state.
- Text and encodings: diagnostics, the text of generated flakes and pods beyond
  what is decided in it, tar, gzip and OCI, JSON frames.
- What Nix prints is parsed by pure functions over text; `NixCommand` says whether
  the text is complete.
- Telemetry: it is written after the fact and read by nobody in the system.
- doctor's exit status 2, when it is given kubectl options it cannot use and looks at
  nothing; and that it reads the policy file twice, once for the check of the policy
  and once for that of the source: the file is the same both times here.
- `help` and `version` of the plugin, and how a catalog's pointer is fetched. Its
  `pin` prints the reference that the action `Pin` of `Deploy` resolves.
- `write_seed`, which looks for its files first and writes them later: a file that
  appears in between is overwritten.
- The privilege drop of the development worker, a fixed sequence of system calls,
  and the build and smoke-test files.

PROJECT.json lists all of it by component.
