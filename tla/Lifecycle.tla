------------------------------ MODULE Lifecycle ------------------------------
(***************************************************************************)
(* One bundle path over the life of its containers: the engine runs the    *)
(* shim for a `create`, the shim asks the resolver daemon for the store    *)
(* path, rewrites config.json and delegates to runc; the daemon links a GC *)
(* root into the bundle; the node collects garbage.  Shim and daemon are   *)
(* processes of their own: either can go on after the other is through     *)
(* with the request, and the engine can come back to the same path.        *)
(*                                                                         *)
(* The daemon's part is Resolver.tla cut down to what the bundle sees of   *)
(* it: a request links the root, and removes it again if it fails.  Two    *)
(* requests for the bundle do not wait for one another here, as when both  *)
(* follow a flight that a third one leads for another bundle.              *)
(***************************************************************************)
EXTENDS Naturals

CONSTANTS
  Attempts,   \* how many creates the engine runs for this path
  Settings    \* the circumstances considered, see setting

ASSUME LifecycleAssumption ==
  /\ Attempts \in Nat
  /\ Settings \subseteq [embedded : BOOLEAN, fresh : BOOLEAN, long : BOOLEAN,
                         cuts : SUBSET {"timeout", "kill"}]

VARIABLES
  setting,   \* embedded: the image's own flake selects the store path, not an
             \* annotation; fresh: the engine deletes the bundle after each
             \* attempt; long: the answer fits in a frame, but not with its
             \* timings; cuts: how a shim may end before its request does, out
             \* of time or killed by the engine
  config,    \* config.json: as the engine wrote it, or rewritten
  root,      \* the bundle holds a GC root for the store path
  stored,    \* the store path is in the node's store
  shim,      \* the shim process of each attempt, later its container
  request,   \* the daemon's handling of its request
  applied    \* `applied.is_some()`: the shim itself rewrote config.json

bundle == <<config, root>>
vars == <<setting, bundle, stored, shim, request, applied>>

Tries == 1..Attempts

(***************************************************************************)
(* shim: "idle"; "asking" the daemon; "applying" the answer; "delegating"  *)
(* to runc; "undoing" the roots; then "failed", "killed", or "running",    *)
(* where the container outlives the shim until it is "deleted"; "gone",    *)
(* the engine has deleted the bundle of the attempt.                       *)
(* request: "none"; "working"; "prepared", a stale link is out of the way; *)
(* "rooted", the root is linked and the answer is still open; "undoing"    *)
(* the roots; "ok"; "failed".                                              *)
(***************************************************************************)
ShimStates == {"idle", "asking", "applying", "delegating", "undoing",
               "failed", "killed", "running", "deleted", "gone"}
RequestStates == {"none", "working", "prepared", "rooted", "undoing", "ok", "failed"}

Ended == {"failed", "killed", "deleted"}

\* What an attempt must have come to before the engine starts the next one.
Over == IF setting.fresh THEN {"gone"} ELSE Ended

Init ==
  /\ setting \in Settings
  /\ config = "pristine"
  /\ root = FALSE
  /\ stored = FALSE
  /\ shim = [a \in Tries |-> "idle"]
  /\ request = [a \in Tries |-> "none"]
  /\ applied = [a \in Tries |-> FALSE]

Shim(a, from, to) ==
  /\ shim[a] = from
  /\ shim' = [shim EXCEPT ![a] = to]

Request(a, from, to) ==
  /\ request[a] = from
  /\ request' = [request EXCEPT ![a] = to]

-----------------------------------------------------------------------------
(***************************************************************************)
(* The shim                                                                *)
(***************************************************************************)

\* The engine runs `create`, one attempt after the other.  expansion_request
\* selects the bundle by what config.json says now: once root.path points into
\* the store there is no embedded flake to find, and the shim passes through.
Create(a) ==
  /\ \A b \in 1..(a - 1) : shim[b] \in Over
  /\ IF setting.embedded /\ config = "rewritten"
     THEN Shim(a, "idle", "delegating") /\ UNCHANGED request
     ELSE Shim(a, "idle", "asking") /\ Request(a, "none", "working")
  /\ UNCHANGED <<bundle, stored, applied>>

\* Mutant: the answer comes before the daemon is through with the request.
AnsweredAtOnce(a) ==
  /\ \/ request[a] # "failed" /\ Shim(a, "asking", "applying")
     \/ request[a] = "failed" /\ Shim(a, "asking", "failed")
  /\ UNCHANGED <<bundle, stored, request, applied>>

Answered(a) ==
  /\ \/ request[a] = "ok" /\ ~setting.long /\ Shim(a, "asking", "applying")
     \/ request[a] = "failed" /\ Shim(a, "asking", "failed")
  /\ UNCHANGED <<bundle, stored, request, applied>>

\* select_release measures the answer without its timings.  An answer that only
\* they make longer than MAX_FRAME_BYTES is refused by write_frame, before it
\* writes a byte: the daemon drops the connection, and the shim reports the end of
\* the file.
HangsUp(a) ==
  /\ setting.long
  /\ request[a] = "ok"
  /\ Shim(a, "asking", "failed")
  /\ UNCHANGED <<bundle, stored, request, applied>>

\* The read times out: the shim reports the error and exits.
TimesOut(a) ==
  /\ "timeout" \in setting.cuts
  /\ Shim(a, "asking", "failed")
  /\ UNCHANGED <<bundle, stored, request, applied>>

\* apply_resolution replaces config.json by a rename.  A config that is already
\* rewritten mounts /nix/store already, which apply_node_store_projection refuses.
Apply(a) ==
  /\ config = "pristine"
  /\ Shim(a, "applying", "delegating")
  /\ config' = "rewritten"
  /\ applied' = [applied EXCEPT ![a] = TRUE]
  /\ UNCHANGED <<root, stored, request>>

\* It fails before the rename, or in the directory fsync after it.
ApplyFails(a) ==
  /\ Shim(a, "applying", "undoing")
  /\ config' \in {config, "rewritten"}
  /\ UNCHANGED <<root, stored, request, applied>>

Delegates(a) ==
  /\ Shim(a, "delegating", "running")
  /\ UNCHANGED <<bundle, stored, request, applied>>

\* Mutant: the exit status of runc is passed on, and that is all.
DelegateFailsSilently(a) ==
  /\ Shim(a, "delegating", "failed")
  /\ UNCHANGED <<bundle, stored, request, applied>>

\* runc cannot be run or fails: roots are removed if this shim applied a
\* resolution.
DelegateFails(a) ==
  /\ Shim(a, "delegating", IF applied[a] THEN "undoing" ELSE "failed")
  /\ UNCHANGED <<bundle, stored, request, applied>>

\* remove_bundle_gc_roots in the shim.
Undo(a) ==
  /\ Shim(a, "undoing", "failed")
  /\ root' = FALSE
  /\ UNCHANGED <<config, stored, request, applied>>

\* The engine gives up on the create and kills the shim.
Kill(a) ==
  /\ "kill" \in setting.cuts
  /\ shim[a] \in {"asking", "applying", "delegating", "undoing"}
  /\ shim' = [shim EXCEPT ![a] = "killed"]
  /\ UNCHANGED <<bundle, stored, request, applied>>

-----------------------------------------------------------------------------
(***************************************************************************)
(* The daemon, which learns nothing of what becomes of the shim            *)
(***************************************************************************)

\* prepare_gc_root: a stale link goes.
Prepare(a) ==
  /\ Request(a, "working", "prepared")
  /\ root' = FALSE
  /\ UNCHANGED <<config, stored, shim, applied>>

\* Mutant: the path is realised without --add-root.
LinkNoRoot(a) ==
  /\ Request(a, "prepared", "rooted")
  /\ stored' = TRUE
  /\ UNCHANGED <<bundle, shim, applied>>

\* The realise command: the path is in the store, and the new link is there.
LinkRoot(a) ==
  /\ Request(a, "prepared", "rooted")
  /\ root' = TRUE
  /\ stored' = TRUE
  /\ UNCHANGED <<config, shim, applied>>

Succeed(a) ==
  /\ Request(a, "rooted", "ok")
  /\ UNCHANGED <<bundle, stored, shim, applied>>

Fail(a) ==
  /\ \E s \in {"working", "prepared", "rooted"} : Request(a, s, "undoing")
  /\ UNCHANGED <<bundle, stored, shim, applied>>

\* remove_bundle_gc_roots in the daemon, before it answers.
RemoveRoots(a) ==
  /\ Request(a, "undoing", "failed")
  /\ root' = FALSE
  /\ UNCHANGED <<config, stored, shim, applied>>

-----------------------------------------------------------------------------
(***************************************************************************)
(* The engine and the collector                                            *)
(***************************************************************************)

\* `runc delete` goes through the shim untouched: only `create` is intercepted.
Delete(a) ==
  /\ Shim(a, "running", "deleted")
  /\ UNCHANGED <<bundle, stored, request, applied>>

\* The engine removes the bundle of an attempt that is over; the next one
\* starts from a new config.json.
RemoveBundle(a) ==
  /\ setting.fresh
  /\ shim[a] \in Ended
  /\ shim' = [shim EXCEPT ![a] = "gone"]
  /\ config' = "pristine"
  /\ root' = FALSE
  /\ UNCHANGED <<stored, request, applied>>

Collect ==
  /\ stored
  /\ ~root
  /\ stored' = FALSE
  /\ UNCHANGED <<bundle, shim, request, applied>>

Next ==
  /\ \/ \E a \in Tries :
          \/ Create(a) \/ Answered(a) \/ HangsUp(a) \/ TimesOut(a)
          \/ Apply(a) \/ ApplyFails(a) \/ Delegates(a) \/ DelegateFails(a) \/ Undo(a) \/ Kill(a)
          \/ Prepare(a) \/ LinkRoot(a) \/ Succeed(a) \/ Fail(a) \/ RemoveRoots(a)
          \/ Delete(a) \/ RemoveBundle(a)
     \/ Collect
  /\ UNCHANGED setting

Spec == Init /\ [][Next]_vars
-----------------------------------------------------------------------------
(***************************************************************************)
(* Properties                                                              *)
(***************************************************************************)
TypeOK ==
  /\ setting \in Settings
  /\ config \in {"pristine", "rewritten"}
  /\ root \in BOOLEAN
  /\ stored \in BOOLEAN
  /\ shim \in [Tries -> ShimStates]
  /\ request \in [Tries -> RequestStates]
  /\ applied \in [Tries -> BOOLEAN]

\* The shim is never killed, and hears every answer in time.
Patient == setting.cuts = {}

\* Every answer fits in a frame, with its timings.
Short == ~setting.long

\* No create is ever run on a config.json that hides what selected its bundle.
Reselects == setting.fresh \/ ~setting.embedded

\* No attempt is under way, and those that were ended in one of the ways S.
Quiet(S) == \A a \in Tries : shim[a] \in S \cup {"idle", "gone"}

\* SPEC.md 4.6: a live container that runs out of the store survives garbage
\* collection, whatever earlier creates of the same path left behind.
LiveIsRooted == \A a \in Tries :
  shim[a] = "running" /\ config = "rewritten" => root /\ stored

\* SPEC.md 4.6: once every create of the path has failed, and the shims have
\* exited, no root is left.
FailureReleasesRoots == Quiet({"failed"}) => ~root

\* prepare_bundle, main and the daemon keep live containers rooted, where the
\* shim is patient and the bundle is selected afresh.
PatientLiveIsRooted == Patient /\ Reselects => LiveIsRooted

\* Wherever a create fails, in the daemon, in the rewrite or in runc, somebody
\* removes the root, if the shim is patient and the answer can reach it.
PatientFailureReleasesRoots == Patient /\ Short => FailureReleasesRoots

\* Even where the shim may be killed or give up early, a live container loses
\* its root to nobody but the daemon's handling of an earlier request: not to
\* its own request, nor to another shim.
LostOnlyToStragglers ==
  [][\A a \in Tries : shim[a] = "running" /\ root /\ ~root' =>
       \/ shim'[a] # "running"
       \/ \E b \in 1..(a - 1) :
            request[b] \in {"working", "undoing"} /\ request'[b] # request[b]]_vars
=============================================================================
