--------------------------- MODULE LifecycleProofs ---------------------------
(***************************************************************************)
(* Proofs about Lifecycle, for any number of creates of a path and any     *)
(* circumstances: a live container keeps its GC root, a failed create      *)
(* leaves none behind, and only an earlier request can take a root away.   *)
(*                                                                         *)
(* All three rest on who may touch the root at a time.  The creates of a   *)
(* path come one after the other, so of the shims only one is under way;   *)
(* the daemon's part of a create is the trouble, because it goes on after  *)
(* a shim that was killed or gave up.                                      *)
(***************************************************************************)
EXTENDS Lifecycle, TLAPS

Active == {"working", "prepared", "rooted", "undoing"}

\* A create starts when the earlier ones are over for good.
Serial == \A a, b \in Tries : a < b /\ shim[b] # "idle" => shim[a] \in Over

\* What a shim is at says how far its request can be.
Paired == \A a \in Tries :
  /\ shim[a] = "idle" => request[a] = "none"
  /\ shim[a] = "asking" => request[a] # "none"
  /\ shim[a] \in {"applying", "delegating", "running"} => request[a] \in {"none", "ok"}

\* A patient shim is there as long as the daemon works for it.
Awaited == Patient =>
  \A a \in Tries : shim[a] # "killed" /\ (request[a] \in Active => shim[a] = "asking")

\* In a bundle that is always fresh, config.json is rewritten by an attempt that
\* has not gone with it.
Written == setting.fresh /\ config = "rewritten" =>
  \E a \in Tries :
    shim[a] \in {"delegating", "undoing", "failed", "killed", "running", "deleted"}

\* Then no shim passes through.
Asked == Reselects => \A a \in Tries : request[a] = "none" => shim[a] = "idle"

\* Once the root is linked it is there for as long as the attempt may need it.
Served == Patient =>
  \A a \in Tries :
    /\ shim[a] \in {"asking", "applying", "delegating", "running"}
    /\ request[a] \in {"rooted", "ok"}
    => root /\ stored

\* A root has somebody who will remove it, or whom the engine must delete.
Holder(a) ==
  \/ shim[a] = "asking" /\ request[a] # "failed"
  \/ shim[a] = "delegating" /\ applied[a]
  \/ shim[a] \in {"applying", "undoing", "running", "deleted"}

Held == Patient /\ Short /\ root => \E a \in Tries : Holder(a)

IInv == TypeOK /\ Serial /\ Paired /\ Awaited /\ Written /\ Asked /\ Served /\ Held

LEMMA InitInv == Init => IInv
  BY DEF Init, IInv, TypeOK, Serial, Paired, Awaited, Written, Asked, Served, Held,
         Tries, ShimStates, RequestStates, Active

LEMMA TriesAreOrdered == \A a, b \in Tries : a # b => a < b \/ b < a
  BY LifecycleAssumption DEF Tries

\* While one attempt is under way, the others are still to come or over.
LEMMA OneUnderWay ==
  ASSUME Serial, NEW a \in Tries, shim[a] \notin Over \cup {"idle"},
         NEW b \in Tries, b # a
  PROVE  shim[b] \in Over \cup {"idle"}
  BY TriesAreOrdered DEF Serial

\* A create finds the earlier attempts over, and the later ones still to come.
LEMMA CreateIsNext ==
  ASSUME Serial, NEW a \in Tries, Create(a)
  PROVE  \A b \in Tries : (b < a => shim[b] \in Over) /\ (a < b => shim[b] = "idle")
<1>1. \A b \in Tries : b < a => b \in 1..(a - 1)
  BY LifecycleAssumption DEF Tries
<1>2. \A b \in Tries : b < a => shim[b] \in Over
  BY <1>1 DEF Create
<1>3. "idle" \notin Over /\ shim[a] = "idle"
  BY DEF Create, Shim, Over, Ended
<1>. QED
  BY <1>2, <1>3 DEF Serial

LEMMA NextInv == IInv /\ [Next]_vars => IInv'
<1>. SUFFICES ASSUME IInv, [Next]_vars PROVE IInv'
  OBVIOUS
<1>. USE DEF Shim, Request, IInv, TypeOK, Serial, Paired, Awaited, Written, Asked, Served,
             Held, Holder, Over, Ended, Patient, Short, Reselects, bundle, Active,
             ShimStates, RequestStates
<1>1. ASSUME NEW a \in Tries, Create(a), setting' = setting PROVE IInv'
  <2>1. \A b \in Tries : (b < a => shim[b] \in Over) /\ (a < b => shim[b] = "idle")
    BY <1>1, CreateIsNext
  <2>2. TypeOK'
    BY <1>1, <2>1, TriesAreOrdered DEF Create
  <2>3. Serial'
    BY <1>1, <2>1, TriesAreOrdered DEF Create
  <2>4. Paired'
    BY <1>1, <2>1, TriesAreOrdered DEF Create
  <2>5. Awaited'
    BY <1>1, <2>1, TriesAreOrdered DEF Create
  <2>6. Written'
    BY <1>1, <2>1, TriesAreOrdered DEF Create
  <2>7. Asked'
    BY <1>1, <2>1, TriesAreOrdered DEF Create
  <2>8. Served'
    BY <1>1, <2>1, TriesAreOrdered DEF Create
  <2>9. Held'
    BY <1>1, <2>1, TriesAreOrdered DEF Create
  <2>. QED
    BY <2>2, <2>3, <2>4, <2>5, <2>6, <2>7, <2>8, <2>9
<1>2. ASSUME NEW a \in Tries, Undo(a), setting' = setting PROVE IInv'
  <2>1. \A b \in Tries : b # a => shim[b] \in Over \cup {"idle"}
    BY <1>2, OneUnderWay DEF Undo
  <2>2. TypeOK'
    BY <1>2, <2>1, TriesAreOrdered DEF Undo
  <2>3. Serial'
    BY <1>2, <2>1, TriesAreOrdered DEF Undo
  <2>4. Paired'
    BY <1>2, <2>1, TriesAreOrdered DEF Undo
  <2>5. Awaited'
    BY <1>2, <2>1, TriesAreOrdered DEF Undo
  <2>6. Written'
    BY <1>2, <2>1, TriesAreOrdered DEF Undo
  <2>7. Asked'
    BY <1>2, <2>1, TriesAreOrdered DEF Undo
  <2>8. Served'
    BY <1>2, <2>1, TriesAreOrdered DEF Undo
  <2>9. Held'
    BY <1>2, <2>1, TriesAreOrdered DEF Undo
  <2>. QED
    BY <2>2, <2>3, <2>4, <2>5, <2>6, <2>7, <2>8, <2>9
<1>3. ASSUME NEW a \in Tries, Prepare(a), setting' = setting PROVE IInv'
  <2>1. Patient => \A b \in Tries : b # a => shim[b] \in Over \cup {"idle"}
    BY <1>3, OneUnderWay DEF Prepare
  <2>2. TypeOK'
    BY <1>3, <2>1, TriesAreOrdered DEF Prepare
  <2>3. Serial'
    BY <1>3, <2>1, TriesAreOrdered DEF Prepare
  <2>4. Paired'
    BY <1>3, <2>1, TriesAreOrdered DEF Prepare
  <2>5. Awaited'
    BY <1>3, <2>1, TriesAreOrdered DEF Prepare
  <2>6. Written'
    BY <1>3, <2>1, TriesAreOrdered DEF Prepare
  <2>7. Asked'
    BY <1>3, <2>1, TriesAreOrdered DEF Prepare
  <2>8. Served'
    BY <1>3, <2>1, TriesAreOrdered DEF Prepare
  <2>9. Held'
    BY <1>3, <2>1, TriesAreOrdered DEF Prepare
  <2>. QED
    BY <2>2, <2>3, <2>4, <2>5, <2>6, <2>7, <2>8, <2>9
<1>4. ASSUME NEW a \in Tries, RemoveRoots(a), setting' = setting PROVE IInv'
  <2>1. Patient => \A b \in Tries : b # a => shim[b] \in Over \cup {"idle"}
    BY <1>4, OneUnderWay DEF RemoveRoots
  <2>2. TypeOK'
    BY <1>4, <2>1, TriesAreOrdered DEF RemoveRoots
  <2>3. Serial'
    BY <1>4, <2>1, TriesAreOrdered DEF RemoveRoots
  <2>4. Paired'
    BY <1>4, <2>1, TriesAreOrdered DEF RemoveRoots
  <2>5. Awaited'
    BY <1>4, <2>1, TriesAreOrdered DEF RemoveRoots
  <2>6. Written'
    BY <1>4, <2>1, TriesAreOrdered DEF RemoveRoots
  <2>7. Asked'
    BY <1>4, <2>1, TriesAreOrdered DEF RemoveRoots
  <2>8. Served'
    BY <1>4, <2>1, TriesAreOrdered DEF RemoveRoots
  <2>9. Held'
    BY <1>4, <2>1, TriesAreOrdered DEF RemoveRoots
  <2>. QED
    BY <2>2, <2>3, <2>4, <2>5, <2>6, <2>7, <2>8, <2>9
<1>5. ASSUME NEW a \in Tries, RemoveBundle(a), setting' = setting PROVE IInv'
  <2>1. \A b \in Tries : b # a => shim[b] \in {"idle", "gone"}
    BY <1>5, TriesAreOrdered DEF RemoveBundle
  <2>2. TypeOK'
    BY <1>5, <2>1, TriesAreOrdered DEF RemoveBundle
  <2>3. Serial'
    BY <1>5, <2>1, TriesAreOrdered DEF RemoveBundle
  <2>4. Paired'
    BY <1>5, <2>1, TriesAreOrdered DEF RemoveBundle
  <2>5. Awaited'
    BY <1>5, <2>1, TriesAreOrdered DEF RemoveBundle
  <2>6. Written'
    BY <1>5, <2>1, TriesAreOrdered DEF RemoveBundle
  <2>7. Asked'
    BY <1>5, <2>1, TriesAreOrdered DEF RemoveBundle
  <2>8. Served'
    BY <1>5, <2>1, TriesAreOrdered DEF RemoveBundle
  <2>9. Held'
    BY <1>5, <2>1, TriesAreOrdered DEF RemoveBundle
  <2>. QED
    BY <2>2, <2>3, <2>4, <2>5, <2>6, <2>7, <2>8, <2>9
<1>6. ASSUME NEW a \in Tries, Answered(a), setting' = setting PROVE IInv'
  BY <1>6, TriesAreOrdered DEF Answered
<1>7. ASSUME NEW a \in Tries, HangsUp(a), setting' = setting PROVE IInv'
  BY <1>7, TriesAreOrdered DEF HangsUp
<1>8. ASSUME NEW a \in Tries, TimesOut(a), setting' = setting PROVE IInv'
  BY <1>8, TriesAreOrdered DEF TimesOut
<1>9. ASSUME NEW a \in Tries, Apply(a), setting' = setting PROVE IInv'
  BY <1>9, TriesAreOrdered DEF Apply
<1>10. ASSUME NEW a \in Tries, ApplyFails(a), setting' = setting PROVE IInv'
  BY <1>10, TriesAreOrdered DEF ApplyFails
<1>11. ASSUME NEW a \in Tries, Delegates(a), setting' = setting PROVE IInv'
  BY <1>11, TriesAreOrdered DEF Delegates
<1>12. ASSUME NEW a \in Tries, DelegateFails(a), setting' = setting PROVE IInv'
  BY <1>12, TriesAreOrdered DEF DelegateFails
<1>13. ASSUME NEW a \in Tries, Kill(a), setting' = setting PROVE IInv'
  BY <1>13, TriesAreOrdered DEF Kill
<1>14. ASSUME NEW a \in Tries, LinkRoot(a), setting' = setting PROVE IInv'
  BY <1>14, TriesAreOrdered DEF LinkRoot
<1>15. ASSUME NEW a \in Tries, Succeed(a), setting' = setting PROVE IInv'
  BY <1>15, TriesAreOrdered DEF Succeed
<1>16. ASSUME NEW a \in Tries, Fail(a), setting' = setting PROVE IInv'
  BY <1>16, TriesAreOrdered DEF Fail
<1>17. ASSUME NEW a \in Tries, Delete(a), setting' = setting PROVE IInv'
  BY <1>17, TriesAreOrdered DEF Delete
<1>18. CASE Collect /\ setting' = setting
  BY <1>18 DEF Collect
<1>19. CASE UNCHANGED vars
  BY <1>19 DEF vars
<1>. QED
  BY <1>1, <1>2, <1>3, <1>4, <1>5, <1>6, <1>7, <1>8, <1>9, <1>10, <1>11, <1>12, <1>13,
     <1>14, <1>15, <1>16, <1>17, <1>18, <1>19 DEF Next

\* A container that runs out of the store keeps its root and its store path,
\* whatever earlier creates left behind, where the shim is patient and selects
\* afresh (prepare_bundle, main, the daemon's materialize).
THEOREM LiveContainersAreRooted == Spec => []PatientLiveIsRooted
<1>1. IInv => PatientLiveIsRooted
  BY DEF IInv, Paired, Asked, Served, PatientLiveIsRooted, LiveIsRooted
<1>. QED
  BY <1>1, InitInv, NextInv, PTL DEF Spec

\* When every create of a path has failed no root is left, whether it was the
\* daemon, the rewrite or runc that failed (remove_bundle_gc_roots).
THEOREM FailedCreatesReleaseRoots == Spec => []PatientFailureReleasesRoots
<1>1. IInv => PatientFailureReleasesRoots
  BY DEF IInv, Held, Holder, PatientFailureReleasesRoots, FailureReleasesRoots, Quiet
<1>. QED
  BY <1>1, InitInv, NextInv, PTL DEF Spec

\* Whoever runs and loses its root, in whatever circumstances, loses it to the
\* daemon's handling of an earlier request.
LEMMA RootLost ==
  ASSUME IInv, [Next]_vars, NEW a \in Tries, shim[a] = "running", root, ~root',
         shim'[a] = "running"
  PROVE  \E b \in 1..(a - 1) : request[b] \in {"working", "undoing"} /\ request'[b] # request[b]
<1>1. shim[a] \notin Over \cup {"idle"}
  BY DEF Over, Ended
<1>2. \A b \in Tries : b # a => shim[b] \in Over \cup {"idle"}
  BY <1>1, OneUnderWay DEF IInv
<1>3. \A b \in Tries : ~Undo(b) /\ ~RemoveBundle(b)
  BY <1>2, TriesAreOrdered DEF Undo, RemoveBundle, Shim, Over, Ended, IInv, Serial, TypeOK
<1>4. PICK b \in Tries : Prepare(b) \/ RemoveRoots(b)
  BY <1>3 DEF Next, vars, bundle, Create, Answered, HangsUp, TimesOut, Apply, ApplyFails,
     Delegates, DelegateFails, Kill, LinkRoot, Succeed, Fail, Delete, Collect
<1>5. request[b] \in {"working", "undoing"} /\ request'[b] # request[b]
  BY <1>4 DEF Prepare, RemoveRoots, Request, IInv, TypeOK
<1>6. b # a /\ ~(a < b)
  BY <1>1, <1>5 DEF IInv, Paired, Serial
<1>. QED
  BY <1>5, <1>6, LifecycleAssumption DEF Tries

\* The same as a property of every step (prepare_gc_root, remove_bundle_gc_roots).
THEOREM RootsAreLostToStragglers == Spec => LostOnlyToStragglers
<1>1. IInv /\ [Next]_vars =>
        [\A a \in Tries : shim[a] = "running" /\ root /\ ~root' =>
           \/ shim'[a] # "running"
           \/ \E b \in 1..(a - 1) :
                request[b] \in {"working", "undoing"} /\ request'[b] # request[b]]_vars
  BY RootLost
<1>. QED
  BY <1>1, InitInv, NextInv, PTL DEF Spec, LostOnlyToStragglers
=============================================================================
