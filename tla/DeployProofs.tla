---------------------------- MODULE DeployProofs ----------------------------
(***************************************************************************)
(* Proofs about Deploy, for any commands, pods, bundles, policies and      *)
(* catalogs.  Six invariants are inductive, each with the help of those    *)
(* before it:                                                              *)
(*   Examined   what doctor said, it said of the answers that there were;  *)
(*   Authored   what is printed is what the command and the channel said;  *)
(*   NodeInv    what the place of a create says of its request, of what    *)
(*              was found, of the roots and of the bundle;                 *)
(*   Reported   a report is made of one answer of the cache;               *)
(*   Given      the pod and the bundle are as they were given;             *)
(*   Sown       a seed is what was made of the script of the command.      *)
(* The rest says what the operators make of what is given: what a node     *)
(* selects and refuses, what sums there are, what the components of a path *)
(* are, which mounts the runtime gets, and what the lines of a script say. *)
(***************************************************************************)
EXTENDS Deploy, SequenceTheorems, FiniteSetTheorems, FunctionTheorems, WellFoundedInduction, TLAPS

-----------------------------------------------------------------------------
(***************************************************************************)
(* What doctor said, it said of the node that there is.                    *)
(***************************************************************************)
Examined ==
  author = "examined" =>
    \E answers : verdict = [checks |-> Diagnose(Options, answers), answers |-> answers,
                            exit |-> ExitCode(Options, answers)]

\* The verdict is written once, from the answers that there were.
LEMMA NextExamined == ASSUME Examined, [Next]_vars PROVE Examined'
<1>1. ASSUME UNCHANGED <<command, author, verdict, node>> PROVE Examined'
  BY <1>1 DEF Examined, Options
<1>2. CASE AuthorStep /\ UNCHANGED node
  <2>1. CASE Examine
    BY <1>2, <2>1 DEF Examined, Examine, Options
  <2>2. CASE ParseRun \/ Pin \/ Pack \/ PushImage \/ Emit
    <3>1. author' # "examined"
      BY <2>2 DEF ParseRun, Pin, Pack, PushImage, Emit
    <3>. QED
      BY <3>1 DEF Examined
  <2>. QED
    BY <1>2, <2>1, <2>2 DEF AuthorStep
<1>. QED
  BY <1>1, <1>2 DEF Next, vars, authorVars

\* Nobody has been examined in an initial state.
LEMMA InitExamined == Init => Examined
  BY DEF Init, Examined

\* An annotation with a source of its own, as doctor takes it.
Sourced(source) == [NoAnnotations EXCEPT !.source = source]

\* What the node plans for a reference that is not a path.
LEMMA SourcedPlan ==
  ASSUME NEW source, source # None, ~StartsWith(source, "/")
  PROVE  Plan(Sourced(source), "rootfs") =
           IF ValidSource(source) THEN Evaluable(source, "rootfs") ELSE Refuse
<1>. DEFINE a == Sourced(source)
<1>1. /\ a.sandbox = FALSE /\ a.name = None /\ a.source = source /\ a.output = None
      /\ a.release = None /\ a.skip = None /\ a.only = None
  BY DEF Sourced, NoAnnotations
<1>. HIDE DEF a
<1>2. Skip(a) = None /\ Only(a) = None
  BY <1>1 DEF Skip, Only
<1>3. ~Skipped(a) /\ SelectorsValid(a) /\ Listed(a)
  BY <1>2, NoneAssumption DEF Skipped, SelectorsValid, Listed
<1>4. ValidOutput("rootfs")
  BY DEF ValidOutput
<1>5. Plan(a, "rootfs") = IF ValidSource(source) THEN Evaluable(source, "rootfs") ELSE Refuse
  BY <1>1, <1>3, <1>4 DEF Plan
<1>. QED
  BY <1>5 DEF a

\* The policy that the daemon has, where it has one.
LEMMA PolicyIs ==
  ASSUME Policy # None
  PROVE  /\ Policy = IF node.file = None THEN DefaultPolicy(System) ELSE node.file
         /\ node.file # None => node.file # Malformed
         /\ node.place = "daemon" /\ ~Policy.cacheOnly => node.worker
  BY DEF Policy, LoadPolicy

\* What the daemon asks of a reference that has a scheme.
LEMMA RemoteRequest ==
  ASSUME NEW source, NEW name, NEW policy, NEW output, ValidOutput(output),
         ValidSource(source), ~StartsWith(source, "/"), Scheme(source) # <<>>
  PROVE  RequestFault(Request("runtime", Evaluable(source, output), name), policy) =
           IF policy.cacheOnly THEN "evaluation_disabled"
           ELSE IF ~Authorized(source, policy.prefixes) THEN "policy_denied" ELSE None
<1>. DEFINE r == Request("runtime", Evaluable(source, output), name)
<1>1. /\ r.purpose = "runtime" /\ r.kind = "flake"
      /\ r.installable.uri = source /\ r.installable.output = output
  BY DEF Request, Evaluable
<1>2. RemoteScheme(source)
  BY DEF RemoteScheme, ValidSource
<1>3. ValidInstallable(r.installable)
  BY <1>1 DEF ValidInstallable, ValidSource
<1>. HIDE DEF r
<1>4. RequestFault(r, policy) =
        IF policy.cacheOnly THEN "evaluation_disabled"
        ELSE IF ~Authorized(source, policy.prefixes) THEN "policy_denied" ELSE None
  BY <1>1, <1>2, <1>3 DEF RequestFault
<1>. QED
  BY <1>4 DEF r

\* doctor passes nothing that it could fail or warn of.
LEMMA Passed ==
  ASSUME NEW options, NEW answers, ExitCode(options, answers) = 0, options.strict
  PROVE  /\ ~ProbeFailed(answers)
         /\ \A id \in Ids : Diagnose(options, answers)[id] \notin {"fail", "warn"}
<1>1. ~ProbeFailed(answers) /\ {"fail", "warn"} \cap Range(Diagnose(options, answers)) = {}
  BY DEF ExitCode
<1>2. DOMAIN Diagnose(options, answers) = Ids
  BY DEF Diagnose
<1>. QED
  BY <1>1, <1>2 DEF Range

\* The checks of doctor that the property reads.
LEMMA Checked ==
  ASSUME NEW options, NEW answers
  PROVE  LET checks == Diagnose(options, answers)
         IN /\ checks["policy"] = CheckPolicy(options.policy)
            /\ checks["source"] = CheckSource(options.source, options.policy)
            /\ ~ProbeFailed(answers) =>
                 /\ checks["nodes"] = CheckNodes(answers.nodes, SelectorOf(answers.class))
                 /\ checks["scheduling"] = CheckScheduling(answers.class)
  BY DEF Diagnose, Ids

\* The verdict of a strict doctor, check by check.
LEMMA ForeseesIs == ASSUME Examined PROVE DoctorForesees
<1>1. SUFFICES ASSUME author = "examined", command.source # None, command.policy, Policy # None,
                      ~StartsWith(command.source, "/"), Scheme(command.source) # <<>>
               PROVE  DoctorForesees
  BY DEF DoctorForesees
<1>. DEFINE source == command.source
            selected == Plan(Sourced(source), "rootfs")
            admitted == /\ selected.kind = "flake"
                        /\ RequestFault(Request("runtime", selected, None), Policy) = None
<1>2. PICK answers : verdict = [checks |-> Diagnose(Options, answers), answers |-> answers,
                                exit |-> ExitCode(Options, answers)]
  BY <1>1 DEF Examined
<1>3. /\ Options.strict = command.strict /\ Options.source = source
      /\ Options.policy = IF node.file = None THEN Malformed ELSE node.file
  BY <1>1 DEF Options
<1>4. admitted <=> ValidSource(source) /\ ~Policy.cacheOnly /\ Authorized(source, Policy.prefixes)
  <2>1. CASE ValidSource(source)
    <3>1. selected = Evaluable(source, "rootfs") /\ selected.kind = "flake" /\ ValidOutput("rootfs")
      BY <1>1, <2>1, SourcedPlan DEF Evaluable, ValidOutput
    <3>2. RequestFault(Request("runtime", selected, None), Policy) =
            IF Policy.cacheOnly THEN "evaluation_disabled"
            ELSE IF ~Authorized(source, Policy.prefixes) THEN "policy_denied" ELSE None
      BY <1>1, <2>1, <3>1, RemoteRequest
    <3>3. None # "evaluation_disabled" /\ None # "policy_denied"
      BY CategoryAssumption DEF Categories
    <3>. HIDE DEF selected
    <3>. QED
      BY <2>1, <3>1, <3>2, <3>3
  <2>2. CASE ~ValidSource(source)
    BY <1>1, <2>2, SourcedPlan DEF Refuse
  <2>. QED
    BY <2>1, <2>2
<1>5. ASSUME ExitCode(Options, answers) = 0, command.strict
      PROVE  /\ admitted
             /\ answers.class.answer = "found" /\ answers.nodes.answer = "found" =>
                  \E n \in answers.nodes.items : n.ready /\ answers.class.selector \subseteq n.labels
  <2>1. /\ ~ProbeFailed(answers)
        /\ \A id \in Ids : Diagnose(Options, answers)[id] \notin {"fail", "warn"}
    BY <1>3, <1>5, Passed
  <2>2. /\ CheckPolicy(Options.policy) \notin {"fail", "warn"}
        /\ CheckSource(source, Options.policy) \notin {"fail", "warn"}
        /\ CheckNodes(answers.nodes, SelectorOf(answers.class)) \notin {"fail", "warn"}
        /\ CheckScheduling(answers.class) \notin {"fail", "warn"}
    BY <1>3, <2>1, Checked DEF Ids
  <2>3. node.file # None
    BY <1>3, <2>2, NoneAssumption DEF CheckPolicy
  <2>4. Options.policy = Policy /\ Policy \notin {None, Malformed}
    BY <1>1, <1>3, <2>3, PolicyIs
  <2>5. ~Policy.cacheOnly
    BY <2>2, <2>4 DEF CheckPolicy
  <2>6. ValidSource(source) /\ Authorized(source, Policy.prefixes)
    BY <1>1, <2>2, <2>4 DEF CheckSource
  <2>7. ASSUME answers.class.answer = "found", answers.nodes.answer = "found"
        PROVE  \E n \in answers.nodes.items : n.ready /\ answers.class.selector \subseteq n.labels
    <3>1. SelectorOf(answers.class) = answers.class.selector /\ answers.class.selector # {}
      BY <2>2, <2>7 DEF SelectorOf, CheckScheduling
    <3>. DEFINE M == Matching(answers.nodes.items, answers.class.selector)
    <3>2. M # {} /\ \A n \in M : n.ready
      BY <2>2, <2>7, <3>1 DEF CheckNodes
    <3>. QED
      BY <3>2 DEF Matching
  <2>. QED
    BY <1>4, <2>5, <2>6, <2>7
<1>6. ASSUME Diagnose(Options, answers)["source"] = "fail"
      PROVE  ~admitted \/ PinOf(source) = "malformed"
  <2>1. CheckSource(source, Options.policy) = "fail"
    BY <1>3, <1>6, Checked
  <2>2. PinOf(source) \in {"pinned", "malformed", "none"}
    BY DEF PinOf
  <2>3. CASE ~ValidSource(source)
    BY <1>4, <2>3
  <2>4. CASE Options.policy \notin {None, Malformed} /\ ~Authorized(source, Options.policy.prefixes)
    <3>1. Policy = Options.policy
      BY <1>1, <1>3, <2>4, PolicyIs
    <3>. QED
      BY <1>4, <2>4, <3>1
  <2>5. CASE /\ ValidSource(source)
             /\ ~(Options.policy \notin {None, Malformed} /\ ~Authorized(source, Options.policy.prefixes))
    BY <1>1, <2>1, <2>2, <2>5 DEF CheckSource
  <2>. QED
    BY <2>3, <2>4, <2>5
<1>7. /\ verdict.exit = ExitCode(Options, answers) /\ verdict.answers = answers
      /\ verdict.checks = Diagnose(Options, answers)
  BY <1>2
<1>8. selected = Plan([NoAnnotations EXCEPT !.source = command.source], "rootfs")
  BY DEF Sourced
<1>. HIDE DEF selected
<1>. QED
  BY <1>5, <1>6, <1>7, <1>8 DEF DoctorForesees

\* With the node's policy and a reference of its own, a strict doctor that finds
\* nothing wrong is right about the node (check_policy, check_source, check_nodes).
THEOREM DoctorIsRight == Spec => []DoctorForesees
<1>1. Examined /\ [Next]_vars => Examined'
  BY NextExamined
<1>2. Examined => DoctorForesees
  BY ForeseesIs
<1>. QED
  BY <1>1, <1>2, InitExamined, PTL DEF Spec

-----------------------------------------------------------------------------
(***************************************************************************)
(* The author: what is printed is what the command and the channel said.   *)
(***************************************************************************)
Printed == Plan(PodAnnotations, "rootfs") \notin {Pass, Refuse}

Authored ==
  /\ pod # None => author \in {"emitted", "by hand"}
  /\ author \in {"pinning", "packing", "pushing", "emitting", "emitted"} => ~ParseRefused(command)
  /\ author = "pinning" => command.release
  /\ author = "packing" => ~command.release
  /\ author \in {"pushing", "emitting", "emitted"} /\ command.release =>
       /\ pinned = [issuer |-> command.coordinate.issuer, name |-> command.coordinate.name,
                    digest |-> pinned.digest]
       /\ pinned.digest \in Pointers \ {None, Malformed}
  /\ author = "emitted" => pod = Pod /\ Printed
  /\ pointer \in Pointers
  /\ author \notin {"examining", "examined", "by hand"} => command \in Commands

\* Only a command line that was not refused goes on.
LEMMA ParseRunKeeps == ASSUME Authored, ParseRun, pointer' = pointer PROVE Authored'
  BY DEF Authored, ParseRun, Packs

\* What is pinned is a release that the node's grammar takes.
LEMMA PinKeeps == ASSUME Authored, Pin, pointer' = pointer PROVE Authored'
<1>. DEFINE r == [issuer |-> command.coordinate.issuer, name |-> command.coordinate.name,
                   digest |-> pointer]
<1>1. CASE author' = "failed"
  BY <1>1 DEF Authored, Pin
<1>2. CASE author' # "failed"
  <2>1. /\ author = "pinning" /\ author' = "pushing" /\ pinned' = r /\ command' = command /\ pod' = pod
        /\ pointer \notin {None, Malformed}
    BY <1>2 DEF Pin
  <2>2. pinned'.digest = pointer
    BY <2>1
  <2>. QED
    BY <2>1, <2>2 DEF Authored
<1>. QED
  BY <1>1, <1>2

\* A seed is made for a command line that packs.
LEMMA PackKeeps == ASSUME Authored, Pack, pointer' = pointer PROVE Authored'
  BY DEF Authored, Pack, Packs

\* No step of the node or of the publisher disturbs the author.
LEMMA NextAuthored == ASSUME Authored, [Next]_vars PROVE Authored'
<1>1. ASSUME UNCHANGED authorVars, pointer' \in Pointers PROVE Authored'
  BY <1>1 DEF Authored, authorVars, Printed, PodAnnotations, Pod, PodImage, PodCommand
<1>2. CASE AuthorStep /\ pointer' = pointer
  <2>1. CASE PushImage \/ Examine
    BY <1>2, <2>1 DEF Authored, PushImage, Examine
  <2>2. CASE Emit
    <3>1. UNCHANGED <<command, pinned, seed>>
      BY <2>2 DEF Emit
    <3>2. Pod' = Pod /\ PodAnnotations' = PodAnnotations
      BY <3>1 DEF Pod, PodAnnotations, PodImage, PodCommand
    <3>3. author' = "emitted" => pod' = Pod /\ Printed
      BY <2>2 DEF Emit, Printed
    <3>. QED
      BY <1>2, <2>2, <3>1, <3>2, <3>3 DEF Authored, Emit, Printed
  <2>. QED
    BY <1>2, <2>1, <2>2, ParseRunKeeps, PinKeeps, PackKeeps DEF AuthorStep
<1>3. ASSUME Publish \/ \E digest \in Pointers \ {None, Malformed} : Replaced(digest)
      PROVE  pointer' \in Pointers
  BY <1>3 DEF Authored, Publish, Replaced
<1>4. pointer \in Pointers
  BY DEF Authored
<1>. QED
  BY <1>1, <1>2, <1>3, <1>4 DEF Next, vars, catalogVars

\* Nothing is printed in an initial state.
LEMMA InitAuthored == Init => Authored
  BY DEF Init, Authored

-----------------------------------------------------------------------------
(***************************************************************************)
(* The node: what the place of a create says of the request, of what was   *)
(* found for it, of the bundle and of the roots.                           *)
(***************************************************************************)
Late == {"prepare", "write", "rename", "sync", "started"}
Realised == Late \cup {"warm"}
Admitted == Realised \cup {"fetch", "realise", "query", "reported"}
Requested == Admitted \cup {"validate"}

\* What the pod selects, of what gets to the node.
Selection == ExpansionRequest(Carried(pod.annotations), Embedded(pod.image), "rootfs")

\* The request is of the shim, or of another client for the release of the pod.
Legit ==
  \/ /\ Selection \notin {Pass, Refuse}
     /\ request = Request("runtime", Selection, Carried(pod.annotations).name)
  \/ /\ pod.annotations.release \notin {None, Malformed}
     /\ \E purpose \in {"prewarm", "inspect"} :
          request = Request(purpose, Selected(pod.annotations.release), None)

\* Whatever the catalog served, it was the body of the digest.
Found ==
  /\ SelectFault(request, Policy, request.release.digest) = None
  /\ resolution = Resolution(request.release, request.release.digest, Policy.system)

Answered ==
  IF request.kind = "release" THEN Found
  ELSE /\ resolution = Evaluated(request.installable)
       /\ Staged(request.installable.uri) => pod.image # "placeholder"

Failure ==
  /\ stage = "failed"
  /\ fault.at = "idle" => Selection = Refuse
  /\ fault.at # "idle" => Legit
  /\ fault.at = "validate" =>
       IF Policy = None THEN fault.category # "invalid_request"
       ELSE fault.category = RequestFault(request, Policy)

RequestInv ==
  /\ stage \in Requested \cup {"idle", "passed", "failed"}
  /\ stage # "idle" => pod # None
  /\ stage = "passed" => Selection = Pass
  /\ stage \in Requested => Legit
  /\ stage \in Admitted => Policy # None /\ RequestFault(request, Policy) = None
  /\ stage \in {"fetch", "query", "reported"} => request.kind = "release"
  /\ stage \in {"query", "reported"} => request.purpose = "inspect" /\ Found
  /\ stage = "realise" /\ request.kind = "release" => Found
  /\ stage \in Realised => Answered
  /\ stage \in Late => request.purpose = "runtime"
  /\ fault # None => Failure

Rewrite == Rewritten(bundle, resolution, node.projection, closure)

BundleInv ==
  /\ stage \notin {"write", "rename"} => temporary = None
  /\ stage \notin {"sync", "started", "failed"} => config = bundle
  /\ stage \in {"write", "rename"} => temporary = Rewrite /\ temporary # None
  /\ stage \in {"sync", "started"} => config = Rewrite /\ config # None
  /\ stage = "failed" => fault.at = "sync" \/ config = bundle
  /\ stage \in Late => roots = StorePaths(resolution)
  /\ stage \notin Realised => roots = {}
  /\ stage \in Late \ {"prepare"} =>
       closure = UNION {Requisites[path] : path \in StorePaths(resolution)}

NodeInv == RequestInv /\ BundleInv

\* No create has begun in an initial state.
LEMMA InitNode == Init => NodeInv
  BY DEF Init, NodeInv, RequestInv, BundleInv, Late, Realised, Admitted, Requested

\* The author has printed nothing before there is a create.
LEMMA AuthorKeepsNode ==
  ASSUME Authored, NodeInv, AuthorStep,
         UNCHANGED <<catalogVars, node, stage, answerVars, bundleVars, fault, calls>>
  PROVE  NodeInv'
<1>1. author \notin {"emitted", "by hand"}
  BY DEF AuthorStep, ParseRun, Pin, Pack, PushImage, Emit, Examine
<1>2. stage = "idle"
  BY <1>1 DEF Authored, NodeInv, RequestInv
<1>3. stage' = "idle" /\ fault = None /\ fault' = None
  BY <1>2 DEF NodeInv, RequestInv, Failure
<1>4. RequestInv'
  BY <1>3 DEF RequestInv, Late, Realised, Admitted, Requested
<1>5. BundleInv'
  BY <1>2, <1>3 DEF NodeInv, BundleInv, Late, Realised, Admitted, Requested, answerVars, bundleVars
<1>. QED
  BY <1>4, <1>5 DEF NodeInv

\* Nothing of it depends on what the catalog serves now.
LEMMA CalmKeepsNode ==
  ASSUME NodeInv, UNCHANGED <<pod, node, stage, answerVars, bundleVars, fault>>
  PROVE  NodeInv'
<1>1. /\ Selection' = Selection /\ Policy' = Policy
      /\ Carried(pod.annotations)' = Carried(pod.annotations)
  BY DEF Selection, Policy, Carried
<1>2. Legit' = Legit /\ Found' = Found /\ Answered' = Answered /\ Rewrite' = Rewrite
  BY <1>1 DEF Legit, Found, Answered, Rewrite, answerVars, bundleVars
<1>3. Failure' = Failure
  BY <1>1, <1>2 DEF Failure, answerVars
<1>4. RequestInv'
  BY <1>1, <1>2, <1>3 DEF NodeInv, RequestInv, answerVars
<1>5. BundleInv'
  BY <1>2 DEF NodeInv, BundleInv, answerVars, bundleVars
<1>. QED
  BY <1>4, <1>5 DEF NodeInv

\* What is selected and allowed depends on the pod and the node alone.
LEMMA SameSelection ==
  ASSUME UNCHANGED <<pod, node>>
  PROVE  /\ Selection' = Selection /\ Policy' = Policy
         /\ Carried(pod.annotations)' = Carried(pod.annotations)
  BY DEF Selection, Policy, Carried

\* A create that fails has no root and no temporary file, and says why.
LEMMA FailsKeepsNode ==
  ASSUME NodeInv, NEW why, Fails(why), stage \in Requested, UNCHANGED <<pod, node, request, bundle>>,
         stage = "validate" => IF Policy = None THEN why # "invalid_request"
                               ELSE why = RequestFault(request, Policy),
         temporary' = None, roots' = {}, stage = "sync" \/ config' = bundle
  PROVE  NodeInv'
<1>1. stage' = "failed" /\ fault' = [at |-> stage, category |-> why] /\ pod # None /\ Legit
  BY DEF Fails, NodeInv, RequestInv, Requested, Admitted, Realised, Late
<1>2. fault'.at = stage /\ fault'.category = why /\ stage # "idle"
  BY <1>1 DEF Requested, Admitted, Realised, Late
<1>3. Legit'
  BY <1>1, SameSelection DEF Legit
<1>4. Failure'
  BY <1>1, <1>2, <1>3, SameSelection DEF Failure
<1>5. RequestInv'
  BY <1>1, <1>4 DEF RequestInv, Requested, Admitted, Realised, Late
<1>6. BundleInv'
  BY <1>1, <1>2 DEF BundleInv, Requested, Admitted, Realised, Late
<1>. QED
  BY <1>5, <1>6 DEF NodeInv

\* The steps of a create, one by one.
LEMMA SelectKeepsNode ==
  ASSUME NodeInv, Select, UNCHANGED <<pod, node>> PROVE NodeInv'
<1>1. /\ stage = "idle" /\ pod # None /\ fault = None
      /\ temporary' = None /\ roots' = {} /\ config' = bundle'
  BY DEF Select, NodeInv, RequestInv, BundleInv, Failure, Realised, Late
<1>2. CASE Selection = Pass
  <2>1. Pass # Refuse
    BY DEF Pass, Refuse
  <2>2. stage' = "passed" /\ fault' = None
    BY <1>1, <1>2, <2>1 DEF Select, Selection
  <2>. QED
    BY <1>1, <1>2, <2>2, SameSelection
       DEF NodeInv, RequestInv, BundleInv, Requested, Admitted, Realised, Late
<1>3. CASE Selection = Refuse
  <2>1. Pass # Refuse
    BY DEF Pass, Refuse
  <2>2. stage' = "failed" /\ fault' = [at |-> "idle", category |-> "spec_conflict"]
    BY <1>1, <1>3, <2>1 DEF Select, Selection, Fails
  <2>3. Failure'
    BY <1>3, <2>2, SameSelection DEF Failure
  <2>. QED
    BY <1>1, <2>2, <2>3 DEF NodeInv, RequestInv, BundleInv, Requested, Admitted, Realised, Late
<1>4. CASE Selection \notin {Pass, Refuse}
  <2>1. /\ stage' = "validate" /\ fault' = None
        /\ request' = Request("runtime", Selection, Carried(pod.annotations).name)
    BY <1>1, <1>4 DEF Select, Selection
  <2>2. Legit'
    BY <1>4, <2>1, SameSelection DEF Legit
  <2>. QED
    BY <1>1, <2>1, <2>2 DEF NodeInv, RequestInv, BundleInv, Requested, Admitted, Realised, Late
<1>. QED
  BY <1>2, <1>3, <1>4

LEMMA AskKeepsNode ==
  ASSUME NodeInv, NEW purpose \in {"prewarm", "inspect"}, Ask(purpose), UNCHANGED <<pod, node>>
  PROVE  NodeInv'
<1>1. /\ stage = "idle" /\ pod # None /\ fault' = None /\ stage' = "validate"
      /\ temporary' = None /\ roots' = {} /\ config' = bundle'
  BY DEF Ask, NodeInv, RequestInv, BundleInv, Failure, Realised, Late, bundleVars
<1>2. Legit'
  BY DEF Ask, Legit
<1>. QED
  BY <1>1, <1>2 DEF NodeInv, RequestInv, BundleInv, Requested, Admitted, Realised, Late

LEMMA ValidateKeepsNode ==
  ASSUME NodeInv, Validate, UNCHANGED <<pod, node>> PROVE NodeInv'
<1>1. /\ stage = "validate" /\ pod # None /\ Legit /\ fault = None
      /\ temporary' = None /\ roots' = {} /\ config' = bundle' /\ config = bundle
      /\ UNCHANGED <<request, bundle>>
  BY DEF Validate, NodeInv, RequestInv, BundleInv, Failure, Requested, Realised, Late,
         answerVars, bundleVars
<1>2. CASE Policy = None \/ RequestFault(request, Policy) # None
  <2>1. PICK why : /\ Fails(why)
                   /\ IF Policy = None THEN why # "invalid_request"
                      ELSE why = RequestFault(request, Policy)
    BY <1>2 DEF Validate
  <2>. QED
    BY <1>1, <2>1, FailsKeepsNode DEF Requested
<1>3. CASE Policy # None /\ RequestFault(request, Policy) = None
  <2>1. stage' = (IF request.kind = "release" THEN "fetch" ELSE "realise") /\ fault' = None
    BY <1>1, <1>3 DEF Validate
  <2>2. Legit'
    BY <1>1, SameSelection DEF Legit
  <2>3. RequestInv'
    BY <1>1, <1>3, <2>1, <2>2, SameSelection
       DEF RequestInv, Requested, Admitted, Realised, Late
  <2>4. BundleInv'
    BY <1>1, <2>1 DEF BundleInv, Realised, Late
  <2>. QED
    BY <2>3, <2>4 DEF NodeInv
<1>. QED
  BY <1>2, <1>3

\* A body is taken for the one that was named only if it is that one.
LEMMA TakenIsNamed ==
  ASSUME NEW r, NEW policy, NEW body, SelectFault(r, policy, body) = None
  PROVE  body = r.release.digest
<1>1. ManifestFault(body, r.release) = None
  BY CategoryAssumption DEF SelectFault, Categories
<1>. QED
  BY <1>1, CategoryAssumption DEF ManifestFault, Categories

LEMMA FetchKeepsNode ==
  ASSUME NodeInv, Fetch, UNCHANGED <<pod, node>> PROVE NodeInv'
<1>1. /\ stage = "fetch" /\ pod # None /\ Legit /\ fault = None /\ request.kind = "release"
      /\ Policy # None /\ RequestFault(request, Policy) = None
      /\ temporary' = None /\ roots' = {} /\ config' = bundle' /\ config = bundle
      /\ UNCHANGED <<request, bundle>>
  BY DEF Fetch, NodeInv, RequestInv, BundleInv, Failure, Requested, Admitted, Realised, Late,
         answerVars, bundleVars
<1>. DEFINE body == ServedFor(request.release.digest)
            why == SelectFault(request, Policy, body)
<1>2. CASE why # None
  <2>1. Fails(why)
    BY <1>2 DEF Fetch
  <2>. QED
    BY <1>1, <2>1, FailsKeepsNode DEF Requested, Admitted
<1>3. CASE why = None
  <2>1. /\ resolution' = Resolution(request.release, body, Policy.system) /\ fault' = None
        /\ stage' = IF request.purpose = "inspect" THEN "query" ELSE "realise"
    BY <1>1, <1>3 DEF Fetch
  <2>2. body = request.release.digest
    BY <1>3, TakenIsNamed
  <2>. HIDE DEF body
  <2>3. Found'
    BY <1>1, <1>3, <2>1, <2>2, SameSelection DEF Found
  <2>4. Legit'
    BY <1>1, SameSelection DEF Legit
  <2>5. RequestInv'
    BY <1>1, <2>1, <2>3, <2>4, SameSelection DEF RequestInv, Requested, Admitted, Realised, Late
  <2>6. BundleInv'
    BY <1>1, <2>1 DEF BundleInv, Realised, Late
  <2>. QED
    BY <2>5, <2>6 DEF NodeInv
<1>. QED
  BY <1>2, <1>3

LEMMA RealiseKeepsNode ==
  ASSUME NodeInv, Realise, UNCHANGED <<pod, node>> PROVE NodeInv'
<1>1. /\ stage = "realise" /\ pod # None /\ Legit /\ fault = None
      /\ Policy # None /\ RequestFault(request, Policy) = None
      /\ request.kind = "release" => Found
      /\ temporary' = None /\ config' = bundle' /\ config = bundle /\ roots = {}
      /\ UNCHANGED <<request, bundle>>
  BY DEF Realise, NodeInv, RequestInv, BundleInv, Failure, Requested, Admitted, Realised, Late,
         bundleVars
<1>2. CASE Fails("materialization") /\ UNCHANGED <<resolution, roots>>
  BY <1>1, <1>2, FailsKeepsNode DEF Requested, Admitted
<1>3. CASE ~(Fails("materialization") /\ UNCHANGED <<resolution, roots>>)
  <2>1. /\ request.kind = "flake" /\ Staged(request.installable.uri) => pod.image # "placeholder"
        /\ resolution' = IF request.kind = "flake" THEN Evaluated(request.installable) ELSE resolution
        /\ roots' = StorePaths(resolution')
        /\ stage' = (IF request.purpose = "runtime" THEN "prepare" ELSE "warm") /\ fault' = None
    BY <1>1, <1>3 DEF Realise
  <2>2. request.kind \in {"release", "flake"}
    BY <1>1 DEF Legit, Request
  <2>3. Answered'
    BY <1>1, <2>1, <2>2, SameSelection DEF Answered, Found
  <2>4. Legit'
    BY <1>1, SameSelection DEF Legit
  <2>5. RequestInv'
    BY <1>1, <2>1, <2>3, <2>4, SameSelection DEF RequestInv, Requested, Admitted, Realised, Late
  <2>6. BundleInv'
    BY <1>1, <2>1 DEF BundleInv, Realised, Late
  <2>. QED
    BY <2>5, <2>6 DEF NodeInv
<1>. QED
  BY <1>2, <1>3

\* Once something is realised, the request and what was found for it stay.
LEMMA LateRequest ==
  ASSUME NodeInv, stage \in Late, UNCHANGED <<pod, node, request, resolution>>,
         stage' \in Late, fault' = fault
  PROVE  RequestInv'
<1>1. /\ pod # None /\ Legit /\ Answered /\ request.purpose = "runtime" /\ fault = None
      /\ Policy # None /\ RequestFault(request, Policy) = None
  BY DEF NodeInv, RequestInv, Failure, Requested, Admitted, Realised, Late
<1>2. Legit' /\ Answered'
  BY <1>1, SameSelection DEF Legit, Answered, Found
<1>. QED
  BY <1>1, <1>2, SameSelection DEF RequestInv, Requested, Admitted, Realised, Late

LEMMA PrepareKeepsNode ==
  ASSUME NodeInv, Prepare, UNCHANGED <<pod, node>> PROVE NodeInv'
<1>1. /\ stage = "prepare" /\ stage \in Late /\ stage \in Requested /\ config = bundle
      /\ roots = StorePaths(resolution)
      /\ UNCHANGED <<request, resolution, bundle, config>>
      /\ closure' = UNION {Requisites[path] : path \in StorePaths(resolution)}
      /\ temporary' = Rewritten(bundle, resolution, node.projection, closure')
  BY DEF Prepare, NodeInv, BundleInv, Late, Requested, Admitted, Realised
<1>2. CASE temporary' = None
  <2>1. Fails("spec_conflict") /\ roots' = {}
    BY <1>2 DEF Prepare, Abandon
  <2>. QED
    BY <1>1, <1>2, <2>1, FailsKeepsNode
<1>3. CASE temporary' # None
  <2>1. stage' = "write" /\ UNCHANGED <<roots, fault>> /\ stage' \in Late
    BY <1>3 DEF Prepare, Late
  <2>2. BundleInv'
    BY <1>1, <1>3, <2>1 DEF BundleInv, Rewrite, Late, Realised
  <2>. QED
    BY <1>1, <2>1, <2>2, LateRequest DEF NodeInv
<1>. QED
  BY <1>2, <1>3

LEMMA WriteKeepsNode ==
  ASSUME NodeInv, Write, UNCHANGED <<pod, node>> PROVE NodeInv'
<1>1. /\ stage = "write" /\ stage \in Late /\ stage \in Requested /\ config = bundle
      /\ UNCHANGED <<request, resolution, closure, bundle, config>>
  BY DEF Write, NodeInv, BundleInv, Late, Requested, Admitted, Realised
<1>2. CASE Abandon /\ temporary' = None
  BY <1>1, <1>2, FailsKeepsNode DEF Abandon
<1>3. CASE stage' = "rename" /\ UNCHANGED <<temporary, roots, fault>>
  <2>1. stage' \in Late
    BY <1>3 DEF Late
  <2>2. BundleInv'
    BY <1>1, <1>3 DEF NodeInv, BundleInv, Rewrite, Late, Realised
  <2>. QED
    BY <1>1, <1>3, <2>1, <2>2, LateRequest DEF NodeInv
<1>. QED
  BY <1>2, <1>3 DEF Write

LEMMA RenameKeepsNode ==
  ASSUME NodeInv, Rename, UNCHANGED <<pod, node>> PROVE NodeInv'
<1>1. /\ stage = "rename" /\ stage \in Late /\ stage \in Requested /\ config = bundle
      /\ UNCHANGED <<request, resolution, closure, bundle>> /\ temporary' = None
  BY DEF Rename, NodeInv, BundleInv, Late, Requested, Admitted, Realised
<1>2. CASE Abandon /\ UNCHANGED config
  BY <1>1, <1>2, FailsKeepsNode DEF Abandon
<1>3. CASE config' = temporary /\ stage' = "sync" /\ UNCHANGED <<roots, fault>>
  <2>1. stage' \in Late
    BY <1>3 DEF Late
  <2>2. BundleInv'
    BY <1>1, <1>3 DEF NodeInv, BundleInv, Rewrite, Late, Realised
  <2>. QED
    BY <1>1, <1>3, <2>1, <2>2, LateRequest DEF NodeInv
<1>. QED
  BY <1>2, <1>3 DEF Rename

LEMMA SyncKeepsNode ==
  ASSUME NodeInv, Sync, UNCHANGED <<pod, node>> PROVE NodeInv'
<1>1. /\ stage = "sync" /\ stage \in Late /\ stage \in Requested /\ temporary' = None
      /\ UNCHANGED <<request, resolution, closure, bundle, config, temporary>>
  BY DEF Sync, NodeInv, BundleInv, Late, Requested, Admitted, Realised, bundleVars
<1>2. CASE Abandon
  BY <1>1, <1>2, FailsKeepsNode DEF Abandon
<1>3. CASE stage' = "started" /\ UNCHANGED <<roots, fault>>
  <2>1. stage' \in Late
    BY <1>3 DEF Late
  <2>2. BundleInv'
    BY <1>1, <1>3 DEF NodeInv, BundleInv, Rewrite, Late, Realised
  <2>. QED
    BY <1>1, <1>3, <2>1, <2>2, LateRequest DEF NodeInv
<1>. QED
  BY <1>2, <1>3 DEF Sync

LEMMA QueryKeepsNode ==
  ASSUME NodeInv, Query, UNCHANGED <<pod, node>> PROVE NodeInv'
<1>1. /\ stage = "query" /\ pod # None /\ Legit /\ Found /\ fault = None
      /\ Policy # None /\ RequestFault(request, Policy) = None
      /\ request.kind = "release" /\ request.purpose = "inspect"
      /\ temporary' = None /\ config' = bundle' /\ config = bundle /\ roots' = {}
      /\ UNCHANGED <<request, resolution, bundle>>
  BY DEF Query, NodeInv, RequestInv, BundleInv, Failure, Requested, Admitted, Realised, Late,
         bundleVars
<1>2. CASE Fails("cache_query")
  BY <1>1, <1>2, FailsKeepsNode DEF Requested, Admitted
<1>3. CASE ~Fails("cache_query")
  <2>1. stage' = "reported" /\ fault' = None
    BY <1>1, <1>3 DEF Query
  <2>2. Legit' /\ Found'
    BY <1>1, SameSelection DEF Legit, Found
  <2>3. RequestInv'
    BY <1>1, <2>1, <2>2, SameSelection DEF RequestInv, Requested, Admitted, Realised, Late
  <2>4. BundleInv'
    BY <1>1, <2>1 DEF BundleInv, Realised, Late
  <2>. QED
    BY <2>3, <2>4 DEF NodeInv
<1>. QED
  BY <1>2, <1>3

LEMMA AgainKeepsNode ==
  ASSUME NodeInv, Again, UNCHANGED <<pod, node>> PROVE NodeInv'
  BY DEF Again, NodeInv, RequestInv, BundleInv, Requested, Admitted, Realised, Late

\* Every step keeps what the place of a create says.
LEMMA NextNode == ASSUME Authored, NodeInv, [Next]_vars PROVE NodeInv'
<1>1. ASSUME UNCHANGED <<authorVars, node, stage, answerVars, bundleVars, fault, calls>>
      PROVE  NodeInv'
  BY <1>1, CalmKeepsNode DEF authorVars
<1>2. CASE NodeStep /\ UNCHANGED <<authorVars, catalogVars, node>>
  <2>1. UNCHANGED <<pod, node>>
    BY <1>2 DEF authorVars
  <2>2. \A purpose \in {"prewarm", "inspect"} : Ask(purpose) => NodeInv'
    BY <2>1, AskKeepsNode
  <2>. QED
    BY <1>2, <2>1, <2>2, SelectKeepsNode, ValidateKeepsNode, FetchKeepsNode, RealiseKeepsNode,
       PrepareKeepsNode, WriteKeepsNode, RenameKeepsNode, SyncKeepsNode, QueryKeepsNode,
       AgainKeepsNode DEF NodeStep
<1>3. CASE AuthorStep /\ UNCHANGED <<catalogVars, node, stage, answerVars, bundleVars, fault, calls>>
  BY <1>3, AuthorKeepsNode
<1>. QED
  BY <1>1, <1>2, <1>3 DEF Next, vars

-----------------------------------------------------------------------------
(***************************************************************************)
(* What the node selects for a pod that was printed.                       *)
(***************************************************************************)
LEMMA PlainPlan ==
  ASSUME NEW a, NEW default, a.sandbox = FALSE,
         a.skip = None, a.only = None, a.skipRelease = None, a.onlyRelease = None
  PROVE  LET output == IF a.output = None THEN default ELSE a.output
         IN Plan(a, default) =
              IF a.release # None
              THEN IF ValidRelease(a.release) /\ a.source = None THEN Selected(a.release) ELSE Refuse
              ELSE IF a.source = None THEN Pass
              ELSE IF ~ValidSource(a.source) \/ ~ValidOutput(output) THEN Refuse
              ELSE Evaluable(IF StartsWith(a.source, "/") THEN InRootfs(a.source) ELSE a.source, output)
<1>1. Skip(a) = None /\ Only(a) = None
  BY DEF Skip, Only
<1>2. ~Skipped(a) /\ SelectorsValid(a) /\ Listed(a)
  BY <1>1, NoneAssumption DEF Skipped, SelectorsValid, Listed
<1>. QED
  BY <1>2 DEF Plan

\* The source that names the flake in the image is a path, and is staged.
LEMMA EmbeddedIs ==
  /\ StartsWith(EmbeddedSource, "/") /\ ValidSource(EmbeddedSource)
  /\ Staged(InRootfs(EmbeddedSource)) /\ InRootfs(EmbeddedSource) # <<>>
  /\ ~Contains(InRootfs(EmbeddedSource), " ") /\ ~Contains(InRootfs(EmbeddedSource), "#")
<1>. DEFINE s == EmbeddedSource
<1>1. /\ s \in Seq({"/", "etc", "imageless"}) /\ Len(s) = 4
      /\ s[1] = "/" /\ s[2] = "etc" /\ s[3] = "/" /\ s[4] = "imageless"
  BY DEF EmbeddedSource
<1>2. s # <<>> /\ Head(s) = "/" /\ s # <<"/">> /\ Last(s) # "/"
  BY <1>1 DEF Last
<1>3. \A i \in 1..Len(s) : i = 1 \/ i = 2 \/ i = 3 \/ i = 4
  BY <1>1
<1>. HIDE DEF s
<1>4. ~Contains(s, " ") /\ ~Contains(s, "#")
  BY <1>1, <1>3 DEF Contains
<1>5. CanonicalPath(s)
  BY <1>1, <1>2, <1>3 DEF CanonicalPath
<1>6. /\ Staged(InRootfs(s)) /\ InRootfs(s) # <<>>
      /\ ~Contains(InRootfs(s), " ") /\ ~Contains(InRootfs(s), "#")
  <2>. DEFINE L == {"path", ":", "rootfs", "/", "etc", "imageless"}
              t == <<"path", ":", "rootfs">>
  <2>1. t \in Seq(L) /\ Len(t) = 3 /\ t[1] = "path" /\ t[2] = ":"
    OBVIOUS
  <2>2. s \in Seq(L)
    BY <1>1, SeqMonotonic
  <2>. HIDE DEF L, t
  <2>3. /\ t \o s \in Seq(L) /\ Len(t \o s) = 7
        /\ (t \o s)[1] = "path" /\ (t \o s)[2] = ":"
    <3>1. /\ t \o s \in Seq(L) /\ Len(t \o s) = Len(t) + Len(s)
          /\ \A i \in 1..(Len(t) + Len(s)) : (t \o s)[i] = IF i <= Len(t) THEN t[i] ELSE s[i - Len(t)]
      BY <2>1, <2>2, ConcatProperties
    <3>. QED
      BY <1>1, <2>1, <3>1
  <2>4. InRootfs(s) = t \o s
    BY DEF InRootfs, t
  <2>. QED
    <3>1. InRootfs(s) \in Seq(L) /\ " " \notin L /\ "#" \notin L
      BY <2>3, <2>4 DEF L
    <3>2. \A i \in 1..Len(InRootfs(s)) : InRootfs(s)[i] \in L
      BY <3>1, ElementOfSeq
    <3>3. ~Contains(InRootfs(s), " ") /\ ~Contains(InRootfs(s), "#")
      BY <3>1, <3>2 DEF Contains
    <3>4. Staged(InRootfs(s))
      BY <2>3, <2>4 DEF Staged, IsPrefix
    <3>5. InRootfs(s) # <<>>
      BY <2>3, <2>4
    <3>. QED
      BY <3>3, <3>4, <3>5
<1>. QED
  BY <1>2, <1>4, <1>5, <1>6 DEF s, ValidSource, StartsWith

OutputOf(c) == IF c.output = None THEN "rootfs" ELSE c.output
SourceOf(c) == IF c.external THEN c.reference ELSE EmbeddedSource

\* What a printed pod says, and that the node takes the form of it.
LEMMA PodIs ==
  ASSUME Authored, author = "emitted"
  PROVE  /\ pod.annotations = PodAnnotations /\ pod.image = PodImage
         /\ command.release => pinned \notin {None, Malformed}
         /\ ~command.release =>
              SourceOf(command) # None /\ ValidSource(SourceOf(command)) /\ ValidOutput(OutputOf(command))
<1>1. pod = Pod /\ Printed
  BY DEF Authored
<1>2. pod.annotations = PodAnnotations /\ pod.image = PodImage
  BY <1>1 DEF Pod
<1>. DEFINE a == PodAnnotations
<1>3. /\ a.sandbox = FALSE
      /\ a.skip = None /\ a.only = None /\ a.skipRelease = None /\ a.onlyRelease = None
      /\ command.release => a.release = pinned /\ a.source = None
      /\ ~command.release => a.release = None /\ a.source = SourceOf(command) /\ a.output = command.output
  BY DEF PodAnnotations, NoAnnotations, SourceOf
<1>. HIDE DEF a
<1>4. Plan(a, "rootfs") \notin {Pass, Refuse}
  BY <1>1 DEF Printed, a
<1>5. CASE command.release
  BY <1>2, <1>3, <1>4, <1>5, PlainPlan DEF ValidRelease
<1>6. CASE ~command.release
  <2>1. a.source # None
    BY <1>3, <1>4, <1>6, PlainPlan
  <2>2. (IF a.output = None THEN "rootfs" ELSE a.output) = OutputOf(command)
    BY <1>3, <1>6 DEF OutputOf
  <2>3. ValidSource(a.source) /\ ValidOutput(OutputOf(command))
    BY <1>3, <1>4, <1>6, <2>1, <2>2, PlainPlan
  <2>. QED
    BY <1>2, <1>3, <1>6, <2>1, <2>3
<1>. QED
  BY <1>5, <1>6

InImage == Evaluable(InRootfs(EmbeddedSource), "rootfs")

\* What is in the image of a printed pod: only a borrowed one is no image of the plugin's.
LEMMA ImageIs ==
  ASSUME Authored, author = "emitted"
  PROVE  /\ pod.image \in {"seed", "placeholder"} \cup Images
         /\ pod.image \in Images => pod.image = command.image
         /\ pod.image = "seed" => Packs(command)
<1>1. pod.image = PodImage
  BY PodIs
<1>2. command.image \in {None, "placeholder"} \cup Images
  BY DeployAssumption DEF Authored
<1>. QED
  BY <1>1, <1>2 DEF PodImage, Images

\* What the node selects for it: what the command said, or what is in the image
\* when the handler drops the annotation.
LEMMA SelectionIs ==
  ASSUME Authored, author = "emitted"
  PROVE  IF (IF command.release THEN "release" ELSE "source") \in node.carries
         THEN Selection =
                IF command.release THEN Selected(pinned)
                ELSE Evaluable(IF StartsWith(SourceOf(command), "/") THEN InRootfs(SourceOf(command))
                               ELSE SourceOf(command), OutputOf(command))
         ELSE Selection = IF pod.image = "plain" THEN Pass
                          ELSE IF pod.image = "symlink" THEN Refuse ELSE InImage
<1>. DEFINE a == Carried(pod.annotations)
            handled == IF command.release THEN "release" \in node.carries
                       ELSE "source" \in node.carries
<1>1. /\ a.sandbox = FALSE
      /\ a.skip = None /\ a.only = None /\ a.skipRelease = None /\ a.onlyRelease = None
      /\ a.release = IF command.release /\ handled THEN pinned ELSE None
      /\ a.source = IF ~command.release /\ handled THEN SourceOf(command) ELSE None
      /\ a.output = IF ~command.release /\ handled THEN command.output ELSE None
  BY PodIs DEF Carried, PodAnnotations, NoAnnotations, SourceOf
<1>2. Embedded(pod.image) = IF pod.image \in {"plain", "symlink"} THEN pod.image ELSE "flake"
  BY ImageIs DEF Embedded, Images
<1>. DEFINE b == [a EXCEPT !.source = EmbeddedSource]
<1>3. /\ b.sandbox = FALSE
      /\ b.skip = None /\ b.only = None /\ b.skipRelease = None /\ b.onlyRelease = None
      /\ b.release = a.release /\ b.source = EmbeddedSource /\ b.output = a.output
  <2>1. "source" \in DOMAIN a
    BY PodIs DEF Carried, PodAnnotations, NoAnnotations
  <2>. HIDE DEF a
  <2>. QED
    BY <1>1, <2>1
<1>4. Selection = IF a.release # None \/ a.source # None \/ pod.image = "plain" THEN Plan(a, "rootfs")
                  ELSE IF pod.image = "symlink" THEN Refuse ELSE Plan(b, "rootfs")
  BY <1>2 DEF Selection, ExpansionRequest
<1>. HIDE DEF a, b
<1>5. CASE handled /\ command.release
  <2>1. pinned \notin {None, Malformed}
    BY <1>5, PodIs
  <2>2. Plan(a, "rootfs") = Selected(pinned)
    BY <1>1, <1>5, <2>1, PlainPlan DEF ValidRelease
  <2>. QED
    BY <1>1, <1>4, <1>5, <2>1, <2>2
<1>6. CASE handled /\ ~command.release
  <2>1. /\ SourceOf(command) # None /\ ValidSource(SourceOf(command))
        /\ ValidOutput(OutputOf(command))
    BY <1>6, PodIs
  <2>2. (IF a.output = None THEN "rootfs" ELSE a.output) = OutputOf(command)
    BY <1>1, <1>6 DEF OutputOf
  <2>3. Plan(a, "rootfs") =
          Evaluable(IF StartsWith(SourceOf(command), "/") THEN InRootfs(SourceOf(command))
                    ELSE SourceOf(command), OutputOf(command))
    BY <1>1, <1>6, <2>1, <2>2, PlainPlan
  <2>. QED
    BY <1>1, <1>4, <1>6, <2>1, <2>3
<1>7. CASE ~handled
  <2>1. ValidOutput("rootfs")
    BY DEF ValidOutput
  <2>2. Plan(a, "rootfs") = Pass
    BY <1>1, <1>7, PlainPlan
  <2>3. Plan(b, "rootfs") = InImage
    BY <1>1, <1>3, <1>7, <2>1, PlainPlan, EmbeddedIs, NoneAssumption DEF InImage
  <2>. QED
    BY <1>1, <1>4, <1>7, <2>2, <2>3
<1>. QED
  BY <1>5, <1>6, <1>7

-----------------------------------------------------------------------------
(***************************************************************************)
(* Texts: where a lump is, and what is before it.                          *)
(***************************************************************************)
\* What is wrong of some number is wrong of a least one.
LEMMA Least ==
  ASSUME NEW T \in SUBSET Nat, T # {}
  PROVE  \E n \in T : \A m \in T : n <= m
<1>. DEFINE R == {ss \in Nat \X Nat : ss[1] < ss[2]}
<1>1. IsWellFoundedOn(R, Nat)
  BY NatLessThanWellFounded DEF OpToRel
<1>2. \A m, n \in Nat : <<m, n>> \in R <=> m < n
  OBVIOUS
<1>. HIDE DEF R
<1>3. PICK n \in T : \A m \in T : ~(<<m, n>> \in R)
  BY <1>1, WFMin
<1>4. ASSUME NEW m \in T PROVE n <= m
  BY <1>2, <1>3, ~(m < n)
<1>. QED
  BY <1>4

\* The maximum of a set of positions is in it and above the others.
LEMMA MaxIs ==
  ASSUME NEW n \in Nat, NEW S \in SUBSET (1..n), S # {}
  PROVE  Max(S) \in S /\ \A x \in S : x <= Max(S)
<1>. DEFINE T == {n - x : x \in S}
<1>1. T \in SUBSET Nat /\ T # {}
  <2>1. \A x \in 1..n : n - x \in Nat
    OBVIOUS
  <2>2. PICK x : x \in S
    OBVIOUS
  <2>3. n - x \in T
    BY <2>2
  <2>. QED
    BY <2>1, <2>3
<1>2. PICK y \in T : \A z \in T : y <= z
  BY <1>1, Least
<1>3. PICK m \in S : y = n - m
  BY <1>2
<1>4. \A x \in S : m >= x
  BY <1>2, <1>3
<1>. QED
  BY <1>4 DEF Max

\* The first position of a lump, or 0.
LEMMA IndexIs ==
  ASSUME NEW S, NEW text \in Seq(S), NEW lump
  PROVE  /\ Contains(text, lump) =>
              /\ Index(lump, text) \in 1..Len(text) /\ text[Index(lump, text)] = lump
              /\ \A i \in 1..Len(text) : text[i] = lump => Index(lump, text) <= i
         /\ ~Contains(text, lump) => Index(lump, text) = 0
<1>. DEFINE I == {i \in 1..Len(text) : text[i] = lump}
<1>1. Index(lump, text) = IF I # {} THEN Min(I) ELSE 0
  BY DEF Index, SelectInSeq
<1>2. Contains(text, lump) <=> I # {}
  BY DEF Contains
<1>3. ASSUME I # {} PROVE Min(I) \in I /\ \A i \in I : Min(I) <= i
  <2>1. I \in SUBSET Nat
    OBVIOUS
  <2>. HIDE DEF I
  <2>2. \E n \in I : \A m \in I : n <= m
    BY <1>3, <2>1, Least
  <2>. QED
    BY <2>2 DEF Min
<1>. HIDE DEF I
<1>4. \A i : i \in I <=> i \in 1..Len(text) /\ text[i] = lump
  BY DEF I
<1>. QED
  BY <1>1, <1>2, <1>3, <1>4

\* The first lumps of a text are a prefix of it.
LEMMA FirstOf ==
  ASSUME NEW S, NEW text \in Seq(S), NEW k \in 0..Len(text)
  PROVE  /\ SubSeq(text, 1, k) \in Seq(S) /\ Len(SubSeq(text, 1, k)) = k
         /\ \A i \in 1..k : SubSeq(text, 1, k)[i] = text[i]
         /\ IsPrefix(SubSeq(text, 1, k), text)
<1>1. /\ SubSeq(text, 1, k) \in Seq(S) /\ Len(SubSeq(text, 1, k)) = k
      /\ \A i \in 1..k : SubSeq(text, 1, k)[i] = text[i]
  BY SubSeqProperties
<1>2. SubSeq(SubSeq(text, 1, k), 1, k) = SubSeq(text, 1, k)
  BY <1>1, SubSeqFull
<1>. QED
  BY <1>1, <1>2 DEF IsPrefix

\* What is before a lump is a prefix of the text.
LEMMA BeforeIs ==
  ASSUME NEW S, NEW text \in Seq(S), NEW lump
  PROVE  \E k \in 0..Len(text) : Before(lump, text) = SubSeq(text, 1, k)
<1>1. CASE Contains(text, lump)
  <2>1. Index(lump, text) - 1 \in 0..Len(text)
    BY <1>1, IndexIs
  <2>. QED
    BY <1>1, <2>1 DEF Before
<1>2. CASE ~Contains(text, lump)
  <2>1. text = SubSeq(text, 1, Len(text)) /\ Len(text) \in 0..Len(text)
    BY SubSeqFull
  <2>. QED
    BY <1>2, <2>1 DEF Before
<1>. QED
  BY <1>1, <1>2

\* What doctor and the docs tell an operator to list lets the reference through.
LEMMA PolicyPrefixIs ==
  ASSUME NEW S, NEW text \in Seq(S) PROVE IsPrefix(PolicyPrefix(text), text)
<1>. DEFINE locator == Before("?", text)
            I == {i \in 1..Len(locator) : locator[i] = "/"}
            slash == SelectLastInSeq(locator, LAMBDA l : l = "/")
<1>1. PICK k \in 0..Len(text) : locator = SubSeq(text, 1, k)
  BY BeforeIs
<1>2. locator \in Seq(S) /\ Len(locator) = k /\ IsPrefix(locator, text)
  BY <1>1, FirstOf
<1>3. slash \in 0..k
  <2>1. slash = IF I # {} THEN Max(I) ELSE 0
    BY DEF SelectLastInSeq
  <2>2. I # {} => Max(I) \in 1..k
    <3>1. I \in SUBSET (1..k) /\ k \in Nat
      BY <1>2
    <3>. HIDE DEF I
    <3>. QED
      BY <3>1, MaxIs
  <2>. HIDE DEF I, slash
  <2>. QED
    BY <2>1, <2>2
<1>4. PolicyPrefix(text) \in {SubSeq(locator, 1, slash), locator}
  BY DEF PolicyPrefix
<1>. HIDE DEF locator, slash
<1>5. IsPrefix(SubSeq(locator, 1, slash), text)
  <2>1. /\ SubSeq(locator, 1, slash) \in Seq(S) /\ Len(SubSeq(locator, 1, slash)) = slash
        /\ \A i \in 1..slash : SubSeq(locator, 1, slash)[i] = locator[i]
    BY <1>2, <1>3, FirstOf
  <2>2. /\ SubSeq(text, 1, slash) \in Seq(S) /\ Len(SubSeq(text, 1, slash)) = slash
        /\ \A i \in 1..slash : SubSeq(text, 1, slash)[i] = text[i]
        /\ IsPrefix(SubSeq(text, 1, slash), text)
    BY <1>3, FirstOf
  <2>3. \A i \in 1..k : locator[i] = text[i]
    BY <1>1, FirstOf
  <2>4. SubSeq(locator, 1, slash) = SubSeq(text, 1, slash)
    BY <1>3, <2>1, <2>2, <2>3, SeqEqual
  <2>. QED
    BY <2>2, <2>4
<1>. QED
  BY <1>2, <1>4, <1>5

\* A reference with a scheme is not one that the runtime made of a path.
LEMMA ReferenceIsNotStaged ==
  ASSUME NEW S, NEW text \in Seq(S), ValidSource(text), ~StartsWith(text, "/")
  PROVE  ~Staged(text)
<1>1. SUFFICES ASSUME Staged(text) PROVE FALSE
  OBVIOUS
<1>2. ~NodeLocal(Scheme(text))
  BY DEF ValidSource
<1>3. Len(text) >= 2 /\ text[1] = "path" /\ text[2] = ":"
  <2>1. Len(text) >= 2 /\ SubSeq(<<"path", ":">>, 1, 2) = SubSeq(text, 1, 2)
    BY <1>1 DEF Staged, IsPrefix
  <2>2. SubSeq(<<"path", ":">>, 1, 2)[1] = "path" /\ SubSeq(<<"path", ":">>, 1, 2)[2] = ":"
    OBVIOUS
  <2>3. SubSeq(text, 1, 2)[1] = text[1] /\ SubSeq(text, 1, 2)[2] = text[2]
    BY <2>1, FirstOf
  <2>. QED
    BY <2>1, <2>2, <2>3
<1>4. Contains(text, ":")
  BY <1>3 DEF Contains
<1>5. Index(":", text) = 2
  <2>1. Index(":", text) \in 1..Len(text) /\ text[Index(":", text)] = ":" /\ Index(":", text) <= 2
    BY <1>3, <1>4, IndexIs
  <2>. QED
    BY <1>3, <2>1
<1>6. Before(":", text) = SubSeq(text, 1, 1)
  BY <1>4, <1>5 DEF Before
<1>. DEFINE b == SubSeq(text, 1, 1)
<1>7. b \in Seq(S) /\ Len(b) = 1 /\ b[1] = "path"
  BY <1>3, FirstOf
<1>. HIDE DEF b
<1>8. ReplaceAll(b, "PATH", "path") = <<"path">>
  <2>1. ReplaceAll(b, "PATH", "path") = [i \in 1..1 |-> "path"]
    BY <1>7 DEF ReplaceAll
  <2>. QED
    BY <2>1
<1>9. Scheme(text) = <<"path">>
  BY <1>6, <1>8 DEF Scheme, b
<1>. QED
  BY <1>2, <1>9 DEF NodeLocal

-----------------------------------------------------------------------------
(***************************************************************************)
(* What the node says of a pod that was printed.                           *)
(***************************************************************************)
LEMMA ReleaseRequest ==
  ASSUME NEW purpose, NEW release, NEW name, purpose = "runtime" \/ name = None
  PROVE  LET r == Request(purpose, Selected(release), name)
         IN /\ r.kind = "release" /\ r.release = release /\ r.purpose = purpose
            /\ \A policy : RequestFault(r, policy) =
                 IF release.issuer \in DOMAIN policy.issuers THEN None ELSE "policy_denied"
<1>. DEFINE r == Request(purpose, Selected(release), name)
<1>1. r.kind = "release" /\ r.release = release /\ r.purpose = purpose /\ r.name = name
  BY DEF Request, Selected
<1>. HIDE DEF r
<1>2. \A policy : RequestFault(r, policy) =
        IF release.issuer \in DOMAIN policy.issuers THEN None ELSE "policy_denied"
  BY <1>1 DEF RequestFault
<1>. QED
  BY <1>1, <1>2 DEF r

\* What the daemon finds wrong with a request for a flake.
LEMMA FlakeRequest ==
  ASSUME NEW uri, NEW output, NEW name
  PROVE  LET r == Request("runtime", Evaluable(uri, output), name)
         IN /\ r.kind = "flake" /\ r.purpose = "runtime"
            /\ r.installable.uri = uri /\ r.installable.output = output
            /\ \A policy : RequestFault(r, policy) =
                 IF ~ValidInstallable([uri |-> uri, output |-> output]) THEN "invalid_request"
                 ELSE IF policy.cacheOnly THEN "evaluation_disabled"
                 ELSE IF ~Staged(uri) /\ ~RemoteScheme(uri) THEN "invalid_request"
                 ELSE IF ~Authorized(uri, policy.prefixes) THEN "policy_denied" ELSE None
<1>. DEFINE r == Request("runtime", Evaluable(uri, output), name)
<1>1. r.kind = "flake" /\ r.purpose = "runtime" /\ r.installable = [uri |-> uri, output |-> output]
  BY DEF Request, Evaluable
<1>. HIDE DEF r
<1>2. \A policy : RequestFault(r, policy) =
        IF ~ValidInstallable(r.installable) THEN "invalid_request"
        ELSE IF policy.cacheOnly THEN "evaluation_disabled"
        ELSE IF ~Staged(r.installable.uri) /\ ~RemoteScheme(r.installable.uri) THEN "invalid_request"
        ELSE IF ~Authorized(r.installable.uri, policy.prefixes) THEN "policy_denied" ELSE None
  BY <1>1 DEF RequestFault
<1>. QED
  BY <1>1, <1>2 DEF r

\* The flake in the image, whatever its output.
LEMMA ImageRequest ==
  ASSUME NEW output, ValidOutput(output), NEW name, NEW policy
  PROVE  RequestFault(Request("runtime", Evaluable(InRootfs(EmbeddedSource), output), name), policy)
           # "invalid_request"
<1>. DEFINE uri == InRootfs(EmbeddedSource)
            i == [uri |-> uri, output |-> output]
<1>1. Staged(uri) /\ uri # <<>> /\ ~Contains(uri, " ") /\ ~Contains(uri, "#")
  BY EmbeddedIs
<1>. HIDE DEF uri
<1>2. i.uri = uri /\ i.output = output
  OBVIOUS
<1>. HIDE DEF i
<1>3. ValidInstallable(i)
  BY <1>1, <1>2 DEF ValidInstallable
<1>. DEFINE f == RequestFault(Request("runtime", Evaluable(uri, output), name), policy)
<1>4. f = IF policy.cacheOnly THEN "evaluation_disabled"
          ELSE IF ~Authorized(uri, policy.prefixes) THEN "policy_denied" ELSE None
  <2>1. f = IF ~ValidInstallable([uri |-> uri, output |-> output]) THEN "invalid_request"
            ELSE IF policy.cacheOnly THEN "evaluation_disabled"
            ELSE IF ~Staged(uri) /\ ~RemoteScheme(uri) THEN "invalid_request"
            ELSE IF ~Authorized(uri, policy.prefixes) THEN "policy_denied" ELSE None
    BY FlakeRequest
  <2>2. ValidInstallable([uri |-> uri, output |-> output])
    BY <1>3 DEF i
  <2>. HIDE DEF f
  <2>. QED
    BY <1>1, <2>1, <2>2
<1>. HIDE DEF f
<1>5. f # "invalid_request"
  BY <1>4, CategoryAssumption DEF Categories
<1>. QED
  BY <1>5 DEF f, uri

\* What the command line says of its reference.
LEMMA ReferenceIs ==
  ASSUME Authored, author = "emitted"
  PROVE  /\ ~(command.external /\ command.release) /\ command \in Commands
         /\ command.external => ValidReference(command.reference)
         /\ command.release => command.output = None
<1>1. ~ParseRefused(command) /\ command \in Commands
  BY DEF Authored
<1>. QED
  BY <1>1 DEF ParseRefused, ValidExternal, Packs

\* What the daemon is asked for a pod that was printed: the release that was pinned,
\* the flake in the image, or the reference that was typed.
PinnedRequest ==
  /\ command.release
  /\ \E purpose, name : /\ IF purpose = "runtime" THEN Delivered ELSE name = None
                        /\ request = Request(purpose, Selected(pinned), name)

ImageOutput == IF "source" \in node.carries /\ command.output # None THEN command.output ELSE "rootfs"

EmbeddedRequest ==
  /\ pod.image # "placeholder" => Packs(command) \/ (~Delivered /\ command.image = "flake")
  /\ ~command.release => ValidOutput(ImageOutput)
  /\ \E name, output :
       /\ output = IF command.release THEN "rootfs" ELSE ImageOutput
       /\ request = Request("runtime", Evaluable(InRootfs(EmbeddedSource), output), name)

TypedRequest ==
  /\ command.external /\ ~command.release /\ "source" \in node.carries
  /\ ValidOutput(OutputOf(command)) /\ ValidReference(command.reference)
  /\ \E name : request = Request("runtime", Evaluable(command.reference, OutputOf(command)), name)

\* No request for a printed pod asks for anything else.
LEMMA RequestIs ==
  ASSUME Authored, author = "emitted", Legit
  PROVE  PinnedRequest \/ EmbeddedRequest \/ TypedRequest
<1>. DEFINE name == Carried(pod.annotations).name
            handled == (IF command.release THEN "release" ELSE "source") \in node.carries
<1>1. CASE /\ pod.annotations.release \notin {None, Malformed}
           /\ \E purpose \in {"prewarm", "inspect"} :
                request = Request(purpose, Selected(pod.annotations.release), None)
  <2>1. pod.annotations.release = IF command.release THEN pinned ELSE None
    BY PodIs DEF PodAnnotations, NoAnnotations
  <2>. QED
    BY <1>1, <2>1 DEF PinnedRequest
<1>2. CASE /\ Selection \notin {Pass, Refuse} /\ request = Request("runtime", Selection, name)
  <2>. HIDE DEF name
  <2>1. CASE handled /\ command.release
    <3>1. Selection = Selected(pinned)
      BY <2>1, SelectionIs
    <3>. QED
      BY <1>2, <2>1, <3>1 DEF PinnedRequest, Delivered
  <2>2. CASE handled /\ ~command.release
    <3>1. Selection = Evaluable(IF StartsWith(SourceOf(command), "/") THEN InRootfs(SourceOf(command))
                                ELSE SourceOf(command), OutputOf(command))
      BY <2>2, SelectionIs
    <3>2. ValidOutput(OutputOf(command))
      BY <2>2, PodIs
    <3>3. OutputOf(command) = ImageOutput
      BY <2>2 DEF OutputOf, ImageOutput
    <3>4. CASE command.external
      <4>1. SourceOf(command) = command.reference /\ ValidReference(command.reference)
        BY <3>4, ReferenceIs DEF SourceOf
      <4>2. ~StartsWith(command.reference, "/")
        BY <4>1 DEF ValidReference, LooksLikePath
      <4>. QED
        BY <1>2, <2>2, <3>1, <3>2, <3>4, <4>1, <4>2 DEF TypedRequest
    <3>5. CASE ~command.external
      <4>1. SourceOf(command) = EmbeddedSource
        BY <3>5 DEF SourceOf
      <4>2. Selection = Evaluable(InRootfs(EmbeddedSource), ImageOutput)
        BY <3>1, <3>3, <4>1, EmbeddedIs
      <4>. QED
        BY <1>2, <2>2, <3>2, <3>3, <3>5, <4>2 DEF EmbeddedRequest, Packs
    <3>. QED
      BY <3>4, <3>5
  <2>3. CASE ~handled
    <3>1. Selection = IF pod.image = "plain" THEN Pass
                      ELSE IF pod.image = "symlink" THEN Refuse ELSE InImage
      BY <2>3, SelectionIs
    <3>2. pod.image \notin {"plain", "symlink"} /\ Selection = InImage
      BY <1>2, <3>1
    <3>3. pod.image = "flake" => command.image = "flake"
      BY ImageIs DEF Images
    <3>4. pod.image # "placeholder" => Packs(command) \/ (~Delivered /\ command.image = "flake")
      BY <2>3, <3>2, <3>3, ImageIs DEF Images, Delivered
    <3>5. ~command.release => ImageOutput = "rootfs"
      BY <2>3 DEF ImageOutput
    <3>6. ValidOutput("rootfs")
      BY DEF ValidOutput
    <3>. QED
      BY <1>2, <3>2, <3>4, <3>5, <3>6 DEF EmbeddedRequest, InImage
  <2>. QED
    BY <2>1, <2>2, <2>3
<1>. QED
  BY <1>1, <1>2 DEF Legit

\* The form of a reference that was typed is refused for its scheme alone.
LEMMA TypedFault ==
  ASSUME Authored, author = "emitted", TypedRequest, NEW policy
  PROVE  LET why == RequestFault(request, policy)
         IN /\ request.kind = "flake" /\ request.installable.uri = command.reference
            /\ why = "invalid_request" => Scheme(command.reference) = <<>>
            /\ why = "policy_denied" => PolicyPrefix(command.reference) \notin policy.prefixes
<1>. DEFINE uri == command.reference
            i == [uri |-> uri, output |-> OutputOf(command)]
            f == RequestFault(request, policy)
<1>1. ValidSource(uri) /\ ~StartsWith(uri, "/")
  BY DEF TypedRequest, ValidReference, LooksLikePath
<1>2. uri \in Seq(STRING)
  BY ReferenceIs, DeployAssumption
<1>3. PICK name : request = Request("runtime", Evaluable(uri, OutputOf(command)), name)
  BY DEF TypedRequest
<1>. HIDE DEF uri
<1>4. ~Staged(uri) /\ IsPrefix(PolicyPrefix(uri), uri)
  BY <1>1, <1>2, ReferenceIsNotStaged, PolicyPrefixIs
<1>5. i.uri = uri /\ i.output = OutputOf(command)
  OBVIOUS
<1>6. ValidInstallable(i)
  <2>1. ValidOutput(OutputOf(command))
    BY DEF TypedRequest
  <2>. HIDE DEF i
  <2>. QED
    BY <1>1, <1>5, <2>1 DEF ValidInstallable, ValidSource
<1>7. /\ request.kind = "flake" /\ request.installable.uri = uri
      /\ f = IF ~ValidInstallable(i) THEN "invalid_request"
             ELSE IF policy.cacheOnly THEN "evaluation_disabled"
             ELSE IF ~Staged(uri) /\ ~RemoteScheme(uri) THEN "invalid_request"
             ELSE IF ~Authorized(uri, policy.prefixes) THEN "policy_denied" ELSE None
  BY <1>3, FlakeRequest
<1>. HIDE DEF i, f
<1>8. f = IF policy.cacheOnly THEN "evaluation_disabled"
          ELSE IF ~RemoteScheme(uri) THEN "invalid_request"
          ELSE IF ~Authorized(uri, policy.prefixes) THEN "policy_denied" ELSE None
  BY <1>4, <1>6, <1>7
<1>9. None # "invalid_request" /\ None # "policy_denied"
  BY CategoryAssumption DEF Categories
<1>10. RemoteScheme(uri) <=> Scheme(uri) # <<>>
  BY <1>1 DEF RemoteScheme, ValidSource
<1>11. PolicyPrefix(uri) \in policy.prefixes => Authorized(uri, policy.prefixes)
  BY <1>4 DEF Authorized
<1>. QED
  BY <1>7, <1>8, <1>9, <1>10, <1>11 DEF f, uri

\* The faults of a printed pod, by the place where its create failed.
LEMMA EmittedStep == ASSUME Authored, NodeInv PROVE EmittedIsAdmitted
<1>. SUFFICES ASSUME author = "emitted", fault # None
              PROVE  /\ fault.at = "idle" => ~Delivered /\ command.image = "symlink"
                     /\ fault.at = "validate" /\ fault.category = "invalid_request" =>
                          command.external /\ Scheme(command.reference) = <<>>
                     /\ fault.at = "validate" /\ fault.category = "policy_denied" /\ Policy # None =>
                          IF request.kind = "release" THEN command.coordinate.issuer \notin DOMAIN Policy.issuers
                          ELSE Staged(request.installable.uri) \/ PolicyPrefix(command.reference) \notin Policy.prefixes
  BY DEF EmittedIsAdmitted
<1>1. Failure
  BY DEF NodeInv, RequestInv
<1>2. ASSUME fault.at = "idle" PROVE ~Delivered /\ command.image = "symlink"
  <2>1. Selection = Refuse
    BY <1>1, <1>2 DEF Failure
  <2>2. ~Delivered /\ pod.image = "symlink"
    BY <2>1, SelectionIs DEF Delivered, Selected, Evaluable, Pass, Refuse, InImage
  <2>. QED
    BY <2>2, ImageIs DEF Images
<1>3. ASSUME fault.at = "validate" PROVE Legit
  BY <1>1, <1>3 DEF Failure
<1>4. ASSUME fault.at = "validate", fault.category = "invalid_request"
      PROVE  Policy # None
  BY <1>1, <1>4 DEF Failure
<1>5. ASSUME fault.at = "validate", Policy # None
      PROVE  fault.category = RequestFault(request, Policy)
  BY <1>1, <1>5 DEF Failure
<1>6. CASE fault.at = "validate" /\ Policy # None /\ PinnedRequest
  <2>1. PICK purpose, name : /\ purpose = "runtime" \/ name = None
                             /\ request = Request(purpose, Selected(pinned), name)
    BY <1>6 DEF PinnedRequest
  <2>2. /\ request.kind = "release"
        /\ RequestFault(request, Policy) =
             IF pinned.issuer \in DOMAIN Policy.issuers THEN None ELSE "policy_denied"
    BY <2>1, ReleaseRequest
  <2>3. pinned.issuer = command.coordinate.issuer
    BY <1>6 DEF Authored, PinnedRequest
  <2>4. None # "invalid_request" /\ None # "policy_denied"
    BY CategoryAssumption DEF Categories
  <2>. QED
    BY <1>2, <1>5, <1>6, <2>2, <2>3, <2>4
<1>7. CASE fault.at = "validate" /\ Policy # None /\ EmbeddedRequest
  <2>1. PICK name, output :
          /\ output = IF command.release THEN "rootfs" ELSE ImageOutput
          /\ request = Request("runtime", Evaluable(InRootfs(EmbeddedSource), output), name)
    BY <1>7 DEF EmbeddedRequest
  <2>2. ValidOutput(output)
    <3>1. ValidOutput("rootfs")
      BY DEF ValidOutput
    <3>. QED
      BY <1>7, <2>1, <3>1 DEF EmbeddedRequest
  <2>3. RequestFault(request, Policy) # "invalid_request"
    BY <2>1, <2>2, ImageRequest
  <2>4. request.kind = "flake" /\ Staged(request.installable.uri)
    <3>1. Staged(InRootfs(EmbeddedSource))
      BY EmbeddedIs
    <3>. DEFINE uri == InRootfs(EmbeddedSource)
    <3>2. request = Request("runtime", Evaluable(uri, output), name)
      BY <2>1
    <3>. HIDE DEF uri
    <3>3. LET r == Request("runtime", Evaluable(uri, output), name)
          IN r.kind = "flake" /\ r.installable.uri = uri
      BY DEF Request, Evaluable
    <3>. QED
      BY <3>1, <3>2, <3>3 DEF uri
  <2>. QED
    BY <1>2, <1>5, <1>7, <2>3, <2>4
<1>8. CASE fault.at = "validate" /\ Policy # None /\ TypedRequest
  <2>1. /\ request.kind = "flake"
        /\ RequestFault(request, Policy) = "invalid_request" => Scheme(command.reference) = <<>>
        /\ RequestFault(request, Policy) = "policy_denied" =>
             PolicyPrefix(command.reference) \notin Policy.prefixes
    BY <1>8, TypedFault
  <2>2. command.external
    BY <1>8 DEF TypedRequest
  <2>. QED
    BY <1>2, <1>5, <1>8, <2>1, <2>2
<1>9. fault.at = "validate" => PinnedRequest \/ EmbeddedRequest \/ TypedRequest
  BY <1>3, RequestIs
<1>. QED
  BY <1>2, <1>4, <1>6, <1>7, <1>8, <1>9

\* A node refuses no pod that a command has printed for its form, and none for its
\* policy if the policy lists what the command said to list, but for a reference
\* with no scheme (podspec::pod, flakeref::policy_prefix, validate_request).
THEOREM EmittedAdmitted == Spec => []EmittedIsAdmitted
<1>1. Init => Authored /\ NodeInv
  BY InitAuthored, InitNode
<1>2. Authored /\ NodeInv /\ [Next]_vars => (Authored /\ NodeInv)'
  BY NextAuthored, NextNode
<1>3. Authored /\ NodeInv => EmittedIsAdmitted
  BY EmittedStep
<1>. QED
  BY <1>1, <1>2, <1>3, PTL DEF Spec

\* The policy of a node that knows an issuer, or that evaluates, is in its file.
LEMMA PolicyIsTheFile ==
  ASSUME Policy # None
  PROVE  /\ node.place = "daemon" => Policy.cacheOnly \/ node.worker
         /\ ~Policy.cacheOnly \/ DOMAIN Policy.issuers # {} => node.file # None /\ Policy = node.file
<1>. DEFINE p == LoadPolicy(node.file, node.explicit, System)
<1>1. /\ Policy = p /\ p # None
      /\ node.place = "daemon" => p.cacheOnly \/ node.worker
  BY DEF Policy
<1>2. CASE node.file = None
  <2>1. p = DefaultPolicy(System)
    BY <1>1, <1>2 DEF LoadPolicy
  <2>2. p.cacheOnly = TRUE /\ DOMAIN p.issuers = {}
    BY <2>1 DEF DefaultPolicy
  <2>. QED
    BY <1>1, <2>2
<1>3. CASE node.file # None
  <2>1. p = node.file
    BY <1>1, <1>3 DEF LoadPolicy
  <2>. QED
    BY <1>1, <1>3, <2>1
<1>. QED
  BY <1>2, <1>3

\* A body that is selected says the issuer and the name of its reference.
LEMMA SelectedBodyIs ==
  ASSUME NEW r, NEW policy, NEW body, SelectFault(r, policy, body) = None
  PROVE  body.issuer = r.release.issuer /\ body.name = r.release.name
<1>1. None \notin Categories
  BY CategoryAssumption
<1>2. ManifestFault(body, r.release) = None
  BY <1>1 DEF SelectFault, Categories
<1>3. ContentFault(body, r.release) = None
  BY <1>1, <1>2 DEF ManifestFault, Categories
<1>. QED
  BY <1>1, <1>3 DEF ContentFault, Categories

\* The root of a container that has started is the one that was found.
LEMMA RootIs ==
  ASSUME NodeInv, stage = "started"
  PROVE  config.root = resolution.rootfs /\ Answered /\ Legit /\ request.purpose = "runtime"
         /\ Policy # None /\ RequestFault(request, Policy) = None
<1>1. config = Rewrite /\ config # None
  BY DEF NodeInv, BundleInv
<1>2. config.root = resolution.rootfs
  BY <1>1 DEF Rewrite, Rewritten
<1>. QED
  BY <1>2 DEF NodeInv, RequestInv, Late, Realised, Admitted, Requested

\* The container of a printed pod, by what its command named.
LEMMA RunsStep == ASSUME Authored, NodeInv PROVE RunsWhatWasAuthored
<1>1. ASSUME author = "emitted", stage = "passed"
      PROVE  ~Delivered /\ command.image = "plain"
  <2>1. Selection = Pass
    BY <1>1 DEF NodeInv, RequestInv
  <2>2. ~Delivered /\ pod.image = "plain"
    BY <1>1, <2>1, SelectionIs DEF Delivered, Selected, Evaluable, Pass, Refuse, InImage
  <2>. QED
    BY <1>1, <2>2, ImageIs DEF Images
<1>2. ASSUME author = "emitted", stage = "started", PinnedRequest
      PROVE  /\ command.release /\ Delivered
             /\ config.root = pinned.digest.targets[node.file.system].rootfs
             /\ pinned.digest.issuer = pinned.issuer /\ pinned.digest.name = pinned.name
             /\ node.file # None /\ pinned.issuer \in DOMAIN node.file.issuers
  <2>1. PICK purpose, name : /\ IF purpose = "runtime" THEN Delivered ELSE name = None
                             /\ request = Request(purpose, Selected(pinned), name)
    BY <1>2 DEF PinnedRequest
  <2>2. /\ request.kind = "release" /\ request.release = pinned /\ request.purpose = purpose
        /\ RequestFault(request, Policy) =
             IF pinned.issuer \in DOMAIN Policy.issuers THEN None ELSE "policy_denied"
    BY <2>1, ReleaseRequest
  <2>3. Found
    BY <1>2, <2>2, RootIs DEF Answered
  <2>4. resolution.rootfs = pinned.digest.targets[Policy.system].rootfs
    BY <2>2, <2>3 DEF Found, Resolution
  <2>5. pinned.digest.issuer = pinned.issuer /\ pinned.digest.name = pinned.name
    BY <2>2, <2>3, SelectedBodyIs DEF Found
  <2>6. pinned.issuer \in DOMAIN Policy.issuers
    BY <1>2, <2>2, RootIs, CategoryAssumption DEF Categories
  <2>7. node.file # None /\ Policy = node.file
    BY <1>2, <2>6, RootIs, PolicyIsTheFile
  <2>8. Delivered
    BY <1>2, <2>1, <2>2, RootIs
  <2>. QED
    BY <1>2, <2>4, <2>5, <2>6, <2>7, <2>8, RootIs DEF PinnedRequest
<1>3. ASSUME author = "emitted", stage = "started", NEW uri, NEW output, NEW name,
             request = Request("runtime", Evaluable(uri, output), name)
      PROVE  /\ resolution = Evaluated(request.installable)
             /\ request.installable.uri = uri /\ request.installable.output = output
             /\ Staged(uri) => pod.image # "placeholder"
             /\ config.root = StorePath(IF Staged(uri) THEN "seed" ELSE "dev")
             /\ node.file # None /\ ~node.file.cacheOnly /\ (node.place = "daemon" => node.worker)
  <2>1. request.kind = "flake" /\ request.installable.uri = uri /\ request.installable.output = output
    BY <1>3 DEF Request, Evaluable
  <2>2. resolution = Evaluated(request.installable) /\ (Staged(uri) => pod.image # "placeholder")
    BY <1>3, <2>1, RootIs DEF Answered
  <2>3. config.root = StorePath(IF Staged(uri) THEN "seed" ELSE "dev")
    BY <1>3, <2>1, <2>2, RootIs DEF Evaluated
  <2>4. ~Policy.cacheOnly
    <3>1. RequestFault(request, Policy) =
            IF ~ValidInstallable([uri |-> uri, output |-> output]) THEN "invalid_request"
            ELSE IF Policy.cacheOnly THEN "evaluation_disabled"
            ELSE IF ~Staged(uri) /\ ~RemoteScheme(uri) THEN "invalid_request"
            ELSE IF ~Authorized(uri, Policy.prefixes) THEN "policy_denied" ELSE None
      BY <1>3, FlakeRequest
    <3>2. RequestFault(request, Policy) = None
      BY <1>3, RootIs
    <3>. QED
      BY <3>1, <3>2, CategoryAssumption DEF Categories
  <2>5. node.file # None /\ Policy = node.file /\ (node.place = "daemon" => node.worker)
    BY <1>3, <2>4, RootIs, PolicyIsTheFile
  <2>. QED
    BY <2>1, <2>2, <2>3, <2>4, <2>5
<1>4. ASSUME author = "emitted", stage = "started", EmbeddedRequest
      PROVE  /\ Packs(command) \/ (~Delivered /\ command.image = "flake")
             /\ config.root = StorePath("seed") /\ request.installable.output = ImageOutput
             /\ node.file # None /\ ~node.file.cacheOnly /\ (node.place = "daemon" => node.worker)
  <2>1. PICK name, output :
          /\ output = IF command.release THEN "rootfs" ELSE ImageOutput
          /\ request = Request("runtime", Evaluable(InRootfs(EmbeddedSource), output), name)
    BY <1>4 DEF EmbeddedRequest
  <2>. DEFINE uri == InRootfs(EmbeddedSource)
  <2>2. request = Request("runtime", Evaluable(uri, output), name) /\ Staged(uri)
    BY <2>1, EmbeddedIs
  <2>. HIDE DEF uri
  <2>3. /\ request.installable.output = output /\ pod.image # "placeholder"
        /\ config.root = StorePath("seed")
        /\ node.file # None /\ ~node.file.cacheOnly /\ (node.place = "daemon" => node.worker)
    BY <1>3, <1>4, <2>2
  <2>4. Packs(command) \/ (~Delivered /\ command.image = "flake")
    BY <1>4, <2>3 DEF EmbeddedRequest
  <2>5. output = ImageOutput
    BY <1>4, <2>1, ReferenceIs DEF ImageOutput
  <2>. QED
    BY <2>3, <2>4, <2>5
<1>5. ASSUME author = "emitted", stage = "started", TypedRequest
      PROVE  /\ ~command.release /\ command.external /\ Delivered
             /\ config.root = StorePath("dev") /\ request.installable.output = ImageOutput
             /\ node.file # None /\ ~node.file.cacheOnly /\ (node.place = "daemon" => node.worker)
  <2>1. PICK name : request = Request("runtime", Evaluable(command.reference, OutputOf(command)), name)
    BY <1>5 DEF TypedRequest
  <2>2. ~Staged(command.reference)
    <3>1. command.reference \in Seq(STRING)
      BY <1>5, ReferenceIs, DeployAssumption
    <3>2. ValidSource(command.reference) /\ ~StartsWith(command.reference, "/")
      BY <1>5 DEF TypedRequest, ValidReference, LooksLikePath
    <3>. QED
      BY <3>1, <3>2, ReferenceIsNotStaged
  <2>3. OutputOf(command) = ImageOutput
    BY <1>5 DEF TypedRequest, OutputOf, ImageOutput
  <2>4. /\ request.installable.output = OutputOf(command) /\ config.root = StorePath("dev")
        /\ node.file # None /\ ~node.file.cacheOnly /\ (node.place = "daemon" => node.worker)
    BY <1>3, <1>5, <2>1, <2>2
  <2>. QED
    BY <1>5, <2>3, <2>4 DEF TypedRequest, Delivered
<1>6. author = "emitted" /\ stage = "started" => PinnedRequest \/ EmbeddedRequest \/ TypedRequest
  BY RootIs, RequestIs
<1>. QED
  BY <1>1, <1>2, <1>4, <1>5, <1>6 DEF RunsWhatWasAuthored, ImageOutput, Packs

\* What starts is what the command named: the release of the digest that was pinned,
\* for the system of the policy, whatever the channel and the catalog hold by then;
\* or the flake and its output.  Where the handler drops the annotation, a packed pod
\* runs its own seed, and another starts only with a borrowed image: as that is, or
\* from the flake in it (run_release, run_external, parse_full_manifest,
\* select_release, embedded_source_annotations).
THEOREM PodsRunWhatWasAuthored == Spec => []RunsWhatWasAuthored
<1>1. Init => Authored /\ NodeInv
  BY InitAuthored, InitNode
<1>2. Authored /\ NodeInv /\ [Next]_vars => (Authored /\ NodeInv)'
  BY NextAuthored, NextNode
<1>3. Authored /\ NodeInv => RunsWhatWasAuthored
  BY RunsStep
<1>. QED
  BY <1>1, <1>2, <1>3, PTL DEF Spec

-----------------------------------------------------------------------------
(***************************************************************************)
(* Sums.                                                                   *)
(***************************************************************************)
Some(s) == CHOOSE x \in s : TRUE

\* h has the sums of f over the sets in D, one element after the other, ...
Adds(h, f, D) ==
  h = [s \in D |-> IF s = {} THEN 0 ELSE f[Some(s)] + h[s \ {Some(s)}]]

\* ... or over all the subsets of S.
Sums(h, f, S) == Adds(h, f, SUBSET S)

UpTo(n, S) == {s \in SUBSET S : Cardinality(s) <= n}

\* A set without some element of it has one element less.
LEMMA Smaller ==
  ASSUME NEW S, IsFiniteSet(S), NEW s \in SUBSET S, s # {}
  PROVE  /\ Some(s) \in s
         /\ s \ {Some(s)} \in SUBSET S
         /\ Cardinality(s) \in Nat \ {0}
         /\ Cardinality(s \ {Some(s)}) = Cardinality(s) - 1
<1>1. IsFiniteSet(s) /\ IsFiniteSet(s \ {Some(s)})
  BY FS_Subset
<1>2. Some(s) \in s
  BY DEF Some
<1>. QED
  BY <1>1, <1>2, FS_RemoveElement, FS_CardinalityType, FS_EmptySet

\* Sums over sets of n elements go on to sums over sets of n + 1.
LEMMA AddsOneMore ==
  ASSUME NEW S, IsFiniteSet(S), NEW f, NEW n \in Nat, NEW h, Adds(h, f, UpTo(n, S))
  PROVE  \E g : Adds(g, f, UpTo(n + 1, S))
<1>. DEFINE g == [s \in UpTo(n + 1, S) |-> IF s = {} THEN 0 ELSE f[Some(s)] + h[s \ {Some(s)}]]
<1>1. ASSUME NEW s \in UpTo(n, S) PROVE g[s] = h[s]
  <2>1. s \in UpTo(n + 1, S)
    BY <1>1, FS_Subset, FS_CardinalityType DEF UpTo
  <2>. QED
    BY <1>1, <2>1 DEF Adds
<1>2. ASSUME NEW s \in UpTo(n + 1, S), s # {} PROVE g[s \ {Some(s)}] = h[s \ {Some(s)}]
  <2>1. s \ {Some(s)} \in UpTo(n, S)
    BY <1>2, Smaller DEF UpTo
  <2>. QED
    BY <1>1, <2>1
<1>3. g = [s \in UpTo(n + 1, S) |-> IF s = {} THEN 0 ELSE f[Some(s)] + g[s \ {Some(s)}]]
  <2>. HIDE DEF g
  <2>1. g = [s \in UpTo(n + 1, S) |-> IF s = {} THEN 0 ELSE f[Some(s)] + h[s \ {Some(s)}]]
    BY DEF g
  <2>. QED
    BY <1>2, <2>1
<1>. QED
  BY <1>3 DEF Adds

\* So there are sums over every finite set.
LEMMA AddsExists ==
  ASSUME NEW S, IsFiniteSet(S), NEW f
  PROVE  \E h : Sums(h, f, S)
<1>. DEFINE T == {n \in Nat : ~ \E h : Adds(h, f, UpTo(n, S))}
<1>1. T = {}
  <2>1. SUFFICES ASSUME T # {} PROVE FALSE
    OBVIOUS
  <2>2. PICK n \in T : \A m \in T : n <= m
    BY <2>1, Least
  <2>3. n # 0
    <3>1. \A s \in UpTo(0, S) : s = {}
      BY FS_Subset, FS_EmptySet, FS_CardinalityType DEF UpTo
    <3>2. Adds([s \in UpTo(0, S) |-> 0], f, UpTo(0, S))
      BY <3>1 DEF Adds
    <3>. QED
      BY <2>2, <3>2
  <2>4. n - 1 \in Nat /\ n - 1 \notin T
    BY <2>2, <2>3
  <2>5. PICK h : Adds(h, f, UpTo(n - 1, S))
    BY <2>4
  <2>6. \E g : Adds(g, f, UpTo((n - 1) + 1, S))
    BY <2>4, <2>5, AddsOneMore
  <2>. QED
    BY <2>2, <2>6
<1>2. UpTo(Cardinality(S), S) = SUBSET S
  BY FS_Subset DEF UpTo
<1>3. Cardinality(S) \in Nat
  BY FS_CardinalityType
<1>4. \E h : Adds(h, f, UpTo(Cardinality(S), S))
  BY <1>1, <1>3
<1>. QED
  BY <1>2, <1>4 DEF Sums

\* A sum is zero only if everything in it is.
LEMMA ZeroTotal ==
  ASSUME NEW f, IsFiniteSet(DOMAIN f), \A x \in DOMAIN f : f[x] \in Nat
  PROVE  Total(f) \in Nat /\ (Total(f) = 0 => \A x \in DOMAIN f : f[x] = 0)
<1>. DEFINE S == DOMAIN f
            Right(h, s) == h[s] \in Nat /\ (h[s] = 0 => \A x \in s : f[x] = 0)
<1>1. PICK h : h = CHOOSE x : Sums(x, f, S)
  OBVIOUS
<1>2. Sums(h, f, S)
  BY <1>1, AddsExists
<1>3. Total(f) = h[S]
  BY <1>1 DEF Total, MapThenSumSet, MapThenFoldSet, Sums, Adds, Some
<1>4. ASSUME NEW s \in SUBSET S
      PROVE  h[s] = IF s = {} THEN 0 ELSE f[Some(s)] + h[s \ {Some(s)}]
  BY <1>2 DEF Sums, Adds
<1>. DEFINE C == {n \in Nat : \E s \in SUBSET S : Cardinality(s) = n /\ ~Right(h, s)}
<1>5. C = {}
  <2>1. SUFFICES ASSUME C # {} PROVE FALSE
    OBVIOUS
  <2>2. PICK n \in C : \A m \in C : n <= m
    BY <2>1, Least
  <2>3. PICK s \in SUBSET S : Cardinality(s) = n /\ ~Right(h, s)
    BY <2>2
  <2>4. s # {}
    <3>1. h[{}] = 0
      BY <1>4
    <3>2. Right(h, {})
      BY <3>1
    <3>. HIDE DEF Right
    <3>. QED
      BY <2>3, <3>2
  <2>. DEFINE c == Some(s)
  <2>5. /\ c \in s /\ s \ {c} \in SUBSET S
        /\ Cardinality(s \ {c}) \in Nat /\ Cardinality(s \ {c}) < n
    BY <2>3, <2>4, Smaller
  <2>6. Right(h, s \ {c})
    <3>. HIDE DEF Right
    <3>. QED
      BY <2>2, <2>5
  <2>7. h[s] = f[c] + h[s \ {c}] /\ f[c] \in Nat
    BY <1>4, <2>4, <2>5
  <2>8. Right(h, s)
    BY <2>5, <2>6, <2>7
  <2>. QED
    BY <2>3, <2>8
<1>6. Cardinality(S) \in Nat /\ S \in SUBSET S
  BY FS_CardinalityType
<1>7. Right(h, S)
  <2>. HIDE DEF Right
  <2>. QED
    BY <1>5, <1>6
<1>. QED
  BY <1>3, <1>7

-----------------------------------------------------------------------------
(***************************************************************************)
(* Inspection: the client adds up what the daemon has added up.            *)
(***************************************************************************)
Reported ==
  stage = "reported" =>
    \E infos \in Answers : \E invalid \in SUBSET DOMAIN infos :
      /\ report = Report(infos, invalid)
      /\ StorePaths(resolution) \subseteq DOMAIN infos
      /\ \A path \in DOMAIN infos : ValidStorePath(path)
      /\ Total(Nar(infos)) <= MaxSize /\ Total(Missing(infos, invalid)) <= MaxSize

\* The totals of a closure are numbers, and nothing is missing from a sum of 0.
LEMMA AnswerIs ==
  ASSUME NEW infos \in Answers, NEW invalid \in SUBSET DOMAIN infos
  PROVE  LET missing == Missing(infos, invalid)
         IN /\ Total(Nar(infos)) \in Nat /\ Total(missing) \in Nat
            /\ DOMAIN missing = DOMAIN infos \cap invalid
            /\ \A path \in DOMAIN missing : missing[path] = Download(infos[path])
            /\ Total(missing) = 0 => \A path \in DOMAIN missing : missing[path] = 0
<1>. DEFINE D == DOMAIN infos
            nar == Nar(infos)
            missing == Missing(infos, invalid)
<1>1. IsFiniteSet(D) /\ IsFiniteSet(D \cap invalid)
  BY DeployAssumption, FS_Subset
<1>2. \A path \in D : infos[path].nar \in Nat /\ Download(infos[path]) \in Nat
  BY DeployAssumption DEF Download
<1>3. DOMAIN nar = D /\ \A path \in DOMAIN nar : nar[path] \in Nat
  BY <1>2 DEF Nar
<1>4. /\ DOMAIN missing = D \cap invalid
      /\ \A path \in DOMAIN missing : missing[path] = Download(infos[path]) /\ missing[path] \in Nat
  BY <1>2 DEF Missing
<1>. HIDE DEF nar, missing, D
<1>5. Total(nar) \in Nat
  BY <1>1, <1>3, ZeroTotal
<1>6. Total(missing) \in Nat /\ (Total(missing) = 0 => \A path \in DOMAIN missing : missing[path] = 0)
  BY <1>1, <1>4, ZeroTotal
<1>. QED
  BY <1>4, <1>5, <1>6 DEF nar, missing, D

\* A report is made of one answer, and nothing changes it.
LEMMA NextReported == ASSUME Reported, [Next]_vars PROVE Reported'
<1>1. CASE Query
  <2>1. SUFFICES ASSUME stage' = "reported" PROVE Reported'
    BY DEF Reported
  <2>2. PICK infos \in Answers : \E invalid \in SUBSET DOMAIN infos :
          /\ report' = Report(infos, invalid)
          /\ StorePaths(resolution) \subseteq DOMAIN infos
          /\ \A path \in DOMAIN infos : ValidStorePath(path)
          /\ ~(Total(Nar(infos)) > MaxSize) /\ ~(Total(Missing(infos, invalid)) > MaxSize)
    BY <1>1, <2>1 DEF Query, Fails
  <2>3. PICK invalid \in SUBSET DOMAIN infos :
          /\ report' = Report(infos, invalid)
          /\ StorePaths(resolution) \subseteq DOMAIN infos
          /\ \A path \in DOMAIN infos : ValidStorePath(path)
          /\ ~(Total(Nar(infos)) > MaxSize) /\ ~(Total(Missing(infos, invalid)) > MaxSize)
    BY <2>2
  <2>4. resolution' = resolution
    BY <1>1 DEF Query
  <2>5. Report(infos, invalid)' = Report(infos, invalid)
    BY <2>4 DEF Report
  <2>6. Total(Nar(infos)) <= MaxSize /\ Total(Missing(infos, invalid)) <= MaxSize
    <3>1. Total(Nar(infos)) \in Nat /\ Total(Missing(infos, invalid)) \in Nat
      BY AnswerIs
    <3>. QED
      BY <2>3, <3>1, DeployAssumption
  <2>. QED
    BY <2>3, <2>4, <2>5, <2>6 DEF Reported
<1>2. ASSUME UNCHANGED <<stage, report, resolution>> PROVE Reported'
  BY <1>2 DEF Reported, Report
<1>3. ASSUME NodeStep, ~Query PROVE stage' # "reported"
  BY <1>3 DEF NodeStep, Select, Ask, Validate, Fetch, Realise, Prepare, Write, Rename, Sync, Again,
              Abandon, Fails
<1>4. stage' # "reported" => Reported'
  BY DEF Reported
<1>. QED
  BY <1>1, <1>2, <1>3, <1>4 DEF Next, vars, answerVars

\* The client adds up what the daemon added up.
LEMMA BelievedStep == ASSUME NodeInv, Reported PROVE ReportIsBelieved
<1>. SUFFICES ASSUME stage = "reported"
              PROVE  /\ Believed(report, request.release)
                     /\ report.missing = 0 =>
                          \A path \in DOMAIN report.paths :
                            report.paths[path].present \/ report.paths[path].download = 0
  BY DEF ReportIsBelieved
<1>1. PICK infos \in Answers : \E invalid \in SUBSET DOMAIN infos :
      /\ report = Report(infos, invalid)
      /\ StorePaths(resolution) \subseteq DOMAIN infos
      /\ \A path \in DOMAIN infos : ValidStorePath(path)
      /\ Total(Nar(infos)) <= MaxSize /\ Total(Missing(infos, invalid)) <= MaxSize
  BY DEF Reported
<1>2. PICK invalid \in SUBSET DOMAIN infos :
      /\ report = Report(infos, invalid)
      /\ StorePaths(resolution) \subseteq DOMAIN infos
      /\ \A path \in DOMAIN infos : ValidStorePath(path)
      /\ Total(Nar(infos)) <= MaxSize /\ Total(Missing(infos, invalid)) <= MaxSize
  BY <1>1
<1>. DEFINE D == DOMAIN infos
            paths == [path \in D |-> [nar |-> infos[path].nar, present |-> path \notin invalid,
                                      download |-> Download(infos[path])]]
            missing == Missing(infos, invalid)
<1>3. /\ report.release = resolution.identity /\ report.paths = paths
      /\ report.total = Total(Nar(infos)) /\ report.missing = Total(missing)
  BY <1>2 DEF Report
<1>4. \A path \in D : /\ paths[path].nar = infos[path].nar /\ paths[path].present = (path \notin invalid)
                      /\ paths[path].download = Download(infos[path])
  OBVIOUS
<1>5. DOMAIN paths = D
  OBVIOUS
<1>6. missing = [path \in D \cap invalid |-> Download(infos[path])]
  BY DEF Missing
<1>. HIDE DEF paths, missing
<1>8. Nar(paths) = Nar(infos)
  BY <1>4, <1>5 DEF Nar
<1>9. [path \in {x \in DOMAIN paths : ~paths[x].present} |-> paths[path].download] = missing
  <2>1. {x \in DOMAIN paths : ~paths[x].present} = D \cap invalid
    BY <1>4, <1>5
  <2>2. \A path \in D \cap invalid : paths[path].download = Download(infos[path])
    BY <1>4
  <2>. QED
    BY <1>6, <2>1, <2>2
<1>10. resolution.identity = request.release /\ D # {}
  <2>1. Found
    BY DEF NodeInv, RequestInv
  <2>2. resolution.identity = request.release
    BY <2>1 DEF Found, Resolution
  <2>3. resolution.rootfs \in D
    BY <1>2 DEF StorePaths
  <2>. QED
    BY <2>2, <2>3
<1>11. Believed(report, request.release)
  <2>1. Total(Nar(report.paths)) = report.total /\ report.total <= MaxSize
    BY <1>2, <1>3, <1>8
  <2>2. Total([path \in {x \in DOMAIN report.paths : ~report.paths[x].present} |->
                 report.paths[path].download]) = report.missing
        /\ report.missing <= MaxSize
    BY <1>2, <1>3, <1>9 DEF missing
  <2>3. /\ report.release = request.release /\ DOMAIN report.paths # {}
        /\ \A path \in DOMAIN report.paths : ValidStorePath(path)
    BY <1>2, <1>3, <1>5, <1>10
  <2>. QED
    BY <2>1, <2>2, <2>3 DEF Believed
<1>12. ASSUME report.missing = 0, NEW path \in DOMAIN report.paths, ~report.paths[path].present
       PROVE  report.paths[path].download = 0
  <2>1. path \in D \cap invalid /\ report.paths[path].download = Download(infos[path])
    BY <1>3, <1>4, <1>5, <1>12
  <2>3. Total(missing) = 0
    BY <1>3, <1>12
  <2>2. /\ DOMAIN missing = D \cap invalid /\ missing[path] = Download(infos[path])
        /\ missing[path] = 0
    <3>1. /\ DOMAIN missing = DOMAIN infos \cap invalid
          /\ \A x \in DOMAIN missing : missing[x] = Download(infos[x])
          /\ Total(missing) = 0 => \A x \in DOMAIN missing : missing[x] = 0
      BY AnswerIs DEF missing
    <3>. QED
      BY <2>1, <2>3, <3>1
  <2>. QED
    BY <2>1, <2>2
<1>. QED
  BY <1>11, <1>12

\* The client believes every report of the daemon, and one that says that nothing has
\* to be fetched says so of every path (query_closure, validate_closure_report).
THEOREM ReportsAreBelieved == Spec => []ReportIsBelieved
<1>1. Init => Authored /\ NodeInv /\ Reported
  BY InitAuthored, InitNode DEF Init, Reported
<1>2. Authored /\ NodeInv /\ Reported /\ [Next]_vars => (Authored /\ NodeInv /\ Reported)'
  BY NextAuthored, NextNode, NextReported
<1>3. NodeInv /\ Reported => ReportIsBelieved
  BY BelievedStep
<1>. QED
  BY <1>1, <1>2, <1>3, PTL DEF Spec

-----------------------------------------------------------------------------
(***************************************************************************)
(* Folds, one position after the other.  A lemma cannot have an operator   *)
(* for a parameter, so the four that there are have names: the components  *)
(* of a path, the words of a shebang, the packages without duplicates, and *)
(* sequences put together.                                                 *)
(***************************************************************************)
Taken(path, l) == IF l \in {"/", "."} THEN path ELSE Append(path, l)

JoinedTo(said, line) ==
  IF ~said.open \/ ~line.bang THEN [open |-> FALSE, words |-> said.words]
  ELSE [open |-> TRUE, words |-> said.words \o SubSeq(line.words, 2, Len(line.words))]

AddedTo(seen, word) == IF Contains(seen, word) THEN seen ELSE Append(seen, word)

Folded(fold, had, x) ==
  IF fold = "path" THEN Taken(had, x)
  ELSE IF fold = "shebang" THEN JoinedTo(had, x)
  ELSE IF fold = "packages" THEN AddedTo(had, x) ELSE had \o x

\* h has what is made of the positions in each set of D.
Walks(h, fold, base, text, D) ==
  h = [s \in D |-> IF s = {} THEN base ELSE Folded(fold, h[s \ {Max(s)}], text[Max(s)])]

\* A set without its maximum has one element less.
LEMMA LastOf ==
  ASSUME NEW n \in Nat, NEW s \in SUBSET (1..n), s # {}
  PROVE  /\ Max(s) \in s /\ s \ {Max(s)} \in SUBSET (1..n)
         /\ Cardinality(s) \in Nat \ {0}
         /\ Cardinality(s \ {Max(s)}) = Cardinality(s) - 1
<1>1. IsFiniteSet(1..n)
  BY FS_Interval
<1>2. IsFiniteSet(s) /\ IsFiniteSet(s \ {Max(s)})
  BY <1>1, FS_Subset
<1>3. Max(s) \in s
  BY MaxIs
<1>. QED
  BY <1>2, <1>3, FS_RemoveElement, FS_CardinalityType, FS_EmptySet

\* The sets of at most m elements are among those of at most m + 1.
LEMMA UpToGrows ==
  ASSUME NEW S, IsFiniteSet(S), NEW m \in Nat
  PROVE  /\ UpTo(m, S) \subseteq UpTo(m + 1, S)
         /\ \A s \in UpTo(0, S) : s = {}
<1>1. \A s \in SUBSET S : IsFiniteSet(s) /\ Cardinality(s) \in Nat /\ (Cardinality(s) = 0 <=> s = {})
  BY FS_Subset, FS_EmptySet, FS_CardinalityType
<1>. QED
  BY <1>1 DEF UpTo

\* Walks over m positions go on to walks over m + 1.
LEMMA WalksOneMore ==
  ASSUME NEW n \in Nat, NEW fold, NEW base, NEW text, NEW m \in Nat, NEW h, Walks(h, fold, base, text, UpTo(m, 1..n))
  PROVE  \E g : Walks(g, fold, base, text, UpTo(m + 1, 1..n))
<1>. DEFINE D == UpTo(m + 1, 1..n)
            g == [s \in D |-> IF s = {} THEN base ELSE Folded(fold, h[s \ {Max(s)}], text[Max(s)])]
<1>0. IsFiniteSet(1..n)
  BY FS_Interval
<1>1. ASSUME NEW s \in UpTo(m, 1..n) PROVE g[s] = h[s]
  <2>1. s \in D
    BY <1>0, <1>1, UpToGrows
  <2>. QED
    BY <1>1, <2>1 DEF Walks
<1>2. ASSUME NEW s \in D, s # {} PROVE g[s \ {Max(s)}] = h[s \ {Max(s)}]
  <2>1. s \ {Max(s)} \in UpTo(m, 1..n)
    BY <1>2, LastOf DEF UpTo
  <2>. QED
    BY <1>1, <2>1
<1>3. g = [s \in D |-> IF s = {} THEN base ELSE Folded(fold, g[s \ {Max(s)}], text[Max(s)])]
  <2>. HIDE DEF g
  <2>1. g = [s \in D |-> IF s = {} THEN base ELSE Folded(fold, h[s \ {Max(s)}], text[Max(s)])]
    BY DEF g
  <2>. HIDE DEF D
  <2>. QED
    BY <1>2, <2>1
<1>. QED
  BY <1>3 DEF Walks

\* So there is a walk over every set of positions.
LEMMA WalksExists ==
  ASSUME NEW n \in Nat, NEW fold, NEW base, NEW text
  PROVE  \E h : Walks(h, fold, base, text, SUBSET (1..n))
<1>. DEFINE T == {m \in Nat : ~ \E h : Walks(h, fold, base, text, UpTo(m, 1..n))}
<1>0. IsFiniteSet(1..n) /\ Cardinality(1..n) = n
  BY FS_Interval
<1>1. T = {}
  <2>1. SUFFICES ASSUME T # {} PROVE FALSE
    OBVIOUS
  <2>2. PICK m \in T : \A k \in T : m <= k
    BY <2>1, Least
  <2>3. m # 0
    <3>1. \A s \in UpTo(0, 1..n) : s = {}
      BY <1>0, UpToGrows
    <3>2. Walks([s \in UpTo(0, 1..n) |-> base], fold, base, text, UpTo(0, 1..n))
      BY <3>1 DEF Walks
    <3>. QED
      BY <2>2, <3>2
  <2>4. m - 1 \in Nat /\ m - 1 \notin T
    BY <2>2, <2>3
  <2>5. PICK h : Walks(h, fold, base, text, UpTo(m - 1, 1..n))
    BY <2>4
  <2>6. \E g : Walks(g, fold, base, text, UpTo((m - 1) + 1, 1..n))
    BY <2>4, <2>5, WalksOneMore
  <2>. QED
    BY <2>2, <2>6
<1>2. UpTo(n, 1..n) = SUBSET (1..n)
  BY <1>0, FS_Subset DEF UpTo
<1>3. \E h : Walks(h, fold, base, text, UpTo(n, 1..n))
  BY <1>1
<1>. QED
  BY <1>2, <1>3

\* h has what is made of the first positions, up to the n-th, which makes last.
Along(h, fold, base, text, n, last) ==
  /\ h[0] = base /\ h[n] = last
  /\ \A k \in 1..n : h[k] = Folded(fold, h[k - 1], text[k])

\* A walk over the sets of positions is one along the positions.
LEMMA WalkAlong ==
  ASSUME NEW n \in Nat, NEW fold, NEW base, NEW text, NEW g,
         Walks(g, fold, base, text, SUBSET (1..n))
  PROVE  \E h : Along(h, fold, base, text, n, g[1..n])
<1>5. g[{}] = base
  BY DEF Walks
<1>6. ASSUME NEW k \in 1..n PROVE g[1..k] = Folded(fold, g[1..(k - 1)], text[k])
  <2>0. k \in 1..k /\ \A i \in 1..k : i \in 1..n
    OBVIOUS
  <2>1. 1..k \in SUBSET (1..n) /\ 1..k # {} /\ k \in 1..k
    BY <2>0
  <2>2. Max(1..k) = k
    <3>1. Max(1..k) \in 1..k /\ \A x \in 1..k : x <= Max(1..k)
      BY <2>1, MaxIs
    <3>. QED
      BY <3>1
  <2>3. (1..k) \ {k} = 1..(k - 1)
    OBVIOUS
  <2>. QED
    BY <2>1, <2>2, <2>3 DEF Walks
<1>. DEFINE h == [k \in 0..n |-> g[1..k]]
<1>7. h[0] = base
  <2>1. 1..0 = {}
    OBVIOUS
  <2>. QED
    BY <1>5, <2>1
<1>8. h[n] = g[1..n]
  OBVIOUS
<1>9. \A k \in 1..n : h[k] = Folded(fold, h[k - 1], text[k])
  BY <1>6
<1>10. Along(h, fold, base, text, n, g[1..n])
  <2>. HIDE DEF h
  <2>. QED
    BY <1>7, <1>8, <1>9 DEF Along
<1>. QED
  BY <1>10

\* The components of a path, lump by lump.
LEMMA ComponentsAre ==
  ASSUME NEW S, NEW text \in Seq(S)
  PROVE  \E h : /\ h[0] = <<>> /\ h[Len(text)] = Components(text)
                /\ \A k \in 1..Len(text) : h[k] = Taken(h[k - 1], text[k])
<1>. DEFINE n == Len(text)
            g == CHOOSE x : x = [s \in SUBSET DOMAIN text |->
                   IF s = {} THEN <<>>
                   ELSE IF text[Max(s)] \in {"/", "."} THEN x[s \ {Max(s)}]
                        ELSE Append(x[s \ {Max(s)}], text[Max(s)])]
<1>1. n \in Nat /\ DOMAIN text = 1..n
  BY LenProperties
<1>2. Walks(g, "path", <<>>, text, SUBSET (1..n))
  <2>1. PICK x : Walks(x, "path", <<>>, text, SUBSET (1..n))
    BY <1>1, WalksExists
  <2>2. \A y : Walks(y, "path", <<>>, text, SUBSET (1..n)) <=>
              y = [s \in SUBSET DOMAIN text |->
                     IF s = {} THEN <<>>
                     ELSE IF text[Max(s)] \in {"/", "."} THEN y[s \ {Max(s)}]
                          ELSE Append(y[s \ {Max(s)}], text[Max(s)])]
    BY <1>1 DEF Walks, Folded, Taken
  <2>. QED
    BY <2>1, <2>2
<1>3. Components(text) = g[DOMAIN text]
  BY DEF Components, FoldLeft, MapThenFoldSet
<1>. HIDE DEF g
<1>4. PICK h : Along(h, "path", <<>>, text, n, g[1..n])
  <2>. HIDE DEF n
  <2>. QED
    BY <1>1, <1>2, WalkAlong
<1>. QED
  BY <1>1, <1>3, <1>4 DEF Folded, Along

\* Of slashes and names in turn the names remain.
LEMMA ComponentsOf ==
  ASSUME NEW S, NEW text \in Seq(S), NEW n \in Nat, Len(text) = 2 * n,
         \A k \in 1..n : text[2 * k - 1] = "/" /\ text[2 * k] \notin {"/", "."}
  PROVE  /\ Components(text) \in Seq(S) /\ Len(Components(text)) = n
         /\ \A k \in 1..n : Components(text)[k] = text[2 * k]
<1>1. PICK h : /\ h[0] = <<>> /\ h[2 * n] = Components(text)
               /\ \A k \in 1..(2 * n) : h[k] = Taken(h[k - 1], text[k])
  BY ComponentsAre
<1>. DEFINE Even(k) == h[2 * k] \in Seq(S) /\ Len(h[2 * k]) = k /\ \A j \in 1..k : h[2 * k][j] = text[2 * j]
            T == {k \in Nat : k <= n /\ ~Even(k)}
<1>2. T = {}
  <2>1. SUFFICES ASSUME T # {} PROVE FALSE
    OBVIOUS
  <2>2. PICK k \in T : \A m \in T : k <= m
    BY <2>1, Least
  <2>3. k # 0
    <3>1. h[2 * 0] = <<>>
      BY <1>1
    <3>2. Even(0)
      BY <3>1
    <3>. HIDE DEF Even
    <3>. QED
      BY <2>2, <3>2
  <2>4. k - 1 \in Nat /\ k - 1 < k /\ k - 1 <= n /\ k \in 1..n
    BY <2>2, <2>3
  <2>5. Even(k - 1)
    <3>. HIDE DEF Even
    <3>. QED
      BY <2>2, <2>4
  <2>. DEFINE p == h[2 * (k - 1)]
  <2>6. p \in Seq(S) /\ Len(p) = k - 1 /\ \A j \in 1..(k - 1) : p[j] = text[2 * j]
    BY <2>5
  <2>. HIDE DEF p
  <2>7. h[2 * k] = Append(p, text[2 * k])
    <3>1. /\ 2 * k - 1 \in 1..(2 * n) /\ 2 * k \in 1..(2 * n)
          /\ (2 * k - 1) - 1 = 2 * (k - 1)
      BY <2>4
    <3>2. h[2 * k - 1] = Taken(p, text[2 * k - 1]) /\ h[2 * k] = Taken(h[2 * k - 1], text[2 * k])
      BY <1>1, <3>1 DEF p
    <3>. QED
      BY <2>4, <3>2 DEF Taken
  <2>8. text[2 * k] \in S
    BY <2>4, ElementOfSeq
  <2>9. /\ Append(p, text[2 * k]) \in Seq(S) /\ Len(Append(p, text[2 * k])) = k
        /\ \A j \in 1..(k - 1) : Append(p, text[2 * k])[j] = p[j]
        /\ Append(p, text[2 * k])[k] = text[2 * k]
    BY <2>4, <2>6, <2>8, AppendProperties
  <2>10. \A j \in 1..k : h[2 * k][j] = text[2 * j]
    <3>1. ASSUME NEW j \in 1..k PROVE j = k \/ j \in 1..(k - 1)
      BY <2>4
    <3>2. h[2 * k][k] = text[2 * k]
      BY <2>7, <2>9
    <3>3. \A j \in 1..(k - 1) : h[2 * k][j] = text[2 * j]
      BY <2>6, <2>7, <2>9
    <3>. QED
      BY <3>1, <3>2, <3>3
  <2>11. Even(k)
    BY <2>7, <2>9, <2>10
  <2>. HIDE DEF Even
  <2>. QED
    BY <2>2, <2>11
<1>3. Even(n)
  <2>. HIDE DEF Even
  <2>. QED
    BY <1>2
<1>. QED
  BY <1>1, <1>3

-----------------------------------------------------------------------------
(***************************************************************************)
(* Paths that are spelled out.                                             *)
(***************************************************************************)
\* Slashes and names in turn.
Turns(text, n) ==
  /\ Len(text) = 2 * n
  /\ \A k \in 1..n : text[2 * k - 1] = "/" /\ text[2 * k] \notin {"/", "."}

\* A normalised destination that is spelled out has slashes and names in turn.
LEMMA NormalTurns ==
  ASSUME NEW S, NEW text \in Seq(S), Spelled(text), NormalizedDestination(text), text # <<"/">>
  PROVE  \E n \in Nat : Turns(text, n)
<1>. DEFINE l == Len(text)
            T == {i \in Nat : i \in 1..l /\ ~(text[i] = "/" <=> i % 2 = 1)}
<1>1. l \in Nat /\ l # 0 /\ text[1] = "/" /\ text[l] # "/"
  <2>1. text # <<>> /\ Head(text) = "/"
    BY DEF NormalizedDestination, StartsWith
  <2>2. Last(text) # "/"
    BY DEF NormalizedDestination, CanonicalPath
  <2>. QED
    BY <2>1, <2>2, LenProperties DEF Last
<1>2. \A i \in 1..(l - 1) : text[i] = "/" => text[i + 1] \notin {"/", ".", ".."}
  BY DEF NormalizedDestination, CanonicalPath
<1>3. \A i \in 2..l : text[i - 1] = "/" \/ text[i] = "/"
  BY DEF Spelled
<1>. HIDE DEF l
<1>4. T = {}
  <2>1. SUFFICES ASSUME T # {} PROVE FALSE
    OBVIOUS
  <2>2. PICK i \in T : \A j \in T : i <= j
    BY <2>1, Least
  <2>3. i \in Nat /\ i \in 1..l /\ ~(text[i] = "/" <=> i % 2 = 1)
    BY <2>2
  <2>4. i # 1
    BY <1>1, <2>3
  <2>5. i - 1 \in Nat /\ i - 1 \in 1..(l - 1) /\ i \in 2..l
    BY <1>1, <2>3, <2>4
  <2>6. i - 1 \notin T
    BY <2>2, <2>3
  <2>7. text[i - 1] = "/" <=> (i - 1) % 2 = 1
    BY <1>1, <2>5, <2>6
  <2>8. (i - 1) % 2 = 1 <=> i % 2 = 0
    BY <2>3
  <2>9. i % 2 = 0 \/ i % 2 = 1
    BY <2>3
  <2>10. text[i - 1] = "/" => text[i] # "/"
    <3>1. (i - 1) + 1 = i
      BY <2>3
    <3>. QED
      BY <1>2, <2>5, <3>1
  <2>11. text[i - 1] = "/" \/ text[i] = "/"
    BY <1>3, <2>5
  <2>. QED
    BY <2>3, <2>7, <2>8, <2>9, <2>10, <2>11
<1>5. \A i \in 1..l : text[i] = "/" <=> i % 2 = 1
  BY <1>1, <1>4
<1>6. PICK n \in Nat : l = 2 * n
  <2>1. l % 2 # 1
    BY <1>1, <1>5
  <2>2. l = 2 * (l \div 2) /\ l \div 2 \in Nat
    BY <1>1, <2>1
  <2>. QED
    BY <2>2
<1>7. ASSUME NEW k \in 1..n PROVE text[2 * k - 1] = "/" /\ text[2 * k] \notin {"/", "."}
  <2>1. 2 * k - 1 \in 1..(l - 1) /\ 2 * k - 1 \in 1..l /\ (2 * k - 1) % 2 = 1 /\ (2 * k - 1) + 1 = 2 * k
    BY <1>6
  <2>2. text[2 * k - 1] = "/"
    BY <1>5, <2>1
  <2>. QED
    BY <1>2, <2>1, <2>2
<1>. QED
  BY <1>6, <1>7 DEF Turns, l

\* What is spelled out differently is elsewhere.
LEMMA ElsewhereIs ==
  ASSUME NEW S, NEW text \in Seq(S), NEW other \in Seq(S), NEW n \in Nat, NEW m \in Nat,
         Turns(text, n), Turns(other, m), Components(text) = Components(other)
  PROVE  text = other
<1>1. /\ Len(Components(text)) = n /\ \A k \in 1..n : Components(text)[k] = text[2 * k]
  BY ComponentsOf DEF Turns
<1>2. /\ Len(Components(other)) = m /\ \A k \in 1..m : Components(other)[k] = other[2 * k]
  BY ComponentsOf DEF Turns
<1>3. n = m /\ \A k \in 1..n : text[2 * k] = other[2 * k] /\ text[2 * k - 1] = other[2 * k - 1]
  BY <1>1, <1>2 DEF Turns
<1>4. ASSUME NEW i \in 1..(2 * n) PROVE text[i] = other[i]
  <2>1. \E k \in 1..n : i = 2 * k \/ i = 2 * k - 1
    <3>1. (i + 1) \div 2 \in 1..n /\ (i = 2 * ((i + 1) \div 2) \/ i = 2 * ((i + 1) \div 2) - 1)
      OBVIOUS
    <3>. QED
      BY <3>1
  <2>. QED
    BY <1>3, <2>1
<1>5. Len(text) = 2 * n /\ Len(other) = 2 * n
  BY <1>3 DEF Turns
<1>. QED
  BY <1>4, <1>5, SeqEqual

\* The store and what is in it.
LEMMA StorePathIs ==
  ASSUME NEW name \in StoreNames
  PROVE  LET S == {"/", "nix", "store", name}
             text == StorePath(name)
         IN /\ text \in Seq(S) /\ Len(text) = 6 /\ text[6] = name
            /\ Components(text) \in Seq(S) /\ Len(Components(text)) = 3
            /\ Components(text)[1] = "nix" /\ Components(text)[2] = "store"
            /\ Components(text)[3] = name
<1>. DEFINE S == {"/", "nix", "store", name}
            t == <<"/", "nix", "/", "store">>
            u == <<"/", name>>
            text == t \o u
<1>1. t \in Seq(S) /\ Len(t) = 4 /\ t[1] = "/" /\ t[2] = "nix" /\ t[3] = "/" /\ t[4] = "store"
  OBVIOUS
<1>2. u \in Seq(S) /\ Len(u) = 2 /\ u[1] = "/" /\ u[2] = name
  OBVIOUS
<1>3. StorePath(name) = text
  BY DEF StorePath, NixStore
<1>. HIDE DEF t, u
<1>4. /\ text \in Seq(S) /\ Len(text) = 6
      /\ \A i \in 1..6 : text[i] = IF i <= 4 THEN t[i] ELSE u[i - 4]
  <2>1. /\ t \o u \in Seq(S) /\ Len(t \o u) = Len(t) + Len(u)
        /\ \A i \in 1..(Len(t) + Len(u)) : (t \o u)[i] = IF i <= Len(t) THEN t[i] ELSE u[i - Len(t)]
    <3>. HIDE DEF S
    <3>. QED
      BY <1>1, <1>2, ConcatProperties
  <2>. QED
    BY <1>1, <1>2, <2>1
<1>. HIDE DEF text
<1>5. /\ text[1] = "/" /\ text[2] = "nix" /\ text[3] = "/" /\ text[4] = "store"
      /\ text[5] = "/" /\ text[6] = name
  BY <1>1, <1>2, <1>4
<1>6. name \notin {"/", "."}
  BY StoreAssumption
<1>7. \A k \in 1..3 : k = 1 \/ k = 2 \/ k = 3
  OBVIOUS
<1>8. \A k \in 1..3 : text[2 * k - 1] = "/" /\ text[2 * k] \notin {"/", "."}
  BY <1>5, <1>6, <1>7
<1>9. /\ Components(text) \in Seq(S) /\ Len(Components(text)) = 3
      /\ \A k \in 1..3 : Components(text)[k] = text[2 * k]
  <2>1. Len(text) = 2 * 3
    BY <1>4
  <2>. HIDE DEF S
  <2>. QED
    BY <1>4, <1>8, <2>1, ComponentsOf
<1>10. Components(text)[1] = "nix" /\ Components(text)[2] = "store" /\ Components(text)[3] = name
  BY <1>5, <1>9
<1>. QED
  BY <1>3, <1>4, <1>5, <1>9, <1>10

\* The components of /nix/store.
LEMMA NixStoreIs ==
  /\ NixStore \in Seq({"/", "nix", "store"}) /\ Len(NixStore) = 4
  /\ Components(NixStore) \in Seq({"/", "nix", "store"}) /\ Len(Components(NixStore)) = 2
  /\ Components(NixStore)[1] = "nix" /\ Components(NixStore)[2] = "store"
<1>. DEFINE S == {"/", "nix", "store"}
            text == NixStore
<1>1. /\ text \in Seq(S) /\ Len(text) = 4
      /\ text[1] = "/" /\ text[2] = "nix" /\ text[3] = "/" /\ text[4] = "store"
  BY DEF NixStore
<1>. HIDE DEF text
<1>2. \A k \in 1..2 : k = 1 \/ k = 2
  OBVIOUS
<1>3. \A k \in 1..2 : text[2 * k - 1] = "/" /\ text[2 * k] \notin {"/", "."}
  BY <1>1, <1>2
<1>4. /\ Components(text) \in Seq(S) /\ Len(Components(text)) = 2
      /\ \A k \in 1..2 : Components(text)[k] = text[2 * k]
  <2>1. Len(text) = 2 * 2
    BY <1>1
  <2>. HIDE DEF S
  <2>. QED
    BY <1>1, <1>3, <2>1, ComponentsOf
<1>5. Components(text)[1] = "nix" /\ Components(text)[2] = "store"
  BY <1>1, <1>4
<1>. QED
  BY <1>1, <1>4, <1>5 DEF text

\* Whatever is mounted elsewhere than the store is not in it, nor is the store in it.
LEMMA ElsewhereThanStore ==
  ASSUME NEW text, ~Overlaps(text, NixStore)
  PROVE  /\ text # <<"/">>
         /\ Components(text) # Components(NixStore)
         /\ \A name \in StoreNames : Components(text) # Components(StorePath(name))
<1>. DEFINE c == Components(NixStore)
<1>1. c \in Seq({"/", "nix", "store"}) /\ Len(c) = 2 /\ c[1] = "nix" /\ c[2] = "store"
  BY NixStoreIs
<1>2. ~IsPrefix(c, Components(text)) /\ ~IsPrefix(Components(text), c)
  BY DEF Overlaps
<1>. HIDE DEF c
<1>3. text # <<"/">>
  <2>1. SUFFICES ASSUME text = <<"/">> PROVE FALSE
    OBVIOUS
  <2>2. text \in Seq({"/"}) /\ Len(text) = 1 /\ text[1] = "/"
    BY <2>1
  <2>3. PICK h : /\ h[0] = <<>> /\ h[1] = Components(text)
                 /\ \A k \in 1..1 : h[k] = Taken(h[k - 1], text[k])
    BY <2>2, ComponentsAre
  <2>4. h[1] = <<>>
    BY <2>2, <2>3 DEF Taken
  <2>5. IsPrefix(<<>>, c)
    <3>1. Len(<<>>) <= Len(c) /\ SubSeq(<<>>, 1, 0) = <<>> /\ SubSeq(c, 1, 0) = <<>>
      BY <1>1
    <3>. QED
      BY <3>1 DEF IsPrefix
  <2>. QED
    BY <1>2, <2>3, <2>4, <2>5
<1>4. Components(text) # c
  <2>1. IsPrefix(c, c)
    BY <1>1 DEF IsPrefix
  <2>. QED
    BY <1>2, <2>1
<1>5. ASSUME NEW name \in StoreNames PROVE Components(text) # Components(StorePath(name))
  <2>. DEFINE S == {"/", "nix", "store", name}
              d == Components(StorePath(name))
  <2>1. d \in Seq(S) /\ Len(d) = 3 /\ d[1] = "nix" /\ d[2] = "store"
    BY StorePathIs
  <2>2. c \in Seq(S)
    BY <1>1, SeqMonotonic
  <2>. HIDE DEF S, d
  <2>3. IsPrefix(c, d)
    <3>1. /\ SubSeq(d, 1, 2) \in Seq(S) /\ Len(SubSeq(d, 1, 2)) = 2
          /\ \A i \in 1..2 : SubSeq(d, 1, 2)[i] = d[i]
          /\ IsPrefix(SubSeq(d, 1, 2), d)
      BY <2>1, FirstOf
    <3>2. \A i \in 1..2 : i = 1 \/ i = 2
      OBVIOUS
    <3>3. SubSeq(d, 1, 2) = c
      BY <1>1, <2>1, <2>2, <3>1, <3>2, SeqEqual
    <3>. QED
      BY <3>1, <3>3
  <2>. QED
    BY <1>2, <2>3 DEF d
<1>. QED
  BY <1>3, <1>4, <1>5 DEF c

-----------------------------------------------------------------------------
(***************************************************************************)
(* The mounts that the runtime gets.                                       *)
(***************************************************************************)
LEMMA SetToSeqIs ==
  ASSUME NEW S, IsFiniteSet(S)
  PROVE  LET s == SetToSeq(S)
         IN /\ Cardinality(S) \in Nat /\ s \in [1..Cardinality(S) -> S]
            /\ \A i, j \in 1..Cardinality(S) : s[i] = s[j] => i = j
            /\ \A x \in S : \E i \in 1..Cardinality(S) : s[i] = x
<1>. DEFINE n == Cardinality(S)
            s == SetToSeq(S)
<1>1. n \in Nat /\ ExistsBijection(1..n, S)
  BY FS_CardinalityType
<1>2. \E f \in [1..n -> S] : IsInjective(f)
  BY <1>1 DEF ExistsBijection, Bijection, Injection
<1>3. s \in [1..n -> S] /\ IsInjective(s)
  BY <1>2 DEF SetToSeq
<1>. HIDE DEF s
<1>4. s \in Injection(1..n, S)
  BY <1>3 DEF Injection
<1>5. IsFiniteSet(1..n) /\ Cardinality(1..n) = n
  BY <1>1, FS_Interval
<1>6. s \in Surjection(1..n, S)
  BY <1>4, <1>5, FS_Injection
<1>7. \A x \in S : \E i \in 1..n : s[i] = x
  BY <1>6 DEF Surjection
<1>8. \A i, j \in 1..n : s[i] = s[j] => i = j
  BY <1>4, Fun_InjectionProperties
<1>. QED
  BY <1>1, <1>3, <1>7, <1>8 DEF s

Itself(path) == Bind([destination |-> path, source |-> path])

\* A store path is mounted where it is.
LEMMA ItselfIs ==
  \A path : /\ Itself(path).destination = path /\ Itself(path).source = path
            /\ Itself(path).kind = "bind"
  BY DEF Itself, Bind

\* Finitely many paths have finitely many mounts.
LEMMA ImageIsFinite ==
  ASSUME NEW P, IsFiniteSet(P) PROVE IsFiniteSet({Itself(path) : path \in P})
<1>. DEFINE Q == {Itself(path) : path \in P}
            f == [path \in P |-> Itself(path)]
<1>1. f \in Surjection(P, Q)
  <2>1. f \in [P -> Q] /\ \A q \in Q : \E path \in P : f[path] = q
    OBVIOUS
  <2>. HIDE DEF f, Q
  <2>. QED
    BY <2>1, Fun_IsSurj
<1>. HIDE DEF f, Q
<1>2. IsFiniteSet(Q)
  BY <1>1, FS_Surjection
<1>. QED
  BY <1>2 DEF Q

\* The mounts of the projection: all of the store, or a tmpfs and each path once.
LEMMA ProjectionIs ==
  ASSUME NEW kind, NEW root, NEW paths, IsFiniteSet(paths)
  PROVE  LET p == Projection(kind, root, paths)
         IN /\ p \in Seq(Range(p)) /\ Len(p) \in Nat \ {0}
            /\ p[1].destination = NixStore
            /\ kind = "node" => Len(p) = 1 /\ p[1].kind = "bind" /\ p[1].source = NixStore
            /\ kind # "node" => p[1].kind = "tmpfs"
            /\ \A i \in 2..Len(p) : \E path \in paths \ {root} : p[i] = Itself(path)
            /\ \A i, j \in 2..Len(p) : p[i] = p[j] => i = j
            /\ kind # "node" => \A path \in paths \ {root} : \E i \in 2..Len(p) : p[i] = Itself(path)
<1>. DEFINE p == Projection(kind, root, paths)
<1>1. CASE kind = "node"
  <2>. DEFINE e == [destination |-> NixStore, source |-> NixStore, kind |-> "bind"]
  <2>1. p = <<e>>
    BY <1>1 DEF Projection
  <2>2. e.destination = NixStore /\ e.source = NixStore /\ e.kind = "bind"
    OBVIOUS
  <2>. HIDE DEF e, p
  <2>3. p \in Seq(Range(p)) /\ Len(p) = 1 /\ p[1] = e
    BY <2>1 DEF Range
  <2>4. 2..Len(p) = {}
    BY <2>3
  <2>. QED
    BY <1>1, <2>2, <2>3, <2>4 DEF p
<1>2. CASE kind # "node"
  <2>. DEFINE e == [destination |-> NixStore, source |-> <<>>, kind |-> "tmpfs"]
              P == paths \ {root}
              Q == {Itself(path) : path \in P}
              s == SetToSeq(Q)
              n == Cardinality(Q)
              U == Q \cup {e}
  <2>1. p = <<e>> \o s
    BY <1>2 DEF Projection, Itself
  <2>2. e.destination = NixStore /\ e.kind = "tmpfs"
    OBVIOUS
  <2>3. IsFiniteSet(Q)
    <3>1. IsFiniteSet(P)
      BY FS_Subset
    <3>. HIDE DEF P
    <3>. QED
      BY <3>1, ImageIsFinite
  <2>4. \A path \in P : Itself(path) \in Q
    OBVIOUS
  <2>5. \A q \in Q : \E path \in P : q = Itself(path)
    OBVIOUS
  <2>. HIDE DEF e, p, Q, P
  <2>6. /\ n \in Nat /\ s \in [1..n -> Q]
        /\ \A i, j \in 1..n : s[i] = s[j] => i = j
        /\ \A x \in Q : \E i \in 1..n : s[i] = x
    BY <2>3, SetToSeqIs
  <2>. HIDE DEF n, s
  <2>7. s \in Seq(U) /\ Len(s) = n /\ <<e>> \in Seq(U) /\ Len(<<e>>) = 1 /\ <<e>>[1] = e
    BY <2>6
  <2>8. /\ p \in Seq(U) /\ Len(p) = n + 1 /\ p[1] = e
        /\ \A i \in 2..(n + 1) : p[i] = s[i - 1]
    <3>1. /\ <<e>> \o s \in Seq(U) /\ Len(<<e>> \o s) = Len(<<e>>) + Len(s)
          /\ \A i \in 1..(Len(<<e>>) + Len(s)) :
               (<<e>> \o s)[i] = IF i <= Len(<<e>>) THEN <<e>>[i] ELSE s[i - Len(<<e>>)]
      <4>. HIDE DEF U
      <4>. QED
        BY <2>7, ConcatProperties
    <3>. HIDE DEF U
    <3>. QED
      BY <2>1, <2>6, <2>7, <3>1
  <2>9. p \in Seq(Range(p))
    BY <2>8 DEF Range
  <2>10. \A i \in 2..(n + 1) : i - 1 \in 1..n
    BY <2>6
  <2>11. \A i \in 2..Len(p) : \E path \in P : p[i] = Itself(path)
    BY <2>5, <2>6, <2>8, <2>10
  <2>12. \A i, j \in 2..Len(p) : p[i] = p[j] => i = j
    <3>1. SUFFICES ASSUME NEW i \in 2..Len(p), NEW j \in 2..Len(p), p[i] = p[j] PROVE i = j
      OBVIOUS
    <3>2. i - 1 = j - 1
      BY <2>6, <2>8, <2>10, <3>1
    <3>. QED
      BY <2>8, <2>6, <3>2
  <2>13. \A path \in P : \E i \in 2..Len(p) : p[i] = Itself(path)
    <3>1. SUFFICES ASSUME NEW path \in P PROVE \E i \in 2..Len(p) : p[i] = Itself(path)
      OBVIOUS
    <3>2. PICK k \in 1..n : s[k] = Itself(path)
      BY <2>4, <2>6
    <3>3. k + 1 \in 2..(n + 1) /\ (k + 1) - 1 = k
      BY <2>6
    <3>4. p[k + 1] = Itself(path)
      BY <2>8, <3>2, <3>3
    <3>. QED
      BY <2>8, <3>3, <3>4
  <2>14. Len(p) \in Nat \ {0} /\ p[1] = e
    BY <2>6, <2>8
  <2>. QED
    BY <1>2, <2>2, <2>9, <2>11, <2>12, <2>13, <2>14 DEF p, P
<1>. QED
  BY <1>1, <1>2

\* Distinct values are at distinct places.
LEMMA DistinctIs ==
  ASSUME NEW n \in Nat, NEW f, f = [i \in 1..n |-> f[i]], Distinct(f)
  PROVE  \A i, j \in 1..n : f[i] = f[j] => i = j
<1>1. f \in [1..n -> Range(f)]
  BY DEF Range
<1>2. f \in Surjection(1..n, Range(f))
  BY <1>1, Fun_RangeProperties
<1>3. IsFiniteSet(1..n) /\ Cardinality(1..n) = n
  BY FS_Interval
<1>4. Len(f) = n
  <2>1. f \in Seq(Range(f)) /\ DOMAIN f = 1..n
    BY <1>1
  <2>. QED
    BY <2>1, LenProperties
<1>5. f \in Injection(1..n, Range(f))
  BY <1>2, <1>3, <1>4, FS_Surjection DEF Distinct
<1>. QED
  BY <1>5, Fun_InjectionProperties

PlacesOf(w) == {Components(w.mounts[i].destination) : i \in DOMAIN w.mounts}

BoundIn(w, path) ==
  \E i \in DOMAIN w.mounts :
    /\ w.mounts[i].kind = "bind" /\ w.mounts[i].source = path /\ w.mounts[i].destination = path
    /\ \A j \in i + 1..Len(w.mounts) : w.mounts[j].kind # "tmpfs"

\* What Rewritten makes of a bundle that mounts nothing twice.
LEMMA RewrittenIsWhole ==
  ASSUME NEW c, NEW r, NEW kind, NEW paths, IsFiniteSet(paths),
         SpelledMounts(c.mounts), SpelledMounts(r.mounts),
         \A i, j \in DOMAIN c.mounts :
           Components(c.mounts[i].destination) = Components(c.mounts[j].destination) => i = j,
         NEW name \in StoreNames, r.rootfs = StorePath(name),
         \A path \in paths : ValidStorePath(path),
         NEW w, w = Rewritten(c, r, kind, paths), w # None
  PROVE  /\ w.root = r.rootfs /\ ~BoundIn(w, w.root)
         /\ Cardinality(PlacesOf(w)) = Len(w.mounts)
         /\ IsPrefix(c.mounts, w.mounts)
         /\ \A i \in DOMAIN r.mounts : \E j \in DOMAIN w.mounts :
              /\ w.mounts[j].source = r.mounts[i].source
              /\ w.mounts[j].destination = r.mounts[i].destination
         /\ BoundIn(w, NixStore) \/ \A path \in paths \ {w.root} : BoundIn(w, path)
<1>. DEFINE b == c.mounts
            m == r.mounts
            rb == [i \in DOMAIN m |-> Bind(m[i])]
            front == b \o rb
            p == Projection(kind, r.rootfs, paths)
            all == front \o p
            nb == Len(b)
            nm == Len(m)
            nf == nb + nm
            np == Len(p)
            n == nf + np
            U == Range(b) \cup Range(rb) \cup Range(p)
            Dest(i) == all[i].destination
            Places == {Components(Dest(i)) : i \in 1..n}
<1>1. /\ w.root = r.rootfs /\ w.mounts = all
      /\ ~MountsCollide(c, m) /\ ~ProjectionRefused(front)
  BY DEF Rewritten
<1>2. /\ b \in Seq(U) /\ nb \in Nat /\ DOMAIN b = 1..nb
      /\ \A i \in 1..nb : Spelled(b[i].destination)
  <2>1. b \in Seq(Range(b)) /\ \A i \in DOMAIN b : Spelled(b[i].destination)
    BY DEF SpelledMounts
  <2>2. b \in Seq(U)
    BY <2>1, SeqMonotonic
  <2>. HIDE DEF b, U
  <2>. QED
    BY <2>1, <2>2, LenProperties
<1>3. /\ nm \in Nat /\ DOMAIN m = 1..nm
      /\ \A i \in 1..nm : Spelled(m[i].destination)
  <2>1. m \in Seq(Range(m)) /\ \A i \in DOMAIN m : Spelled(m[i].destination)
    BY DEF SpelledMounts
  <2>. HIDE DEF m
  <2>. QED
    BY <2>1, LenProperties
<1>4. /\ rb \in Seq(U) /\ Len(rb) = nm
      /\ \A i \in 1..nm : /\ rb[i].destination = m[i].destination /\ rb[i].source = m[i].source
                          /\ rb[i].kind = "bind"
  <2>1. rb = [i \in 1..nm |-> Bind(m[i])] /\ nm \in Nat
    BY <1>3
  <2>2. \A i \in 1..nm : rb[i] = Bind(m[i])
    BY <1>3
  <2>. HIDE DEF rb, nm, m
  <2>3. rb \in Seq(Range(rb)) /\ Len(rb) = nm
    BY <2>1 DEF Range
  <2>4. Range(rb) \subseteq U
    OBVIOUS
  <2>. HIDE DEF U
  <2>5. rb \in Seq(U)
    BY <2>3, <2>4, SeqMonotonic
  <2>. QED
    BY <2>2, <2>3, <2>5 DEF Bind
<1>5. /\ p \in Seq(U) /\ np \in Nat \ {0}
      /\ p[1].destination = NixStore
      /\ kind = "node" => np = 1 /\ p[1].kind = "bind" /\ p[1].source = NixStore
      /\ kind # "node" => p[1].kind = "tmpfs"
      /\ \A i \in 2..np : \E path \in paths \ {r.rootfs} : p[i] = Itself(path)
      /\ \A i, j \in 2..np : p[i] = p[j] => i = j
      /\ kind # "node" => \A path \in paths \ {r.rootfs} : \E i \in 2..np : p[i] = Itself(path)
  <2>1. /\ p \in Seq(Range(p)) /\ np \in Nat \ {0}
        /\ p[1].destination = NixStore
        /\ kind = "node" => np = 1 /\ p[1].kind = "bind" /\ p[1].source = NixStore
        /\ kind # "node" => p[1].kind = "tmpfs"
        /\ \A i \in 2..np : \E path \in paths \ {r.rootfs} : p[i] = Itself(path)
        /\ \A i, j \in 2..np : p[i] = p[j] => i = j
        /\ kind # "node" => \A path \in paths \ {r.rootfs} : \E i \in 2..np : p[i] = Itself(path)
    BY ProjectionIs
  <2>. HIDE DEF p
  <2>2. p \in Seq(U)
    BY <2>1, SeqMonotonic
  <2>. HIDE DEF U
  <2>. QED
    BY <2>1, <2>2
<1>. HIDE DEF b, m, rb, p, U, nb, nm, np
<1>6. /\ front \in Seq(U) /\ Len(front) = nf
      /\ \A i \in 1..nb : front[i] = b[i]
      /\ \A i \in nb + 1..nf : front[i] = rb[i - nb]
  <2>1. /\ front \in Seq(U) /\ Len(front) = Len(b) + Len(rb)
        /\ \A i \in 1..(Len(b) + Len(rb)) : front[i] = IF i <= Len(b) THEN b[i] ELSE rb[i - Len(b)]
    BY <1>2, <1>4, ConcatProperties
  <2>2. Len(b) = nb
    BY DEF nb
  <2>. HIDE DEF front
  <2>. QED
    BY <1>2, <1>3, <1>4, <2>1, <2>2
<1>. HIDE DEF front
<1>7. /\ all \in Seq(U) /\ Len(all) = n /\ DOMAIN all = 1..n
      /\ \A i \in 1..nf : all[i] = front[i]
      /\ \A i \in nf + 1..n : all[i] = p[i - nf]
  <2>1. /\ all \in Seq(U) /\ Len(all) = Len(front) + Len(p)
        /\ \A i \in 1..(Len(front) + Len(p)) :
             all[i] = IF i <= Len(front) THEN front[i] ELSE p[i - Len(front)]
    <3>1. front \in Seq(U) /\ p \in Seq(U)
      BY <1>5, <1>6
    <3>. QED
      BY <3>1, ConcatProperties
  <2>2. Len(p) = np
    BY DEF np
  <2>. HIDE DEF all
  <2>3. DOMAIN all = 1..Len(all)
    BY <2>1, LenProperties
  <2>. QED
    BY <1>2, <1>3, <1>5, <1>6, <2>1, <2>2, <2>3
<1>. HIDE DEF all
<1>8. ASSUME NEW i \in 1..nf
      PROVE  NormalizedDestination(Dest(i)) /\ ~Overlaps(Dest(i), NixStore) /\ Spelled(Dest(i))
  <2>1. front[i].destination \in Destinations(front)
    <3>1. i \in DOMAIN front
      BY <1>6, LenProperties
    <3>. QED
      BY <3>1 DEF Destinations
  <2>2. NormalizedDestination(Dest(i)) /\ ~Overlaps(Dest(i), NixStore)
    BY <1>1, <1>7, <2>1 DEF ProjectionRefused
  <2>3. CASE i \in 1..nb
    BY <1>2, <1>6, <1>7, <2>2, <2>3
  <2>4. CASE i \notin 1..nb
    <3>1. i \in nb + 1..nf /\ i - nb \in 1..nm
      BY <1>2, <1>3, <2>4
    <3>. QED
      BY <1>3, <1>4, <1>6, <1>7, <2>2, <3>1
  <2>. QED
    BY <2>3, <2>4
<1>9. ASSUME NEW i \in 1..nf, NEW j \in 1..nf, Dest(i) = Dest(j) PROVE i = j
  <2>1. ASSUME NEW k \in 1..nf, k \notin 1..nb
        PROVE  k - nb \in 1..nm /\ Dest(k) = m[k - nb].destination
    <3>1. k \in nb + 1..nf /\ k - nb \in 1..nm
      BY <1>2, <1>3, <2>1
    <3>. QED
      BY <1>4, <1>6, <1>7, <3>1
  <2>2. ASSUME NEW k \in 1..nb PROVE Dest(k) = b[k].destination /\ k \in DOMAIN c.mounts
    <3>1. k \in 1..nf
      BY <1>2, <1>3
    <3>. QED
      BY <1>2, <1>6, <1>7, <3>1 DEF b
  <2>3. ASSUME NEW k \in 1..nb, NEW l \in 1..nf, l \notin 1..nb PROVE Dest(k) # Dest(l)
    <3>1. m[l - nb].destination \notin Destinations(c.mounts)
      BY <1>1, <1>3, <2>1, <2>3 DEF MountsCollide
    <3>2. Dest(k) \in Destinations(c.mounts)
      BY <2>2 DEF Destinations, b
    <3>. QED
      BY <2>1, <2>3, <3>1, <3>2
  <2>4. CASE i \in 1..nb /\ j \in 1..nb
    BY <1>9, <2>2, <2>4 DEF b
  <2>5. CASE i \notin 1..nb /\ j \notin 1..nb
    <3>. DEFINE f == [k \in 1..nm |-> m[k].destination]
    <3>1. Distinct(f)
      BY <1>1, <1>3 DEF MountsCollide
    <3>2. f = [k \in 1..nm |-> f[k]] /\ \A k \in 1..nm : f[k] = m[k].destination
      OBVIOUS
    <3>. HIDE DEF f
    <3>3. \A k, l \in 1..nm : f[k] = f[l] => k = l
      BY <1>3, <3>1, <3>2, DistinctIs
    <3>4. i - nb = j - nb
      BY <1>9, <2>1, <2>5, <3>2, <3>3
    <3>. QED
      BY <1>2, <3>4
  <2>. QED
    BY <1>9, <2>3, <2>4, <2>5
<1>10. ASSUME NEW i \in 1..nf, NEW j \in 1..nf, Components(Dest(i)) = Components(Dest(j)) PROVE i = j
  <2>. DEFINE x == Dest(i)
              y == Dest(j)
              S == Range(x) \cup Range(y)
  <2>1. /\ NormalizedDestination(x) /\ ~Overlaps(x, NixStore) /\ Spelled(x)
        /\ NormalizedDestination(y) /\ ~Overlaps(y, NixStore) /\ Spelled(y)
    BY <1>8
  <2>2. Components(x) = Components(y)
    BY <1>10
  <2>. HIDE DEF x, y
  <2>3. x \in Seq(S) /\ y \in Seq(S)
    <3>1. x \in Seq(Range(x)) /\ y \in Seq(Range(y))
      BY <2>1 DEF Spelled
    <3>. QED
      BY <3>1, SeqMonotonic
  <2>. HIDE DEF S
  <2>4. x # <<"/">> /\ y # <<"/">>
    BY <2>1, ElsewhereThanStore
  <2>5. PICK k \in Nat : Turns(x, k)
    BY <2>1, <2>3, <2>4, NormalTurns
  <2>6. PICK l \in Nat : Turns(y, l)
    BY <2>1, <2>3, <2>4, NormalTurns
  <2>7. x = y
    BY <2>2, <2>3, <2>5, <2>6, ElsewhereIs
  <2>. QED
    BY <1>9, <2>7 DEF x, y
<1>11. /\ nf + 1 \in nf + 1..n /\ all[nf + 1] = p[1] /\ Dest(nf + 1) = NixStore
  <2>1. nf + 1 \in nf + 1..n /\ (nf + 1) - nf = 1
    BY <1>2, <1>3, <1>5
  <2>. QED
    BY <1>5, <1>7, <2>1
<1>12. ASSUME NEW i \in nf + 2..n
       PROVE  /\ i - nf \in 2..np /\ all[i] = p[i - nf]
              /\ \E path \in paths \ {r.rootfs} : all[i] = Itself(path)
              /\ \E x \in StoreNames : Dest(i) = StorePath(x) /\ all[i] = Itself(StorePath(x))
              /\ Dest(i) # r.rootfs /\ all[i].kind = "bind"
  <2>1. i - nf \in 2..np /\ i \in nf + 1..n
    BY <1>2, <1>3, <1>5
  <2>2. all[i] = p[i - nf]
    BY <1>7, <2>1
  <2>3. PICK path \in paths \ {r.rootfs} : all[i] = Itself(path)
    BY <1>5, <2>1, <2>2
  <2>4. PICK x \in StoreNames : path = StorePath(x)
    BY DEF ValidStorePath
  <2>5. Dest(i) = path /\ all[i].kind = "bind"
    BY <2>3, ItselfIs
  <2>. QED
    BY <2>1, <2>2, <2>3, <2>4, <2>5
<1>13. ASSUME NEW i \in nf + 1..n PROVE i = nf + 1 \/ i \in nf + 2..n
  BY <1>2, <1>3, <1>5
<1>14. ASSUME NEW i \in 1..nf, NEW j \in nf + 1..n PROVE Components(Dest(i)) # Components(Dest(j))
  <2>1. /\ Components(Dest(i)) # Components(NixStore)
        /\ \A x \in StoreNames : Components(Dest(i)) # Components(StorePath(x))
    BY <1>8, ElsewhereThanStore
  <2>. QED
    BY <1>11, <1>12, <1>13, <2>1
<1>15. ASSUME NEW i \in nf + 1..n, NEW j \in nf + 1..n, Components(Dest(i)) = Components(Dest(j))
       PROVE  i = j
  <2>1. ASSUME NEW k \in nf + 2..n PROVE Components(Dest(k)) # Components(NixStore)
    <3>1. PICK x \in StoreNames : Dest(k) = StorePath(x)
      BY <1>12
    <3>2. Len(Components(StorePath(x))) = 3
      BY StorePathIs
    <3>3. Len(Components(NixStore)) = 2
      BY NixStoreIs
    <3>4. Components(StorePath(x)) # Components(NixStore)
      BY <3>2, <3>3
    <3>. QED
      BY <3>1, <3>4
  <2>2. CASE i \in nf + 2..n /\ j \in nf + 2..n
    <3>1. PICK x \in StoreNames : Dest(i) = StorePath(x) /\ all[i] = Itself(StorePath(x))
      BY <1>12, <2>2
    <3>2. PICK y \in StoreNames : Dest(j) = StorePath(y) /\ all[j] = Itself(StorePath(y))
      BY <1>12, <2>2
    <3>3. Components(StorePath(x))[3] = x
      BY StorePathIs
    <3>4. Components(StorePath(y))[3] = y
      BY StorePathIs
    <3>5. x = y
      BY <1>15, <3>1, <3>2, <3>3, <3>4
    <3>6. i - nf \in 2..np /\ j - nf \in 2..np /\ p[i - nf] = p[j - nf]
      BY <1>12, <2>2, <3>1, <3>2, <3>5
    <3>7. i - nf = j - nf
      BY <1>5, <3>6
    <3>. QED
      BY <1>2, <1>3, <3>7
  <2>. QED
    BY <1>11, <1>13, <1>15, <2>1, <2>2
<1>16. \A i, j \in 1..n : Components(Dest(i)) = Components(Dest(j)) => i = j
  <2>1. \A i \in 1..n : i \in 1..nf \/ i \in nf + 1..n
    BY <1>2, <1>3, <1>5
  <2>. HIDE DEF Dest
  <2>. QED
    BY <1>10, <1>14, <1>15, <2>1
<1>17. Cardinality(Places) = n
  <2>. DEFINE f == [i \in 1..n |-> Components(Dest(i))]
  <2>1. f \in [1..n -> Places] /\ \A x \in Places : \E i \in 1..n : f[i] = x
    OBVIOUS
  <2>2. \A i, j \in 1..n : f[i] = f[j] => i = j
    BY <1>16
  <2>3. n \in Nat
    BY <1>2, <1>3, <1>5
  <2>. HIDE DEF f, Places, n
  <2>4. f \in Bijection(1..n, Places)
    BY <2>1, <2>2, Fun_IsBij
  <2>5. IsFiniteSet(1..n) /\ Cardinality(1..n) = n
    BY <2>3, FS_Interval
  <2>6. ExistsBijection(1..n, Places)
    BY <2>4 DEF ExistsBijection
  <2>. QED
    BY <2>5, <2>6, FS_Bijection
<1>18. PlacesOf(w) = Places /\ Len(w.mounts) = n
  BY <1>1, <1>7 DEF PlacesOf
<1>19. IsPrefix(b, all)
  <2>1. nb \in 0..Len(all) /\ \A i \in 1..nb : all[i] = b[i]
    <3>1. nb \in 0..n /\ \A i \in 1..nb : i \in 1..nf
      BY <1>2, <1>3, <1>5
    <3>. QED
      BY <1>6, <1>7, <3>1
  <2>2. /\ SubSeq(all, 1, nb) \in Seq(U) /\ Len(SubSeq(all, 1, nb)) = nb
        /\ \A i \in 1..nb : SubSeq(all, 1, nb)[i] = all[i]
        /\ IsPrefix(SubSeq(all, 1, nb), all)
    BY <1>7, <2>1, FirstOf
  <2>3. SubSeq(all, 1, nb) = b
    <3>1. Len(b) = nb
      BY DEF nb
    <3>. QED
      BY <1>2, <2>1, <2>2, <3>1, SeqEqual
  <2>. QED
    BY <2>2, <2>3
<1>20. ASSUME NEW i \in DOMAIN m
       PROVE  \E j \in 1..n : all[j].source = m[i].source /\ all[j].destination = m[i].destination
  <2>1. nb + i \in 1..nf /\ nb + i \in nb + 1..nf /\ (nb + i) - nb = i /\ i \in 1..nm /\ nb + i \in 1..n
    BY <1>2, <1>3, <1>5
  <2>. QED
    BY <1>4, <1>6, <1>7, <2>1
<1>21. ASSUME NEW i \in 1..n PROVE Dest(i) # r.rootfs
  <2>1. CASE i \in 1..nf
    <3>1. Components(Dest(i)) # Components(StorePath(name))
      BY <1>8, <2>1, ElsewhereThanStore
    <3>. QED
      BY <3>1
  <2>2. CASE i \in nf + 2..n
    BY <1>12, <2>2
  <2>3. CASE i = nf + 1
    <3>1. Len(StorePath(name)) = 6
      BY StorePathIs
    <3>2. Len(NixStore) = 4
      BY NixStoreIs
    <3>3. StorePath(name) # NixStore
      BY <3>1, <3>2
    <3>. QED
      BY <1>11, <2>3, <3>3
  <2>. QED
    BY <1>2, <1>3, <1>5, <2>1, <2>2, <2>3
<1>22. ~BoundIn(w, w.root)
  BY <1>1, <1>7, <1>21 DEF BoundIn
<1>23. kind = "node" => BoundIn(w, NixStore)
  <2>1. SUFFICES ASSUME kind = "node" PROVE BoundIn(w, NixStore)
    OBVIOUS
  <2>2. /\ nf + 1 \in 1..n /\ all[nf + 1].kind = "bind" /\ all[nf + 1].source = NixStore
        /\ all[nf + 1].destination = NixStore
    BY <1>2, <1>3, <1>5, <1>11, <2>1
  <2>3. (nf + 1) + 1..n = {}
    BY <1>2, <1>3, <1>5, <2>1
  <2>. QED
    BY <1>1, <1>7, <2>2, <2>3 DEF BoundIn
<1>24. ASSUME kind # "node", NEW path \in paths \ {r.rootfs} PROVE BoundIn(w, path)
  <2>1. PICK k \in 2..np : p[k] = Itself(path)
    BY <1>5, <1>24
  <2>2. nf + k \in nf + 2..n /\ (nf + k) - nf = k /\ nf + k \in 1..n
        /\ \A j \in (nf + k) + 1..n : j \in nf + 2..n
    BY <1>2, <1>3, <1>5
  <2>3. all[nf + k] = Itself(path)
    BY <1>12, <2>1, <2>2
  <2>4. all[nf + k].kind = "bind" /\ all[nf + k].source = path /\ all[nf + k].destination = path
    BY <2>3, ItselfIs
  <2>5. \A j \in (nf + k) + 1..n : all[j].kind # "tmpfs"
    BY <1>12, <2>2
  <2>. QED
    BY <1>1, <1>7, <2>2, <2>4, <2>5 DEF BoundIn
<1>. QED
  BY <1>1, <1>7, <1>17, <1>18, <1>19, <1>20, <1>22, <1>23, <1>24 DEF b, m

\* What the node is given: a pod of one of the two authors, and a bundle.
Given ==
  /\ author = "by hand" => pod \in Handwritten
  /\ stage \in Requested /\ request.purpose = "runtime" => bundle \in Bundles

\* Nobody rewrites the pod, nor the bundle that the runtime was given.
LEMMA NextGiven == ASSUME Given, [Next]_vars PROVE Given'
<1>1. ASSUME UNCHANGED <<author, pod, stage, request, bundle>> PROVE Given'
  BY <1>1 DEF Given
<1>2. CASE AuthorStep /\ UNCHANGED <<stage, answerVars, bundleVars>>
  <2>1. author' # "by hand"
    BY <1>2 DEF AuthorStep, ParseRun, Pin, Pack, PushImage, Emit, Examine
  <2>. QED
    BY <1>2, <2>1 DEF Given, answerVars, bundleVars
<1>3. CASE NodeStep /\ UNCHANGED authorVars
  <2>1. author' = "by hand" => pod' \in Handwritten
    BY <1>3 DEF Given, authorVars
  <2>2. CASE Select
    <3>1. stage' \in Requested => bundle' \in Bundles
      BY <2>2 DEF Select
    <3>. QED
      BY <2>1, <3>1 DEF Given
  <2>3. ASSUME NEW purpose \in {"prewarm", "inspect"}, Ask(purpose) PROVE Given'
    <3>1. request' = Request(purpose, Selected(pod.annotations.release), None)
      BY <2>3 DEF Ask
    <3>2. request'.purpose = purpose
      BY <3>1 DEF Request, Selected
    <3>. QED
      BY <2>1, <2>3, <3>2 DEF Given
  <2>4. CASE Again
    BY <2>1, <2>4 DEF Again, Given, Requested, Admitted, Realised, Late
  <2>5. CASE Validate \/ Fetch \/ Realise \/ Prepare \/ Write \/ Rename \/ Sync \/ Query
    <3>1. request' = request /\ bundle' = bundle /\ stage \in Requested
      BY <2>5 DEF Validate, Fetch, Realise, Prepare, Write, Rename, Sync, Query, answerVars, bundleVars,
                  Requested, Admitted, Realised, Late
    <3>. QED
      BY <2>1, <3>1 DEF Given
  <2>. QED
    BY <1>3, <2>2, <2>3, <2>4, <2>5 DEF NodeStep
<1>. QED
  BY <1>1, <1>2, <1>3 DEF Next, vars, authorVars, answerVars, bundleVars

\* Every pod has the annotations that a plan reads.
LEMMA AnnotationsAre ==
  ASSUME Authored, Given, pod # None
  PROVE  DOMAIN pod.annotations = DOMAIN NoAnnotations
<1>1. CASE author = "by hand"
  BY <1>1, AnnotationsAssumption DEF Given
<1>2. CASE author = "emitted"
  <2>1. pod.annotations = PodAnnotations
    BY <1>2, PodIs
  <2>2. DOMAIN PodAnnotations = DOMAIN NoAnnotations
    BY DEF PodAnnotations
  <2>. QED
    BY <2>1, <2>2
<1>. QED
  BY <1>1, <1>2 DEF Authored

\* A plan for a release is for the release that is annotated.
LEMMA PlannedRelease ==
  ASSUME NEW a, NEW default, Plan(a, default).kind = "release"
  PROVE  a.release \notin {None, Malformed} /\ Plan(a, default) = Selected(a.release)
  BY DEF Plan, Pass, Refuse, Selected, Evaluable, ValidRelease

\* A release that is asked for is the one that the pod names.
LEMMA NamedRelease ==
  ASSUME Authored, Given, Legit, pod # None, request.kind = "release"
  PROVE  request.release = pod.annotations.release /\ request.release \notin {None, Malformed}
<1>. DEFINE a == Carried(pod.annotations)
            b == [a EXCEPT !.source = EmbeddedSource]
<1>1. CASE /\ pod.annotations.release \notin {None, Malformed}
           /\ \E purpose \in {"prewarm", "inspect"} :
                request = Request(purpose, Selected(pod.annotations.release), None)
  BY <1>1 DEF Request, Selected
<1>2. CASE request = Request("runtime", Selection, Carried(pod.annotations).name)
  <2>1. Selection.kind = "release" /\ request.release = Selection.release
    BY <1>2 DEF Request
  <2>2. a.release = IF "release" \in node.carries THEN pod.annotations.release ELSE None
    BY AnnotationsAre DEF Carried, NoAnnotations
  <2>3. b.release = a.release
    <3>. HIDE DEF a
    <3>. QED
      OBVIOUS
  <2>4. Selection = IF a.release # None \/ a.source # None \/ Embedded(pod.image) = "plain"
                    THEN Plan(a, "rootfs")
                    ELSE IF Embedded(pod.image) = "symlink" THEN Refuse ELSE Plan(b, "rootfs")
    BY DEF Selection, ExpansionRequest
  <2>. HIDE DEF a, b
  <2>5. Selection = Plan(a, "rootfs") \/ (Selection = Plan(b, "rootfs") /\ a.release = None)
    BY <2>1, <2>4 DEF Refuse
  <2>6. Selection = Selected(a.release) /\ a.release \notin {None, Malformed}
    BY <2>1, <2>3, <2>5, PlannedRelease
  <2>7. Selected(a.release).release = a.release
    BY DEF Selected
  <2>. QED
    BY <2>1, <2>2, <2>6, <2>7
<1>. QED
  BY <1>1, <1>2 DEF Legit

\* So its digest is of a body that somebody may name.
LEMMA BodyIsKnown ==
  ASSUME Authored, Given, Legit, pod # None, request.kind = "release", Found
  PROVE  request.release.digest \in Bodies
<1>. DEFINE d == request.release.digest
<1>1. request.release = pod.annotations.release /\ request.release \notin {None, Malformed}
  BY NamedRelease
<1>2. d \notin {None, Malformed}
  <2>1. SelectFault(request, Policy, d) = None
    BY DEF Found
  <2>2. FetchFault(d) = None
    <3>. HIDE DEF d
    <3>. QED
      BY <2>1, CategoryAssumption DEF SelectFault, Categories, FetchFault
  <2>. HIDE DEF d
  <2>. QED
    BY <2>2, CategoryAssumption DEF FetchFault, Categories
<1>3. CASE author = "by hand"
  BY <1>1, <1>2, <1>3 DEF Given, Bodies
<1>4. CASE author = "emitted"
  <2>1. pod.annotations.release = IF command.release THEN pinned ELSE None
    BY <1>4, PodIs DEF PodAnnotations, NoAnnotations
  <2>2. command.release /\ request.release = pinned
    BY <1>1, <2>1
  <2>3. pinned.digest \in Pointers
    BY <1>4, <2>2 DEF Authored
  <2>. QED
    BY <1>2, <2>2, <2>3 DEF Bodies
<1>. QED
  BY <1>3, <1>4 DEF Authored

\* What the daemon answers is in the store.
LEMMA AnswerIsInStore ==
  ASSUME Authored, Given, NodeInv, stage = "started"
  PROVE  /\ SpelledMounts(resolution.mounts)
         /\ ValidStorePath(resolution.rootfs)
         /\ \A i \in DOMAIN resolution.mounts : ValidStorePath(resolution.mounts[i].source)
<1>1. Answered /\ Legit /\ pod # None
  BY RootIs DEF NodeInv, RequestInv
<1>2. CASE request.kind = "release"
  <2>. DEFINE d == request.release.digest
              t == d.targets[Policy.system]
  <2>1. Found /\ d \in Bodies
    BY <1>1, <1>2, BodyIsKnown DEF Answered
  <2>2. SelectFault(request, Policy, d) = None /\ resolution = Resolution(request.release, d, Policy.system)
    BY <2>1 DEF Found
  <2>3. resolution.rootfs = t.rootfs /\ resolution.mounts = t.mounts
    BY <2>2 DEF Resolution
  <2>. HIDE DEF d
  <2>4. ManifestFault(d, request.release) = None /\ Policy.system \in DOMAIN d.targets
    BY <2>2, CategoryAssumption DEF SelectFault, Categories
  <2>5. ContentFault(d, request.release) = None
    BY <2>4, CategoryAssumption DEF ManifestFault, Categories
  <2>6. d.schema # None /\ \A system \in DOMAIN d.targets : ValidTarget(d.targets[system])
    BY <2>5, CategoryAssumption DEF ContentFault, Categories
  <2>7. SpelledMounts(t.mounts)
    BY <2>1, <2>4, <2>6, MountsAssumption
  <2>8. ValidTarget(t)
    BY <2>4, <2>6
  <2>. HIDE DEF t
  <2>. QED
    BY <2>3, <2>7, <2>8 DEF ValidTarget
<1>3. CASE request.kind # "release"
  <2>1. /\ resolution.mounts = <<>>
        /\ resolution.rootfs \in {StorePath("seed"), StorePath("dev")}
    BY <1>1, <1>3 DEF Answered, Evaluated
  <2>2. SpelledMounts(<<>>)
    BY DEF SpelledMounts
  <2>3. ValidStorePath(resolution.rootfs)
    BY <2>1, StoreAssumption DEF ValidStorePath
  <2>. QED
    BY <2>1, <2>2, <2>3
<1>. QED
  BY <1>2, <1>3

\* The closure of what was found is finite and in the store.
LEMMA ClosureIsInStore ==
  ASSUME Authored, Given, NodeInv, stage = "started"
  PROVE  IsFiniteSet(closure) /\ \A path \in closure : ValidStorePath(path)
<1>. DEFINE m == resolution.mounts
            n == Len(m)
            f == [i \in 1..n |-> m[i].source]
            R == {m[i].source : i \in 1..n}
            P == StorePaths(resolution)
            Q == {Requisites[path] : path \in P}
            g == [path \in P |-> Requisites[path]]
<1>1. /\ m \in Seq(Range(m)) /\ n \in Nat /\ DOMAIN m = 1..n
      /\ ValidStorePath(resolution.rootfs) /\ \A i \in 1..n : ValidStorePath(m[i].source)
  <2>1. m \in Seq(Range(m))
    BY AnswerIsInStore DEF SpelledMounts
  <2>2. n \in Nat /\ DOMAIN m = 1..n
    BY <2>1, LenProperties
  <2>. QED
    BY <2>1, <2>2, AnswerIsInStore
<1>2. closure = UNION Q
  BY DEF NodeInv, BundleInv, Late
<1>3. P = {resolution.rootfs} \cup R
  BY <1>1 DEF StorePaths
<1>4. \A path \in P : ValidStorePath(path)
  BY <1>1, <1>3
<1>5. IsFiniteSet(P)
  <2>1. f \in [1..n -> R] /\ \A x \in R : \E i \in 1..n : f[i] = x
    OBVIOUS
  <2>. HIDE DEF f, R, P, n
  <2>2. f \in Surjection(1..n, R)
    BY <2>1, Fun_IsSurj
  <2>3. IsFiniteSet(1..n)
    BY <1>1, FS_Interval
  <2>4. IsFiniteSet(R)
    BY <2>2, <2>3, FS_Surjection
  <2>5. IsFiniteSet({resolution.rootfs})
    BY FS_Singleton
  <2>. QED
    BY <1>3, <2>4, <2>5, FS_Union
<1>6. IsFiniteSet(Q)
  <2>1. g \in [P -> Q] /\ \A x \in Q : \E path \in P : g[path] = x
    OBVIOUS
  <2>. HIDE DEF g, P, Q
  <2>2. g \in Surjection(P, Q)
    BY <2>1, Fun_IsSurj
  <2>. QED
    BY <1>5, <2>2, FS_Surjection
<1>. HIDE DEF P
<1>7. \A x \in Q : IsFiniteSet(x) /\ \A path \in x : ValidStorePath(path)
  BY <1>4, StoreAssumption DEF ValidStorePath
<1>. HIDE DEF Q
<1>8. IsFiniteSet(UNION Q)
  BY <1>6, <1>7, FS_UNION
<1>. QED
  BY <1>2, <1>7, <1>8

\* The config that the runtime gets, and what a failure leaves.
LEMMA DelegatesStep == ASSUME Authored, Given, NodeInv PROVE DelegatesWhole
<1>1. ASSUME stage = "failed"
      PROVE  /\ roots = {} /\ temporary = None
             /\ fault.at # "sync" => config = bundle
  BY <1>1 DEF NodeInv, BundleInv, Realised, Late
<1>2. ASSUME stage = "started"
      PROVE  /\ config.root = resolution.rootfs /\ ~BoundIn(config, config.root)
             /\ StorePaths(resolution) \subseteq roots
             /\ Cardinality(PlacesOf(config)) = Len(config.mounts)
             /\ IsPrefix(bundle.mounts, config.mounts)
             /\ \A i \in DOMAIN resolution.mounts : \E j \in DOMAIN config.mounts :
                  /\ config.mounts[j].source = resolution.mounts[i].source
                  /\ config.mounts[j].destination = resolution.mounts[i].destination
             /\ BoundIn(config, NixStore) \/ \A path \in closure \ {config.root} : BoundIn(config, path)
  <2>1. roots = StorePaths(resolution) /\ config = Rewrite /\ config # None
    BY <1>2 DEF NodeInv, BundleInv, Late
  <2>2. bundle \in Bundles
    <3>1. request.purpose = "runtime"
      BY <1>2, RootIs
    <3>. QED
      BY <1>2, <3>1 DEF Given, Requested, Admitted, Realised, Late
  <2>3. /\ SpelledMounts(bundle.mounts)
        /\ \A i, j \in DOMAIN bundle.mounts :
             Components(bundle.mounts[i].destination) = Components(bundle.mounts[j].destination) => i = j
    BY <2>2, MountsAssumption
  <2>4. SpelledMounts(resolution.mounts)
    BY <1>2, AnswerIsInStore
  <2>5. PICK name \in StoreNames : resolution.rootfs = StorePath(name)
    BY <1>2, AnswerIsInStore DEF ValidStorePath
  <2>6. IsFiniteSet(closure) /\ \A path \in closure : ValidStorePath(path)
    BY <1>2, ClosureIsInStore
  <2>7. config = Rewritten(bundle, resolution, node.projection, closure)
    BY <2>1 DEF Rewrite
  <2>8. /\ config.root = resolution.rootfs /\ ~BoundIn(config, config.root)
        /\ Cardinality(PlacesOf(config)) = Len(config.mounts)
        /\ IsPrefix(bundle.mounts, config.mounts)
        /\ \A i \in DOMAIN resolution.mounts : \E j \in DOMAIN config.mounts :
             /\ config.mounts[j].source = resolution.mounts[i].source
             /\ config.mounts[j].destination = resolution.mounts[i].destination
        /\ BoundIn(config, NixStore) \/ \A path \in closure \ {config.root} : BoundIn(config, path)
    BY <2>1, <2>3, <2>4, <2>5, <2>6, <2>7, RewrittenIsWhole
  <2>. QED
    BY <2>1, <2>8
<1>. QED
  BY <1>1, <1>2 DEF DelegatesWhole, BoundIn, PlacesOf

\* The runtime gets the whole of what was found, every path of it rooted and to be
\* seen and no two mounts at one place, or the create fails and leaves the bundle as
\* it was (apply_resolution, apply_node_store_projection, write_config_atomically).
THEOREM RuntimeGetsTheWhole == Spec => []DelegatesWhole
<1>1. Init => Authored /\ NodeInv /\ Given
  BY InitAuthored, InitNode DEF Init, Given, Requested, Admitted, Realised, Late
<1>2. Authored /\ NodeInv /\ Given /\ [Next]_vars => (Authored /\ NodeInv /\ Given)'
  BY NextAuthored, NextNode, NextGiven
<1>3. Authored /\ NodeInv /\ Given => DelegatesWhole
  BY DelegatesStep
<1>. QED
  BY <1>1, <1>2, <1>3, PTL DEF Spec

-----------------------------------------------------------------------------
(***************************************************************************)
(* Scripts: what the lines say, and what is made of it.                    *)
(***************************************************************************)
\* The minimum of a set of numbers is in it and below the others.
LEMMA MinIs ==
  ASSUME NEW S \in SUBSET Nat, S # {}
  PROVE  Min(S) \in S /\ \A x \in S : Min(S) <= x
  BY Least DEF Min

\* The lines that are shebang are the first ones, up to one that is not.
LEMMA ShebangIs ==
  ASSUME NEW lines \in Lines
  PROVE  /\ ShebangLines(lines) \in 0..Len(lines)
         /\ \A i \in 1..ShebangLines(lines) : lines[i].bang
         /\ ShebangLines(lines) < Len(lines) => ~lines[ShebangLines(lines) + 1].bang
<1>. DEFINE I == {i \in 1..Len(lines) : ~lines[i].bang}
<1>1. Len(lines) \in Nat /\ DOMAIN lines = 1..Len(lines)
  BY LenProperties DEF Lines
<1>2. ShebangLines(lines) = IF I # {} THEN Min(I) - 1 ELSE Len(lines)
  BY <1>1 DEF ShebangLines, SelectInSeq
<1>3. I # {} => Min(I) \in I /\ \A i \in I : Min(I) <= i
  <2>1. I \in SUBSET Nat
    OBVIOUS
  <2>. HIDE DEF I
  <2>. QED
    BY <2>1, MinIs
<1>4. \A i : i \in I <=> i \in 1..Len(lines) /\ ~lines[i].bang
  OBVIOUS
<1>. HIDE DEF I
<1>5. CASE I # {}
  <2>1. Min(I) \in 1..Len(lines) /\ ~lines[Min(I)].bang
    BY <1>3, <1>4, <1>5
  <2>2. \A i \in 1..(Min(I) - 1) : i \in 1..Len(lines) /\ i \notin I
    BY <1>1, <1>3, <1>5, <2>1
  <2>3. \A i \in 1..(Min(I) - 1) : lines[i].bang
    BY <1>4, <2>2
  <2>4. ShebangLines(lines) = Min(I) - 1 /\ (Min(I) - 1) + 1 = Min(I)
    BY <1>2, <1>5, <2>1
  <2>. QED
    BY <1>1, <2>1, <2>3, <2>4
<1>6. CASE I = {}
  BY <1>1, <1>2, <1>4, <1>6
<1>. QED
  BY <1>5, <1>6

\* Sequences put together, one after the other.
LEMMA FlattenIs ==
  ASSUME NEW S, NEW seqs \in Seq(Seq(S))
  PROVE  \E e : /\ e[0] = <<>> /\ e[Len(seqs)] = FlattenSeq(seqs)
                /\ \A k \in 1..Len(seqs) : e[k] = e[k - 1] \o seqs[k]
<1>. DEFINE n == Len(seqs)
            f == CHOOSE f : f = [i \in 1..n |-> IF i = 1 THEN seqs[i] ELSE f[i - 1] \o seqs[i]]
<1>1. n \in Nat /\ DOMAIN seqs = 1..n
  BY LenProperties
<1>2. PICK h : Along(h, "flatten", <<>>, seqs, n, h[n])
  <2>1. PICK g : Walks(g, "flatten", <<>>, seqs, SUBSET (1..n))
    BY <1>1, WalksExists
  <2>2. PICK h : Along(h, "flatten", <<>>, seqs, n, g[1..n])
    <3>. HIDE DEF n
    <3>. QED
      BY <1>1, <2>1, WalkAlong
  <2>. QED
    BY <2>2 DEF Along
<1>3. h[0] = <<>> /\ \A k \in 1..n : h[k] = h[k - 1] \o seqs[k]
  BY <1>2 DEF Along, Folded
<1>4. f = [i \in 1..n |-> IF i = 1 THEN seqs[i] ELSE f[i - 1] \o seqs[i]]
  <2>. DEFINE g == [i \in 1..n |-> h[i]]
  <2>1. ASSUME NEW i \in 1..n PROVE h[i] = IF i = 1 THEN seqs[i] ELSE g[i - 1] \o seqs[i]
    <3>1. h[i] = h[i - 1] \o seqs[i]
      BY <1>3
    <3>2. CASE i = 1
      <4>1. seqs[1] \in Seq(S)
        BY <1>1, <3>2, ElementOfSeq
      <4>2. <<>> \o seqs[1] = seqs[1]
        BY <4>1
      <4>3. h[1 - 1] = <<>>
        BY <1>3
      <4>. QED
        BY <3>1, <3>2, <4>2, <4>3
    <3>3. CASE i # 1
      <4>1. i - 1 \in 1..n
        BY <1>1, <3>3
      <4>. QED
        BY <3>1, <3>3, <4>1
    <3>. QED
      BY <3>2, <3>3
  <2>2. g = [i \in 1..n |-> IF i = 1 THEN seqs[i] ELSE g[i - 1] \o seqs[i]]
    <3>1. g = [i \in 1..n |-> h[i]]
      OBVIOUS
    <3>. HIDE DEF g
    <3>. QED
      BY <2>1, <3>1
  <2>. HIDE DEF g, n
  <2>. QED
    BY <2>2
<1>5. FlattenSeq(seqs) = IF n = 0 THEN seqs ELSE f[n]
  BY DEF FlattenSeq
<1>. HIDE DEF f
<1>. DEFINE e == [k \in 0..n |-> IF k = 0 THEN <<>> ELSE f[k]]
<1>6. e[n] = FlattenSeq(seqs)
  <2>1. n = 0 => seqs = <<>>
    BY EmptySeq
  <2>2. n \in 0..n
    BY <1>1
  <2>. HIDE DEF n
  <2>. QED
    BY <1>5, <2>1, <2>2
<1>7. ASSUME NEW k \in 1..n PROVE e[k] = e[k - 1] \o seqs[k]
  <2>1. e[k] = f[k] /\ k \in 0..n /\ k - 1 \in 0..n
    BY <1>1
  <2>2. CASE k = 1
    <3>1. seqs[1] \in Seq(S)
      BY <1>1, <2>2, ElementOfSeq
    <3>2. <<>> \o seqs[1] = seqs[1]
      BY <3>1
    <3>3. e[1 - 1] = <<>>
      BY <1>1
    <3>4. f[1] = seqs[1]
      BY <1>4, <2>2
    <3>. QED
      BY <2>1, <2>2, <3>2, <3>3, <3>4
  <2>3. CASE k # 1
    <3>1. f[k] = f[k - 1] \o seqs[k]
      BY <1>4, <2>3
    <3>2. e[k - 1] = f[k - 1]
      BY <2>1, <2>3
    <3>. QED
      BY <2>1, <3>1, <3>2
  <2>. QED
    BY <2>2, <2>3
<1>8. e[0] = <<>>
  BY <1>1
<1>. HIDE DEF e
<1>. QED
  BY <1>6, <1>7, <1>8

\* The words after the program, line by line.
LEMMA WordsAre ==
  ASSUME NEW lines \in Lines, ShebangLines(lines) > 0
  PROVE  \E e : /\ e[0] = <<>> /\ e[ShebangLines(lines) - 1] = Words(lines)
                /\ \A k \in 1..(ShebangLines(lines) - 1) :
                     /\ e[k - 1] \in Seq(Seq(STRING))
                     /\ e[k] = e[k - 1] \o SubSeq(lines[k + 1].words, 2, Len(lines[k + 1].words))
                /\ Words(lines) \in Seq(Seq(STRING))
<1>. DEFINE W == Seq(STRING)
            n == ShebangLines(lines) - 1
            seqs == [i \in 1..n |-> IF lines[i + 1].words = <<>> THEN <<>> ELSE Tail(lines[i + 1].words)]
<1>1. n \in Nat /\ n + 1 <= Len(lines) /\ Len(lines) \in Nat
  BY ShebangIs, LenProperties DEF Lines
<1>2. ASSUME NEW i \in 1..n
      PROVE  /\ lines[i + 1].words \in Seq(W)
             /\ seqs[i] = SubSeq(lines[i + 1].words, 2, Len(lines[i + 1].words))
             /\ seqs[i] \in Seq(W)
  <2>1. i + 1 \in 1..Len(lines)
    BY <1>1
  <2>2. lines[i + 1] \in [bang : BOOLEAN, words : Seq(Seq(STRING))]
    BY <2>1, ElementOfSeq DEF Lines
  <2>. DEFINE words == lines[i + 1].words
  <2>3. words \in Seq(W)
    BY <2>2
  <2>. HIDE DEF words
  <2>4. CASE words = <<>>
    <3>1. SubSeq(words, 2, Len(words)) = <<>> /\ seqs[i] = <<>>
      BY <2>4 DEF words
    <3>. QED
      BY <2>3, <2>4, <3>1 DEF words
  <2>5. CASE words # <<>>
    <3>. HIDE DEF W
    <3>1. Tail(words) \in Seq(W) /\ Tail(words) = SubSeq(words, 2, Len(words))
      BY <2>3, <2>5, TailIsSubSeq, HeadTailProperties
    <3>2. seqs[i] = Tail(words)
      BY <2>5 DEF words
    <3>. QED
      BY <2>3, <3>1, <3>2 DEF words
  <2>. QED
    BY <2>4, <2>5
<1>3. seqs \in Seq(Seq(W)) /\ Len(seqs) = n
  <2>1. seqs \in [1..n -> Seq(W)]
    BY <1>2
  <2>. HIDE DEF seqs, n, W
  <2>. QED
    BY <1>1, <2>1
<1>4. Words(lines) = FlattenSeq(seqs)
  BY DEF Words
<1>. HIDE DEF seqs, W
<1>5. PICK e : /\ e[0] = <<>> /\ e[Len(seqs)] = FlattenSeq(seqs)
               /\ \A k \in 1..Len(seqs) : e[k] = e[k - 1] \o seqs[k]
  BY <1>3, FlattenIs
<1>. DEFINE T == {k \in Nat : k <= n /\ e[k] \notin Seq(W)}
<1>6. T = {}
  <2>1. SUFFICES ASSUME T # {} PROVE FALSE
    OBVIOUS
  <2>2. PICK k \in T : \A m \in T : k <= m
    BY <2>1, Least
  <2>3. k # 0
    <3>1. <<>> \in Seq(W)
      OBVIOUS
    <3>. QED
      BY <1>5, <2>2, <3>1
  <2>4. k - 1 \in Nat /\ k - 1 <= n /\ k \in 1..n /\ k - 1 < k
    BY <1>1, <2>2, <2>3
  <2>5. k - 1 \notin T
    BY <2>2, <2>4
  <2>6. e[k - 1] \in Seq(W)
    BY <2>4, <2>5
  <2>7. e[k] = e[k - 1] \o seqs[k] /\ seqs[k] \in Seq(W)
    BY <1>2, <1>3, <1>5, <2>4
  <2>8. e[k] \in Seq(W)
    BY <2>6, <2>7, ConcatProperties
  <2>. QED
    BY <2>2, <2>8
<1>7. \A k \in 0..n : e[k] \in Seq(W)
  BY <1>6
<1>8. e[n] \in Seq(W) /\ e[n] = Words(lines)
  BY <1>1, <1>3, <1>4, <1>5, <1>7
<1>9. \A k \in 1..n : /\ e[k - 1] \in Seq(W)
                      /\ e[k] = e[k - 1] \o SubSeq(lines[k + 1].words, 2, Len(lines[k + 1].words))
  <2>. TAKE k \in 1..n
  <2>1. k - 1 \in 0..n
    BY <1>1
  <2>2. e[k - 1] \in Seq(W)
    BY <1>7, <2>1
  <2>3. e[k] = e[k - 1] \o seqs[k]
    BY <1>3, <1>5
  <2>4. seqs[k] = SubSeq(lines[k + 1].words, 2, Len(lines[k + 1].words))
    BY <1>2
  <2>. QED
    BY <2>2, <2>3, <2>4
<1>. QED
  BY <1>5, <1>8, <1>9 DEF W

\* What a line adds to what was said.
LEMMA JoinIs ==
  ASSUME NEW words, NEW line
  PROVE  /\ line.bang => JoinedTo([open |-> TRUE, words |-> words], line) =
              [open |-> TRUE, words |-> words \o SubSeq(line.words, 2, Len(line.words))]
         /\ ~line.bang => JoinedTo([open |-> TRUE, words |-> words], line) = [open |-> FALSE, words |-> words]
         /\ JoinedTo([open |-> FALSE, words |-> words], line) = [open |-> FALSE, words |-> words]
<1>. DEFINE had == [open |-> TRUE, words |-> words]
            closed == [open |-> FALSE, words |-> words]
<1>1. had.open /\ had.words = words /\ ~closed.open /\ closed.words = words
  OBVIOUS
<1>. HIDE DEF had, closed
<1>2. line.bang => JoinedTo(had, line) =
        [open |-> TRUE, words |-> words \o SubSeq(line.words, 2, Len(line.words))]
  BY <1>1 DEF JoinedTo
<1>3. ~line.bang => JoinedTo(had, line) = [open |-> FALSE, words |-> words]
  BY <1>1 DEF JoinedTo
<1>4. JoinedTo(closed, line) = [open |-> FALSE, words |-> words]
  BY <1>1 DEF JoinedTo
<1>. QED
  BY <1>2, <1>3, <1>4 DEF had, closed

\* The first line says no words, and reading stops after the last that is shebang.
LEMMA SaidIs ==
  ASSUME NEW lines \in Lines, ShebangLines(lines) > 0
  PROVE  Said(lines) = Words(lines)
<1>. DEFINE s == ShebangLines(lines)
            text == Tail(lines)
            n == Len(text)
            start == [open |-> TRUE, words |-> <<>>]
            g == CHOOSE x : x = [p \in SUBSET DOMAIN text |->
                   IF p = {} THEN [open |-> TRUE, words |-> <<>>]
                   ELSE IF ~x[p \ {Max(p)}].open \/ ~text[Max(p)].bang
                        THEN [open |-> FALSE, words |-> x[p \ {Max(p)}].words]
                        ELSE [open |-> TRUE, words |-> x[p \ {Max(p)}].words
                                \o SubSeq(text[Max(p)].words, 2, Len(text[Max(p)].words))]]
<1>1. /\ s \in 1..Len(lines) /\ n = Len(lines) - 1 /\ n \in Nat /\ DOMAIN text = 1..n
      /\ \A k \in 1..n : text[k] = lines[k + 1]
  <2>1. Len(lines) \in Nat /\ s \in 0..Len(lines) /\ lines # <<>>
    BY ShebangIs, LenProperties DEF Lines
  <2>. DEFINE L == [bang : BOOLEAN, words : Seq(Seq(STRING))]
  <2>2. lines \in Seq(L)
    BY DEF Lines
  <2>. HIDE DEF L
  <2>3. /\ text \in Seq(L) /\ Len(text) = Len(lines) - 1
        /\ \A i \in 1..Len(text) : text[i] = lines[i + 1]
    BY <2>1, <2>2, HeadTailProperties
  <2>. QED
    BY <2>1, <2>3, LenProperties
<1>2. Said(lines) = g[DOMAIN text].words
  BY DEF Said, FoldLeft, MapThenFoldSet
<1>3. Walks(g, "shebang", start, text, SUBSET (1..n))
  <2>1. PICK x : Walks(x, "shebang", start, text, SUBSET (1..n))
    <3>. HIDE DEF n, start
    <3>. QED
      BY <1>1, WalksExists
  <2>2. \A y : Walks(y, "shebang", start, text, SUBSET (1..n)) <=>
              y = [p \in SUBSET DOMAIN text |->
                   IF p = {} THEN [open |-> TRUE, words |-> <<>>]
                   ELSE IF ~y[p \ {Max(p)}].open \/ ~text[Max(p)].bang
                        THEN [open |-> FALSE, words |-> y[p \ {Max(p)}].words]
                        ELSE [open |-> TRUE, words |-> y[p \ {Max(p)}].words
                                \o SubSeq(text[Max(p)].words, 2, Len(text[Max(p)].words))]]
    <3>. HIDE DEF n, text
    <3>. QED
      BY <1>1 DEF Walks, Folded, JoinedTo
  <2>. QED
    BY <2>1, <2>2
<1>. HIDE DEF g
<1>4. PICK h : Along(h, "shebang", start, text, n, g[1..n])
  <2>. HIDE DEF n, start, text
  <2>. QED
    BY <1>1, <1>3, WalkAlong
<1>5. /\ h[0] = start /\ h[n] = g[1..n]
      /\ \A k \in 1..n : h[k] = JoinedTo(h[k - 1], text[k])
  <2>. HIDE DEF n, start, text
  <2>. QED
    BY <1>4 DEF Along, Folded
<1>6. PICK e : /\ e[0] = <<>> /\ e[s - 1] = Words(lines)
               /\ \A k \in 1..(s - 1) :
                    e[k] = e[k - 1] \o SubSeq(lines[k + 1].words, 2, Len(lines[k + 1].words))
  BY WordsAre
<1>. DEFINE Right(k) == IF k < s THEN h[k] = [open |-> TRUE, words |-> e[k]]
                        ELSE h[k] = [open |-> FALSE, words |-> Words(lines)]
            T == {k \in Nat : k <= n /\ ~Right(k)}
<1>. HIDE DEF n, text
<1>7. T = {}
  <2>1. SUFFICES ASSUME T # {} PROVE FALSE
    OBVIOUS
  <2>2. PICK k \in T : \A m \in T : k <= m
    BY <2>1, Least
  <2>. HIDE DEF Right
  <2>3. k # 0
    <3>1. Right(0)
      BY <1>1, <1>5, <1>6 DEF Right
    <3>. QED
      BY <2>2, <3>1
  <2>4. k - 1 \in Nat /\ k - 1 <= n /\ k \in 1..n /\ k - 1 < k
    BY <1>1, <2>2, <2>3
  <2>5. k - 1 \notin T
    BY <2>2, <2>4
  <2>6. Right(k - 1)
    BY <2>4, <2>5
  <2>7. h[k] = JoinedTo(h[k - 1], lines[k + 1])
    BY <1>1, <1>5, <2>4
  <2>8. Right(k)
    <3>1. CASE k < s
      <4>1. h[k - 1] = [open |-> TRUE, words |-> e[k - 1]]
        BY <1>1, <2>4, <2>6, <3>1 DEF Right
      <4>2. lines[k + 1].bang
        BY <1>1, <2>4, <3>1, ShebangIs
      <4>3. h[k] = [open |-> TRUE, words |-> e[k - 1] \o SubSeq(lines[k + 1].words, 2, Len(lines[k + 1].words))]
        <5>. DEFINE line == lines[k + 1]
                    words == e[k - 1]
        <5>1. /\ line.bang /\ h[k] = JoinedTo(h[k - 1], line)
              /\ h[k - 1] = [open |-> TRUE, words |-> words]
          BY <2>7, <4>1, <4>2
        <5>. HIDE DEF line, words
        <5>2. h[k] = [open |-> TRUE, words |-> words \o SubSeq(line.words, 2, Len(line.words))]
          BY <5>1, JoinIs
        <5>. QED
          BY <5>2 DEF line, words
      <4>4. k \in 1..(s - 1)
        BY <1>1, <2>4, <3>1
      <4>5. e[k] = e[k - 1] \o SubSeq(lines[k + 1].words, 2, Len(lines[k + 1].words))
        BY <1>6, <4>4
      <4>. QED
        BY <3>1, <4>3, <4>5 DEF Right
    <3>2. CASE k = s
      <4>1. h[k - 1] = [open |-> TRUE, words |-> Words(lines)]
        BY <1>1, <1>6, <2>4, <2>6, <3>2 DEF Right
      <4>2. ~lines[k + 1].bang
        BY <1>1, <2>4, <3>2, ShebangIs
      <4>3. h[k] = [open |-> FALSE, words |-> Words(lines)]
        <5>. DEFINE line == lines[k + 1]
        <5>1. ~line.bang /\ h[k] = JoinedTo(h[k - 1], line)
          BY <2>7, <4>2
        <5>. HIDE DEF line
        <5>. QED
          BY <4>1, <5>1, JoinIs
      <4>. QED
        BY <3>2, <4>3 DEF Right
    <3>3. CASE k > s
      <4>1. h[k - 1] = [open |-> FALSE, words |-> Words(lines)]
        BY <1>1, <2>4, <2>6, <3>3 DEF Right
      <4>2. h[k] = [open |-> FALSE, words |-> Words(lines)]
        <5>. DEFINE line == lines[k + 1]
        <5>1. h[k] = JoinedTo(h[k - 1], line)
          BY <2>7
        <5>. HIDE DEF line
        <5>. QED
          BY <4>1, <5>1, JoinIs
      <4>. QED
        BY <1>1, <2>4, <3>3, <4>2 DEF Right
    <3>. QED
      BY <1>1, <2>4, <3>1, <3>2, <3>3
  <2>. QED
    BY <2>2, <2>8
<1>8. Right(n)
  <2>. HIDE DEF Right
  <2>. QED
    BY <1>1, <1>7
<1>9. h[n].words = Words(lines)
  <2>1. CASE n < s
    <3>1. n = s - 1
      BY <1>1, <2>1
    <3>. QED
      BY <1>6, <1>8, <2>1, <3>1
  <2>2. CASE ~(n < s)
    BY <1>8, <2>2
  <2>. QED
    BY <2>1, <2>2
<1>. QED
  BY <1>1, <1>2, <1>5, <1>9

\* Values at distinct places are distinct.
LEMMA DistinctWhen ==
  ASSUME NEW T, NEW f \in Seq(T), \A i, j \in 1..Len(f) : f[i] = f[j] => i = j
  PROVE  Distinct(f)
<1>1. Len(f) \in Nat /\ f \in [1..Len(f) -> T]
  BY LenProperties
<1>2. DOMAIN f = 1..Len(f)
  BY <1>1
<1>3. Range(f) = {f[i] : i \in 1..Len(f)}
  BY <1>2 DEF Range
<1>4. f \in [1..Len(f) -> Range(f)]
  <2>1. \A i \in 1..Len(f) : f[i] \in Range(f)
    BY <1>3
  <2>. QED
    BY <1>1, <2>1
<1>5. f \in Surjection(1..Len(f), Range(f)) /\ f \in Injection(1..Len(f), Range(f))
  BY <1>3, <1>4 DEF Surjection, Injection, IsInjective
<1>6. IsFiniteSet(1..Len(f)) /\ Cardinality(1..Len(f)) = Len(f)
  BY <1>1, FS_Interval
<1>. QED
  BY <1>5, <1>6, FS_Surjection DEF Distinct

\* The installables, each once.
LEMMA PackagesAre ==
  ASSUME NEW S, NEW text \in Seq(S)
  PROVE  /\ Range(Packages(text)) = Range(text)
         /\ Distinct(Packages(text))
<1>. DEFINE n == Len(text)
            g == CHOOSE x : x = [p \in SUBSET DOMAIN text |->
                   IF p = {} THEN <<>>
                   ELSE IF Contains(x[p \ {Max(p)}], text[Max(p)]) THEN x[p \ {Max(p)}]
                        ELSE Append(x[p \ {Max(p)}], text[Max(p)])]
<1>1. n \in Nat /\ DOMAIN text = 1..n
  BY LenProperties
<1>2. Packages(text) = g[DOMAIN text]
  BY DEF Packages, FoldLeft, MapThenFoldSet
<1>3. Walks(g, "packages", <<>>, text, SUBSET (1..n))
  <2>1. PICK x : Walks(x, "packages", <<>>, text, SUBSET (1..n))
    <3>. HIDE DEF n
    <3>. QED
      BY <1>1, WalksExists
  <2>2. \A y : Walks(y, "packages", <<>>, text, SUBSET (1..n)) <=>
              y = [p \in SUBSET DOMAIN text |->
                   IF p = {} THEN <<>>
                   ELSE IF Contains(y[p \ {Max(p)}], text[Max(p)]) THEN y[p \ {Max(p)}]
                        ELSE Append(y[p \ {Max(p)}], text[Max(p)])]
    <3>. HIDE DEF n
    <3>. QED
      BY <1>1 DEF Walks, Folded, AddedTo
  <2>. QED
    BY <2>1, <2>2
<1>. HIDE DEF g
<1>4. PICK h : Along(h, "packages", <<>>, text, n, g[1..n])
  <2>. HIDE DEF n
  <2>. QED
    BY <1>1, <1>3, WalkAlong
<1>5. /\ h[0] = <<>> /\ h[n] = g[1..n]
      /\ \A k \in 1..n : h[k] = AddedTo(h[k - 1], text[k])
  <2>. HIDE DEF n
  <2>. QED
    BY <1>4 DEF Along, Folded
<1>. DEFINE Right(k) == /\ h[k] \in Seq(S)
                        /\ \A i \in 1..Len(h[k]) : \E j \in 1..k : h[k][i] = text[j]
                        /\ \A j \in 1..k : \E i \in 1..Len(h[k]) : h[k][i] = text[j]
                        /\ \A i, j \in 1..Len(h[k]) : h[k][i] = h[k][j] => i = j
            T == {k \in Nat : k <= n /\ ~Right(k)}
<1>. HIDE DEF n
<1>6. T = {}
  <2>1. SUFFICES ASSUME T # {} PROVE FALSE
    OBVIOUS
  <2>2. PICK k \in T : \A m \in T : k <= m
    BY <2>1, Least
  <2>3. k # 0
    <3>1. h[0] = <<>> /\ <<>> \in Seq(S) /\ Len(<<>>) = 0
      BY <1>5, EmptySeq
    <3>2. Right(0)
      BY <3>1
    <3>. HIDE DEF Right
    <3>. QED
      BY <2>2, <3>2
  <2>4. k - 1 \in Nat /\ k - 1 <= n /\ k \in 1..n /\ k - 1 < k
    BY <1>1, <2>2, <2>3
  <2>5. Right(k - 1)
    <3>. HIDE DEF Right
    <3>. QED
      BY <2>2, <2>4
  <2>. DEFINE had == h[k - 1]
              word == text[k]
  <2>6. /\ had \in Seq(S)
        /\ \A i \in 1..Len(had) : \E j \in 1..(k - 1) : had[i] = text[j]
        /\ \A j \in 1..(k - 1) : \E i \in 1..Len(had) : had[i] = text[j]
        /\ \A i, j \in 1..Len(had) : had[i] = had[j] => i = j
    BY <2>5
  <2>7. h[k] = AddedTo(had, word)
    BY <1>5, <2>4
  <2>8. word \in S
    BY <1>1, <2>4, ElementOfSeq
  <2>9. \A j \in 1..k : j = k \/ j \in 1..(k - 1)
    BY <2>4
  <2>10. \A j \in 1..(k - 1) : j \in 1..k
    BY <2>4
  <2>11. k \in 1..k /\ text[k] = word
    BY <2>4
  <2>. HIDE DEF had, word
  <2>12. Right(k)
    <3>1. CASE Contains(had, word)
      <4>1. h[k] = had
        BY <2>7, <3>1 DEF AddedTo
      <4>2. \A i \in 1..Len(had) : \E j \in 1..k : had[i] = text[j]
        BY <2>6, <2>10
      <4>3. \A j \in 1..k : \E i \in 1..Len(had) : had[i] = text[j]
        BY <2>6, <2>9, <2>11, <3>1 DEF Contains
      <4>. QED
        BY <2>6, <4>1, <4>2, <4>3
    <3>2. CASE ~Contains(had, word)
      <4>. DEFINE m == Len(had)
                  new == Append(had, word)
      <4>1. h[k] = new
        BY <2>7, <3>2 DEF AddedTo
      <4>2. /\ new \in Seq(S) /\ Len(new) = m + 1 /\ m \in Nat
            /\ \A i \in 1..m : new[i] = had[i]
            /\ new[m + 1] = word
        BY <2>6, <2>8, AppendProperties, LenProperties
      <4>3. \A i \in 1..m : had[i] # word
        BY <3>2 DEF Contains
      <4>. HIDE DEF new, m
      <4>4. \A i \in 1..(m + 1) : i = m + 1 \/ i \in 1..m
        BY <4>2
      <4>5. /\ m + 1 \in 1..(m + 1) /\ \A i \in 1..m : i \in 1..(m + 1)
        BY <4>2
      <4>6. \A i \in 1..(m + 1) : \E j \in 1..k : new[i] = text[j]
        <5>. TAKE i \in 1..(m + 1)
        <5>1. CASE i = m + 1
          BY <2>11, <4>2, <5>1
        <5>2. CASE i \in 1..m
          <6>1. new[i] = had[i] /\ i \in 1..Len(had)
            BY <4>2, <5>2 DEF m
          <6>2. PICK j \in 1..(k - 1) : had[i] = text[j]
            BY <2>6, <6>1
          <6>. QED
            BY <2>10, <6>1, <6>2
        <5>. QED
          BY <4>4, <5>1, <5>2
      <4>7. \A j \in 1..k : \E i \in 1..(m + 1) : new[i] = text[j]
        <5>. TAKE j \in 1..k
        <5>1. CASE j = k
          BY <2>11, <4>2, <4>5, <5>1
        <5>2. CASE j \in 1..(k - 1)
          BY <2>6, <4>2, <4>5, <5>2 DEF m
        <5>. QED
          BY <2>9, <5>1, <5>2
      <4>8. \A i, j \in 1..(m + 1) : new[i] = new[j] => i = j
        <5>. SUFFICES ASSUME NEW i \in 1..(m + 1), NEW j \in 1..(m + 1), new[i] = new[j] PROVE i = j
          OBVIOUS
        <5>1. CASE i \in 1..m /\ j \in 1..m
          BY <2>6, <4>2, <5>1 DEF m
        <5>2. CASE i = m + 1 \/ j = m + 1
          BY <4>2, <4>3, <4>4, <5>2
        <5>. QED
          BY <4>4, <5>1, <5>2
      <4>9. /\ h[k] \in Seq(S) /\ Len(h[k]) = m + 1
            /\ \A i \in 1..(m + 1) : h[k][i] = new[i]
        BY <4>1, <4>2
      <4>. QED
        BY <4>6, <4>7, <4>8, <4>9
    <3>. QED
      BY <3>1, <3>2
  <2>. HIDE DEF Right
  <2>. QED
    BY <2>2, <2>12
<1>7. Right(n)
  <2>. HIDE DEF Right
  <2>. QED
    BY <1>1, <1>6
<1>. DEFINE P == Packages(text)
<1>8. P = h[n]
  BY <1>1, <1>2, <1>5
<1>9. /\ P \in Seq(S)
      /\ \A i \in 1..Len(P) : \E j \in 1..n : P[i] = text[j]
      /\ \A j \in 1..n : \E i \in 1..Len(P) : P[i] = text[j]
      /\ \A i, j \in 1..Len(P) : P[i] = P[j] => i = j
  BY <1>7, <1>8
<1>. HIDE DEF P
<1>10. Len(P) \in Nat /\ DOMAIN P = 1..Len(P)
  BY <1>9, LenProperties
<1>11. Range(P) = Range(text)
  <2>1. Range(P) = {P[i] : i \in 1..Len(P)} /\ Range(text) = {text[j] : j \in 1..n}
    BY <1>1, <1>10 DEF Range
  <2>2. ASSUME NEW i \in 1..Len(P) PROVE P[i] \in {text[j] : j \in 1..n}
    BY <1>9
  <2>3. ASSUME NEW j \in 1..n PROVE text[j] \in {P[i] : i \in 1..Len(P)}
    BY <1>9
  <2>. QED
    BY <2>1, <2>2, <2>3
<1>12. Distinct(P)
  BY <1>9, DistinctWhen
<1>. QED
  BY <1>11, <1>12 DEF P

\* Where --command is, or one past the words.
LEMMA CommandAtIs ==
  ASSUME NEW S, NEW words \in Seq(S)
  PROVE  CommandAt(words) \in 1..(Len(words) + 1)
<1>. DEFINE I == {i \in 1..Len(words) : words[i] \in {<<"-", "-", "command">>, <<"-", "c">>}}
            at == SelectInSeq(words, LAMBDA w : w \in {<<"-", "-", "command">>, <<"-", "c">>})
<1>1. at = IF I # {} THEN Min(I) ELSE 0
  BY DEF SelectInSeq
<1>2. CommandAt(words) = IF at = 0 THEN Len(words) + 1 ELSE at
  BY DEF CommandAt
<1>3. Len(words) \in Nat
  BY LenProperties
<1>4. I \in SUBSET (1..Len(words))
  OBVIOUS
<1>. HIDE DEF I, at
<1>5. I # {} => Min(I) \in 1..Len(words)
  <2>1. I \in SUBSET Nat
    BY <1>4
  <2>. QED
    BY <1>4, <2>1, MinIs
<1>. QED
  BY <1>1, <1>2, <1>3, <1>5

\* What is parsed are the words, each in its place.
LEMMA ParseIs ==
  ASSUME NEW lines \in Lines, Parse(lines) # None
  PROVE  /\ ShebangLines(lines) > 0 /\ lines # <<>>
         /\ Words(lines) \in Seq(Seq(STRING))
         /\ CommandAt(Words(lines)) \in 1..(Len(Words(lines)) - 1)
         /\ Parse(lines) = [packages |-> Packages(SubSeq(Words(lines), 2, CommandAt(Words(lines)) - 1)),
                            interpreter |-> Words(lines)[CommandAt(Words(lines)) + 1],
                            arguments |-> SubSeq(Words(lines), CommandAt(Words(lines)) + 2, Len(Words(lines))),
                            lines |-> ShebangLines(lines)]
<1>. DEFINE words == Words(lines)
            at == CommandAt(words)
            rest == SubSeq(words, at + 1, Len(words))
            W == Seq(STRING)
<1>1. /\ IsNixShebang(lines) /\ rest # <<>>
      /\ Parse(lines) = [packages |-> Packages(SubSeq(words, 2, at - 1)),
                         interpreter |-> rest[1], arguments |-> Tail(rest),
                         lines |-> ShebangLines(lines)]
  BY DEF Parse
<1>2. lines # <<>> /\ lines[1].bang
  BY <1>1 DEF IsNixShebang
<1>3. ShebangLines(lines) > 0
  <2>1. Len(lines) \in Nat \ {0}
    BY <1>2, EmptySeq, LenProperties DEF Lines
  <2>. QED
    BY <1>2, <2>1, ShebangIs
<1>4. words \in Seq(W)
  BY <1>3, WordsAre
<1>. HIDE DEF words, W
<1>5. at \in 1..(Len(words) + 1) /\ Len(words) \in Nat
  BY <1>4, CommandAtIs, LenProperties
<1>. HIDE DEF at
<1>6. at \in 1..(Len(words) - 1)
  <2>1. ~(Len(words) < at + 1)
    BY <1>1, <1>5, SubSeqEmpty
  <2>. QED
    BY <1>5, <2>1
<1>7. at + 1 \in 1..Len(words) /\ Len(words) \in (at + 1)..Len(words)
  BY <1>5, <1>6
<1>8. Head(rest) = words[at + 1] /\ Tail(rest) = SubSeq(words, (at + 1) + 1, Len(words))
  BY <1>4, <1>7, HeadTailOfSubSeq
<1>9. (at + 1) + 1 = at + 2
  BY <1>5
<1>10. rest[1] = Head(rest)
  <2>1. rest \in Seq(W)
    <3>1. \A i \in (at + 1)..Len(words) : words[i] \in W
      BY <1>4, <1>5, ElementOfSeq
    <3>. HIDE DEF at
    <3>. QED
      BY <1>5, <3>1, SubSeqProperties
  <2>. HIDE DEF rest
  <2>. QED
    BY <2>1, <1>1
<1>. HIDE DEF rest
<1>. QED
  BY <1>1, <1>2, <1>3, <1>4, <1>6, <1>8, <1>9, <1>10 DEF words, at, W

Pinning(c) == Generated(c.script, Parse(c.script.lines), NixSystem[c.arch], ~c.unpinned)

\* The files of a seed, by their names.
LEMMA SeedIs ==
  ASSUME NEW c, ValidScriptName(c.script.name)
  PROVE  LET parsed == Parse(c.script.lines)
         IN /\ Distinct([i \in DOMAIN Pinning(c) |-> Pinning(c)[i].name])
            /\ Held(Pinning(c), Flake) = [packages |-> parsed.packages, system |-> NixSystem[c.arch],
                                           script |-> c.script.name, pinned |-> ~c.unpinned]
            /\ Held(Pinning(c), c.script.name) = WithoutShebang(c.script.lines, parsed.lines)
            /\ ~c.unpinned <=> \E i \in DOMAIN Pinning(c) : Pinning(c)[i].name = Lock
<1>. DEFINE parsed == Parse(c.script.lines)
            flake == [packages |-> parsed.packages, system |-> NixSystem[c.arch],
                      script |-> c.script.name, pinned |-> ~c.unpinned]
            text == WithoutShebang(c.script.lines, parsed.lines)
            name == c.script.name
            s == Pinning(c)
<1>1. name # Flake /\ name # Lock /\ Flake # Lock
  BY DEF ValidScriptName, Flake, Lock
<1>2. s = <<File(Flake, flake), File(name, text)>> \o IF ~c.unpinned THEN <<File(Lock, "vendored")>> ELSE <<>>
  BY DEF Pinning, Generated
<1>. HIDE DEF flake, text, name
<1>3. /\ Len(s) = IF c.unpinned THEN 2 ELSE 3
      /\ DOMAIN s = 1..Len(s)
      /\ s[1] = File(Flake, flake) /\ s[2] = File(name, text)
      /\ ~c.unpinned => s[3] = File(Lock, "vendored")
  <2>1. CASE c.unpinned
    <3>1. s = <<File(Flake, flake), File(name, text)>>
      BY <1>2, <2>1
    <3>. QED
      BY <2>1, <3>1
  <2>2. CASE ~c.unpinned
    <3>. DEFINE a == File(Flake, flake)
                b == File(name, text)
                d == File(Lock, "vendored")
    <3>1. s = <<a, b>> \o <<d>>
      BY <1>2, <2>2
    <3>. HIDE DEF a, b, d
    <3>2. <<a, b>> \in Seq({a, b, d}) /\ <<d>> \in Seq({a, b, d}) /\ Len(<<a, b>>) = 2 /\ Len(<<d>>) = 1
      OBVIOUS
    <3>3. /\ s \in Seq({a, b, d}) /\ Len(s) = 3
          /\ s[1] = a /\ s[2] = b /\ s[3] = d
      BY <3>1, <3>2, ConcatProperties
    <3>4. DOMAIN s = 1..3
      BY <3>3, LenProperties
    <3>. QED
      BY <2>2, <3>3, <3>4 DEF a, b, d
  <2>. QED
    BY <2>1, <2>2
<1>. HIDE DEF s
<1>4. /\ s[1].name = Flake /\ s[1].holds = flake /\ s[2].name = name /\ s[2].holds = text
      /\ ~c.unpinned => s[3].name = Lock
  BY <1>3 DEF File
<1>5. Len(s) \in {2, 3}
  BY <1>3
<1>. DEFINE names == [i \in DOMAIN s |-> s[i].name]
<1>6. Distinct(names)
  <2>. DEFINE T == {Flake, name, Lock}
  <2>1. \A i \in 1..Len(s) : s[i].name \in T
    BY <1>3, <1>4
  <2>2. names \in Seq(T) /\ Len(names) = Len(s)
    <3>. HIDE DEF T
    <3>1. names \in [1..Len(s) -> T]
      BY <1>3, <2>1
    <3>. HIDE DEF names
    <3>. QED
      BY <1>5, <3>1
  <2>3. \A i, j \in 1..Len(s) : s[i].name = s[j].name => i = j
    BY <1>1, <1>3, <1>4
  <2>4. \A i \in 1..Len(s) : names[i] = s[i].name
    BY <1>3
  <2>. HIDE DEF names, T
  <2>. QED
    BY <2>2, <2>3, <2>4, DistinctWhen
<1>7. ASSUME NEW x, NEW k \in 1..Len(s), \A i \in 1..Len(s) : s[i].name = x <=> i = k
      PROVE  SelectInSeq(s, LAMBDA file : file.name = x) = k
  <2>1. {i \in 1..Len(s) : s[i].name = x} = {k}
    BY <1>7
  <2>2. SelectInSeq(s, LAMBDA file : file.name = x) = Min({k})
    BY <2>1 DEF SelectInSeq
  <2>3. {k} \in SUBSET Nat /\ {k} # {}
    BY <1>5
  <2>4. Min({k}) \in {k}
    BY <2>3, MinIs
  <2>. QED
    BY <2>2, <2>4
<1>8. SelectInSeq(s, LAMBDA file : file.name = Flake) = 1
  <2>1. 1 \in 1..Len(s) /\ \A i \in 1..Len(s) : s[i].name = Flake <=> i = 1
    BY <1>1, <1>3, <1>4
  <2>. QED
    BY <1>7, <2>1
<1>9. SelectInSeq(s, LAMBDA file : file.name = name) = 2
  <2>1. 2 \in 1..Len(s) /\ \A i \in 1..Len(s) : s[i].name = name <=> i = 2
    BY <1>1, <1>3, <1>4
  <2>. QED
    BY <1>7, <2>1
<1>10. ~c.unpinned <=> \E i \in DOMAIN s : s[i].name = Lock
  BY <1>1, <1>3, <1>4
<1>11. Held(s, Flake) = flake /\ Held(s, name) = text
  BY <1>4, <1>8, <1>9 DEF Held
<1>. QED
  BY <1>6, <1>10, <1>11 DEF flake, text, name, s

\* A seed is one that was made of the script of the command.
Sown ==
  /\ seed # None => /\ command \in Commands /\ command.path = "script" /\ ~ScriptRefused(command)
                    /\ seed = Pinning(command)
  /\ author = "by hand" => seed = None

\* Only Pack makes one.
LEMMA NextSown == ASSUME Authored, Sown, [Next]_vars PROVE Sown'
<1>1. ASSUME UNCHANGED <<command, author, seed>> PROVE Sown'
  BY <1>1 DEF Sown, Pinning
<1>2. CASE AuthorStep
  <2>1. CASE Pack
    <3>1. command' = command /\ author = "packing" /\ author' # "by hand" /\ command \in Commands
      BY <2>1 DEF Pack, Authored
    <3>2. CASE UNCHANGED seed
      BY <3>1, <3>2 DEF Sown, Pinning
    <3>3. CASE seed' # seed
      <4>1. /\ ~PackRefused(command)
            /\ seed' = IF command.path = "script" THEN Pinning(command) ELSE None
        BY <2>1, <3>3 DEF Pack, Pinning
      <4>2. command.path = "script" => ~ScriptRefused(command)
        BY <4>1 DEF PackRefused
      <4>. QED
        BY <3>1, <4>1, <4>2 DEF Sown, Pinning
    <3>. QED
      BY <3>2, <3>3
  <2>2. CASE ParseRun \/ Pin \/ PushImage \/ Emit \/ Examine
    <3>1. UNCHANGED <<command, seed>> /\ author' # "by hand"
      BY <2>2 DEF ParseRun, Pin, PushImage, Emit, Examine
    <3>. QED
      BY <3>1 DEF Sown, Pinning
  <2>. QED
    BY <1>2, <2>1, <2>2 DEF AuthorStep
<1>. QED
  BY <1>1, <1>2 DEF Next, vars, authorVars

\* There is no seed in an initial state.
LEMMA InitSown == Init => Sown
  BY DEF Init, Sown

\* What a script says is in its seed and its pod.
LEMMA ScriptsStep == ASSUME Authored, Sown PROVE ScriptsRunAsWritten
<1>. SUFFICES ASSUME seed # None PROVE ScriptsRunAsWritten
  BY DEF ScriptsRunAsWritten
<1>. DEFINE script == command.script
            parsed == Parse(script.lines)
            said == Said(script.lines)
            at == CommandAt(said)
            flake == [packages |-> parsed.packages, system |-> NixSystem[command.arch],
                      script |-> script.name, pinned |-> ~command.unpinned]
            lines == WithoutShebang(script.lines, parsed.lines)
<1>1. /\ script.lines \in Lines /\ parsed # None /\ ValidScriptName(script.name)
      /\ seed = Pinning(command)
  BY ScriptsAssumption DEF Sown, ScriptRefused
<1>2. said = Words(script.lines) /\ ShebangLines(script.lines) > 0 /\ script.lines # <<>>
  BY <1>1, ParseIs, SaidIs
<1>3. /\ said \in Seq(Seq(STRING)) /\ at \in 1..(Len(said) - 1)
      /\ parsed = [packages |-> Packages(SubSeq(said, 2, at - 1)), interpreter |-> said[at + 1],
                   arguments |-> SubSeq(said, at + 2, Len(said)), lines |-> ShebangLines(script.lines)]
  BY <1>1, <1>2, ParseIs
<1>4. /\ Distinct([i \in DOMAIN seed |-> seed[i].name])
      /\ Held(seed, Flake) = flake
      /\ Held(seed, script.name) = lines
      /\ flake.pinned <=> \E i \in DOMAIN seed : seed[i].name = Lock
  BY <1>1, SeedIs
<1>5. flake.packages = Packages(SubSeq(said, 2, at - 1)) /\ flake.script = script.name
  BY <1>3
<1>6. Distinct(flake.packages) /\ Range(flake.packages) = {said[i] : i \in 2..(at - 1)}
  <2>. DEFINE W == Seq(STRING)
              words == SubSeq(said, 2, at - 1)
  <2>1. Len(said) \in Nat /\ \A i \in 2..(at - 1) : said[i] \in W
    <3>1. Len(said) \in Nat
      BY <1>3, LenProperties
    <3>2. \A i \in 2..(at - 1) : i \in 1..Len(said)
      BY <1>3, <3>1
    <3>. QED
      BY <1>3, <3>1, <3>2, ElementOfSeq
  <2>. HIDE DEF W, said, at
  <2>2. /\ words \in Seq(W)
        /\ Len(words) = IF 2 <= at - 1 THEN (at - 1) - 2 + 1 ELSE 0
        /\ \A i \in 1..((at - 1) - 2 + 1) : words[i] = said[2 + i - 1]
    BY <1>3, <2>1, SubSeqProperties
  <2>3. Range(words) = {said[i] : i \in 2..(at - 1)}
    <3>1. DOMAIN words = 1..Len(words)
      BY <2>2, LenProperties
    <3>2. ASSUME NEW i \in 1..Len(words) PROVE words[i] \in {said[k] : k \in 2..(at - 1)}
      BY <1>3, <2>1, <2>2
    <3>3. ASSUME NEW k \in 2..(at - 1) PROVE k - 1 \in 1..Len(words) /\ words[k - 1] = said[k]
      BY <1>3, <2>1, <2>2
    <3>. HIDE DEF words
    <3>4. Range(words) = {words[i] : i \in 1..Len(words)}
      BY <3>1 DEF Range
    <3>. QED
      BY <3>2, <3>3, <3>4
  <2>4. Range(Packages(words)) = Range(words) /\ Distinct(Packages(words))
    BY <2>2, PackagesAre
  <2>. QED
    BY <1>5, <2>3, <2>4
<1>7. /\ DOMAIN lines = DOMAIN script.lines /\ ~lines[1].bang
      /\ \A i \in DOMAIN lines : lines[i] # script.lines[i] =>
           lines[i] = Blank /\ \A j \in 1..i : script.lines[j].bang
  <2>. DEFINE s == ShebangLines(script.lines)
  <2>1. parsed.lines = s
    BY <1>3
  <2>2. /\ s \in 0..Len(script.lines) /\ s > 0 /\ \A i \in 1..s : script.lines[i].bang
        /\ Len(script.lines) \in Nat /\ DOMAIN script.lines = 1..Len(script.lines)
    <3>1. Len(script.lines) \in Nat /\ DOMAIN script.lines = 1..Len(script.lines)
      BY <1>1, LenProperties DEF Lines
    <3>. QED
      BY <1>1, <1>2, <3>1, ShebangIs
  <2>3. lines = [i \in DOMAIN script.lines |-> IF i <= s THEN Blank ELSE script.lines[i]]
    BY <2>1 DEF WithoutShebang
  <2>. HIDE DEF lines, s
  <2>4. 1 \in DOMAIN script.lines /\ 1 <= s
    BY <2>2
  <2>5. ~lines[1].bang
    BY <2>3, <2>4 DEF Blank
  <2>6. \A i \in DOMAIN lines : lines[i] # script.lines[i] =>
           lines[i] = Blank /\ \A j \in 1..i : script.lines[j].bang
    BY <2>2, <2>3
  <2>. QED
    BY <2>3, <2>5, <2>6
<1>8. pod # None => pod.command = <<Binary(said[at + 1])>> \o SubSeq(said, at + 2, Len(said))
                                    \o <<ScriptPath(flake.script)>> \o command.command
  <2>. SUFFICES ASSUME pod # None
                PROVE  pod.command = <<Binary(said[at + 1])>> \o SubSeq(said, at + 2, Len(said))
                                       \o <<ScriptPath(flake.script)>> \o command.command
    OBVIOUS
  <2>1. pod = Pod
    BY DEF Authored, Sown
  <2>2. pod.command = GeneratedCommand(script, parsed) \o command.command
    BY <2>1 DEF Pod, PodCommand
  <2>3. GeneratedCommand(script, parsed) =
          <<Binary(said[at + 1])>> \o SubSeq(said, at + 2, Len(said)) \o <<ScriptPath(script.name)>>
    <3>. HIDE DEF parsed, said, at
    <3>1. parsed.interpreter = said[at + 1] /\ parsed.arguments = SubSeq(said, at + 2, Len(said))
      BY <1>3
    <3>. QED
      BY <3>1 DEF GeneratedCommand
  <2>. QED
    BY <1>5, <2>2, <2>3
<1>9. flake = Held(seed, Flake) /\ lines = Held(seed, flake.script)
  BY <1>4, <1>5
<1>. HIDE DEF flake, said, at, lines
<1>. QED
  BY <1>4, <1>6, <1>7, <1>8, <1>9 DEF ScriptsRunAsWritten, said, at

\* The words of a shebang are in the seed and in the pod, each where Nix would have
\* used it; the files of the seed go together; and the script has its lines where
\* they were (shebang::parse, generate::seed, podspec::pod).
THEOREM ScriptsAreRunAsWritten == Spec => []ScriptsRunAsWritten
<1>1. Init => Authored /\ Sown
  BY InitAuthored, InitSown
<1>2. Authored /\ Sown /\ [Next]_vars => (Authored /\ Sown)'
  BY NextAuthored, NextSown
<1>3. Authored /\ Sown => ScriptsRunAsWritten
  BY ScriptsStep
<1>. QED
  BY <1>1, <1>2, <1>3, PTL DEF Spec
=============================================================================
