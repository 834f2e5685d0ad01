------------------------------- MODULE Doctor -------------------------------
(***************************************************************************)
(* kubectl-imageless doctor: what it concludes from what kubectl, a policy *)
(* file, a reference and a registry tell it (doctor.rs, kubectl.rs).  Each *)
(* call of kubectl sees the cluster at a time of its own, so the answers   *)
(* need not fit together.                                                  *)
(*                                                                         *)
(* The options are [strict, policy, source, repo], None for what was not   *)
(* given; a policy that cannot be read, or is no JSON, is Malformed.       *)
(***************************************************************************)
EXTENDS Releases

Ids == {"kubectl", "context", "runtime-class", "scheduling", "nodes", "node-config", "policy",
        "source", "registry"}

\* The client and the server are minors, or None where there is none to be read.
Skewed(client, server) ==
  None \notin {client, server} /\ (client > server + 1 \/ server > client + 1)

\* The client is asked first, then the server is probed; either may stop doctor.
ProbeFailed(answers) == ~answers.installed \/ ~answers.reached

CheckKubectl(answers) ==
  IF ProbeFailed(answers) THEN "fail"
  ELSE IF Skewed(answers.client, answers.server) THEN "warn" ELSE "pass"

\* In a pod there is no context to be read.
CheckContext(answers) == IF answers.hasContext \/ answers.inCluster THEN "pass" ELSE "warn"

\* A class is [answer, handler, selector]; kubectl may say that it is absent, that
\* it is forbidden to look, or something other.
CheckRuntimeClass(class, name) ==
  CASE class.answer \in {"absent", "other"} -> "fail"
    [] class.answer = "forbidden" -> "skip"
    [] OTHER -> IF class.handler = name THEN "pass" ELSE "warn"

\* The labels that a node has to have; none where there is no class.
SelectorOf(class) == IF class.answer = "found" THEN class.selector ELSE {}

CheckScheduling(class) ==
  IF class.answer # "found" THEN "skip" ELSE IF class.selector = {} THEN "warn" ELSE "pass"

Matching(items, selector) == {n \in items : selector \subseteq n.labels}

\* Nodes are [answer, items], an item is [labels, ready].
CheckNodes(nodes, selector) ==
  CASE nodes.answer = "forbidden" -> "skip"
    [] nodes.answer = "other" -> "fail"
    [] OTHER -> IF selector = {} THEN "skip"
                ELSE IF Matching(nodes.items, selector) = {} THEN "fail"
                ELSE IF \A n \in Matching(nodes.items, selector) : n.ready THEN "pass" ELSE "warn"

\* A prefix that goes on in the middle of a name.
Unterminated(prefix) == Last(prefix) \notin {"/", ":"}

\* Mutant: a policy is read for its prefixes alone.
CheckPolicyPrefixes(policy) ==
  CASE policy = None -> "skip"
    [] policy = Malformed -> "fail"
    [] OTHER -> IF policy.prefixes = {} THEN "fail"
                ELSE IF \E prefix \in policy.prefixes : Unterminated(prefix) THEN "warn" ELSE "pass"

\* The file is parsed, not validated as the daemon does.
CheckPolicy(policy) ==
  CASE policy = None -> "skip"
    [] policy = Malformed -> "fail"
    [] OTHER -> IF policy.cacheOnly THEN "warn"
                ELSE IF policy.prefixes = {} THEN "fail"
                ELSE IF \E prefix \in policy.prefixes : Unterminated(prefix) THEN "warn" ELSE "pass"

\* The node's grammar, the policy's prefixes if it can be read, and the pin.
CheckSource(source, policy) ==
  IF source = None THEN "skip"
  ELSE IF ~ValidSource(source) \/ (policy \notin {None, Malformed} /\ ~Authorized(source, policy.prefixes))
  THEN "fail"
  ELSE CASE PinOf(source) = "pinned" -> "pass"
         [] PinOf(source) = "none" -> "warn"
         [] PinOf(source) = "malformed" -> "fail"

\* Registry::connect, and the node's own loopback is not this one's.
CheckRegistry(repo, connected) ==
  IF repo = None THEN "skip" ELSE IF ~connected THEN "fail"
  ELSE IF repo = "loopback" THEN "warn" ELSE "pass"

\* diagnose: without a cluster the checks of files and references remain.
Diagnose(options, answers) ==
  LET cluster == ~ProbeFailed(answers)
      OfCluster(status) == IF cluster THEN status ELSE "skip"
  IN [id \in Ids |->
       CASE id = "kubectl" -> CheckKubectl(answers)
         [] id = "context" -> CheckContext(answers)
         [] id = "runtime-class" -> OfCluster(CheckRuntimeClass(answers.class, "imageless"))
         [] id = "scheduling" -> OfCluster(CheckScheduling(answers.class))
         [] id = "nodes" -> OfCluster(CheckNodes(answers.nodes, SelectorOf(answers.class)))
         [] id = "node-config" -> "skip"
         [] id = "policy" -> CheckPolicy(options.policy)
         [] id = "source" -> CheckSource(options.source, options.policy)
         [] id = "registry" -> CheckRegistry(options.repo, answers.connected)]

ExitCode(options, answers) ==
  LET statuses == Range(Diagnose(options, answers))
  IN IF ProbeFailed(answers) THEN 3
     ELSE IF "fail" \in statuses \/ (options.strict /\ "warn" \in statuses) THEN 1 ELSE 0
=============================================================================
