-------------------------------- MODULE Push --------------------------------
(***************************************************************************)
(* kubectl-imageless pushes an image: it pings the registry, makes sure of *)
(* each blob (HEAD, and if it is not there POST and PUT), and then puts    *)
(* the manifest under its digest and, if the user gave one, under a tag.   *)
(* Every call goes through Registry::call, which answers a 401 by getting  *)
(* a new header and repeats the request once.                              *)
(*                                                                         *)
(* Several pushes share the registry.  The registry is external: what it   *)
(* checks and collects is a setting.  An image is its blobs and its        *)
(* manifest; digests name both, so a name stands for the bytes.            *)
(***************************************************************************)
EXTENDS Naturals, Sequences

CONSTANTS
  Pushes,      \* the runs of kubectl-imageless
  LayerOf,     \* LayerOf[p]: the layer of p's image
  ConfigOf,    \* ConfigOf[p]: its config
  ManifestOf,  \* ManifestOf[p]: its manifest
  TagOf,       \* TagOf[p]: the tag it gets, or NoTag
  NoTag,
  Settings     \* the registries to try

BlobsOf(p) == {LayerOf[p], ConfigOf[p]}
Blobs == UNION {BlobsOf(p) : p \in Pushes}
Manifests == {ManifestOf[p] : p \in Pushes}
Tags == {TagOf[p] : p \in Pushes} \ {NoTag}
Access == {"pull", "push"}

ASSUME PushAssumption ==
  /\ NoTag \notin Manifests
  /\ Tags \cap Manifests = {}   \* a tag has no colon
  /\ \A p, q \in Pushes : ManifestOf[p] = ManifestOf[q] => BlobsOf(p) = BlobsOf(q)
  /\ Settings \subseteq [strict : BOOLEAN, reaps : BOOLEAN, grants : BOOLEAN, scoped : BOOLEAN]

VARIABLES
  setting,   \* strict: the registry refuses a manifest that lacks blobs; reaps:
             \* it collects what nothing refers to; grants: it gives the access
             \* that it asks for; scoped: its challenges name that access
  blobs,     \* the blobs it holds
  manifests, \* the manifests it holds
  tags,      \* tags[t]: the manifest that a tag names
  access,    \* access[p]: what p's Authorization header is good for
  call,      \* call[p]: which of its calls p is at
  retried,   \* p has answered a challenge in this call
  away,      \* the upload goes to another host
  answer     \* how the push ended

registryVars == <<setting, blobs, manifests, tags>>
clientVars == <<access, call, retried, away, answer>>
vars == <<registryVars, clientVars>>

EnsureBlob(b) == <<[do |-> "head", of |-> b], [do |-> "start", of |-> b],
                   [do |-> "upload", of |-> b]>>

PutManifest(ref) == <<[do |-> "manifest", of |-> ref]>>

\* Mutant: the manifest first, it is the smallest.
CallsManifestFirst == [p \in Pushes |->
  <<[do |-> "ping", of |-> NoTag]>>
  \o PutManifest(ManifestOf[p])
  \o EnsureBlob(LayerOf[p]) \o EnsureBlob(ConfigOf[p])
  \o IF TagOf[p] = NoTag THEN <<>> ELSE PutManifest(TagOf[p])]

\* The calls of one push, in their order.
Calls == [p \in Pushes |->
  <<[do |-> "ping", of |-> NoTag]>>
  \o EnsureBlob(LayerOf[p]) \o EnsureBlob(ConfigOf[p])
  \o PutManifest(ManifestOf[p])
  \o IF TagOf[p] = NoTag THEN <<>> ELSE PutManifest(TagOf[p])]

Now(p) == Calls[p][call[p]]

TypeOK ==
  /\ setting \in Settings
  /\ blobs \subseteq Blobs
  /\ manifests \subseteq Manifests
  /\ tags \in [Tags -> Manifests \cup {NoTag}]
  /\ access \in [Pushes -> SUBSET Access]
  /\ call \in [Pushes -> Nat \ {0}]
  /\ retried \in [Pushes -> BOOLEAN]
  /\ away \in [Pushes -> BOOLEAN]
  /\ answer \in [Pushes -> {"none", "pushed", "refused", "failed"}]

Init ==
  /\ setting \in Settings
  /\ blobs = {}
  /\ manifests = {}
  /\ tags = [t \in Tags |-> NoTag]
  /\ access = [p \in Pushes |-> {}]
  /\ call = [p \in Pushes |-> 1]
  /\ retried = [p \in Pushes |-> FALSE]
  /\ away = [p \in Pushes |-> FALSE]
  /\ answer = [p \in Pushes |-> "none"]

-----------------------------------------------------------------------------
(***************************************************************************)
(* The registry.                                                           *)
(***************************************************************************)
Needs(p) == IF Now(p).do \in {"ping", "head"} THEN {"pull"} ELSE {"push"}

\* The header is only sent to the registry itself; whoever signed an upload URL
\* elsewhere does without.
Authorized(p) == Needs(p) \subseteq access[p] \/ (Now(p).do = "upload" /\ away[p])

Holds(m) == \A p \in Pushes : ManifestOf[p] = m => BlobsOf(p) \subseteq blobs

\* What the registry does with a call that it accepts.
Effect(p) ==
  LET c == Now(p)
  IN  CASE c.do = "upload" ->
             blobs' = blobs \cup {c.of} /\ UNCHANGED <<setting, manifests, tags>>
        [] c.do = "manifest" ->
             /\ setting.strict => Holds(ManifestOf[p])
             /\ manifests' = manifests \cup {ManifestOf[p]}
             /\ tags' = IF c.of = ManifestOf[p] THEN tags ELSE [tags EXCEPT ![c.of] = ManifestOf[p]]
             /\ UNCHANGED <<setting, blobs>>
        [] OTHER -> UNCHANGED registryVars

ReapManifest(m) ==
  /\ setting.reaps
  /\ m \in manifests
  /\ \A t \in Tags : tags[t] # m
  /\ manifests' = manifests \ {m}
  /\ UNCHANGED <<setting, blobs, tags, clientVars>>

ReapBlob(b) ==
  /\ setting.reaps
  /\ b \in blobs
  /\ \A p \in Pushes : ManifestOf[p] \in manifests => b \notin BlobsOf(p)
  /\ blobs' = blobs \ {b}
  /\ UNCHANGED <<setting, manifests, tags, clientVars>>

\* A token expires; under a registry that grants, not between the answer to a
\* challenge and the repeated request.
TokenExpires(p) ==
  /\ answer[p] = "none"
  /\ access[p] # {}
  /\ setting.grants => ~retried[p]
  /\ access' = [access EXCEPT ![p] = {}]
  /\ UNCHANGED <<registryVars, call, retried, away, answer>>

-----------------------------------------------------------------------------
(***************************************************************************)
(* The client.                                                             *)
(***************************************************************************)
\* The push ends, and its Registry is dropped.
End(p, a) ==
  /\ answer' = [answer EXCEPT ![p] = a]
  /\ access' = [access EXCEPT ![p] = {}]
  /\ call' = [call EXCEPT ![p] = 1]
  /\ retried' = [retried EXCEPT ![p] = FALSE]
  /\ away' = [away EXCEPT ![p] = FALSE]

\* Mutant: the retry is once per push, not once per call.
NextCallStillRetried(p, n, elsewhere) ==
  /\ call' = [call EXCEPT ![p] = n]
  /\ away' = [away EXCEPT ![p] = elsewhere]
  /\ UNCHANGED <<access, retried, answer>>

NextCall(p, n, elsewhere) ==
  /\ call' = [call EXCEPT ![p] = n]
  /\ retried' = [retried EXCEPT ![p] = FALSE]
  /\ away' = [away EXCEPT ![p] = elsewhere]
  /\ UNCHANGED <<access, answer>>

\* A blob that is there is not uploaded.
After(p) == IF Now(p).do = "head" /\ Now(p).of \in blobs THEN call[p] + 3 ELSE call[p] + 1

\* Past the last call the image is pushed.  The Location that a started upload
\* gets may be on another host.
Served(p) ==
  /\ answer[p] = "none"
  /\ Authorized(p)
  /\ Effect(p)
  /\ IF call[p] = Len(Calls[p])
     THEN End(p, "pushed")
     ELSE \E elsewhere \in BOOLEAN :
            /\ elsewhere => Now(p).do = "start"
            /\ NextCall(p, After(p), elsewhere)

\* fetch_bearer_token, basic_header: a header that is good for what the challenge
\* named, or for everything if it named nothing; or for less.
Gained(p) ==
  LET asked == IF setting.scoped THEN Needs(p) ELSE Access
  IN  IF setting.grants THEN {asked} ELSE SUBSET asked

\* Mutant: every challenge is answered.
AuthenticateAgain(p) ==
  /\ \E a \in Gained(p) : access' = [access EXCEPT ![p] = a]
  /\ retried' = [retried EXCEPT ![p] = TRUE]
  /\ UNCHANGED <<call, away, answer>>

\* The first challenge of a call is answered with a new header.
Authenticate(p) ==
  /\ ~retried[p]
  /\ \E a \in Gained(p) : access' = [access EXCEPT ![p] = a]
  /\ retried' = [retried EXCEPT ![p] = TRUE]
  /\ UNCHANGED <<call, away, answer>>

\* A 401.  Nothing is gained from an unknown challenge, without a credential or
\* without a token.
Challenged(p) ==
  /\ answer[p] = "none"
  /\ ~Authorized(p)
  /\ \/ Authenticate(p)
     \/ (retried[p] \/ ~setting.grants) /\ End(p, "refused")
  /\ UNCHANGED registryVars

\* Mutant: only a call without an answer fails.
CallFailsUnread(p) ==
  /\ answer[p] = "none"
  /\ UNCHANGED registryVars
  /\ IF call[p] = Len(Calls[p]) THEN End(p, "pushed") ELSE NextCall(p, call[p] + 1, FALSE)

\* Another status, a wrong digest in the answer, a 401 from another host, no
\* answer at all: the push fails, and the registry may have done the call.
CallFails(p) ==
  /\ answer[p] = "none"
  /\ (Authorized(p) /\ Effect(p)) \/ UNCHANGED registryVars
  /\ End(p, "failed")

Request(p) == Served(p) \/ Challenged(p) \/ CallFails(p)

Next ==
  \/ \E p \in Pushes : Request(p) \/ TokenExpires(p)
  \/ \E m \in Manifests : ReapManifest(m)
  \/ \E b \in Blobs : ReapBlob(b)

\* Every request returns: its agent has a timeout.
Spec == Init /\ [][Next]_vars /\ \A p \in Pushes : WF_vars(Request(p))

-----------------------------------------------------------------------------
(***************************************************************************)
(* Properties.                                                             *)
(***************************************************************************)
\* The registry never holds a manifest whose blobs it lacks, whichever pushes
\* failed halfway and whatever it collected; with a registry that does not look,
\* the order of the calls has to see to it.
ManifestsAreWhole == \A m \in manifests : Holds(m)

\* An image that was pushed stays until the registry may collect it, and with a
\* tag until another push moves the tag.
PushedIsThere ==
  \A p \in Pushes : answer[p] = "pushed" =>
    /\ ManifestOf[p] \in manifests \/ setting.reaps
    /\ TagOf[p] # NoTag =>
         \E q \in Pushes : /\ TagOf[q] = TagOf[p]
                         /\ ManifestOf[q] = tags[TagOf[p]]
                         /\ ManifestOf[q] \in manifests

\* A token that expires between two calls, or that was too narrow for the next
\* one, does not cost the push.
ExpiryIsAnswered == \A p \in Pushes : setting.grants => answer[p] # "refused"

\* Every push ends, although the registry may challenge every request.
EveryPushEnds == \A p \in Pushes : <>(answer[p] # "none")

=============================================================================
