------------------------------ MODULE PushProofs ------------------------------
(***************************************************************************)
(* Proofs about Push, for any pushes that share blobs, manifests and tags: *)
(* the registry holds no manifest without its blobs, what was pushed is    *)
(* there, and an expired token costs no push.                              *)
(*                                                                         *)
(* A registry that looks at the manifests it takes is whole by itself.     *)
(* With one that does not, a client must have put the blobs before the     *)
(* manifest, and nothing it put may have gone since: so the invariant says *)
(* what the place of a client in its sequence of calls tells of the        *)
(* registry, and a registry that collects must be one that looks.          *)
(***************************************************************************)
EXTENDS Push, TLAPS

\* A registry that collects blobs refuses manifests that lack some.
Careful == \A s \in Settings : s.reaps => s.strict

Last(p) == IF TagOf[p] = NoTag THEN 8 ELSE 9

InCall == \A p \in Pushes : call[p] \in 1..Last(p)

\* Where nothing is collected, what is behind a client is done.
Behind == ~setting.reaps => \A p \in Pushes :
  /\ call[p] > 4 => LayerOf[p] \in blobs
  /\ call[p] > 7 => ConfigOf[p] \in blobs
  /\ call[p] > 8 => ManifestOf[p] \in manifests

\* A tag names a manifest that is there, and was put under it by some push.
Named == \A t \in Tags : tags[t] # NoTag =>
  /\ tags[t] \in manifests
  /\ \E q \in Pushes : TagOf[q] = t /\ ManifestOf[q] = tags[t]

\* A push that has ended with success has done its last call.
Pushed == \A p \in Pushes : answer[p] = "pushed" =>
  /\ ManifestOf[p] \in manifests \/ setting.reaps
  /\ TagOf[p] # NoTag => tags[TagOf[p]] # NoTag

\* A registry that grants what it asks for is not asked twice.
Granted == setting.grants => \A p \in Pushes :
  /\ answer[p] # "refused"
  /\ retried[p] => Needs(p) \subseteq access[p]

IInv == TypeOK /\ InCall /\ Behind /\ Named /\ Pushed /\ Granted

\* The calls of a push, one by one.
LEMMA CallsInOrder ==
  ASSUME NEW p \in Pushes
  PROVE  /\ Len(Calls[p]) = Last(p)
         /\ Calls[p][1] = [do |-> "ping", of |-> NoTag]
         /\ Calls[p][2] = [do |-> "head", of |-> LayerOf[p]]
         /\ Calls[p][3] = [do |-> "start", of |-> LayerOf[p]]
         /\ Calls[p][4] = [do |-> "upload", of |-> LayerOf[p]]
         /\ Calls[p][5] = [do |-> "head", of |-> ConfigOf[p]]
         /\ Calls[p][6] = [do |-> "start", of |-> ConfigOf[p]]
         /\ Calls[p][7] = [do |-> "upload", of |-> ConfigOf[p]]
         /\ Calls[p][8] = [do |-> "manifest", of |-> ManifestOf[p]]
         /\ TagOf[p] # NoTag => Calls[p][9] = [do |-> "manifest", of |-> TagOf[p]]
<1>1. Calls[p] =
        <<[do |-> "ping", of |-> NoTag],
          [do |-> "head", of |-> LayerOf[p]], [do |-> "start", of |-> LayerOf[p]],
          [do |-> "upload", of |-> LayerOf[p]],
          [do |-> "head", of |-> ConfigOf[p]], [do |-> "start", of |-> ConfigOf[p]],
          [do |-> "upload", of |-> ConfigOf[p]],
          [do |-> "manifest", of |-> ManifestOf[p]]>>
        \o IF TagOf[p] = NoTag THEN <<>> ELSE <<[do |-> "manifest", of |-> TagOf[p]]>>
  BY DEF Calls, EnsureBlob, PutManifest
<1>. QED
  BY <1>1 DEF Last

\* What a push does in each of its calls, and with which blob, manifest or tag.
LEMMA NowByCall ==
  ASSUME NEW p \in Pushes
  PROVE  /\ call[p] \in {3, 6} => Now(p).do = "start"
         /\ call[p] = 1 => Now(p).do = "ping"
         /\ call[p] = 2 => Now(p).do = "head" /\ Now(p).of = LayerOf[p]
         /\ call[p] = 4 => Now(p).do = "upload" /\ Now(p).of = LayerOf[p]
         /\ call[p] = 5 => Now(p).do = "head" /\ Now(p).of = ConfigOf[p]
         /\ call[p] = 7 => Now(p).do = "upload" /\ Now(p).of = ConfigOf[p]
         /\ call[p] = 8 => Now(p).do = "manifest" /\ Now(p).of = ManifestOf[p]
         /\ call[p] = 9 /\ TagOf[p] # NoTag => Now(p).do = "manifest" /\ Now(p).of = TagOf[p]
<1>1. ASSUME call[p] = 1 PROVE Now(p).do = "ping"
  <2>1. Now(p) = [do |-> "ping", of |-> NoTag]
    BY <1>1, CallsInOrder DEF Now
  <2>. QED
    BY <2>1
<1>2. ASSUME call[p] = 2 PROVE Now(p).do = "head" /\ Now(p).of = LayerOf[p]
  <2>1. Now(p) = [do |-> "head", of |-> LayerOf[p]]
    BY <1>2, CallsInOrder DEF Now
  <2>. QED
    BY <2>1
<1>3. ASSUME call[p] = 3 PROVE Now(p).do = "start"
  <2>1. Now(p) = [do |-> "start", of |-> LayerOf[p]]
    BY <1>3, CallsInOrder DEF Now
  <2>. QED
    BY <2>1
<1>4. ASSUME call[p] = 4 PROVE Now(p).do = "upload" /\ Now(p).of = LayerOf[p]
  <2>1. Now(p) = [do |-> "upload", of |-> LayerOf[p]]
    BY <1>4, CallsInOrder DEF Now
  <2>. QED
    BY <2>1
<1>5. ASSUME call[p] = 5 PROVE Now(p).do = "head" /\ Now(p).of = ConfigOf[p]
  <2>1. Now(p) = [do |-> "head", of |-> ConfigOf[p]]
    BY <1>5, CallsInOrder DEF Now
  <2>. QED
    BY <2>1
<1>6. ASSUME call[p] = 6 PROVE Now(p).do = "start"
  <2>1. Now(p) = [do |-> "start", of |-> ConfigOf[p]]
    BY <1>6, CallsInOrder DEF Now
  <2>. QED
    BY <2>1
<1>7. ASSUME call[p] = 7 PROVE Now(p).do = "upload" /\ Now(p).of = ConfigOf[p]
  <2>1. Now(p) = [do |-> "upload", of |-> ConfigOf[p]]
    BY <1>7, CallsInOrder DEF Now
  <2>. QED
    BY <2>1
<1>8. ASSUME call[p] = 8 PROVE Now(p).do = "manifest" /\ Now(p).of = ManifestOf[p]
  <2>1. Now(p) = [do |-> "manifest", of |-> ManifestOf[p]]
    BY <1>8, CallsInOrder DEF Now
  <2>. QED
    BY <2>1
<1>9. ASSUME call[p] = 9 /\ TagOf[p] # NoTag PROVE Now(p).do = "manifest" /\ Now(p).of = TagOf[p]
  <2>1. Now(p) = [do |-> "manifest", of |-> TagOf[p]]
    BY <1>9, CallsInOrder DEF Now
  <2>. QED
    BY <2>1
<1>. QED
  BY <1>1, <1>2, <1>3, <1>4, <1>5, <1>6, <1>7, <1>8, <1>9

\* What the registry does with a call, by its place in the sequence.
LEMMA EffectByCall ==
  ASSUME IInv, NEW p \in Pushes, Effect(p)
  PROVE  /\ setting' = setting
         /\ blobs' = CASE call[p] = 4 -> blobs \cup {LayerOf[p]}
                       [] call[p] = 7 -> blobs \cup {ConfigOf[p]}
                       [] OTHER -> blobs
         /\ call[p] < 8 => manifests' = manifests
         /\ call[p] >= 8 => /\ manifests' = manifests \cup {ManifestOf[p]}
                            /\ setting.strict => Holds(ManifestOf[p])
         /\ call[p] < 9 => tags' = tags
         /\ call[p] = 9 => /\ TagOf[p] \in Tags
                           /\ tags' = [tags EXCEPT ![TagOf[p]] = ManifestOf[p]]
<1>1. call[p] \in 1..9 /\ (call[p] = 9 => TagOf[p] # NoTag)
  BY DEF IInv, InCall, Last
<1>2. TagOf[p] # NoTag => TagOf[p] \in Tags /\ TagOf[p] # ManifestOf[p]
  BY PushAssumption DEF Tags, Manifests
<1>3. CASE call[p] \in {1, 2, 3, 5, 6}
  <2>1. Now(p).do \notin {"upload", "manifest"}
    BY <1>3, NowByCall
  <2>2. UNCHANGED registryVars
    BY <2>1 DEF Effect
  <2>. QED
    BY <1>3, <2>2 DEF registryVars
<1>4. CASE call[p] \in {4, 7}
  <2>1. Now(p).do = "upload" /\ Now(p).of = IF call[p] = 4 THEN LayerOf[p] ELSE ConfigOf[p]
    BY <1>4, NowByCall
  <2>2. blobs' = blobs \cup {Now(p).of} /\ UNCHANGED <<setting, manifests, tags>>
    BY <2>1 DEF Effect
  <2>. QED
    BY <1>4, <2>1, <2>2
<1>5. CASE call[p] \in {8, 9}
  <2>1. Now(p).do = "manifest" /\ Now(p).of = IF call[p] = 8 THEN ManifestOf[p] ELSE TagOf[p]
    BY <1>1, <1>5, NowByCall
  <2>2. /\ setting.strict => Holds(ManifestOf[p])
        /\ manifests' = manifests \cup {ManifestOf[p]}
        /\ tags' = IF Now(p).of = ManifestOf[p] THEN tags
                   ELSE [tags EXCEPT ![Now(p).of] = ManifestOf[p]]
        /\ UNCHANGED <<setting, blobs>>
    BY <2>1 DEF Effect
  <2>3. CASE call[p] = 8
    BY <2>1, <2>2, <2>3
  <2>4. CASE call[p] = 9
    BY <1>1, <1>2, <2>1, <2>2, <2>4
  <2>. QED
    BY <1>5, <2>3, <2>4
<1>. QED
  BY <1>1, <1>3, <1>4, <1>5

\* A client moves on, past the upload only if the blob is there, or ends.
LEMMA MovesOn ==
  ASSUME IInv, NEW p \in Pushes, Served(p)
  PROVE  \/ /\ call[p] = Last(p)
            /\ End(p, "pushed")
         \/ /\ call[p] # Last(p)
            /\ \E elsewhere \in BOOLEAN : NextCall(p, After(p), elsewhere)
            /\ After(p) = IF \/ call[p] = 2 /\ LayerOf[p] \in blobs
                             \/ call[p] = 5 /\ ConfigOf[p] \in blobs
                          THEN call[p] + 3 ELSE call[p] + 1
<1>1. call[p] \in 1..9 /\ (call[p] = 9 => TagOf[p] # NoTag)
  BY DEF IInv, InCall, Last
<1>2. Len(Calls[p]) = Last(p)
  BY CallsInOrder
<1>3. ASSUME call[p] \notin {2, 5} PROVE Now(p).do # "head"
  <2>1. call[p] = 1 \/ call[p] \in {3, 6} \/ call[p] = 4 \/ call[p] = 7 \/ call[p] = 8
          \/ (call[p] = 9 /\ TagOf[p] # NoTag)
    BY <1>1, <1>3
  <2>. QED
    BY <2>1, NowByCall
<1>4. After(p) = IF \/ call[p] = 2 /\ LayerOf[p] \in blobs
                    \/ call[p] = 5 /\ ConfigOf[p] \in blobs
                 THEN call[p] + 3 ELSE call[p] + 1
  BY <1>1, <1>3, NowByCall DEF After
<1>. QED
  BY <1>2, <1>4 DEF Served

\* A call only adds to what the registry holds, and names what it holds.
LEMMA EffectGrows ==
  ASSUME IInv, NEW p \in Pushes, Effect(p) \/ UNCHANGED registryVars
  PROVE  /\ setting' = setting /\ setting' \in Settings
         /\ blobs \subseteq blobs' /\ blobs' \subseteq Blobs
         /\ manifests \subseteq manifests' /\ manifests' \subseteq Manifests
         /\ tags' \in [Tags -> Manifests \cup {NoTag}]
         /\ \A t \in Tags : tags[t] # NoTag => tags'[t] # NoTag
         /\ Named'
<1>1. TypeOK /\ Named /\ call[p] \in 1..9
  BY DEF IInv, InCall, Last
<1>2. CASE UNCHANGED registryVars
  BY <1>1, <1>2 DEF registryVars, TypeOK, Named
<1>3. CASE Effect(p)
  <2>1. LayerOf[p] \in Blobs /\ ConfigOf[p] \in Blobs
    BY DEF Blobs, BlobsOf
  <2>2. ManifestOf[p] \in Manifests /\ ManifestOf[p] # NoTag
    BY PushAssumption DEF Manifests
  <2>3. /\ setting' = setting /\ blobs \subseteq blobs' /\ blobs' \subseteq Blobs
    BY <1>1, <1>3, <2>1, EffectByCall DEF TypeOK
  <2>4. CASE call[p] < 8
    BY <1>1, <1>3, <2>3, <2>4, EffectByCall DEF TypeOK, Named
  <2>5. CASE call[p] = 8
    BY <1>1, <1>3, <2>2, <2>3, <2>5, EffectByCall DEF TypeOK, Named
  <2>6. CASE call[p] = 9
    BY <1>1, <1>3, <2>2, <2>3, <2>6, EffectByCall DEF TypeOK, Named
  <2>. QED
    BY <1>1, <2>4, <2>5, <2>6
<1>. QED
  BY <1>2, <1>3

\* A push that ends leaves the other pushes alone.
LEMMA EndInv ==
  ASSUME IInv, NEW p \in Pushes, NEW a \in {"refused", "failed"}, End(p, a),
         Effect(p) \/ UNCHANGED registryVars,
         a = "refused" => ~setting.grants
  PROVE  IInv'
<1>1. /\ setting' = setting /\ blobs \subseteq blobs' /\ manifests \subseteq manifests' /\ Named'
      /\ \A t \in Tags : tags[t] # NoTag => tags'[t] # NoTag
  BY EffectGrows
<1>2. TypeOK'
  BY EffectGrows DEF IInv, TypeOK, End
<1>3. InCall' /\ Behind'
  BY <1>1 DEF IInv, TypeOK, End, InCall, Behind, Last
<1>4. Pushed'
  BY <1>1 DEF IInv, TypeOK, End, Pushed, Tags
<1>5. Granted'
  BY <1>1 DEF IInv, TypeOK, End, Granted, Needs, Now
<1>. QED
  BY <1>1, <1>2, <1>3, <1>4, <1>5 DEF IInv

LEMMA ServedInv ==
  ASSUME IInv, NEW p \in Pushes, Served(p)
  PROVE  IInv'
<1>1. /\ setting' = setting /\ blobs \subseteq blobs' /\ manifests \subseteq manifests' /\ Named'
      /\ \A t \in Tags : tags[t] # NoTag => tags'[t] # NoTag
  BY EffectGrows DEF Served
<1>2. TypeOK /\ call[p] \in 1..9 /\ answer[p] = "none"
  BY DEF IInv, InCall, Last, Served
<1>3. CASE call[p] = Last(p) /\ End(p, "pushed")
  <2>1. TypeOK'
    BY <1>3, EffectGrows DEF IInv, TypeOK, End, Served
  <2>2. InCall' /\ Behind'
    BY <1>1, <1>3 DEF IInv, TypeOK, End, InCall, Behind, Last
  <2>3. ManifestOf[p] \in manifests' /\ (TagOf[p] # NoTag => tags'[TagOf[p]] # NoTag)
    <3>1. ManifestOf[p] \in Manifests /\ ManifestOf[p] # NoTag
      BY PushAssumption DEF Manifests
    <3>. QED
      BY <1>2, <1>3, <3>1, EffectByCall DEF Served, Last, TypeOK
  <2>4. Pushed'
    BY <1>1, <1>3, <2>3 DEF IInv, TypeOK, End, Pushed, Tags
  <2>5. Granted'
    BY <1>1, <1>3 DEF IInv, TypeOK, End, Granted, Needs, Now
  <2>. QED
    BY <1>1, <2>1, <2>2, <2>4, <2>5 DEF IInv
<1>4. ASSUME NEW elsewhere \in BOOLEAN, call[p] # Last(p), NextCall(p, After(p), elsewhere),
             After(p) = IF \/ call[p] = 2 /\ LayerOf[p] \in blobs
                           \/ call[p] = 5 /\ ConfigOf[p] \in blobs
                        THEN call[p] + 3 ELSE call[p] + 1
      PROVE  IInv'
  <2>1. After(p) \in 2..Last(p) /\ After(p) \in Nat \ {0}
    BY <1>2, <1>4 DEF IInv, InCall, Last
  <2>2. TypeOK'
    BY <1>4, <2>1, EffectGrows DEF IInv, TypeOK, NextCall, Served
  <2>3. InCall'
    BY <1>4, <2>1 DEF IInv, TypeOK, InCall, NextCall, Last
  <2>4. ASSUME ~setting.reaps
        PROVE  /\ After(p) > 4 => LayerOf[p] \in blobs'
               /\ After(p) > 7 => ConfigOf[p] \in blobs'
               /\ After(p) > 8 => ManifestOf[p] \in manifests'
    BY <1>1, <1>2, <1>4, <2>4, EffectByCall DEF IInv, Behind, Served
  <2>5. Behind'
    BY <1>1, <1>4, <2>4 DEF IInv, TypeOK, Behind, NextCall
  <2>6. Pushed'
    BY <1>1, <1>2, <1>4 DEF IInv, TypeOK, NextCall, Pushed, Tags
  <2>7. Granted'
    BY <1>1, <1>4 DEF IInv, TypeOK, NextCall, Granted, Needs, Now
  <2>. QED
    BY <1>1, <2>2, <2>3, <2>5, <2>6, <2>7 DEF IInv
<1>. QED
  BY <1>3, <1>4, MovesOn

\* A challenge: a registry that grants gives what the call needs.
LEMMA AuthenticateInv ==
  ASSUME IInv, NEW p \in Pushes, Authenticate(p), UNCHANGED registryVars
  PROVE  IInv'
<1>1. PICK a \in Gained(p) : access' = [access EXCEPT ![p] = a]
  BY DEF Authenticate
<1>2. a \subseteq Access /\ (setting.grants => Needs(p) \subseteq a)
  BY <1>1 DEF Gained, Needs, Access
<1>3. TypeOK'
  BY <1>1, <1>2 DEF IInv, TypeOK, Authenticate, registryVars
<1>4. Granted'
  BY <1>1, <1>2 DEF IInv, TypeOK, Granted, Authenticate, registryVars, Needs, Now
<1>. QED
  BY <1>3, <1>4 DEF IInv, InCall, Behind, Named, Pushed, Authenticate, registryVars

LEMMA NextInv == IInv /\ [Next]_vars => IInv'
<1>. SUFFICES ASSUME IInv, [Next]_vars PROVE IInv'
  OBVIOUS
<1>1. ASSUME NEW p \in Pushes, Served(p) PROVE IInv'
  BY <1>1, ServedInv
<1>2. ASSUME NEW p \in Pushes, Challenged(p) PROVE IInv'
  <2>1. CASE Authenticate(p)
    BY <1>2, <2>1, AuthenticateInv DEF Challenged
  <2>2. CASE (retried[p] \/ ~setting.grants) /\ End(p, "refused")
    <3>1. ~setting.grants
      BY <1>2, <2>2 DEF Challenged, Authorized, IInv, Granted
    <3>. QED
      BY <1>2, <2>2, <3>1, EndInv DEF Challenged
  <2>. QED
    BY <1>2, <2>1, <2>2 DEF Challenged
<1>3. ASSUME NEW p \in Pushes, CallFails(p) PROVE IInv'
  BY <1>3, EndInv DEF CallFails
<1>4. ASSUME NEW p \in Pushes, TokenExpires(p) PROVE IInv'
  BY <1>4 DEF IInv, TypeOK, InCall, Behind, Named, Pushed, Granted, TokenExpires,
              registryVars, Needs, Now
<1>5. ASSUME NEW m \in Manifests, ReapManifest(m) PROVE IInv'
  BY <1>5 DEF IInv, TypeOK, InCall, Behind, Named, Pushed, Granted, ReapManifest,
              clientVars, Needs, Now
<1>6. ASSUME NEW b \in Blobs, ReapBlob(b) PROVE IInv'
  BY <1>6 DEF IInv, TypeOK, InCall, Behind, Named, Pushed, Granted, ReapBlob,
              clientVars, Needs, Now
<1>7. CASE UNCHANGED vars
  BY <1>7 DEF vars, registryVars, clientVars, IInv, TypeOK, InCall, Behind, Named, Pushed,
              Granted, Needs, Now
<1>. QED
  BY <1>1, <1>2, <1>3, <1>4, <1>5, <1>6, <1>7 DEF Next, Request

LEMMA InitInv == Init => IInv
  BY DEF Init, IInv, TypeOK, InCall, Behind, Named, Pushed, Granted, Last

\* A manifest is only put where its blobs are, and then keeps them.
LEMMA WholeNext ==
  Careful /\ IInv /\ ManifestsAreWhole /\ [Next]_vars => ManifestsAreWhole'
<1>. SUFFICES ASSUME Careful, IInv, ManifestsAreWhole, [Next]_vars PROVE ManifestsAreWhole'
  OBVIOUS
<1>1. ASSUME NEW p \in Pushes, Effect(p) PROVE ManifestsAreWhole'
  <2>1. /\ blobs \subseteq blobs'
        /\ manifests' \in {manifests, manifests \cup {ManifestOf[p]}}
        /\ call[p] < 8 => manifests' = manifests
        /\ call[p] >= 8 => (setting.strict => Holds(ManifestOf[p]))
    BY <1>1, EffectByCall, EffectGrows DEF IInv, InCall, Last
  <2>2. ASSUME call[p] >= 8 PROVE Holds(ManifestOf[p])
    <3>1. ~setting.strict => ~setting.reaps
      BY DEF Careful, IInv, TypeOK
    <3>2. ~setting.reaps => BlobsOf(p) \subseteq blobs
      BY <2>2 DEF IInv, InCall, Behind, BlobsOf, Last
    <3>3. BlobsOf(p) \subseteq blobs => Holds(ManifestOf[p])
      BY PushAssumption DEF Holds
    <3>. QED
      BY <2>1, <2>2, <3>1, <3>2, <3>3
  <2>3. call[p] < 8 \/ call[p] >= 8
    BY DEF IInv, InCall, Last
  <2>. QED
    BY <2>1, <2>2, <2>3 DEF ManifestsAreWhole, Holds
<1>2. ASSUME NEW b \in Blobs, ReapBlob(b) PROVE ManifestsAreWhole'
  BY <1>2 DEF ReapBlob, ManifestsAreWhole, Holds
<1>3. ASSUME NEW m \in Manifests, ReapManifest(m) PROVE ManifestsAreWhole'
  BY <1>3 DEF ReapManifest, ManifestsAreWhole, Holds
<1>4. CASE UNCHANGED registryVars
  BY <1>4 DEF registryVars, ManifestsAreWhole, Holds
<1>. QED
  BY <1>1, <1>2, <1>3, <1>4
     DEF Next, Request, Served, Challenged, CallFails, TokenExpires, vars

\* The registry never holds a manifest whose blobs it lacks, be it because it
\* looks or because the client puts the manifest last (push,
\* Registry::ensure_blob, Registry::put_manifest).
THEOREM PushKeepsManifestsWhole == ASSUME Careful PROVE Spec => []ManifestsAreWhole
<1>1. Init => ManifestsAreWhole
  BY DEF Init, ManifestsAreWhole
<1>2. IInv /\ ManifestsAreWhole /\ [Next]_vars => ManifestsAreWhole'
  BY WholeNext
<1>. QED
  BY <1>1, <1>2, InitInv, NextInv, PTL DEF Spec

\* An image whose push succeeded is there, and its tag names an image that was
\* pushed under it, whichever pushes share the two (push).
THEOREM PushedImagesStay == Spec => []PushedIsThere
<1>1. IInv => PushedIsThere
  <2>1. ASSUME IInv, NEW p \in Pushes, answer[p] = "pushed", TagOf[p] # NoTag
        PROVE  TagOf[p] \in Tags /\ tags[TagOf[p]] # NoTag
    BY <2>1 DEF IInv, Pushed, Tags
  <2>. QED
    BY <2>1 DEF IInv, Named, Pushed, PushedIsThere
<1>. QED
  BY <1>1, InitInv, NextInv, PTL DEF Spec

\* A token that expires, or is too narrow for the next call, does not cost the
\* push: the one retry is one of each call (Registry::call).
THEOREM ExpiryCostsNothing == Spec => []ExpiryIsAnswered
<1>1. IInv => ExpiryIsAnswered
  BY DEF IInv, Granted, ExpiryIsAnswered
<1>. QED
  BY <1>1, InitInv, NextInv, PTL DEF Spec
=============================================================================
