----------------------------- MODULE References -----------------------------
(***************************************************************************)
(* Flake references: the grammar that the node accepts in an annotation    *)
(* (spec.rs), what the daemon asks again of a request (resolver.rs), and   *)
(* what kubectl-imageless adds when it authors a pod (flakeref.rs).        *)
(*                                                                         *)
(* A text is a sequence of lumps: a separator is a lump of its own, and so *)
(* is a word that the code looks for; a longer word is cut where another   *)
(* text stops, as "myorg" and "-evil", so that a prefix of lumps is a      *)
(* prefix of bytes.  "//" is the one of "://"; "commit" stands for 40      *)
(* hexadecimal digits and "sri" for a hash of Nix's.  Lengths are left     *)
(* out, and so are the texts of the errors.                                *)
(***************************************************************************)
EXTENDS Naturals, Sequences, SequencesExt

Index(lump, text) == SelectInSeq(text, LAMBDA l : l = lump)

\* text.split_once(lump): what is before it, what is after it.
Before(lump, text) ==
  IF Contains(text, lump) THEN SubSeq(text, 1, Index(lump, text) - 1) ELSE text
After(lump, text) ==
  IF Contains(text, lump) THEN SubSeq(text, Index(lump, text) + 1, Len(text)) ELSE <<>>

StartsWith(text, lump) == text # <<>> /\ Head(text) = lump

\* What stands before the colon, in lower case, if a slash does not come first.
NamesScheme(text) == Contains(text, ":") /\ ~Contains(Before(":", text), "/")
Scheme(text) == ReplaceAll(Before(":", text), "PATH", "path")

\* The schemes that read the node's own files, and the registry's.
NodeLocal(scheme) ==
  \/ scheme = <<"path">>
  \/ IsSuffix(<<"file">>, scheme) /\ (Len(scheme) > 1 => IsSuffix(<<"+", "file">>, scheme))
Registry(scheme) == scheme = <<"flake">>

\* An absolute path in the image without empty, `.` or `..` components.
CanonicalPath(text) ==
  text # <<"/">> =>
    /\ Last(text) # "/"
    /\ \A i \in 1..(Len(text) - 1) : text[i] = "/" => text[i + 1] \notin {"/", ".", ".."}

ValidSource(text) ==
  /\ text # <<>>
  /\ ~Contains(text, " ") /\ ~Contains(text, "#")
  /\ IF StartsWith(text, "/") THEN CanonicalPath(text)
     ELSE /\ NamesScheme(text)
          /\ ~Registry(Scheme(text)) /\ ~NodeLocal(Scheme(text))

\* Outputs are lumps.
ValidOutput(output) == output \notin {"", "bad/output"}

-----------------------------------------------------------------------------
(***************************************************************************)
(* The daemon.  An installable is a URI and an output.                     *)
(***************************************************************************)
RemoteScheme(uri) ==
  /\ NamesScheme(uri)
  /\ Scheme(uri) # <<>>
  /\ ~Registry(Scheme(uri)) /\ ~NodeLocal(Scheme(uri))

ValidInstallable(installable) ==
  /\ installable.uri # <<>>
  /\ ~Contains(installable.uri, " ") /\ ~Contains(installable.uri, "#")
  /\ ValidOutput(installable.output)

\* The runtime's own rewrite of a source in the image.
Staged(uri) == IsPrefix(<<"path", ":">>, uri)

DevelopmentIdentity(uri) == IF Staged(uri) THEN "development-source" ELSE "external-source"

\* A literal prefix of bytes.
Authorized(uri, prefixes) == \E prefix \in prefixes : IsPrefix(prefix, uri)

-----------------------------------------------------------------------------
(***************************************************************************)
(* The plugin                                                              *)
(***************************************************************************)

\* A directory that somebody typed after --external.
LooksLikePath(text) ==
  \/ StartsWith(text, "/") \/ StartsWith(text, "~")
  \/ /\ StartsWith(text, ".") \/ StartsWith(text, "..")
     /\ Len(text) > 1 => text[2] = "/"

ValidReference(text) == ~LooksLikePath(text) /\ ~Contains(text, "#") /\ ValidSource(text)

\* The first rev= or narHash= of the query decides; without one, the commit in
\* the path of a shorthand scheme.
PinOf(text) ==
  LET query == After("?", text)
      given == SelectInSeq(query, LAMBDA l : l \in {"rev=", "narHash="})
      value == SubSeq(query, given + 1, Len(query))
      wanted == IF query[given] = "rev=" THEN "commit" ELSE "sri"
      path == After(":", Before("?", text))
      slashes == Len(SelectSeq(path, LAMBDA l : l = "/"))
  IN CASE given > 0 -> IF Before("&", value) = <<wanted>> THEN "pinned" ELSE "malformed"
       [] given = 0 /\ slashes = 2 /\ Before(":", text) \in {<<"github">>, <<"gitlab">>, <<"sourcehut">>}
                    /\ IsSuffix(<<"/", "commit">>, path) -> "pinned"
       [] OTHER -> "none"

\* The locator up to the last slash of its path; the slashes of "://" do not count.
PolicyPrefix(text) ==
  LET locator == Before("?", text)
      slash == SelectLastInSeq(locator, LAMBDA l : l = "/")
  IN IF slash > Index(":", locator) THEN SubSeq(locator, 1, slash) ELSE locator
=============================================================================
