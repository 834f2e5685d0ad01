------------------------------- MODULE Scripts -------------------------------
(***************************************************************************)
(* A script with a `nix` shebang, and the seed that kubectl-imageless      *)
(* generates from it (shebang.rs, generate.rs).  Nix itself would run the  *)
(* words of the `#!` lines as `nix shell <installables> --command <words>  *)
(* <script>`; the seed is a flake of those installables, and the pod names *)
(* the command.                                                            *)
(*                                                                         *)
(* A line is [bang, words], where the words are those after the `#!`, or   *)
(* of the line if it has none.  A word is a sequence of lumps, as in       *)
(* References; a flag starts with the lump "-".                            *)
(***************************************************************************)
EXTENDS Selection

\* What is legal neither in an attribute path nor in the name of a binary.
Foreign == {"/", "#", ":", "$", "quote", " "}

\* What a script may be.
Lines == Seq([bang : BOOLEAN, words : Seq(Seq(STRING))])

Blank == [bang |-> FALSE, words |-> <<>>]

\* What is after the last slash.
Basename(word) == SubSeq(word, SelectLastInSeq(word, LAMBDA l : l = "/") + 1, Len(word))

\* The program of the first line is nix, or env without a flag and then nix.
IsNixShebang(lines) ==
  /\ lines # <<>> /\ lines[1].bang
  /\ LET words == lines[1].words
     IN /\ words # <<>>
        /\ IF Basename(words[1]) = <<"env">> THEN Len(words) > 1 /\ words[2] = <<"nix">>
           ELSE Basename(words[1]) = <<"nix">>

\* The lines that are shebang: those before the first that is not.
ShebangLines(lines) ==
  IF \E i \in DOMAIN lines : ~lines[i].bang
  THEN SelectInSeq(lines, LAMBDA line : ~line.bang) - 1 ELSE Len(lines)

\* Each of them after the first is empty, or nix and its words.
RunsOther(lines) ==
  \E i \in 2..ShebangLines(lines) : lines[i].words # <<>> /\ lines[i].words[1] # <<"nix">>

\* Mutant: the second line is all that is read.
WordsOfOneLine(lines) ==
  FlattenSeq([i \in 1..(IF ShebangLines(lines) > 1 THEN 1 ELSE 0) |->
    IF lines[i + 1].words = <<>> THEN <<>> ELSE Tail(lines[i + 1].words)])

Words(lines) ==
  FlattenSeq([i \in 1..(ShebangLines(lines) - 1) |->
    IF lines[i + 1].words = <<>> THEN <<>> ELSE Tail(lines[i + 1].words)])

\* Where `--command` is among the words, or one past the last.
CommandAt(words) ==
  LET at == SelectInSeq(words, LAMBDA w : w \in {<<"-", "-", "command">>, <<"-", "c">>})
  IN IF at = 0 THEN Len(words) + 1 ELSE at

Nixpkgs == <<"nixpkgs", "#">>

\* attribute_path, of an installable: `nixpkgs#` and a path of attributes.
ValidInstallableWord(word) ==
  LET attribute == SubSeq(word, 3, Len(word))
  IN /\ IsPrefix(Nixpkgs, word) /\ attribute # <<>>
     /\ Range(attribute) \cap Foreign = {}
     /\ attribute[1] # "." /\ Last(attribute) # "."
     /\ \A i \in 2..Len(attribute) : ~(attribute[i - 1] = "." /\ attribute[i] = ".")

\* Each installable where it is first.
Packages(installables) ==
  LET Add(seen, word) == IF Contains(seen, word) THEN seen ELSE Append(seen, word)
  IN FoldLeft(Add, <<>>, installables)

\* parse: the installables without duplicates, in their order, and the command; or
\* None for what is refused.
Parse(lines) ==
  LET words == Words(lines)
      at == CommandAt(words)
      installables == SubSeq(words, 2, at - 1)
      command == SubSeq(words, at + 1, Len(words))
      packages == Packages(installables)
  IN IF \/ ~IsNixShebang(lines) \/ RunsOther(lines)
        \/ words = <<>> \/ \E i \in DOMAIN words : Contains(words[i], "quote")
        \/ words[1] # <<"shell">>
        \/ \E i \in DOMAIN installables : ~ValidInstallableWord(installables[i])
        \/ packages = <<>>
        \/ command = <<>> \/ Range(command[1]) \cap Foreign # {}
     THEN None
     ELSE [packages |-> packages, interpreter |-> command[1], arguments |-> Tail(command),
           lines |-> ShebangLines(lines)]

-----------------------------------------------------------------------------
\* --arch, in the words of Nix.
NixSystem == [arch \in {"amd64", "arm64"} |-> IF arch = "amd64" THEN "x86" ELSE "arm"]

Flake == <<"flake.nix">>
Lock == <<"flake.lock">>

\* A script does not take the place of a generated file.
ValidScriptName(name) ==
  /\ name # <<>> /\ name[1] # "." /\ Range(name) \cap Foreign = {}
  /\ name \notin {Flake, Lock}

\* without_shebang: the lines keep their numbers.
WithoutShebang(lines, count) == [i \in DOMAIN lines |-> IF i <= count THEN Blank ELSE lines[i]]

\* The script in the rootfs that the flake makes, and a binary in it.
ScriptPath(name) == <<"/", "share", "/", "imageless", "/">> \o name
Binary(name) == <<"/", "bin", "/">> \o name

File(name, holds) == [name |-> name, holds |-> holds]

\* seed: the files, in the order in which they are written.
Generated(script, parsed, system, pinned) ==
  <<File(Flake, [packages |-> parsed.packages, system |-> system, script |-> script.name,
                 pinned |-> pinned]),
    File(script.name, WithoutShebang(script.lines, parsed.lines))>>
  \o IF pinned THEN <<File(Lock, "vendored")>> ELSE <<>>

\* What the pod runs, before what the user adds.
GeneratedCommand(script, parsed) ==
  <<Binary(parsed.interpreter)>> \o parsed.arguments \o <<ScriptPath(script.name)>>

\* run_script: a seed for the arguments of a command line, or None.
ScriptRefused(c) ==
  \/ c.includeVcs \/ c.output # None
  \/ Parse(c.script.lines) = None \/ c.arch \notin DOMAIN NixSystem
  \/ ~c.unpinned /\ ~c.vendored
  \/ ~ValidScriptName(c.script.name)
=============================================================================
