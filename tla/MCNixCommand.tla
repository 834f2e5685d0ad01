---------------------------- MODULE MCNixCommand ----------------------------
(* One command with two helpers, one of which may leave the process group.  *)
EXTENDS NixCommand

CONSTANTS h1, h2

MCHelpers == {h1, h2}
MCStrays == {h2}

=============================================================================
