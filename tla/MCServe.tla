------------------------------ MODULE MCServe ------------------------------
(***************************************************************************)
(* Three peers of every nature, two connections.                            *)
(***************************************************************************)
EXTENDS Serve, TLC

CONSTANTS p1, p2, p3

SomePeers == {p1, p2, p3}
=============================================================================
