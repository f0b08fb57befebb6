------------------------------- MODULE MCDbPool -------------------------------
(***************************************************************************)
(* An instance of DbPool for TLC: fewer connections than calls.            *)
(***************************************************************************)
EXTENDS DbPool

CONSTANTS c1, c2, c3, c4

=============================================================================
