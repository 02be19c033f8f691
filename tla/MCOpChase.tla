------------------------------ MODULE MCOpChase ------------------------------
(***************************************************************************)
(* A steady client and one that comes and goes.                            *)
(***************************************************************************)
EXTENDS OpChase

CONSTANTS c1, c2

=============================================================================
