--------------------------- MODULE MCServerStartup ---------------------------
(***************************************************************************)
(* Two tests at once.                                                      *)
(***************************************************************************)
EXTENDS ServerStartup

CONSTANTS t1, t2

=============================================================================
