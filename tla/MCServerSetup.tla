--------------------------- MODULE MCServerSetup ---------------------------
(***************************************************************************)
(* Setup runs, registration and self-heal on two machines.                 *)
(***************************************************************************)
EXTENDS ServerSetup
=============================================================================
