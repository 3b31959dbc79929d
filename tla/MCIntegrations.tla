--------------------------- MODULE MCIntegrations ---------------------------
(***************************************************************************)
(* Two workspaces that differ in nothing, one service, three handshakes,   *)
(* and an App that is registered and registered again.                     *)
(***************************************************************************)
EXTENDS Integrations, TLC

MCSymmetry == Permutations(Workspaces)
=============================================================================
