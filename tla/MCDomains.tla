----------------------------- MODULE MCDomains -----------------------------
(***************************************************************************)
(* Custom domains on one server.                                           *)
(***************************************************************************)
EXTENDS Domains
=============================================================================
