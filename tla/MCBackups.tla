----------------------------- MODULE MCBackups -----------------------------
(***************************************************************************)
(* Backups and restores on two hosts and one server.  The first host is    *)
(* registered for it; the second has no credential until it registers.     *)
(***************************************************************************)
EXTENDS Backups

MCHomeOf == [h \in Hosts |-> IF h = "h1" THEN "s1" ELSE NoServer]
=============================================================================
