------------------------------ MODULE MCAccess ------------------------------
(***************************************************************************)
(* Two people, two requests in flight, with open registration as it is by  *)
(* default, and closed registration that asks for a verified address.      *)
(***************************************************************************)
EXTENDS Access, TLC

MCSettings == {<<TRUE, FALSE>>, <<FALSE, TRUE>>}

\* Neither people nor credentials nor request slots are told apart.
MCSymmetry == Permutations(Users) \cup Permutations(CredIds) \cup Permutations(Slots)
=============================================================================
