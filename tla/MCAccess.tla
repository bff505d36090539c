----------------------------- MODULE MCAccess -------------------------------
(***************************************************************************)
(* An instance of Access for TLC: the owner, a newcomer, the admin of      *)
(* another drive; a folder and one inside it.                              *)
(***************************************************************************)
EXTENDS Access, TLC

CONSTANTS owner, newcomer, admin, q1, q2

Symmetry == Permutations(Requests)

PathsDef == {<<"a">>, <<"a", "b">>}

=============================================================================
