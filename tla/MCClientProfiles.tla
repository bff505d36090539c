-------------------------- MODULE MCClientProfiles --------------------------
(***************************************************************************)
(* Instances of ClientProfiles for TLC: two servers, two folders meant for *)
(* different drives, a terminal and a daemon.                              *)
(***************************************************************************)
EXTENDS ClientProfilesInvariant, TLC

CONSTANTS p1, p2, sA, sB, f1, f2, d1, d2

HomeDef == f1 :> d1 @@ f2 :> d2

Symmetry == Permutations(Procs) \cup Permutations(Servers)

=============================================================================
