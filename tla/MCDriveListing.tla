--------------------------- MODULE MCDriveListing ---------------------------
(***************************************************************************)
(* Instances of DriveListing for TLC: a folder in a folder and another     *)
(* one, three files, pages of two.                                         *)
(***************************************************************************)
EXTENDS ListingInvariant, TLC

CONSTANTS c1, c2

PathsDef == {<<"a">>, <<"a", "b">>, <<"c">>, <<"a", "d">>}
NamesDef == {<<"x">>, <<"y">>, <<"z">>}
\* Sorted by name.
ByName   == <<"a">> :> 1 @@ <<"c">> :> 2 @@ <<"x">> :> 1 @@ <<"y">> :> 2 @@ <<"z">> :> 3
Symmetry == Permutations(Creators)

=============================================================================
