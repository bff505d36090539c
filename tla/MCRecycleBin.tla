---------------------------- MODULE MCRecycleBin ----------------------------
(***************************************************************************)
(* Instances of RecycleBin for TLC: the drive root, one folder and a file  *)
(* name, so that a name exists in two places.                              *)
(***************************************************************************)
EXTENDS RecycleBinInvariant, TLC

CONSTANTS root, docs, f, g, c1, c2, c3, i1, i2, i3, r1, r2, r3, r4, r5, r6

\* Rows, items and contents are interchangeable.
Symmetry == Permutations(Rows) \cup Permutations(Items) \cup Permutations(Contents)

=============================================================================
