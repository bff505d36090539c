---------------------------- MODULE MCBucketBin ----------------------------
(***************************************************************************)
(* Instances of BucketBin for TLC: the drive root, one folder, one file    *)
(* name and the name of one archived version.                              *)
(***************************************************************************)
EXTENDS BucketBinInvariant, TLC

CONSTANTS root, docs, f, v, c1, c2, i1, i2, r1, r2, r3, r4

\* Rows, items and contents are interchangeable.
Symmetry == Permutations(Rows) \cup Permutations(Items) \cup Permutations(Contents)

=============================================================================
