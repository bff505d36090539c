--------------------------- MODULE MCThumbnails -----------------------------
(***************************************************************************)
(* Instances of Thumbnails for TLC: two files a thumbnail can be made      *)
(* from, and one with an extension that has no generator.                  *)
(***************************************************************************)
EXTENDS ThumbnailsInvariant, TLC

CONSTANTS r1, r2, r3, i1

PathsDef == {<<"x", "a", "jpg">>, <<"y", "a", "jpg">>, <<"x", "h", "heic">>}

=============================================================================
