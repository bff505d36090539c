---------------------------- MODULE MCSyncClient ----------------------------
(***************************************************************************)
(* Instances of SyncClient for TLC: the contents the local file may have.  *)
(***************************************************************************)
EXTENDS SyncClientInvariant, TLC

CONSTANTS A, B, s1, s2, s3, s4, h1, h2

\* Two contents of two chunks each.
SameSize == A :> 2 @@ B :> 2
\* The second content is a chunk shorter.
Shrinking == A :> 2 @@ B :> 1

\* Upload ids and handlers are interchangeable.
Symmetry == Permutations(Sessions) \cup Permutations(Handlers)

=============================================================================
