--------------------------- MODULE MCUploadQueue ---------------------------
(***************************************************************************)
(* Instances of UploadQueue for TLC: the keys of the uploads and the hosts *)
(* of the workers.                                                         *)
(***************************************************************************)
EXTENDS UploadQueueInvariant, TLC

CONSTANTS u1, u2, k1, k2, api, cron, w1, w2, w3

\* One file, uploaded once.
Lone         == u1 :> k1
\* Two uploads of one key: the second overwrites the first.
SameKey      == u1 :> k1 @@ u2 :> k1
\* Two files.
DistinctKeys == u1 :> k1 @@ u2 :> k2

OneApiWorker    == w1 :> api
OneWorkerEach   == w1 :> api @@ w2 :> cron
TwoAndOneWorker == w1 :> api @@ w2 :> api @@ w3 :> cron

=============================================================================
