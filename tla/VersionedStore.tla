--------------------------- MODULE VersionedStore ---------------------------
(***************************************************************************)
(* What the pending-upload queue promises of each key, with no process,    *)
(* worker or row in sight: an accepted upload is eventually published or   *)
(* given up, the contents it replaces are kept as a version first, and it  *)
(* is reported stored only when its bytes are the key's contents.          *)
(***************************************************************************)
CONSTANTS Uploads, Keys, KeyOf, None

VARIABLES
    state,     \* of each key: "empty", "queued", "stored" or "failed"
    latest,    \* the last upload accepted for each key
    current,   \* the contents of each key
    kept       \* the contents of each key kept as versions

vars == <<state, latest, current, kept>>

Init ==
    /\ state = [k \in Keys |-> "empty"]
    /\ latest = [k \in Keys |-> None]
    /\ current = [k \in Keys |-> None]
    /\ kept = [k \in Keys |-> {}]

\* One upload at a time is queued for a key.
Accept(u) ==
    /\ state[KeyOf[u]] # "queued"
    /\ state' = [state EXCEPT ![KeyOf[u]] = "queued"]
    /\ latest' = [latest EXCEPT ![KeyOf[u]] = u]
    /\ UNCHANGED <<current, kept>>

Keep(k) ==
    /\ state[k] = "queued"
    /\ current[k] # None
    /\ kept' = [kept EXCEPT ![k] = @ \cup {current[k]}]
    /\ UNCHANGED <<state, latest, current>>

Publish(k) ==
    /\ state[k] = "queued"
    /\ current[k] \in kept[k] \cup {None, latest[k]}
    /\ current' = [current EXCEPT ![k] = latest[k]]
    /\ UNCHANGED <<state, latest, kept>>

Finish(k) ==
    /\ state[k] = "queued"
    /\ current[k] = latest[k]
    /\ state' = [state EXCEPT ![k] = "stored"]
    /\ UNCHANGED <<latest, current, kept>>

GiveUp(k) ==
    /\ state[k] = "queued"
    /\ state' = [state EXCEPT ![k] = "failed"]
    /\ UNCHANGED <<latest, current, kept>>

Next ==
    \/ \E u \in Uploads : Accept(u)
    \/ \E k \in Keys : Keep(k) \/ Publish(k) \/ Finish(k) \/ GiveUp(k)

Spec == Init /\ [][Next]_vars

=============================================================================
