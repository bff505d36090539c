---------------------------- MODULE ProfileStore ----------------------------
(***************************************************************************)
(* What the sync client's settings promise, with no file or process in     *)
(* sight: a profile is edited one entry at a time and never lost, the      *)
(* active server has one, and what is remembered as uploaded to a server   *)
(* was, and is not forgotten.                                              *)
(***************************************************************************)
CONSTANTS Servers, Folders, Drives, Home, None

VARIABLES
    active,   \* the active server
    profile,  \* the profile of each server; of None, what older clients left
    known,    \* the folders remembered as uploaded to each server
    held      \* what the servers hold: <<server, drive, folder>>

vars == <<active, profile, known, held>>

Blank(s) == [server |-> s, token |-> None, tracked |-> [f \in Folders |-> None]]
Older    == [server : Servers, token : Servers, tracked : [Folders -> Drives \cup {None}]]

Init ==
    /\ active = None /\ held = {}
    /\ known = [s \in Servers |-> {}]
    /\ \E old \in {None} \cup Older : profile = [s \in Servers \cup {None} |-> IF s = None THEN old ELSE None]

\* The profile of s, blank until it is first written.
Current(s) == IF profile[s] = None THEN Blank(s) ELSE profile[s]
Put(c) == profile' = [profile EXCEPT ![c.server] = c] /\ UNCHANGED <<active, known, held>>

\* A login starts from the profile of its server or, if that is not named, of the
\* active one.  A profile stays with the server it names: only one that names none,
\* or what older clients left of s, becomes the profile of s.
LogIn(s) ==
    \E c \in {Current(s), Current(active)} :
        c.server \in {s, None} /\ Put([c EXCEPT !.server = s, !.token = s])

Track(f)   == Put([Current(active) EXCEPT !.tracked[f] = Home[f]])
Untrack(f) == Put([Current(active) EXCEPT !.tracked[f] = None])

Activate(s) ==
    /\ profile[s] # None
    /\ active' = s /\ UNCHANGED <<profile, known, held>>

\* Somebody logged in to s.
Linked(s) == \E x \in Servers \cup {None} : profile[x] # None /\ profile[x].server = s

Upload(s, f) ==
    /\ Linked(s)
    /\ held' = held \cup {<<s, Home[f], f>>} /\ UNCHANGED <<active, profile, known>>

Remember(s, fs) ==
    /\ known[s] \subseteq fs /\ \A f \in fs : <<s, Home[f], f>> \in held
    /\ known' = [known EXCEPT ![s] = fs] /\ UNCHANGED <<active, profile, held>>

Next ==
    \/ \E s \in Servers : LogIn(s) \/ Activate(s)
    \/ \E f \in Folders : Track(f) \/ Untrack(f)
    \/ \E s \in Servers, f \in Folders : Upload(s, f)
    \/ \E s \in Servers, fs \in SUBSET Folders : Remember(s, fs)

Spec == Init /\ [][Next]_vars

=============================================================================
