---------------------- MODULE ClientProfilesInvariant ----------------------
(***************************************************************************)
(* The invariants behind the properties of ClientProfiles.  TypeInv says   *)
(* what files and processes hold however commands overlap; SettingsInv     *)
(* what commands that do not overlap find and leave; PassInv what a pass   *)
(* may rely on when no folder is tracked for another's drive; StoreInv     *)
(* that a command saves the profile it found but for one entry.            *)
(***************************************************************************)
EXTENDS ClientProfiles

Editors   == {"login", "add", "remove"}
Saving    == {"truncate", "write", "rename"}
EditSteps == {"find", "load", "login", "edit"} \cup Saving
SyncSteps == {"find", "load", "open", "pass", "rest"} \cup Saving

\* What a file of each kind holds when it is whole.
Holds(x) == IF x[1] = "config" THEN Config ELSE IF x[1] = "state" THEN SUBSET Folders ELSE Servers
Typed(d) == d = [x \in Files |-> d[x]] /\ \A x \in Files : d[x] \in {None, Torn} \cup Holds(x)

\* What a process may have left to write.
SaveLists ==
    {<<>>} \cup {Writes(c) : c \in Config} \cup {<<<<ActiveFile, s>>>> : s \in Servers}
           \cup {<<<<StateFile(s), fs>>>> : s \in Servers \cup {None}, fs \in SUBSET Folders}

Process == [cmd : Editors \cup {"none", "sync"}, step : {"idle"} \cup EditSteps \cup SyncSteps,
            arg : Servers \cup Folders \cup {None}, cfg : Config, recorded : SUBSET Folders,
            todo : SUBSET Folders, failed : SUBSET Folders, saves : SaveLists]

\* What is left to write by a process r that saves its config, or its state.
LastSave(r)  == <<<<ActiveFile, r.cfg.server>>>>
SavesLeft(r) ==
    IF r.cmd = "sync" THEN r.saves = <<<<StateFile(r.cfg.server), r.recorded>>>>
    ELSE r.saves = Writes(r.cfg) \/ (r.cfg.server \in Servers /\ r.saves = LastSave(r))

InSync(r) == r.cmd = "sync" /\ r.step \in {"pass", "rest"} \cup Saving

\* The steps of each command, and what it has in memory at them.
ProcessOK(r) ==
    /\ r \in Process
    /\ r.cmd = "none" \/ r.step = "idle" => r = Idle
    /\ r.cmd \in Editors => r.step \in EditSteps
    /\ r.cmd = "sync" => r.step \in SyncSteps
    /\ r.cmd \in {"add", "remove"} => r.arg \in Folders
    /\ r.step \in Saving => SavesLeft(r)
    /\ InSync(r) => r.cfg.server \in Servers /\ r.todo \subseteq InConfig(r.cfg)

TypeInv ==
    /\ Typed(disk) /\ Typed(tmp)
    /\ proc = [p \in Procs |-> proc[p]] /\ \A p \in Procs : ProcessOK(proc[p])
    /\ delivered \subseteq Servers \X Drives \X Folders
    /\ started \in 0..MaxCommands /\ crashes \in 0..MaxCrashes

-----------------------------------------------------------------------------
(* Commands that do not overlap *)

\* Two processes that may not be at work at once: both edit settings, or both sync
\* to one server.
Clash(a, b) ==
    \/ a.cmd \in Editors /\ b.cmd \in Editors
    \/ InSync(a) /\ InSync(b) /\ a.cfg.server = b.cfg.server

Apart == \A p, q \in Procs : Clash(proc[p], proc[q]) => p = q

\* A token is its server's own.
OwnToken(c) == c.token \in {c.server, None}

\* The files d as the next command finds them.
FilesSound(d) ==
    /\ \A x \in Files : d[x] # Torn
    /\ \A s \in Servers \cup {None} :
          d[ConfigFile(s)] # None =>
              OwnToken(d[ConfigFile(s)]) /\ (s # None => d[ConfigFile(s)].server = s)
    /\ d[ActiveFile] # None => d[ConfigFile(d[ActiveFile])] # None

\* What a process r relies on: its own token, its temporary file (among t), and that
\* the server it is about to activate has its profile (among d).
ProcessSound(r, d, t) ==
    /\ OwnToken(r.cfg) /\ (r.step \in {"find", "load"} => r.cfg.token = None)
    /\ InSync(r) => r.cfg.token = r.cfg.server
    /\ r.step = "rename" => t[Head(r.saves)[1]] = Head(r.saves)[2]
    /\ r.step \in Saving /\ Head(r.saves)[1] = ActiveFile => d[ConfigFile(r.cfg.server)] # None

\* Once a server is active an editing process r knows its server, and has in memory
\* the folders of that server's profile, but for the one it is to remove.
Keeps(r, d) ==
    d[ActiveFile] # None /\ r.cmd \in Editors /\ r.step # "find" =>
        /\ r.cfg.server \in Servers
        /\ r.step # "load" /\ d[ConfigFile(r.cfg.server)] # None =>
             \A f \in Folders : d[ConfigFile(r.cfg.server)].tracked[f] # None =>
                 r.cfg.tracked[f] # None \/ (r.cmd = "remove" /\ r.arg = f)

SettingsInv ==
    Apart /\ FilesSound(disk) /\ \A p \in Procs : ProcessSound(proc[p], disk, tmp) /\ Keeps(proc[p], disk)

-----------------------------------------------------------------------------
(* Folders tracked for their own drives *)

AtHome(c)       == \A f \in Folders : c.tracked[f] \in {None, Home[f]}
Sent(s, fs, dl) == \A f \in fs : <<s, Home[f], f>> \in dl

\* What a process r that syncs takes for delivered, is among dl.
PassSound(r, dl) ==
    /\ AtHome(r.cfg)
    /\ InSync(r) => /\ Sent(r.cfg.server, r.recorded, dl)
                    /\ InConfig(r.cfg) \ (r.todo \cup r.failed) \subseteq r.recorded

\* And so is what the state files d say.
StatesSound(d, dl) ==
    /\ \A s \in Servers \cup {None} : d[ConfigFile(s)] # None => AtHome(d[ConfigFile(s)])
    /\ \A s \in Servers : d[StateFile(s)] # None => Sent(s, d[StateFile(s)], dl)

PassInv == StatesSound(disk, delivered) /\ \A p \in Procs : PassSound(proc[p], delivered)

-----------------------------------------------------------------------------
(* Commands as edits of one profile *)

\* The profile of s as the next command finds it among the files d.
ProfileIn(d, s) == IF d[ConfigFile(s)] = None THEN Blank(s) ELSE d[ConfigFile(s)]

\* The server whose profile an editing process r begins with.
Begins(r, d) == IF r.cmd = "login" /\ r.arg # None THEN r.arg ELSE d[ActiveFile]

\* What an editing process r is to save is c but for one entry.
Edits(r, c) ==
    IF r.cmd = "login"
    THEN \E s \in Servers : c.server \in {s, None} /\ r.cfg = LoggedInTo(c, s)
    ELSE r.cfg = [c EXCEPT !.tracked[r.arg] = IF r.cmd = "add" THEN Home[r.arg] ELSE None]

EditSound(r, d) ==
    r.cmd \in Editors =>
        /\ r.cmd = "login" => r.arg \in Servers \cup {None}
        /\ r.step = "login" => r.cmd = "login"
        /\ r.step = "find" => Begins(r, d) = d[ActiveFile]
        /\ r.step = "load" => r.cfg.server = Begins(r, d)
        /\ r.step \in {"login", "edit"} => r.cfg = ProfileIn(d, Begins(r, d))
        /\ r.step \in Saving /\ Head(r.saves)[1] # ActiveFile => Edits(r, ProfileIn(d, Begins(r, d)))

\* Some config is of server s.
LinkedIn(d, s) == \E x \in Servers \cup {None} : d[ConfigFile(x)] # None /\ d[ConfigFile(x)].server = s

\* A process that syncs was logged in to its server, and forgets nothing of its state file.
SyncSound(r, d) ==
    /\ r.cmd = "sync" /\ r.step = "open" /\ r.cfg.token # None => LinkedIn(d, r.cfg.server)
    /\ InSync(r) => LinkedIn(d, r.cfg.server) /\ StateIn(d, r.cfg.server) \subseteq r.recorded

StoreInv == \A p \in Procs : EditSound(proc[p], disk) /\ SyncSound(proc[p], disk)

=============================================================================
