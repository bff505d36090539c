--------------------------- MODULE ClientProfiles ---------------------------
(***************************************************************************)
(* The files the sync client keeps between its runs, and the commands that *)
(* share them: login, track add, track remove, sync (once, or again and    *)
(* again as the daemon).  Every server has a profile, a config file with   *)
(* its token and tracked folders and a state file with what was uploaded;  *)
(* one more file names the active server.  A file is replaced by writing a *)
(* temporary file of a fixed name and renaming it.                         *)
(*                                                                         *)
(* A command is a process: it reads what it needs at its start, and the    *)
(* daemon never reads again.  A tracked folder stands for its files, a     *)
(* token is told by the server that issued it.                             *)
(***************************************************************************)
EXTENDS Integers, Sequences

CONSTANTS
    Procs, Servers, Folders, Drives,
    Home,         \* the drive each folder is meant for
    MaxCommands,  \* bound: commands started
    MaxCrashes,   \* bound: processes killed
    Overlaps,     \* "none": see MayEdit and MaySync
    Repoints,     \* "none": a folder is never tracked for a drive that is not its own
    Torn,         \* what a file holds that is being written
    None

ASSUME ProfileAssumption ==
    /\ Home \in [Folders -> Drives] /\ MaxCommands \in Nat /\ MaxCrashes \in Nat
    /\ Overlaps \in {"none", "any"} /\ Repoints \in {"none", "any"}
    /\ None \notin Servers \cup Drives

VARIABLES
    disk, tmp,  \* the files, and the temporary files they are renamed from
    proc,       \* the processes: command, step and what each has in memory
    delivered,  \* what the servers hold: <<server, drive, folder>>
    started, crashes

vars == <<disk, tmp, proc, delivered, started, crashes>>

ConfigFile(s)   == <<"config", s>>   \* of None: the root-level file of older clients
OneStateFile(s) == <<"state", None>> \* mutant: state.json is at the root, as it was
StateFile(s)    == <<"state", s>>
ActiveFile      == <<"active", None>>
Files == {<<kind, s>> : kind \in {"config", "state"}, s \in Servers \cup {None}} \cup {ActiveFile}

Tracked == [Folders -> Drives \cup {None}]
Config  == [server : Servers \cup {None}, token : Servers \cup {None}, tracked : Tracked]
Blank(s) == [server |-> s, token |-> None, tracked |-> [f \in Folders |-> None]]
Idle    == [cmd |-> "none", step |-> "idle", arg |-> None, cfg |-> Blank(None),
            recorded |-> {}, todo |-> {}, failed |-> {}, saves |-> <<>>]

\* No file that could be read is taken for a missing one, or for one being written.
ASSUME ContentsAssumption ==
    /\ None # Torn
    /\ {None, Torn} \cap Config = {} /\ Torn \notin Servers
    /\ \A fs \in SUBSET Folders : fs \notin {None, Torn}

\* The client starts anew, or finds the config of an older one.
Init ==
    /\ \E old \in {None} \cup {[server |-> s, token |-> s, tracked |-> t] :
                                 s \in Servers, t \in {u \in Tracked : \A f \in Folders : u[f] \in {None, Home[f]}}} :
          disk = [x \in Files |-> IF x = ConfigFile(None) THEN old ELSE None]
    /\ tmp = [x \in Files |-> None] /\ proc = [p \in Procs |-> Idle]
    /\ delivered = {} /\ started = 0 /\ crashes = 0

Editing(p) == proc[p].cmd \in {"login", "add", "remove"}
Syncing(p) == proc[p].cmd = "sync" /\ proc[p].step \in {"pass", "truncate", "write", "rename", "rest"}

\* Commands that save the config run one after the other.
MayEdit == Overlaps = "any" \/ \A q \in Procs : ~Editing(q)
\* One process at a time syncs to a server.
MaySync(s) == Overlaps = "any" \/ \A q \in Procs : Syncing(q) => proc[q].cfg.server # s

Become(p, new) == proc' = [proc EXCEPT ![p] = new]
Exit(p)        == Become(p, Idle)

-----------------------------------------------------------------------------
(* Commands *)

\* The user starts a command; a login may name its server.
Run(p, cmd, arg) ==
    /\ proc[p] = Idle /\ started < MaxCommands
    /\ cmd # "sync" => MayEdit
    /\ Become(p, [Idle EXCEPT !.cmd = cmd, !.arg = arg,
                              !.step = IF cmd = "login" /\ arg # None THEN "load" ELSE "find",
                              !.cfg.server = IF cmd = "login" THEN arg ELSE None])
    /\ started' = started + 1
    /\ UNCHANGED <<disk, tmp, delivered, crashes>>

\* ActiveServerURL: a missing or empty file names no server.
FindActive(p) ==
    /\ proc[p].step = "find"
    /\ Become(p, [proc[p] EXCEPT !.step = "load",
                                 !.cfg.server = IF disk[ActiveFile] = Torn THEN None ELSE disk[ActiveFile]])
    /\ UNCHANGED <<disk, tmp, delivered, started, crashes>>

FallsBack(s) ==   \* mutant: a server without a profile begins with the root-level one
    LET c == disk[ConfigFile(IF disk[ConfigFile(s)] = None THEN None ELSE s)]
    IN  IF c = None THEN Blank(s) ELSE [c EXCEPT !.server = s]
Stored(s) == IF disk[ConfigFile(s)] = None THEN Blank(s) ELSE disk[ConfigFile(s)]
Following(cmd) == CASE cmd = "login" -> "login" [] cmd = "sync" -> "open" [] OTHER -> "edit"

\* LoadForServer, or the root-level config when no server is active.
LoadConfig(p) ==
    /\ proc[p].step = "load"
    /\ IF disk[ConfigFile(proc[p].cfg.server)] = Torn THEN Exit(p)
       ELSE Become(p, [proc[p] EXCEPT !.cfg = Stored(@.server), !.step = Following(proc[p].cmd)])
    /\ UNCHANGED <<disk, tmp, delivered, started, crashes>>

\* What Save writes, in this order; without a server there is none to activate.
ActiveFirst(c) ==   \* mutant: the server is activated before its profile is there
    IF c.server = None THEN <<<<ConfigFile(None), c>>>>
    ELSE <<<<ActiveFile, c.server>>, <<ConfigFile(c.server), c>>>>
Writes(c) ==
    IF c.server = None THEN <<<<ConfigFile(None), c>>>>
    ELSE <<<<ConfigFile(c.server), c>>, <<ActiveFile, c.server>>>>

Save(p, c) == Become(p, [proc[p] EXCEPT !.cfg = c, !.step = "truncate", !.saves = Writes(c)])

NewConfig(c, s) == [server |-> s, token |-> s, tracked |-> Blank(s).tracked]  \* mutant: the profile is made anew
\* The token replaces the old one in the config that was loaded.
LoggedInTo(c, s) == [c EXCEPT !.server = s, !.token = s]

\* The server asked is the one named, else the loaded config's, else the one typed in.
Login(p) ==
    /\ proc[p].step = "login"
    /\ \/ Exit(p)
       \/ \E s \in Servers :
             /\ proc[p].cfg.server \in {s, None}
             /\ Save(p, LoggedInTo(proc[p].cfg, s))
    /\ UNCHANGED <<disk, tmp, delivered, started, crashes>>

\* AddTracked replaces the folder's entry; RemoveTracked must find one.
EditTracked(p) ==
    LET c == proc[p].cfg
        f == proc[p].arg
    IN  /\ proc[p].step = "edit"
        /\ \/ /\ proc[p].cmd = "add"
              /\ \E d \in Drives : /\ Repoints = "any" \/ d = Home[f]
                                   /\ Save(p, [c EXCEPT !.tracked[f] = d])
           \/ /\ proc[p].cmd = "remove"
              /\ IF c.tracked[f] = None THEN Exit(p)
                 ELSE Save(p, [c EXCEPT !.tracked[f] = None])
        /\ UNCHANGED <<disk, tmp, delivered, started, crashes>>

-----------------------------------------------------------------------------
(* Syncing *)

InConfig(c) == {f \in Folders : c.tracked[f] # None}
Pass(p, recorded) ==
    Become(p, [proc[p] EXCEPT !.step = "pass", !.todo = InConfig(proc[p].cfg), !.failed = {}, !.recorded = recorded])

\* New: a config without token, or a state file that cannot be parsed, ends the command.
OpenState(p) ==
    LET c == proc[p].cfg
        s == disk[StateFile(c.server)]
    IN  /\ proc[p].step = "open"
        /\ IF c.server = None \/ c.token = None \/ s = Torn THEN Exit(p)
           ELSE MaySync(c.server) /\ Pass(p, IF s = None THEN {} ELSE s)
        /\ UNCHANGED <<disk, tmp, delivered, started, crashes>>

\* A folder the state knows is skipped, another is uploaded, or that fails.
SyncFolder(p, f) ==
    LET c == proc[p].cfg
        Done(recorded, failed) ==
            Become(p, [proc[p] EXCEPT !.todo = @ \ {f}, !.recorded = recorded, !.failed = failed])
    IN  /\ proc[p].step = "pass" /\ f \in proc[p].todo
        /\ \/ /\ f \in proc[p].recorded
              /\ Done(proc[p].recorded, proc[p].failed) /\ UNCHANGED delivered
           \/ /\ f \notin proc[p].recorded
              /\ \/ /\ c.token = c.server
                    /\ delivered' = delivered \cup {<<c.server, c.tracked[f], f>>}
                    /\ Done(proc[p].recorded \cup {f}, proc[p].failed)
                 \/ UNCHANGED delivered /\ Done(proc[p].recorded, proc[p].failed \cup {f})
        /\ UNCHANGED <<disk, tmp, started, crashes>>

\* Without a tracked folder nothing is saved.
EndPass(p) ==
    LET c == proc[p].cfg
    IN  /\ proc[p].step = "pass" /\ proc[p].todo = {}
        /\ Become(p, IF InConfig(c) = {} THEN [proc[p] EXCEPT !.step = "rest"]
                     ELSE [proc[p] EXCEPT !.step = "truncate",
                                          !.saves = <<<<StateFile(c.server), proc[p].recorded>>>>])
        /\ UNCHANGED <<disk, tmp, delivered, started, crashes>>

\* The daemon makes another pass with what it has in memory; sync ends here.
Rest(p) ==
    /\ proc[p].step = "rest"
    /\ Exit(p) \/ Pass(p, proc[p].recorded)
    /\ UNCHANGED <<disk, tmp, delivered, started, crashes>>

-----------------------------------------------------------------------------
(* Files *)

Target(p)  == Head(proc[p].saves)[1]
Payload(p) == Head(proc[p].saves)[2]

\* os.WriteFile empties the temporary file, then fills it.
Truncate(p) ==
    /\ proc[p].step = "truncate"
    /\ tmp' = [tmp EXCEPT ![Target(p)] = Torn]
    /\ Become(p, [proc[p] EXCEPT !.step = "write"])
    /\ UNCHANGED <<disk, delivered, started, crashes>>

Write(p) ==
    /\ proc[p].step = "write"
    /\ tmp' = [tmp EXCEPT ![Target(p)] = Payload(p)]
    /\ Become(p, [proc[p] EXCEPT !.step = "rename"])
    /\ UNCHANGED <<disk, delivered, started, crashes>>

\* After its last file a config command ends, and a sync rests.
Saved(pr) ==
    IF Len(pr.saves) > 1 THEN [pr EXCEPT !.saves = Tail(@), !.step = "truncate"]
    ELSE IF pr.cmd = "sync" THEN [pr EXCEPT !.saves = <<>>, !.step = "rest"] ELSE Idle

\* The rename of a file another process has renamed away fails, and the command with it.
Rename(p) ==
    /\ proc[p].step = "rename"
    /\ IF tmp[Target(p)] = None THEN Exit(p) /\ UNCHANGED <<disk, tmp>>
       ELSE /\ disk' = [disk EXCEPT ![Target(p)] = tmp[Target(p)]]
            /\ tmp' = [tmp EXCEPT ![Target(p)] = None]
            /\ Become(p, Saved(proc[p]))
    /\ UNCHANGED <<delivered, started, crashes>>

\* A process ends at any point; its temporary file stays.
Crash(p) ==
    /\ proc[p] # Idle /\ crashes < MaxCrashes
    /\ Exit(p)
    /\ crashes' = crashes + 1
    /\ UNCHANGED <<disk, tmp, delivered, started>>

Commands(p) ==
    \/ \E s \in Servers \cup {None} : Run(p, "login", s)
    \/ \E f \in Folders, cmd \in {"add", "remove"} : Run(p, cmd, f)
    \/ Run(p, "sync", None)

Next == \E p \in Procs :
    \/ Commands(p) \/ FindActive(p) \/ LoadConfig(p) \/ Login(p) \/ EditTracked(p)
    \/ OpenState(p) \/ EndPass(p) \/ Rest(p) \/ (\E f \in Folders : SyncFolder(p, f))
    \/ Truncate(p) \/ Write(p) \/ Rename(p) \/ Crash(p)

Spec == Init /\ [][Next]_vars

-----------------------------------------------------------------------------
(* Properties *)

\* Type correctness: files hold what their readers parse.
TypeOK ==
    /\ \A x \in Files : disk[x] \in {None, Torn} \/ (CASE x[1] = "config" -> disk[x] \in Config
                                                       [] x[1] = "state"  -> disk[x] \subseteq Folders
                                                       [] OTHER           -> disk[x] \in Servers)
    /\ DOMAIN disk = Files /\ DOMAIN tmp = Files /\ DOMAIN proc = Procs
    /\ delivered \subseteq Servers \X Drives \X Folders
    /\ started \in 0..MaxCommands /\ crashes \in 0..MaxCrashes

\* Whenever a process is killed, the next command finds every file whole, the
\* active server with a profile it can use, and in each profile that server's own
\* URL and token.
SettingsSound ==
    /\ \A x \in Files : disk[x] # Torn
    /\ disk[ActiveFile] # None =>
          LET c == disk[ConfigFile(disk[ActiveFile])]
          IN  c # None /\ c.server = disk[ActiveFile]
    /\ \A s \in Servers : disk[ConfigFile(s)] # None =>
          disk[ConfigFile(s)].server = s /\ disk[ConfigFile(s)].token \in {s, None}

\* A pass that reports no failure for a folder has it on the server it syncs to,
\* whatever other servers the client was logged in to and whatever was killed.
PassDelivers ==
    \A p \in Procs : Syncing(p) =>
        \A f \in InConfig(proc[p].cfg) \ (proc[p].todo \cup proc[p].failed) :
            <<proc[p].cfg.server, proc[p].cfg.tracked[f], f>> \in delivered

\* Once a server is active, a profile loses a tracked folder only to a track remove
\* of that folder: not to a login, to another server's profile, or to a sync.
TrackedKept ==
    [][\A s \in Servers, f \in Folders :
          /\ disk[ActiveFile] # None /\ disk[ConfigFile(s)] # None /\ disk[ConfigFile(s)].tracked[f] # None
          /\ disk'[ConfigFile(s)].tracked[f] = None
          => \E p \in Procs : proc[p].cmd = "remove" /\ proc[p].arg = f]_vars

-----------------------------------------------------------------------------
(* What the settings promise *)

\* The state of s as the next sync finds it among the files d.
StateIn(d, s) == IF d[StateFile(s)] = None THEN {} ELSE d[StateFile(s)]

Promise == INSTANCE ProfileStore WITH
    active  <- disk[ActiveFile],
    profile <- [s \in Servers \cup {None} |-> disk[ConfigFile(s)]],
    known   <- [s \in Servers |-> StateIn(disk, s)],
    held    <- delivered

\* The files, wherever their processes are killed, are a store whose profiles change
\* one entry at a time, each by a step nobody sees half of, and which remembers as
\* uploaded what was uploaded, and goes on remembering it.
ImplementsProfileStore == Promise!Spec

=============================================================================
