------------------------ MODULE ClientProfilesProofs ------------------------
(***************************************************************************)
(* Proofs about ClientProfiles for any servers, folders, processes, and    *)
(* any number of commands and crashes: types however commands overlap;     *)
(* settings, deliveries and the refinement of ProfileStore when they do    *)
(* not.                                                                    *)
(***************************************************************************)
EXTENDS ClientProfilesInvariant, TLAPS

-----------------------------------------------------------------------------
(* Files and configs *)

\* The kinds of the files are told apart.
LEMMA FileKinds ==
    /\ \A s \in Servers \cup {None} : ConfigFile(s) \in Files /\ StateFile(s) \in Files
    /\ ActiveFile \in Files
    /\ \A s, t \in Servers \cup {None} :
          /\ ConfigFile(s) = ConfigFile(t) => s = t
          /\ StateFile(s) = StateFile(t) => s = t
          /\ ConfigFile(s) # StateFile(t)
          /\ ConfigFile(s) # ActiveFile /\ StateFile(s) # ActiveFile
    BY SMT DEF Files, ConfigFile, StateFile, ActiveFile

LEMMA HoldsByKind ==
    ASSUME NEW s
    PROVE  Holds(ConfigFile(s)) = Config /\ Holds(StateFile(s)) = SUBSET Folders /\ Holds(ActiveFile) = Servers
    BY SMT DEF Holds, ConfigFile, StateFile, ActiveFile

LEMMA FileCases ==
    ASSUME NEW x \in Files
    PROVE  \/ \E s \in Servers \cup {None} : x = ConfigFile(s) \/ x = StateFile(s)
           \/ x = ActiveFile
    BY SMT DEF Files, ConfigFile, StateFile, ActiveFile

LEMMA BlankIsConfig ==
    ASSUME NEW s \in Servers \cup {None}
    PROVE  Blank(s) \in Config /\ Blank(s).server = s /\ Blank(s).token = None /\ Blank(s).tracked = [f \in Folders |-> None]
    BY DEF Blank, Config, Tracked

LEMMA ConfigFields ==
    ASSUME NEW c \in Config
    PROVE  c.server \in Servers \cup {None} /\ c.token \in Servers \cup {None} /\ c.tracked \in [Folders -> Drives \cup {None}]
    BY DEF Config, Tracked

\* What login and track make of a config.
LEMMA LoggedIn ==
    ASSUME NEW c \in Config, NEW s \in Servers
    PROVE  /\ LoggedInTo(c, s) \in Config
           /\ LoggedInTo(c, s).server = s /\ LoggedInTo(c, s).token = s
           /\ LoggedInTo(c, s).tracked = c.tracked
    BY DEF LoggedInTo, Config, Tracked

LEMMA Retracked ==
    ASSUME NEW c \in Config, NEW f \in Folders, NEW d \in Drives \cup {None}
    PROVE  LET n == [c EXCEPT !.tracked[f] = d]
           IN  /\ n \in Config /\ n.server = c.server /\ n.token = c.token
               /\ n.tracked = [c.tracked EXCEPT ![f] = d]
    BY DEF Config, Tracked

\* A file may be replaced by what its kind holds, or left half-written or missing.
LEMMA StaysTyped ==
    ASSUME NEW d, NEW e, Typed(d), NEW x \in Files, NEW v \in {None, Torn} \cup Holds(x),
           e = [d EXCEPT ![x] = v]
    PROVE  Typed(e)
    BY DEF Typed

-----------------------------------------------------------------------------
(* Processes *)

LEMMA IdleOK == ProcessOK(Idle)
<1>1. Blank(None) \in Config  BY BlankIsConfig
<1>2. Idle \in Process
  BY <1>1 DEF Idle, Process, SaveLists
<1>3. Idle.cmd = "none" /\ Idle.step = "idle"  BY DEF Idle
<1> QED  BY <1>2, <1>3 DEF ProcessOK, Editors, Saving, InSync

\* The head of what is left to write is a file and what it is to hold.
LEMMA NextFile ==
    ASSUME NEW r, ProcessOK(r), r.step \in Saving
    PROVE  /\ r.saves # <<>> /\ Head(r.saves)[1] \in Files
           /\ Head(r.saves)[2] \in Holds(Head(r.saves)[1])
           /\ r.cmd = "sync" => /\ Head(r.saves)[1] = StateFile(r.cfg.server)
                                /\ Head(r.saves)[2] = r.recorded /\ Len(r.saves) = 1
           /\ r.cmd # "sync" =>
                 \/ /\ Head(r.saves)[1] = ConfigFile(r.cfg.server) /\ Head(r.saves)[2] = r.cfg
                    /\ IF r.cfg.server = None THEN Len(r.saves) = 1
                       ELSE Len(r.saves) > 1 /\ Tail(r.saves) = LastSave(r)
                 \/ /\ Head(r.saves)[1] = ActiveFile /\ Head(r.saves)[2] = r.cfg.server
                    /\ r.cfg.server \in Servers /\ Len(r.saves) = 1
<1>1. r \in Process /\ r.cfg \in Config /\ r.recorded \in SUBSET Folders /\ r.cfg.server \in Servers \cup {None}
  BY ConfigFields DEF ProcessOK, Process
<1>2. CASE r.cmd = "sync"
  <2>1. r.saves = <<<<StateFile(r.cfg.server), r.recorded>>>>  BY <1>2 DEF ProcessOK, SavesLeft
  <2>2. r.saves # <<>> /\ Len(r.saves) = 1 /\ Head(r.saves) = <<StateFile(r.cfg.server), r.recorded>>
    BY <2>1
  <2>3. Head(r.saves)[1] = StateFile(r.cfg.server) /\ Head(r.saves)[2] = r.recorded  BY <2>2
  <2> QED  BY <1>1, <1>2, <2>2, <2>3, FileKinds, HoldsByKind
<1>3. CASE r.cmd # "sync" /\ r.saves = Writes(r.cfg) /\ r.cfg.server = None
  <2>1. r.saves = <<<<ConfigFile(None), r.cfg>>>>  BY <1>3 DEF Writes
  <2>2. r.saves # <<>> /\ Len(r.saves) = 1 /\ Head(r.saves) = <<ConfigFile(None), r.cfg>>
    BY <2>1
  <2>3. Head(r.saves)[1] = ConfigFile(None) /\ Head(r.saves)[2] = r.cfg  BY <2>2
  <2> QED  BY <1>1, <1>3, <2>2, <2>3, FileKinds, HoldsByKind
<1>4. CASE r.cmd # "sync" /\ r.saves = Writes(r.cfg) /\ r.cfg.server # None
  <2>1. r.saves = <<<<ConfigFile(r.cfg.server), r.cfg>>, <<ActiveFile, r.cfg.server>>>>  BY <1>4 DEF Writes
  <2>2. /\ r.saves # <<>> /\ Len(r.saves) > 1 /\ Head(r.saves) = <<ConfigFile(r.cfg.server), r.cfg>>
        /\ Tail(r.saves) = <<<<ActiveFile, r.cfg.server>>>>
    BY <2>1
  <2>3. Head(r.saves)[1] = ConfigFile(r.cfg.server) /\ Head(r.saves)[2] = r.cfg  BY <2>2
  <2> QED  BY <1>1, <1>4, <2>2, <2>3, FileKinds, HoldsByKind DEF LastSave
<1>5. CASE r.cmd # "sync" /\ r.cfg.server \in Servers /\ r.saves = LastSave(r)
  <2>1. r.saves # <<>> /\ Len(r.saves) = 1 /\ Head(r.saves) = <<ActiveFile, r.cfg.server>>
    BY <1>5 DEF LastSave
  <2>2. Head(r.saves)[1] = ActiveFile /\ Head(r.saves)[2] = r.cfg.server  BY <2>1
  <2> QED  BY <1>1, <1>5, <2>1, <2>2, FileKinds, HoldsByKind
<1> QED  BY <1>2, <1>3, <1>4, <1>5 DEF ProcessOK, SavesLeft

\* A record that is a process's, taken apart.
LEMMA ProcessFields ==
    ASSUME NEW r, ProcessOK(r)
    PROVE  /\ r \in Process /\ r.cfg \in Config /\ r.cfg.server \in Servers \cup {None}
           /\ r.cmd \in Editors \cup {"none", "sync"} /\ r.step \in {"idle"} \cup EditSteps \cup SyncSteps
           /\ r.recorded \in SUBSET Folders /\ r.todo \in SUBSET Folders /\ r.failed \in SUBSET Folders
           /\ r.saves \in SaveLists /\ r.arg \in Servers \cup Folders \cup {None}
    BY ConfigFields DEF ProcessOK, Process

\* The steps at which a process is at work for one kind of command.
LEMMA StepsByCommand ==
    ASSUME NEW r, ProcessOK(r)
    PROVE  /\ r.step \in {"login", "edit"} => r.cmd \in Editors
           /\ r.step \in {"open", "pass", "rest"} => r.cmd = "sync"
           /\ r.step # "idle" => r.cmd \in Editors \cup {"sync"}
    BY ProcessFields DEF ProcessOK, Editors, EditSteps, SyncSteps, Saving, InSync, Idle

\* A process that starts; one that has read which server is active; one that has its config.
Started(cmd, arg, step, s) == [Idle EXCEPT !.cmd = cmd, !.arg = arg, !.step = step, !.cfg.server = s]

LEMMA StartedOK ==
    ASSUME NEW cmd \in Editors \cup {"sync"}, NEW arg \in Servers \cup Folders \cup {None},
           cmd \in {"add", "remove"} => arg \in Folders,
           NEW step \in {"find", "load"}, NEW s \in Servers \cup {None}, NEW r, r = Started(cmd, arg, step, s)
    PROVE  ProcessOK(r) /\ r.cmd = cmd /\ r.arg = arg /\ r.step = step /\ r.cfg = Blank(s)
<1> DEFINE e == [f \in Folders |-> None]
<1>1. Blank(s) \in Config /\ Blank(s) = [server |-> s, token |-> None, tracked |-> e] /\ Idle.cfg = Blank(None)
      /\ Blank(None) = [server |-> None, token |-> None, tracked |-> e]
  BY BlankIsConfig DEF Blank, Idle
<1> HIDE DEF e
<1>2. [Blank(None) EXCEPT !.server = s] = Blank(s)  BY <1>1
<1>3. r = [Idle EXCEPT !.cmd = cmd, !.arg = arg, !.step = step, !.cfg = Blank(s)]  BY <1>1, <1>2 DEF Idle, Started
<1>4. r.cmd = cmd /\ r.step = step /\ r.arg = arg /\ r.cfg = Blank(s)  BY <1>3 DEF Idle
<1>5. r \in Process
  <2>1. <<>> \in SaveLists  BY DEF SaveLists
  <2> QED  BY <1>1, <1>3, <2>1 DEF Idle, Process, EditSteps, SyncSteps
<1>6. ProcessOK(r)
  BY <1>4, <1>5 DEF ProcessOK, Editors, EditSteps, SyncSteps, Saving, InSync
<1> QED  BY <1>4, <1>6

Found(r, s) == [r EXCEPT !.step = "load", !.cfg.server = s]

LEMMA FoundOK ==
    ASSUME NEW r, ProcessOK(r), r.step = "find", NEW s \in Servers \cup {None}, NEW n, n = Found(r, s)
    PROVE  /\ ProcessOK(n) /\ n.cmd = r.cmd /\ n.step = "load" /\ n.arg = r.arg
           /\ n.cfg.server = s /\ n.cfg.token = r.cfg.token /\ n.cfg.tracked = r.cfg.tracked
<1>1. n \in Process /\ n.cmd = r.cmd /\ n.step = "load" /\ n.arg = r.arg
  BY DEF ProcessOK, Process, EditSteps, SyncSteps, Config, Found
<1>2. n.cfg.server = s /\ n.cfg.token = r.cfg.token /\ n.cfg.tracked = r.cfg.tracked
  BY DEF ProcessOK, Process, Config, Found
<1>3. r.cmd # "none"  BY DEF ProcessOK, Idle
<1> QED  BY <1>1, <1>2, <1>3 DEF ProcessOK, EditSteps, SyncSteps, Saving, InSync

Loaded(r, c) == [r EXCEPT !.cfg = c, !.step = Following(r.cmd)]

LEMMA LoadedOK ==
    ASSUME NEW r, ProcessOK(r), r.step = "load", NEW c \in Config, NEW n, n = Loaded(r, c)
    PROVE  /\ ProcessOK(n) /\ n.cmd = r.cmd /\ n.arg = r.arg /\ n.cfg = c
           /\ n.step \in {"login", "open", "edit"} /\ (n.step = "open" <=> r.cmd = "sync")
<1>1. r.cmd # "none"  BY DEF ProcessOK, Idle
<1>2. /\ Following(r.cmd) \in {"login", "open", "edit"}
      /\ Following(r.cmd) = "open" <=> r.cmd = "sync"
  BY <1>1, ProcessFields DEF Following, Editors
<1>3. n \in Process /\ n.cmd = r.cmd /\ n.step = Following(r.cmd) /\ n.arg = r.arg /\ n.cfg = c
  BY <1>2 DEF ProcessOK, Process, EditSteps, SyncSteps, Loaded
<1> QED  BY <1>1, <1>2, <1>3 DEF ProcessOK, Editors, EditSteps, SyncSteps, Saving, InSync

\* A process that is about to save its config, or its state.
SavingConfig(r, c) == [r EXCEPT !.cfg = c, !.step = "truncate", !.saves = Writes(c)]

LEMMA SavingOK ==
    ASSUME NEW r, ProcessOK(r), r.cmd \in Editors, NEW c \in Config, NEW n, n = SavingConfig(r, c)
    PROVE  /\ ProcessOK(n) /\ n.cmd = r.cmd /\ n.arg = r.arg /\ n.cfg = c /\ n.step = "truncate"
           /\ Head(n.saves)[1] = ConfigFile(c.server)
<1>1. Writes(c) \in SaveLists  BY DEF SaveLists
<1>2. /\ n \in Process /\ n.cmd = r.cmd /\ n.arg = r.arg /\ n.cfg = c /\ n.step = "truncate"
      /\ n.saves = Writes(c)
  BY <1>1 DEF ProcessOK, Process, EditSteps, SavingConfig, Saving, InSync
<1>3. ProcessOK(n)
  BY <1>2 DEF ProcessOK, Editors, EditSteps, Saving, InSync, SavesLeft
<1>4. Head(Writes(c))[1] = ConfigFile(c.server)
  BY ConfigFields DEF Writes
<1> QED  BY <1>2, <1>3, <1>4

SavingState(r) == [r EXCEPT !.step = "truncate", !.saves = <<<<StateFile(r.cfg.server), r.recorded>>>>]

LEMMA StateSavingOK ==
    ASSUME NEW r, ProcessOK(r), r.step = "pass"
    PROVE  LET n == SavingState(r)
           IN  /\ ProcessOK(n) /\ n.cmd = "sync" /\ n.step = "truncate" /\ n.cfg = r.cfg
               /\ n.recorded = r.recorded /\ n.todo = r.todo /\ n.failed = r.failed
<1> DEFINE n == SavingState(r)
<1>1. r.cmd = "sync"  BY StepsByCommand
<1>2. <<<<StateFile(r.cfg.server), r.recorded>>>> \in SaveLists
  BY ProcessFields DEF SaveLists
<1>3. /\ n \in Process /\ n.cmd = "sync" /\ n.step = "truncate" /\ n.cfg = r.cfg
      /\ n.saves = <<<<StateFile(r.cfg.server), r.recorded>>>>
      /\ n.recorded = r.recorded /\ n.todo = r.todo /\ n.failed = r.failed
  BY <1>1, <1>2 DEF ProcessOK, Process, SyncSteps, SavingState, Saving
<1> HIDE DEF n
<1>4. r.cfg.server \in Servers /\ r.todo \subseteq InConfig(r.cfg)  BY <1>1 DEF ProcessOK, InSync
<1>5. ProcessOK(n)  BY <1>3, <1>4 DEF ProcessOK, Editors, SyncSteps, Saving, InSync, SavesLeft
<1> QED  BY <1>3, <1>5 DEF n

\* A process that starts a pass, syncs one folder, or rests.
InPass(r, todo, recorded) == [r EXCEPT !.step = "pass", !.todo = todo, !.failed = {}, !.recorded = recorded]
TurnOf(r, todo, recorded, failed) == [r EXCEPT !.todo = todo, !.recorded = recorded, !.failed = failed]

LEMMA PassOK ==
    ASSUME NEW r, ProcessOK(r), r.cmd = "sync", r.step # "idle", NEW todo \in SUBSET Folders,
           NEW recorded \in SUBSET Folders, r.cfg.server \in Servers, todo \subseteq InConfig(r.cfg)
    PROVE  LET n == InPass(r, todo, recorded)
           IN  /\ ProcessOK(n) /\ n.cmd = "sync" /\ n.step = "pass" /\ n.cfg = r.cfg
               /\ n.todo = todo /\ n.failed = {} /\ n.recorded = recorded
<1> DEFINE n == InPass(r, todo, recorded)
<1>1. /\ n \in Process /\ n.cmd = "sync" /\ n.step = "pass" /\ n.cfg = r.cfg
      /\ n.todo = todo /\ n.failed = {} /\ n.recorded = recorded
  BY DEF ProcessOK, Process, SyncSteps, InPass
<1> HIDE DEF n
<1>2. ProcessOK(n)  BY <1>1 DEF ProcessOK, Editors, SyncSteps, Saving, InSync
<1> QED  BY <1>1, <1>2 DEF n

LEMMA FolderOK ==
    ASSUME NEW r, ProcessOK(r), r.step = "pass", NEW todo \in SUBSET r.todo,
           NEW failed \in SUBSET Folders, NEW recorded \in SUBSET Folders
    PROVE  LET n == TurnOf(r, todo, recorded, failed)
           IN  /\ ProcessOK(n) /\ n.cmd = "sync" /\ n.step = "pass" /\ n.cfg = r.cfg
               /\ n.todo = todo /\ n.failed = failed /\ n.recorded = recorded
<1> DEFINE n == TurnOf(r, todo, recorded, failed)
<1>1. r.cmd = "sync" /\ r.todo \subseteq InConfig(r.cfg) /\ r.cfg.server \in Servers
  BY StepsByCommand DEF ProcessOK, InSync
<1>2. /\ n \in Process /\ n.cmd = "sync" /\ n.step = "pass" /\ n.cfg = r.cfg
      /\ n.todo = todo /\ n.failed = failed /\ n.recorded = recorded
  BY <1>1 DEF ProcessOK, Process, SyncSteps, TurnOf
<1> HIDE DEF n
<1>3. ProcessOK(n)  BY <1>1, <1>2 DEF ProcessOK, Editors, SyncSteps, Saving, InSync
<1> QED  BY <1>2, <1>3 DEF n

LEMMA RestOK ==
    ASSUME NEW r, ProcessOK(r), InSync(r),
           NEW n, n = [r EXCEPT !.step = "rest"] \/ n = [r EXCEPT !.saves = <<>>, !.step = "rest"]
    PROVE  /\ ProcessOK(n) /\ n.cmd = "sync" /\ n.step = "rest" /\ n.cfg = r.cfg
           /\ n.todo = r.todo /\ n.failed = r.failed /\ n.recorded = r.recorded
<1>1. /\ n \in Process /\ n.cmd = "sync" /\ n.step = "rest" /\ n.cfg = r.cfg
      /\ n.todo = r.todo /\ n.failed = r.failed /\ n.recorded = r.recorded
  <2>1. <<>> \in SaveLists  BY DEF SaveLists
  <2>2. CASE n = [r EXCEPT !.step = "rest"]  BY <2>2 DEF ProcessOK, Process, SyncSteps, InSync
  <2>3. CASE n = [r EXCEPT !.saves = <<>>, !.step = "rest"]  BY <2>1, <2>3 DEF ProcessOK, Process, SyncSteps, InSync
  <2> QED  BY <2>2, <2>3
<1> QED  BY <1>1 DEF ProcessOK, Editors, SyncSteps, Saving, InSync

\* A process between the steps of one save.
LEMMA StepOK ==
    ASSUME NEW r, ProcessOK(r), r.step \in Saving, NEW step \in Saving, NEW n, n = [r EXCEPT !.step = step]
    PROVE  /\ ProcessOK(n) /\ n.cmd = r.cmd /\ n.step = step /\ n.cfg = r.cfg /\ n.saves = r.saves
           /\ n.todo = r.todo /\ n.failed = r.failed /\ n.recorded = r.recorded /\ n.arg = r.arg
<1>1. /\ n \in Process /\ n.cmd = r.cmd /\ n.step = step /\ n.cfg = r.cfg /\ n.saves = r.saves
      /\ n.todo = r.todo /\ n.failed = r.failed /\ n.recorded = r.recorded /\ n.arg = r.arg
  BY DEF ProcessOK, Process, SyncSteps
<1>2. r.cmd # "none"  BY DEF ProcessOK, Idle, Saving, InSync
<1> QED  BY <1>1, <1>2 DEF ProcessOK, Editors, EditSteps, SyncSteps, Saving, InSync, SavesLeft, LastSave

\* A file saved: an editing process goes on with the active server or ends, a sync rests.
LEMMA SavedOK ==
    ASSUME NEW r, ProcessOK(r), r.step \in Saving
    PROVE  LET n == Saved(r)
           IN  /\ ProcessOK(n)
               /\ \/ n = Idle
                  \/ /\ r.cmd # "sync" /\ n.cmd = r.cmd /\ n.step = "truncate" /\ n.cfg = r.cfg /\ n.arg = r.arg
                     /\ r.cfg.server \in Servers /\ Head(r.saves)[1] = ConfigFile(r.cfg.server)
                     /\ Head(n.saves)[1] = ActiveFile
                  \/ /\ r.cmd = "sync" /\ n.cmd = "sync" /\ n.step = "rest" /\ n.cfg = r.cfg
                     /\ n.todo = r.todo /\ n.failed = r.failed /\ n.recorded = r.recorded
<1> DEFINE n == Saved(r)
<1>1. CASE r.cmd = "sync"
  <2>1. Len(r.saves) = 1  BY <1>1, NextFile
  <2>2. ~(Len(r.saves) > 1)  BY <2>1
  <2>3. n = [r EXCEPT !.saves = <<>>, !.step = "rest"]
    BY <1>1, <2>2 DEF Saved
  <2> HIDE DEF n
  <2>4. /\ ProcessOK(n) /\ n.cmd = "sync" /\ n.step = "rest" /\ n.cfg = r.cfg
        /\ n.todo = r.todo /\ n.failed = r.failed /\ n.recorded = r.recorded
    BY <1>1, <2>3, RestOK DEF InSync
  <2> QED  BY <1>1, <2>4 DEF n
<1>2. CASE r.cmd # "sync" /\ Len(r.saves) = 1
  <2>1. n = Idle  BY <1>2 DEF Saved
  <2> QED  BY <2>1, IdleOK
<1>3. CASE r.cmd # "sync" /\ Len(r.saves) # 1
  <2>1. /\ r.cfg.server \in Servers /\ Len(r.saves) > 1 /\ Tail(r.saves) = LastSave(r)
        /\ Head(r.saves)[1] = ConfigFile(r.cfg.server)
    BY <1>3, NextFile, ProcessFields
  <2>2. n = [r EXCEPT !.saves = LastSave(r), !.step = "truncate"]  BY <2>1 DEF Saved
  <2>3. LastSave(r) \in SaveLists /\ Head(LastSave(r))[1] = ActiveFile  BY <2>1 DEF LastSave, SaveLists
  <2>4. /\ n \in Process /\ n.cmd = r.cmd /\ n.step = "truncate" /\ n.cfg = r.cfg /\ n.arg = r.arg
        /\ n.saves = LastSave(r)
    BY <2>1, <2>2, <2>3 DEF ProcessOK, Process, EditSteps, Saving, InSync
  <2>5. LastSave(n) = LastSave(r)  BY <2>4 DEF LastSave
  <2>6. r.cmd # "none"  BY DEF ProcessOK, Idle, Saving, InSync
  <2>7. ProcessOK(n)
    BY <1>3, <2>1, <2>4, <2>5, <2>6 DEF ProcessOK, Editors, EditSteps, Saving, InSync, SavesLeft
  <2> QED  BY <1>3, <2>1, <2>3, <2>4, <2>7
<1> QED  BY <1>1, <1>2, <1>3

-----------------------------------------------------------------------------
(* Type correctness *)

\* A step that replaces one process and leaves the files typed.
LEMMA OneProcess ==
    ASSUME TypeInv, NEW p \in Procs, NEW n, ProcessOK(n), proc' = [proc EXCEPT ![p] = n],
           Typed(disk)', Typed(tmp)',
           delivered' \subseteq Servers \X Drives \X Folders,
           started' \in 0..MaxCommands, crashes' \in 0..MaxCrashes
    PROVE  TypeInv' /\ proc'[p] = n /\ \A q \in Procs : q # p => proc'[q] = proc[q]
<1>1. proc' = [q \in Procs |-> IF q = p THEN n ELSE proc[q]]  BY DEF TypeInv
<1>2. \A q \in Procs : ProcessOK(proc[q])  BY DEF TypeInv
<1>3. \A q \in Procs : ProcessOK(proc'[q])  BY <1>1, <1>2
<1>4. proc' = [q \in Procs |-> proc'[q]]  BY <1>1
<1>5. proc'[p] = n /\ \A q \in Procs : q # p => proc'[q] = proc[q]  BY <1>1
<1> QED  BY <1>3, <1>4, <1>5 DEF TypeInv

\* A process that ends.
LEMMA Ends ==
    ASSUME TypeInv, NEW p \in Procs, Exit(p), UNCHANGED <<disk, tmp, delivered, started>>,
           crashes' \in 0..MaxCrashes
    PROVE  TypeInv'
<1>1. Typed(disk)' /\ Typed(tmp)'  BY DEF TypeInv, Typed
<1> QED  BY <1>1, IdleOK, OneProcess DEF TypeInv, Exit, Become

LEMMA RunTypes == ASSUME TypeInv, NEW p \in Procs, Commands(p) PROVE TypeInv'
<1>1. PICK cmd \in Editors \cup {"sync"}, arg \in Servers \cup Folders \cup {None} :
        Run(p, cmd, arg) /\ (cmd \in {"add", "remove"} => arg \in Folders) /\ (cmd = "login" => arg \in Servers \cup {None})
  BY SMT DEF Commands, Editors
<1> DEFINE step == IF cmd = "login" /\ arg # None THEN "load" ELSE "find"
           s == IF cmd = "login" THEN arg ELSE None
<1>2. step \in {"find", "load"} /\ s \in Servers \cup {None}  BY <1>1
<1>3. proc' = [proc EXCEPT ![p] = Started(cmd, arg, step, s)]  BY <1>1 DEF Run, Become, Started
<1> HIDE DEF step, s
<1>4. PICK n : n = Started(cmd, arg, step, s)  OBVIOUS
<1>7. ProcessOK(n)  BY <1>1, <1>2, <1>4, StartedOK
<1>5. Typed(disk)' /\ Typed(tmp)' /\ delivered' = delivered /\ crashes' = crashes  BY <1>1 DEF TypeInv, Typed, Run
<1>6. started' \in 0..MaxCommands  BY <1>1, ProfileAssumption DEF TypeInv, Run
<1> QED  BY <1>3, <1>4, <1>5, <1>6, <1>7, OneProcess DEF TypeInv

\* A step that changes one process only.
LEMMA ProcessTypes ==
    ASSUME TypeInv, NEW p \in Procs, NEW n, ProcessOK(n), Become(p, n),
           UNCHANGED <<disk, tmp, delivered, started, crashes>>
    PROVE  TypeInv'
<1>1. Typed(disk)' /\ Typed(tmp)'  BY DEF TypeInv, Typed
<1> QED  BY <1>1, OneProcess DEF TypeInv, Become

\* What is read from a file.
LEMMA Reads ==
    ASSUME TypeInv, NEW s \in Servers \cup {None}
    PROVE  /\ disk[ConfigFile(s)] \in {None, Torn} \cup Config
           /\ disk[StateFile(s)] \in {None, Torn} \cup SUBSET Folders
           /\ disk[ActiveFile] \in {None, Torn} \cup Servers
           /\ disk[ConfigFile(s)] # Torn => Stored(s) \in Config
<1>1. /\ disk[ConfigFile(s)] \in {None, Torn} \cup Config
      /\ disk[StateFile(s)] \in {None, Torn} \cup SUBSET Folders
      /\ disk[ActiveFile] \in {None, Torn} \cup Servers
  BY FileKinds, HoldsByKind DEF TypeInv, Typed
<1>2. Blank(s) \in Config  BY BlankIsConfig
<1> QED  BY <1>1, <1>2 DEF Stored

LEMMA FindTypes == ASSUME TypeInv, NEW p \in Procs, FindActive(p) PROVE TypeInv'
<1> DEFINE s == IF disk[ActiveFile] = Torn THEN None ELSE disk[ActiveFile]
<1>1. s \in Servers \cup {None}  BY Reads
<1>2. Become(p, Found(proc[p], s)) /\ proc[p].step = "find" /\ ProcessOK(proc[p])
  BY DEF FindActive, TypeInv, Found
<1> HIDE DEF s
<1>3. PICK n : n = Found(proc[p], s)  OBVIOUS
<1>4. ProcessOK(n)  BY <1>1, <1>2, <1>3, FoundOK
<1> QED  BY <1>2, <1>3, <1>4, ProcessTypes DEF FindActive

LEMMA LoadTypes == ASSUME TypeInv, NEW p \in Procs, LoadConfig(p) PROVE TypeInv'
<1>1. ProcessOK(proc[p]) /\ proc[p].step = "load" /\ proc[p].cfg.server \in Servers \cup {None}
  BY ProcessFields DEF TypeInv, LoadConfig
<1>2. CASE disk[ConfigFile(proc[p].cfg.server)] = Torn
  BY <1>2, Ends DEF LoadConfig, TypeInv
<1>3. CASE disk[ConfigFile(proc[p].cfg.server)] # Torn
  <2> DEFINE c == Stored(proc[p].cfg.server)
    <2>1. c \in Config  BY <1>1, <1>3, Reads
  <2>2. Become(p, Loaded(proc[p], c))  BY <1>3 DEF LoadConfig, Loaded
  <2> HIDE DEF c
  <2>3. PICK n : n = Loaded(proc[p], c)  OBVIOUS
  <2>4. ProcessOK(n)  BY <1>1, <2>1, <2>3, LoadedOK
  <2> QED  BY <2>2, <2>3, <2>4, ProcessTypes DEF LoadConfig
<1> QED  BY <1>2, <1>3

\* A process that begins to save the config c.
LEMMA SaveTypes ==
    ASSUME TypeInv, NEW p \in Procs, proc[p].cmd \in Editors, NEW c \in Config, Save(p, c),
           UNCHANGED <<disk, tmp, delivered, started, crashes>>
    PROVE  TypeInv'
<1>1. PICK n : n = SavingConfig(proc[p], c)  OBVIOUS
<1>2. Become(p, n) /\ ProcessOK(proc[p])  BY <1>1 DEF Save, SavingConfig, TypeInv
<1>3. ProcessOK(n)  BY <1>1, <1>2, SavingOK
<1> QED  BY <1>2, <1>3, ProcessTypes

LEMMA LoginTypes == ASSUME TypeInv, NEW p \in Procs, Login(p) PROVE TypeInv'
<1>1. ProcessOK(proc[p]) /\ proc[p].cfg \in Config /\ proc[p].cmd \in Editors
  BY ProcessFields, StepsByCommand DEF TypeInv, Login
<1>2. CASE Exit(p)  BY <1>2, Ends DEF Login, TypeInv
<1>3. ASSUME NEW s \in Servers, Save(p, LoggedInTo(proc[p].cfg, s)) PROVE TypeInv'
  <2>1. LoggedInTo(proc[p].cfg, s) \in Config  BY <1>1, LoggedIn
  <2> QED  BY <1>1, <1>3, <2>1, SaveTypes DEF Login
<1> QED  BY <1>2, <1>3 DEF Login

LEMMA EditTypes == ASSUME TypeInv, NEW p \in Procs, EditTracked(p) PROVE TypeInv'
<1>1. ProcessOK(proc[p]) /\ proc[p].cfg \in Config /\ proc[p].cmd \in Editors
  BY ProcessFields, StepsByCommand DEF TypeInv, EditTracked
<1>2. ASSUME proc[p].cmd \in {"add", "remove"}, NEW d \in Drives \cup {None},
             Save(p, [proc[p].cfg EXCEPT !.tracked[proc[p].arg] = d])
      PROVE  TypeInv'
  <2>1. proc[p].arg \in Folders  BY <1>1, <1>2 DEF ProcessOK
  <2>2. [proc[p].cfg EXCEPT !.tracked[proc[p].arg] = d] \in Config  BY <1>1, <2>1, Retracked
  <2> QED  BY <1>1, <1>2, <2>2, SaveTypes DEF EditTracked
<1>3. CASE Exit(p)  BY <1>3, Ends DEF EditTracked, TypeInv
<1>4. \/ Exit(p)
      \/ \E d \in Drives \cup {None} :
            proc[p].cmd \in {"add", "remove"} /\ Save(p, [proc[p].cfg EXCEPT !.tracked[proc[p].arg] = d])
  BY DEF EditTracked
<1> QED  BY <1>2, <1>3, <1>4

\* A process that begins a pass with the state recorded.
LEMMA PassTypes ==
    ASSUME TypeInv, NEW p \in Procs, proc[p].cmd = "sync", proc[p].step # "idle", proc[p].cfg.server \in Servers,
           NEW recorded \in SUBSET Folders, Pass(p, recorded),
           UNCHANGED <<disk, tmp, delivered, started, crashes>>
    PROVE  TypeInv'
<1> DEFINE todo == InConfig(proc[p].cfg)
           n == InPass(proc[p], todo, recorded)
<1>1. Become(p, n) /\ ProcessOK(proc[p]) /\ todo \in SUBSET Folders  BY DEF Pass, TypeInv, InConfig, InPass
<1> HIDE DEF todo
<1>2. todo \subseteq InConfig(proc[p].cfg)  BY DEF todo
<1>3. ProcessOK(n)  BY <1>1, <1>2, PassOK
<1> HIDE DEF n
<1> QED  BY <1>1, <1>3, ProcessTypes

LEMMA OpenTypes == ASSUME TypeInv, NEW p \in Procs, OpenState(p) PROVE TypeInv'
<1>1. ProcessOK(proc[p]) /\ proc[p].cfg.server \in Servers \cup {None} /\ proc[p].step = "open" /\ proc[p].cmd = "sync"
  BY ProcessFields, StepsByCommand DEF TypeInv, OpenState
<1>2. CASE Exit(p)  BY <1>2, Ends DEF OpenState, TypeInv
<1>3. CASE disk[StateFile(proc[p].cfg.server)] # Torn /\ proc[p].cfg.server # None
        /\ Pass(p, IF disk[StateFile(proc[p].cfg.server)] = None THEN {} ELSE disk[StateFile(proc[p].cfg.server)])
  <2> DEFINE recorded == IF disk[StateFile(proc[p].cfg.server)] = None THEN {} ELSE disk[StateFile(proc[p].cfg.server)]
  <2>1. recorded \in SUBSET Folders /\ Pass(p, recorded)  BY <1>1, <1>3, Reads
  <2> HIDE DEF recorded
  <2> QED  BY <1>1, <1>3, <2>1, PassTypes DEF OpenState
<1> QED  BY <1>1, <1>2, <1>3 DEF OpenState

\* What the turn of folder f makes of a process r and of the deliveries dl.
AfterFolder(r, f, n, dl, new) ==
    /\ ProcessOK(n) /\ n.cmd = "sync" /\ n.step = "pass" /\ n.cfg = r.cfg /\ n.todo = r.todo \ {f}
    /\ \/ /\ new = dl /\ n.recorded = r.recorded /\ r.failed \subseteq n.failed /\ f \in n.recorded \cup n.failed
       \/ /\ r.cfg.token = r.cfg.server /\ n.failed = r.failed /\ n.recorded = r.recorded \cup {f}
          /\ new = dl \cup {<<r.cfg.server, r.cfg.tracked[f], f>>}

LEMMA FolderEffect ==
    ASSUME TypeInv, NEW p \in Procs, NEW f \in Folders, SyncFolder(p, f)
    PROVE  \E n : Become(p, n) /\ AfterFolder(proc[p], f, n, delivered, delivered')
<1>1. /\ ProcessOK(proc[p]) /\ proc[p].step = "pass" /\ proc[p].cmd = "sync" /\ f \in proc[p].todo
      /\ proc[p].recorded \in SUBSET Folders /\ proc[p].failed \in SUBSET Folders /\ proc[p].todo \in SUBSET Folders
  BY ProcessFields, StepsByCommand DEF TypeInv, SyncFolder
<1> DEFINE todo == proc[p].todo \ {f}
           N(recorded, failed) == TurnOf(proc[p], todo, recorded, failed)
<1>2. ASSUME NEW recorded \in SUBSET Folders, NEW failed \in SUBSET Folders, Become(p, N(recorded, failed)),
             \/ /\ delivered' = delivered /\ recorded = proc[p].recorded /\ proc[p].failed \subseteq failed
                /\ f \in recorded \cup failed
             \/ /\ proc[p].cfg.token = proc[p].cfg.server /\ failed = proc[p].failed
                /\ recorded = proc[p].recorded \cup {f}
                /\ delivered' = delivered \cup {<<proc[p].cfg.server, proc[p].cfg.tracked[f], f>>}
      PROVE  \E n : Become(p, n) /\ AfterFolder(proc[p], f, n, delivered, delivered')
  <2> DEFINE n == N(recorded, failed)
  <2>1. todo \in SUBSET proc[p].todo  OBVIOUS
  <2> HIDE DEF todo
  <2>2. /\ ProcessOK(n) /\ n.cmd = "sync" /\ n.step = "pass" /\ n.cfg = proc[p].cfg
        /\ n.todo = todo /\ n.recorded = recorded /\ n.failed = failed
    BY <1>1, <2>1, FolderOK
  <2>3. Become(p, n)  BY <1>2
  <2> HIDE DEF n
  <2>4. AfterFolder(proc[p], f, n, delivered, delivered')
    BY <1>2, <2>2 DEF AfterFolder, todo
  <2> QED  BY <2>3, <2>4
<1>3. \/ delivered' = delivered /\ f \in proc[p].recorded /\ Become(p, N(proc[p].recorded, proc[p].failed))
      \/ /\ proc[p].cfg.token = proc[p].cfg.server
         /\ delivered' = delivered \cup {<<proc[p].cfg.server, proc[p].cfg.tracked[f], f>>}
         /\ Become(p, N(proc[p].recorded \cup {f}, proc[p].failed))
      \/ delivered' = delivered /\ Become(p, N(proc[p].recorded, proc[p].failed \cup {f}))
  BY DEF SyncFolder, TurnOf
<1>4. proc[p].recorded \cup {f} \in SUBSET Folders /\ proc[p].failed \cup {f} \in SUBSET Folders  BY <1>1
<1> HIDE DEF N
<1>5. CASE delivered' = delivered /\ f \in proc[p].recorded /\ Become(p, N(proc[p].recorded, proc[p].failed))
  BY <1>1, <1>2, <1>5
<1>6. CASE /\ proc[p].cfg.token = proc[p].cfg.server
           /\ delivered' = delivered \cup {<<proc[p].cfg.server, proc[p].cfg.tracked[f], f>>}
           /\ Become(p, N(proc[p].recorded \cup {f}, proc[p].failed))
  BY <1>1, <1>2, <1>4, <1>6
<1>7. CASE delivered' = delivered /\ Become(p, N(proc[p].recorded, proc[p].failed \cup {f}))
  BY <1>1, <1>2, <1>4, <1>7
<1> QED  BY <1>3, <1>5, <1>6, <1>7

LEMMA FolderTypes == ASSUME TypeInv, NEW p \in Procs, NEW f \in Folders, SyncFolder(p, f) PROVE TypeInv'
<1>1. PICK n : Become(p, n) /\ AfterFolder(proc[p], f, n, delivered, delivered')  BY FolderEffect
<1>2. ProcessOK(n)  BY <1>1 DEF AfterFolder
<1>3. /\ ProcessOK(proc[p]) /\ proc[p].cfg \in Config /\ f \in proc[p].todo /\ proc[p].step = "pass"
  BY ProcessFields DEF TypeInv, SyncFolder
<1>4. delivered' \subseteq Servers \X Drives \X Folders
  <2>1. CASE delivered' = delivered  BY <2>1 DEF TypeInv
  <2>2. CASE /\ proc[p].cfg.token = proc[p].cfg.server
             /\ delivered' = delivered \cup {<<proc[p].cfg.server, proc[p].cfg.tracked[f], f>>}
    <3>1. proc[p].cfg.server \in Servers /\ f \in InConfig(proc[p].cfg)
      BY <1>3, StepsByCommand DEF ProcessOK, InSync
    <3>2. proc[p].cfg.tracked[f] \in Drives  BY <1>3, <3>1, ConfigFields DEF InConfig
    <3> QED  BY <2>2, <3>1, <3>2 DEF TypeInv
  <2> QED  BY <1>1, <2>1, <2>2 DEF AfterFolder
<1>5. Typed(disk)' /\ Typed(tmp)' /\ started' = started /\ crashes' = crashes  BY DEF TypeInv, Typed, SyncFolder
<1> QED  BY <1>1, <1>2, <1>4, <1>5, OneProcess DEF TypeInv, Become

\* What the end of a pass, and a rest, make of a process.
LEMMA EndEffect ==
    ASSUME TypeInv, NEW p \in Procs, EndPass(p)
    PROVE  \E n : /\ Become(p, n) /\ ProcessOK(n) /\ InSync(n) /\ n.cfg = proc[p].cfg
                  /\ n.step \in {"rest", "truncate"}
                  /\ n.todo = proc[p].todo /\ n.failed = proc[p].failed /\ n.recorded = proc[p].recorded
<1>1. ProcessOK(proc[p]) /\ proc[p].step = "pass" /\ proc[p].cmd = "sync" /\ InSync(proc[p])
  BY StepsByCommand DEF TypeInv, EndPass, InSync
<1>2. CASE Become(p, [proc[p] EXCEPT !.step = "rest"])
  <2> DEFINE n == [proc[p] EXCEPT !.step = "rest"]
  <2>1. /\ ProcessOK(n) /\ n.cmd = "sync" /\ n.step = "rest" /\ n.cfg = proc[p].cfg
        /\ n.todo = proc[p].todo /\ n.failed = proc[p].failed /\ n.recorded = proc[p].recorded
    BY <1>1, RestOK
  <2>2. Become(p, n)  BY <1>2
  <2> HIDE DEF n
  <2> QED  BY <2>1, <2>2 DEF InSync
<1>3. CASE Become(p, [proc[p] EXCEPT !.step = "truncate",
                                     !.saves = <<<<StateFile(proc[p].cfg.server), proc[p].recorded>>>>])
  <2> DEFINE n == SavingState(proc[p])
  <2>1. /\ ProcessOK(n) /\ n.cmd = "sync" /\ n.step = "truncate" /\ n.cfg = proc[p].cfg
        /\ n.todo = proc[p].todo /\ n.failed = proc[p].failed /\ n.recorded = proc[p].recorded
    BY <1>1, StateSavingOK
  <2>2. Become(p, n)  BY <1>3 DEF SavingState
  <2> HIDE DEF n
  <2> QED  BY <2>1, <2>2 DEF InSync, Saving
<1> QED  BY <1>2, <1>3 DEF EndPass

LEMMA EndTypes == ASSUME TypeInv, NEW p \in Procs, EndPass(p) PROVE TypeInv'
    BY EndEffect, ProcessTypes DEF EndPass

LEMMA RestTypes == ASSUME TypeInv, NEW p \in Procs, Rest(p) PROVE TypeInv'
<1>1. ProcessOK(proc[p]) /\ proc[p].step = "rest" /\ proc[p].cmd = "sync"
  BY StepsByCommand DEF TypeInv, Rest
<1>2. proc[p].recorded \in SUBSET Folders /\ proc[p].cfg.server \in Servers
  BY <1>1, ProcessFields DEF ProcessOK, InSync
<1>3. CASE Exit(p)  BY <1>3, Ends DEF Rest, TypeInv
<1>4. CASE Pass(p, proc[p].recorded)
  <2>1. PICK recorded : recorded = proc[p].recorded  OBVIOUS
  <2>2. recorded \in SUBSET Folders /\ Pass(p, recorded)  BY <1>2, <1>4, <2>1
  <2> QED  BY <1>1, <1>2, <2>2, PassTypes DEF Rest
<1> QED  BY <1>3, <1>4 DEF Rest

\* What a step of a save makes of its process: the file it writes, x, and the value v
\* that is to be in it.
Writing(p, x, v) ==
    /\ ProcessOK(proc[p]) /\ proc[p].step \in Saving /\ x = Head(proc[p].saves)[1] /\ v = Head(proc[p].saves)[2]
    /\ x \in Files /\ v \in Holds(x)

LEMMA Writes1 ==
    ASSUME TypeInv, NEW p \in Procs, proc[p].step \in Saving
    PROVE  \E x, v : Writing(p, x, v) /\ x = Target(p) /\ v = Payload(p)
<1>1. ProcessOK(proc[p])  BY DEF TypeInv
<1> QED  BY <1>1, NextFile DEF Writing, Target, Payload

LEMMA TruncateTypes == ASSUME TypeInv, NEW p \in Procs, Truncate(p) \/ Write(p) PROVE TypeInv'
<1>1. proc[p].step \in Saving  BY DEF Truncate, Write, Saving
<1>2. PICK x, v : Writing(p, x, v) /\ x = Target(p) /\ v = Payload(p)  BY <1>1, Writes1
<1>3. PICK n, w : /\ n = [proc[p] EXCEPT !.step = "write"] \/ n = [proc[p] EXCEPT !.step = "rename"]
                  /\ Become(p, n) /\ w \in {Torn, v} /\ tmp' = [tmp EXCEPT ![x] = w]
  BY <1>2 DEF Truncate, Write
<1>4. ProcessOK(n)
  <2>1. PICK step \in Saving : n = [proc[p] EXCEPT !.step = step]  BY <1>3 DEF Saving
  <2> QED  BY <1>2, <2>1, StepOK DEF Writing
<1>5. Typed(tmp)'
  <2>1. w \in {None, Torn} \cup Holds(x) /\ x \in Files /\ Typed(tmp)  BY <1>2, <1>3 DEF Writing, TypeInv
  <2> QED  BY <1>3, <2>1, StaysTyped DEF Typed
<1>6. Typed(disk)' /\ delivered' = delivered /\ started' = started /\ crashes' = crashes
  BY DEF Truncate, Write, TypeInv, Typed
<1> QED  BY <1>3, <1>4, <1>5, <1>6, OneProcess DEF TypeInv, Become

LEMMA RenameTypes == ASSUME TypeInv, NEW p \in Procs, Rename(p) PROVE TypeInv'
<1>1. proc[p].step \in Saving  BY DEF Rename, Saving
<1>2. PICK x, v : Writing(p, x, v) /\ x = Target(p) /\ v = Payload(p)  BY <1>1, Writes1
<1>3. CASE tmp[x] = None
  BY <1>2, <1>3, Ends DEF Rename, TypeInv
<1>4. CASE tmp[x] # None
  <2>1. /\ disk' = [disk EXCEPT ![x] = tmp[x]] /\ tmp' = [tmp EXCEPT ![x] = None]
        /\ Become(p, Saved(proc[p])) /\ delivered' = delivered /\ started' = started /\ crashes' = crashes
    BY <1>2, <1>4 DEF Rename
  <2>2. tmp[x] \in {None, Torn} \cup Holds(x) /\ x \in Files /\ Typed(tmp) /\ Typed(disk)
    BY <1>2 DEF Writing, TypeInv, Typed
  <2>3. Typed(disk)' /\ Typed(tmp)'  BY <2>1, <2>2, StaysTyped DEF Typed
  <2>4. ProcessOK(Saved(proc[p]))  BY <1>2, SavedOK DEF Writing
  <2>5. PICK n : n = Saved(proc[p])  OBVIOUS
  <2> QED  BY <2>1, <2>3, <2>4, <2>5, OneProcess DEF TypeInv, Become
<1> QED  BY <1>3, <1>4

LEMMA CrashTypes == ASSUME TypeInv, NEW p \in Procs, Crash(p) PROVE TypeInv'
<1>1. crashes' \in 0..MaxCrashes  BY ProfileAssumption DEF TypeInv, Crash
<1> QED  BY <1>1, Ends DEF Crash

LEMMA TypesStay == TypeInv /\ [Next]_vars => TypeInv'
<1> SUFFICES ASSUME TypeInv, [Next]_vars PROVE TypeInv'  OBVIOUS
<1>1. CASE UNCHANGED vars  BY <1>1 DEF vars, TypeInv, Typed
<1>2. ASSUME NEW p \in Procs, Commands(p) PROVE TypeInv'  BY <1>2, RunTypes
<1>3. ASSUME NEW p \in Procs, FindActive(p) \/ LoadConfig(p) \/ Login(p) \/ EditTracked(p) PROVE TypeInv'
  BY <1>3, FindTypes, LoadTypes, LoginTypes, EditTypes
<1>4. ASSUME NEW p \in Procs, OpenState(p) \/ EndPass(p) \/ Rest(p) \/ (\E f \in Folders : SyncFolder(p, f)) PROVE TypeInv'
  BY <1>4, OpenTypes, EndTypes, RestTypes, FolderTypes
<1>5. ASSUME NEW p \in Procs, Truncate(p) \/ Write(p) \/ Rename(p) \/ Crash(p) PROVE TypeInv'
  BY <1>5, TruncateTypes, RenameTypes, CrashTypes
<1> QED  BY <1>1, <1>2, <1>3, <1>4, <1>5 DEF Next

\* The config an older client leaves.
LEMMA StartFiles ==
    ASSUME Init
    PROVE  /\ disk = [x \in Files |-> IF x = ConfigFile(None) THEN disk[ConfigFile(None)] ELSE None]
           /\ \/ disk[ConfigFile(None)] = None
              \/ /\ disk[ConfigFile(None)] \in Config /\ disk[ConfigFile(None)].server \in Servers
                 /\ disk[ConfigFile(None)].token = disk[ConfigFile(None)].server
                 /\ \A f \in Folders : disk[ConfigFile(None)].tracked[f] \in {None, Home[f]}
<1>1. PICK old \in {None} \cup {[server |-> s, token |-> s, tracked |-> t] :
                                 s \in Servers, t \in {u \in Tracked : \A f \in Folders : u[f] \in {None, Home[f]}}} :
          disk = [x \in Files |-> IF x = ConfigFile(None) THEN old ELSE None]
  BY DEF Init
<1>2. disk[ConfigFile(None)] = old  BY <1>1, FileKinds
<1>3. CASE old = None  BY <1>1, <1>2, <1>3
<1>4. ASSUME NEW s \in Servers, NEW t \in {u \in Tracked : \A f \in Folders : u[f] \in {None, Home[f]}},
             old = [server |-> s, token |-> s, tracked |-> t]
      PROVE  /\ old \in Config /\ old.server \in Servers /\ old.token = old.server
             /\ \A f \in Folders : old.tracked[f] \in {None, Home[f]}
  BY <1>4 DEF Config
<1> QED  BY <1>1, <1>2, <1>3, <1>4

LEMMA TypesAtFirst == Init => TypeInv
<1> SUFFICES ASSUME Init PROVE TypeInv  OBVIOUS
<1>1. Typed(disk)
  <2>1. ASSUME NEW x \in Files PROVE disk[x] \in {None, Torn} \cup Holds(x)
    <3>1. CASE x = ConfigFile(None)  BY <3>1, StartFiles, HoldsByKind
    <3>2. CASE x # ConfigFile(None)  BY <3>2, StartFiles
    <3> QED  BY <3>1, <3>2
  <2>2. disk = [x \in Files |-> disk[x]]  BY DEF Init
  <2> QED  BY <2>1, <2>2 DEF Typed
<1>2. Typed(tmp)  BY DEF Init, Typed
<1>3. /\ proc = [p \in Procs |-> proc[p]] /\ \A p \in Procs : ProcessOK(proc[p])  BY IdleOK DEF Init
<1>4. delivered = {} /\ started \in 0..MaxCommands /\ crashes \in 0..MaxCrashes  BY ProfileAssumption DEF Init
<1> QED  BY <1>1, <1>2, <1>3, <1>4 DEF TypeInv

LEMMA TypesImplied == TypeInv => TypeOK
<1> SUFFICES ASSUME TypeInv PROVE TypeOK  OBVIOUS
<1>1. ASSUME NEW x \in Files
      PROVE disk[x] \in {None, Torn} \/ (CASE x[1] = "config" -> disk[x] \in Config
                                           [] x[1] = "state"  -> disk[x] \subseteq Folders
                                           [] OTHER           -> disk[x] \in Servers)
  <2>1. disk[x] \in {None, Torn} \/ disk[x] \in Holds(x)  BY DEF TypeInv, Typed
  <2>2. CASE x[1] = "config"  BY <2>1, <2>2 DEF Holds
  <2>3. CASE x[1] = "state"  BY <2>1, <2>3 DEF Holds
  <2>4. CASE x[1] # "config" /\ x[1] # "state"  BY <2>1, <2>4 DEF Holds
  <2> QED  BY <2>2, <2>3, <2>4
<1>2. DOMAIN disk = Files /\ DOMAIN tmp = Files /\ DOMAIN proc = Procs
  BY DEF TypeInv, Typed
<1> QED  BY <1>1, <1>2 DEF TypeOK, TypeInv

\* Files and processes hold what their readers expect, however commands overlap and
\* wherever one is killed.
THEOREM TypeCorrect == Spec => []TypeOK
<1>1. Spec => []TypeInv  BY TypesAtFirst, TypesStay, PTL DEF Spec
<1> QED  BY <1>1, TypesImplied, PTL

-----------------------------------------------------------------------------
(* Settings, when commands do not overlap *)

LEMMA IdleFields ==
    /\ Idle.cmd = "none" /\ Idle.step = "idle" /\ Idle.cfg = Blank(None) /\ Idle.recorded = {}
    /\ Idle.cfg.token = None /\ Idle.cfg.server = None /\ \A f \in Folders : Idle.cfg.tracked[f] = None
<1>1. Idle.cmd = "none" /\ Idle.step = "idle" /\ Idle.cfg = Blank(None) /\ Idle.recorded = {}  BY DEF Idle
<1> QED  BY <1>1, BlankIsConfig

LEMMA IdleSettings ==
    ASSUME NEW d, NEW t
    PROVE  ProcessSound(Idle, d, t) /\ Keeps(Idle, d) /\ ~InSync(Idle) /\ \A b : ~Clash(Idle, b)
    BY IdleFields DEF ProcessSound, Keeps, InSync, Clash, OwnToken, Saving, Editors

LEMMA ClashSymmetric == \A a, b : Clash(a, b) => Clash(b, a)
    BY DEF Clash

\* A process that goes on with its command gets in nobody's way.
LEMMA NoNewClash ==
    ASSUME NEW r, NEW n, n.cmd \in Editors => r.cmd \in Editors,
           InSync(n) => InSync(r) /\ n.cfg.server = r.cfg.server, NEW b, Clash(n, b)
    PROVE  Clash(r, b)
    BY DEF Clash, InSync, Editors

\* Processes apart stay apart, when the one that changes does.
LEMMA StayApart ==
    ASSUME TypeInv, Apart, NEW p \in Procs, NEW n, Become(p, n),
           \A q \in Procs : q # p => ~Clash(n, proc[q])
    PROVE  Apart' /\ proc'[p] = n /\ \A q \in Procs : q # p => proc'[q] = proc[q]
<1>1. proc' = [q \in Procs |-> IF q = p THEN n ELSE proc[q]]  BY DEF TypeInv, Become
<1>2. proc'[p] = n /\ \A q \in Procs : q # p => proc'[q] = proc[q]  BY <1>1
<1>3. ASSUME NEW a \in Procs, NEW b \in Procs, Clash(proc'[a], proc'[b]) PROVE a = b
  <2>1. CASE a = p /\ b # p  BY <1>2, <1>3, <2>1
  <2>2. CASE a # p /\ b = p  BY <1>2, <1>3, <2>2, ClashSymmetric
  <2>3. CASE a # p /\ b # p  BY <1>2, <1>3, <2>3 DEF Apart
  <2> QED  BY <2>1, <2>2, <2>3
<1> QED  BY <1>2, <1>3 DEF Apart

LEMMA QuietStep ==
    ASSUME TypeInv, SettingsInv, NEW p \in Procs, NEW n, Become(p, n), UNCHANGED <<disk, tmp>>,
           \A q \in Procs : q # p => ~Clash(n, proc[q]),
           ProcessSound(n, disk, tmp), Keeps(n, disk)
    PROVE  SettingsInv'
<1>1. Apart' /\ proc'[p] = n /\ \A q \in Procs : q # p => proc'[q] = proc[q]  BY StayApart DEF SettingsInv
<1>2. disk' = disk /\ tmp' = tmp  OBVIOUS
<1>3. ASSUME NEW q \in Procs PROVE ProcessSound(proc'[q], disk', tmp') /\ Keeps(proc'[q], disk')
  BY <1>1, <1>2 DEF SettingsInv
<1> QED  BY <1>1, <1>2, <1>3 DEF SettingsInv

\* What the invariants say of the process that acts.
LEMMA ItsSettings ==
    ASSUME TypeInv, SettingsInv, NEW p \in Procs
    PROVE  /\ ProcessOK(proc[p]) /\ ProcessSound(proc[p], disk, tmp) /\ Keeps(proc[p], disk)
           /\ \A q \in Procs : q # p => ~Clash(proc[p], proc[q])
           /\ OwnToken(proc[p].cfg) /\ proc[p].cfg \in Config /\ proc[p].cfg.server \in Servers \cup {None}
    BY ProcessFields DEF TypeInv, SettingsInv, Apart, ProcessSound

LEMMA EndSettings ==
    ASSUME TypeInv, SettingsInv, NEW p \in Procs, Exit(p), UNCHANGED <<disk, tmp>>
    PROVE  SettingsInv'
    BY IdleSettings, QuietStep DEF Exit

LEMMA RunSettings ==
    ASSUME TypeInv, SettingsInv, Overlaps = "none", NEW p \in Procs, Commands(p)
    PROVE  SettingsInv'
<1>1. PICK cmd \in Editors \cup {"sync"}, arg \in Servers \cup Folders \cup {None} :
        Run(p, cmd, arg) /\ (cmd \in {"add", "remove"} => arg \in Folders) /\ (cmd = "login" => arg \in Servers \cup {None})
  BY SMT DEF Commands, Editors
<1> DEFINE step == IF cmd = "login" /\ arg # None THEN "load" ELSE "find"
           s == IF cmd = "login" THEN arg ELSE None
<1>2. step \in {"find", "load"} /\ s \in Servers \cup {None} /\ (step = "load" => s \in Servers)  BY <1>1
<1>3. Become(p, Started(cmd, arg, step, s)) /\ UNCHANGED <<disk, tmp>>  BY <1>1 DEF Run, Started
<1> HIDE DEF step, s
<1>8. PICK n : n = Started(cmd, arg, step, s)  OBVIOUS
<1>4. n.cmd = cmd /\ n.step = step /\ n.cfg.token = None /\ n.cfg.server = s
  BY <1>8 DEF Started, Idle, Blank
<1>5. ProcessSound(n, disk, tmp)
  BY <1>2, <1>4 DEF ProcessSound, OwnToken, InSync, Saving
<1>6. Keeps(n, disk)  BY <1>2, <1>4 DEF Keeps
<1>7. ASSUME NEW q \in Procs, q # p PROVE ~Clash(n, proc[q])
  <2>1. cmd # "sync" => ~Editing(q)  BY <1>1 DEF Run, MayEdit
  <2>2. ~InSync(n)  BY <1>2, <1>4 DEF InSync, Saving
  <2> QED  BY <1>4, <2>1, <2>2 DEF Clash, Editing, Editors
<1> QED  BY <1>3, <1>5, <1>6, <1>7, <1>8, QuietStep

LEMMA FindSettings ==
    ASSUME TypeInv, SettingsInv, NEW p \in Procs, FindActive(p)
    PROVE  SettingsInv'
<1> DEFINE s == IF disk[ActiveFile] = Torn THEN None ELSE disk[ActiveFile]
<1>1. s \in Servers \cup {None} /\ s = disk[ActiveFile]
  BY Reads, FileKinds DEF SettingsInv, FilesSound
<1>2. Become(p, Found(proc[p], s)) /\ proc[p].step = "find" /\ UNCHANGED <<disk, tmp>>
  BY DEF FindActive, Found
<1> HIDE DEF s
<1>8. PICK n : n = Found(proc[p], s)  OBVIOUS
<1>3. n.cmd = proc[p].cmd /\ n.step = "load" /\ n.cfg.server = s /\ n.cfg.token = proc[p].cfg.token
  <2>1. ProcessOK(proc[p])  BY ItsSettings
  <2> QED  BY <1>1, <1>2, <1>8, <2>1, FoundOK
<1>4. proc[p].cfg.token = None  BY <1>2, ItsSettings DEF ProcessSound
<1>5. ProcessSound(n, disk, tmp)  BY <1>3, <1>4 DEF ProcessSound, OwnToken, InSync, Saving
<1>6. Keeps(n, disk)  BY <1>1, <1>3 DEF Keeps
<1>7. \A q \in Procs : q # p => ~Clash(n, proc[q])
  BY <1>3, ItsSettings, NoNewClash DEF InSync, Saving
<1> QED  BY <1>2, <1>5, <1>6, <1>7, <1>8, QuietStep

\* What a config command reads is its server's own, and what is on disk.
LEMMA StoredSound ==
    ASSUME TypeInv, SettingsInv, NEW s \in Servers \cup {None}
    PROVE  /\ disk[ConfigFile(s)] # Torn /\ Stored(s) \in Config /\ OwnToken(Stored(s))
           /\ s # None => Stored(s).server = s
           /\ disk[ConfigFile(s)] # None => Stored(s) = disk[ConfigFile(s)]
<1>1. disk[ConfigFile(s)] # Torn /\ Stored(s) \in Config  BY Reads, FileKinds DEF SettingsInv, FilesSound
<1>2. CASE disk[ConfigFile(s)] = None
  <2>1. Stored(s) = Blank(s)  BY <1>2 DEF Stored
  <2> QED  BY <1>1, <1>2, <2>1, BlankIsConfig DEF OwnToken
<1>3. CASE disk[ConfigFile(s)] # None
  <2>1. Stored(s) = disk[ConfigFile(s)]  BY <1>3 DEF Stored
  <2> QED  BY <1>1, <1>3, <2>1 DEF SettingsInv, FilesSound
<1> QED  BY <1>2, <1>3

LEMMA LoadSettings ==
    ASSUME TypeInv, SettingsInv, NEW p \in Procs, LoadConfig(p)
    PROVE  SettingsInv'
<1> DEFINE s == proc[p].cfg.server
           c == Stored(s)
<1>1. s \in Servers \cup {None} /\ proc[p].step = "load" /\ ProcessOK(proc[p])  BY ItsSettings DEF LoadConfig
<1>2. /\ disk[ConfigFile(s)] # Torn /\ c \in Config /\ OwnToken(c) /\ (s # None => c.server = s)
      /\ disk[ConfigFile(s)] # None => c = disk[ConfigFile(s)]
  BY <1>1, StoredSound
<1>3. Become(p, Loaded(proc[p], c)) /\ UNCHANGED <<disk, tmp>>  BY <1>2 DEF LoadConfig, Loaded
<1> HIDE DEF c
<1>8. PICK n : n = Loaded(proc[p], c)  OBVIOUS
<1>4. /\ n.cmd = proc[p].cmd /\ n.cfg = c /\ n.step \in {"login", "open", "edit"} /\ n.arg = proc[p].arg
  BY <1>1, <1>2, <1>8, LoadedOK
<1>5. ProcessSound(n, disk, tmp)  BY <1>2, <1>4 DEF ProcessSound, InSync, Saving
<1>6. Keeps(n, disk)
  <2> SUFFICES ASSUME disk[ActiveFile] # None, n.cmd \in Editors PROVE Keeps(n, disk)  BY DEF Keeps
  <2>1. s \in Servers  BY <1>1, <1>4, ItsSettings DEF Keeps
  <2>2. c.server = s  BY <1>1, <1>2, <2>1, ProfileAssumption
  <2> QED  BY <1>2, <1>4, <2>1, <2>2 DEF Keeps
<1>7. \A q \in Procs : q # p => ~Clash(n, proc[q])
  BY <1>4, ItsSettings, NoNewClash DEF InSync, Saving
<1> QED  BY <1>3, <1>5, <1>6, <1>7, <1>8, QuietStep

\* A process that is to save the config c, made from its own.
LEMMA SaveSettings ==
    ASSUME TypeInv, SettingsInv, NEW p \in Procs, proc[p].step \in {"login", "edit"}, NEW c \in Config,
           OwnToken(c), Save(p, c), UNCHANGED <<disk, tmp>>,
           proc[p].cfg.server # None => c.server = proc[p].cfg.server,
           \A f \in Folders : proc[p].cfg.tracked[f] # None =>
               c.tracked[f] # None \/ (proc[p].cmd = "remove" /\ proc[p].arg = f)
    PROVE  SettingsInv'
<1>1. ProcessOK(proc[p]) /\ proc[p].cmd \in Editors  BY ItsSettings, StepsByCommand
<1>2. PICK n : n = SavingConfig(proc[p], c)  OBVIOUS
<1>3. Become(p, n)  BY <1>2 DEF Save, SavingConfig
<1>4. /\ n.cmd = proc[p].cmd /\ n.arg = proc[p].arg /\ n.cfg = c /\ n.step = "truncate"
      /\ Head(n.saves)[1] = ConfigFile(c.server)
  BY <1>1, <1>2, SavingOK
<1>5. ~InSync(n) /\ ConfigFile(c.server) # ActiveFile
  BY <1>1, <1>4, ConfigFields, FileKinds DEF InSync, Editors
<1>6. ProcessSound(n, disk, tmp)  BY <1>4, <1>5 DEF ProcessSound
<1>7. Keeps(n, disk)
  <2> SUFFICES ASSUME disk[ActiveFile] # None PROVE Keeps(n, disk)  BY DEF Keeps
  <2>1. /\ proc[p].cfg.server \in Servers
        /\ disk[ConfigFile(proc[p].cfg.server)] # None =>
             \A f \in Folders : disk[ConfigFile(proc[p].cfg.server)].tracked[f] # None =>
                 proc[p].cfg.tracked[f] # None \/ (proc[p].cmd = "remove" /\ proc[p].arg = f)
    BY <1>1, ItsSettings DEF Keeps
  <2>2. c.server = proc[p].cfg.server  BY <2>1, ProfileAssumption
  <2> QED  BY <1>4, <2>1, <2>2 DEF Keeps
<1>8. \A q \in Procs : q # p => ~Clash(n, proc[q])
  BY <1>1, <1>4, <1>5, ItsSettings, NoNewClash
<1> QED  BY <1>3, <1>6, <1>7, <1>8, QuietStep

LEMMA LoginSettings ==
    ASSUME TypeInv, SettingsInv, NEW p \in Procs, Login(p)
    PROVE  SettingsInv'
<1>1. proc[p].cfg \in Config /\ proc[p].step = "login" /\ UNCHANGED <<disk, tmp>>  BY ItsSettings DEF Login
<1>2. CASE Exit(p)  BY <1>1, <1>2, EndSettings
<1>3. ASSUME NEW s \in Servers, proc[p].cfg.server \in {s, None}, Save(p, LoggedInTo(proc[p].cfg, s))
      PROVE  SettingsInv'
  <2>1. PICK c : c = LoggedInTo(proc[p].cfg, s)  OBVIOUS
  <2>2. c \in Config /\ c.server = s /\ c.token = s /\ c.tracked = proc[p].cfg.tracked
    BY <1>1, <2>1, LoggedIn
  <2>3. OwnToken(c)  BY <2>2 DEF OwnToken
  <2>4. Save(p, c)  BY <1>3, <2>1
  <2> QED  BY <1>1, <1>3, <2>2, <2>3, <2>4, SaveSettings
<1> QED  BY <1>2, <1>3 DEF Login

LEMMA EditSettings ==
    ASSUME TypeInv, SettingsInv, NEW p \in Procs, EditTracked(p)
    PROVE  SettingsInv'
<1>1. /\ proc[p].cfg \in Config /\ OwnToken(proc[p].cfg) /\ ProcessOK(proc[p]) /\ proc[p].step = "edit"
      /\ UNCHANGED <<disk, tmp>>
  BY ItsSettings DEF EditTracked
<1>2. ASSUME proc[p].cmd \in {"add", "remove"}, NEW d \in Drives \cup {None}, d # None \/ proc[p].cmd = "remove",
             Save(p, [proc[p].cfg EXCEPT !.tracked[proc[p].arg] = d])
      PROVE  SettingsInv'
  <2>1. PICK f : f = proc[p].arg  OBVIOUS
  <2>2. f \in Folders  BY <1>1, <1>2, <2>1 DEF ProcessOK
  <2>3. PICK c : c = [proc[p].cfg EXCEPT !.tracked[f] = d]  OBVIOUS
  <2>4. /\ c \in Config /\ c.server = proc[p].cfg.server /\ c.token = proc[p].cfg.token
        /\ c.tracked = [proc[p].cfg.tracked EXCEPT ![f] = d]
    BY <1>1, <2>2, <2>3, Retracked
  <2>5. \A g \in Folders : c.tracked[g] = IF g = f THEN d ELSE proc[p].cfg.tracked[g]
    BY <1>1, <2>4, ConfigFields
  <2>6. OwnToken(c) /\ Save(p, c)  BY <1>1, <1>2, <2>1, <2>3, <2>4 DEF OwnToken
  <2> QED  BY <1>1, <1>2, <2>1, <2>4, <2>5, <2>6, SaveSettings
<1>3. CASE Exit(p)  BY <1>1, <1>3, EndSettings
<1>4. \/ Exit(p)
      \/ \E d \in Drives \cup {None} :
            /\ proc[p].cmd \in {"add", "remove"} /\ (d # None \/ proc[p].cmd = "remove")
            /\ Save(p, [proc[p].cfg EXCEPT !.tracked[proc[p].arg] = d])
  BY ProfileAssumption DEF EditTracked
<1> QED  BY <1>2, <1>3, <1>4

\* A process that syncs and goes on with the same config.
LEMMA SyncSettings ==
    ASSUME TypeInv, SettingsInv, NEW p \in Procs, InSync(proc[p]), NEW n, Become(p, n), UNCHANGED <<disk, tmp>>,
           InSync(n), ProcessOK(n), n.cfg = proc[p].cfg, n.step \in {"pass", "rest", "truncate"}
    PROVE  SettingsInv'
<1>1. OwnToken(n.cfg) /\ n.cfg.token = n.cfg.server  BY ItsSettings DEF ProcessSound
<1>2. n.step \in Saving => Head(n.saves)[1] # ActiveFile
  <2> SUFFICES ASSUME n.step \in Saving PROVE Head(n.saves)[1] # ActiveFile  OBVIOUS
  <2>1. Head(n.saves)[1] = StateFile(n.cfg.server)  BY NextFile DEF InSync
  <2> QED  BY <2>1, ProcessFields, FileKinds
<1>3. ProcessSound(n, disk, tmp)  BY <1>1, <1>2 DEF ProcessSound
<1>4. Keeps(n, disk)  BY DEF Keeps, InSync, Editors
<1>5. \A q \in Procs : q # p => ~Clash(n, proc[q])
  BY ItsSettings, NoNewClash DEF InSync, Editors
<1> QED  BY <1>3, <1>4, <1>5, QuietStep

\* A process that begins a pass.
LEMMA PassSettings ==
    ASSUME TypeInv, SettingsInv, NEW p \in Procs, proc[p].cmd = "sync", proc[p].step # "idle",
           proc[p].cfg.server \in Servers, proc[p].cfg.token = proc[p].cfg.server,
           NEW recorded \in SUBSET Folders, Pass(p, recorded), UNCHANGED <<disk, tmp>>,
           InSync(proc[p]) \/ \A q \in Procs : Syncing(q) => proc[q].cfg.server # proc[p].cfg.server
    PROVE  SettingsInv'
<1> DEFINE todo == InConfig(proc[p].cfg)
<1>1. /\ Become(p, InPass(proc[p], todo, recorded)) /\ ProcessOK(proc[p]) /\ todo \in SUBSET Folders
      /\ todo \subseteq InConfig(proc[p].cfg)
  BY ItsSettings DEF Pass, InConfig, InPass
<1> HIDE DEF todo
<1>2. PICK n : n = InPass(proc[p], todo, recorded)  OBVIOUS
<1>3. ProcessOK(n) /\ n.cmd = "sync" /\ n.step = "pass" /\ n.cfg = proc[p].cfg
  BY <1>1, <1>2, PassOK
<1>4. ProcessSound(n, disk, tmp)  BY <1>3, ItsSettings DEF ProcessSound, Saving
<1>5. Keeps(n, disk)  BY <1>3 DEF Keeps, Editors
<1>6. ASSUME NEW q \in Procs, q # p PROVE ~Clash(n, proc[q])
  <2>1. CASE InSync(proc[p])  BY <1>3, <2>1, <1>6, ItsSettings, NoNewClash DEF Editors
  <2>2. CASE Syncing(q) => proc[q].cfg.server # proc[p].cfg.server
    BY <1>3, <2>2 DEF Clash, InSync, Syncing, Saving, Editors
  <2> QED  BY <2>1, <2>2
<1> QED  BY <1>1, <1>2, <1>4, <1>5, <1>6, QuietStep

LEMMA OpenSettings ==
    ASSUME TypeInv, SettingsInv, Overlaps = "none", NEW p \in Procs, OpenState(p)
    PROVE  SettingsInv'
<1>1. /\ ProcessOK(proc[p]) /\ proc[p].cfg.server \in Servers \cup {None} /\ OwnToken(proc[p].cfg)
      /\ proc[p].step = "open" /\ proc[p].cmd = "sync" /\ UNCHANGED <<disk, tmp>>
  BY ItsSettings, StepsByCommand DEF OpenState
<1>2. CASE Exit(p)  BY <1>1, <1>2, EndSettings
<1> DEFINE recorded == IF disk[StateFile(proc[p].cfg.server)] = None THEN {} ELSE disk[StateFile(proc[p].cfg.server)]
<1>3. CASE /\ disk[StateFile(proc[p].cfg.server)] # Torn /\ proc[p].cfg.server # None /\ proc[p].cfg.token # None
           /\ MaySync(proc[p].cfg.server) /\ Pass(p, recorded)
  <2>1. recorded \in SUBSET Folders /\ Pass(p, recorded)  BY <1>1, <1>3, Reads
  <2> HIDE DEF recorded
  <2>2. \A q \in Procs : Syncing(q) => proc[q].cfg.server # proc[p].cfg.server  BY <1>3 DEF MaySync
  <2>3. proc[p].cfg.server \in Servers /\ proc[p].cfg.token = proc[p].cfg.server  BY <1>1, <1>3 DEF OwnToken
  <2> QED  BY <1>1, <2>1, <2>2, <2>3, PassSettings
<1> QED  BY <1>2, <1>3 DEF OpenState

LEMMA FolderSettings ==
    ASSUME TypeInv, SettingsInv, NEW p \in Procs, NEW f \in Folders, SyncFolder(p, f)
    PROVE  SettingsInv'
<1>1. PICK n : Become(p, n) /\ AfterFolder(proc[p], f, n, delivered, delivered')  BY FolderEffect
<1>2. InSync(proc[p]) /\ UNCHANGED <<disk, tmp>>  BY ItsSettings, StepsByCommand DEF SyncFolder, InSync
<1>3. InSync(n) /\ ProcessOK(n) /\ n.cfg = proc[p].cfg /\ n.step = "pass"  BY <1>1 DEF AfterFolder, InSync
<1> QED  BY <1>1, <1>2, <1>3, SyncSettings

LEMMA EndPassSettings ==
    ASSUME TypeInv, SettingsInv, NEW p \in Procs, EndPass(p)
    PROVE  SettingsInv'
<1>1. PICK n : /\ Become(p, n) /\ ProcessOK(n) /\ InSync(n) /\ n.cfg = proc[p].cfg
               /\ n.step \in {"rest", "truncate"}
  BY EndEffect
<1>2. InSync(proc[p]) /\ UNCHANGED <<disk, tmp>>  BY ItsSettings, StepsByCommand DEF EndPass, InSync
<1> QED  BY <1>1, <1>2, SyncSettings

LEMMA RestSettings ==
    ASSUME TypeInv, SettingsInv, NEW p \in Procs, Rest(p)
    PROVE  SettingsInv'
<1>1. /\ ProcessOK(proc[p]) /\ proc[p].step = "rest" /\ proc[p].cmd = "sync" /\ InSync(proc[p])
      /\ UNCHANGED <<disk, tmp>>
  BY ItsSettings, StepsByCommand DEF Rest, InSync
<1>2. /\ proc[p].recorded \in SUBSET Folders /\ proc[p].cfg.server \in Servers
      /\ proc[p].cfg.token = proc[p].cfg.server
  BY <1>1, ProcessFields, ItsSettings DEF ProcessOK, ProcessSound
<1>3. CASE Exit(p)  BY <1>1, <1>3, EndSettings
<1>4. CASE Pass(p, proc[p].recorded)
  <2>1. PICK recorded : recorded = proc[p].recorded  OBVIOUS
  <2>2. recorded \in SUBSET Folders /\ Pass(p, recorded)  BY <1>2, <1>4, <2>1
  <2> QED  BY <1>1, <1>2, <2>2, PassSettings
<1> QED  BY <1>3, <1>4 DEF Rest

-----------------------------------------------------------------------------
(* Saves *)

\* Two processes apart do not write the same file.
LEMMA OwnFiles ==
    ASSUME NEW a, NEW b, ProcessOK(a), ProcessOK(b), a.step \in Saving, b.step \in Saving, ~Clash(a, b)
    PROVE  Head(a.saves)[1] # Head(b.saves)[1]
<1>1. a.cmd \in Editors \cup {"sync"} /\ b.cmd \in Editors \cup {"sync"}
  BY StepsByCommand DEF Saving
<1>2. a.cfg.server \in Servers \cup {None} /\ b.cfg.server \in Servers \cup {None}  BY ProcessFields
<1>3. CASE a.cmd = "sync" /\ b.cmd = "sync"
  <2>1. a.cfg.server # b.cfg.server  BY <1>3 DEF Clash, InSync
  <2>2. Head(a.saves)[1] = StateFile(a.cfg.server) /\ Head(b.saves)[1] = StateFile(b.cfg.server)
    BY <1>3, NextFile
  <2> QED  BY <1>2, <2>1, <2>2, FileKinds
<1>4. CASE a.cmd = "sync" /\ b.cmd # "sync"
  <2>1. Head(a.saves)[1] = StateFile(a.cfg.server)  BY <1>4, NextFile
  <2>2. Head(b.saves)[1] = ConfigFile(b.cfg.server) \/ Head(b.saves)[1] = ActiveFile  BY <1>4, NextFile
  <2> QED  BY <1>2, <2>1, <2>2, FileKinds
<1>5. CASE a.cmd # "sync" /\ b.cmd = "sync"
  <2>1. Head(b.saves)[1] = StateFile(b.cfg.server)  BY <1>5, NextFile
  <2>2. Head(a.saves)[1] = ConfigFile(a.cfg.server) \/ Head(a.saves)[1] = ActiveFile  BY <1>5, NextFile
  <2> QED  BY <1>2, <2>1, <2>2, FileKinds
<1>6. CASE a.cmd # "sync" /\ b.cmd # "sync"  BY <1>1, <1>6 DEF Clash
<1> QED  BY <1>3, <1>4, <1>5, <1>6

\* Another process's renames are not disturbed by the writing of p's file.
LEMMA OthersWrite ==
    ASSUME TypeInv, SettingsInv, NEW p \in Procs, NEW x, NEW v, Writing(p, x, v),
           NEW q \in Procs, q # p, proc[q].step \in Saving
    PROVE  Head(proc[q].saves)[1] # x /\ Head(proc[q].saves)[1] \in Files
<1>1. ProcessOK(proc[q]) /\ ~Clash(proc[p], proc[q])  BY ItsSettings
<1> QED  BY <1>1, OwnFiles, NextFile DEF Writing

LEMMA WriteSettings ==
    ASSUME TypeInv, SettingsInv, NEW p \in Procs, Truncate(p) \/ Write(p)
    PROVE  SettingsInv'
<1>1. proc[p].step \in Saving /\ disk' = disk  BY DEF Truncate, Write, Saving
<1>2. PICK x, v : Writing(p, x, v) /\ x = Target(p) /\ v = Payload(p)  BY <1>1, Writes1
<1>3. PICK step \in {"write", "rename"}, w \in {Torn, v} :
        /\ Become(p, [proc[p] EXCEPT !.step = step]) /\ tmp' = [tmp EXCEPT ![x] = w]
        /\ step = "rename" => w = v
  BY <1>2 DEF Truncate, Write
<1>4. PICK n : n = [proc[p] EXCEPT !.step = step]  OBVIOUS
<1>5. /\ ProcessOK(n) /\ n.cmd = proc[p].cmd /\ n.step = step /\ n.cfg = proc[p].cfg /\ n.saves = proc[p].saves
      /\ n.arg = proc[p].arg
  BY <1>2, <1>3, <1>4, StepOK DEF Writing, Saving
<1>6. \A q \in Procs : q # p => ~Clash(n, proc[q])
  <2>1. InSync(n) => InSync(proc[p])  BY <1>1, <1>5 DEF InSync
  <2> QED  BY <1>5, <2>1, ItsSettings, NoNewClash
<1>7. Apart' /\ proc'[p] = n /\ \A q \in Procs : q # p => proc'[q] = proc[q]
  BY <1>3, <1>4, <1>6, StayApart DEF SettingsInv
<1>8. \A y \in Files : tmp'[y] = IF y = x THEN w ELSE tmp[y]  BY <1>2, <1>3 DEF TypeInv, Typed, Writing
<1>9. ProcessSound(n, disk, tmp') /\ Keeps(n, disk)
  <2>1. ProcessSound(proc[p], disk, tmp) /\ Keeps(proc[p], disk)  BY ItsSettings
  <2>2. step = "rename" => tmp'[Head(n.saves)[1]] = Head(n.saves)[2]  BY <1>2, <1>3, <1>5, <1>8 DEF Writing
  <2>3. InSync(n) => InSync(proc[p])  BY <1>1, <1>5 DEF InSync
  <2>4. ProcessSound(n, disk, tmp')  BY <1>1, <1>3, <1>5, <2>1, <2>2, <2>3 DEF ProcessSound
  <2>5. Keeps(n, disk)  BY <1>1, <1>5, <2>1 DEF Keeps, Saving
  <2> QED  BY <2>4, <2>5
<1>10. ASSUME NEW q \in Procs, q # p PROVE ProcessSound(proc[q], disk, tmp') /\ Keeps(proc[q], disk)
  <2>1. ProcessSound(proc[q], disk, tmp) /\ Keeps(proc[q], disk)  BY ItsSettings
  <2>2. proc[q].step = "rename" => tmp'[Head(proc[q].saves)[1]] = tmp[Head(proc[q].saves)[1]]
    BY <1>2, <1>8, <1>10, OthersWrite DEF Saving
  <2> QED  BY <2>1, <2>2 DEF ProcessSound
<1>11. ASSUME NEW q \in Procs PROVE ProcessSound(proc'[q], disk', tmp') /\ Keeps(proc'[q], disk')
  BY <1>1, <1>7, <1>9, <1>10
<1> QED  BY <1>1, <1>7, <1>11 DEF SettingsInv

\* What p renames: its config, the name of the active server, or its state.
LEMMA Renamed ==
    ASSUME TypeInv, SettingsInv, NEW p \in Procs, Rename(p), NEW x, NEW v, Writing(p, x, v), tmp[x] # None
    PROVE  /\ \A y \in Files : disk'[y] = IF y = x THEN v ELSE disk[y]
           /\ \A y \in Files : tmp'[y] = IF y = x THEN None ELSE tmp[y]
           /\ v \notin {None, Torn} \/ (x = StateFile(proc[p].cfg.server) /\ v # Torn)
           /\ Become(p, Saved(proc[p])) /\ ProcessOK(proc[p]) /\ proc[p].cfg \in Config /\ OwnToken(proc[p].cfg)
           /\ \/ /\ proc[p].cmd \in Editors /\ x = ConfigFile(proc[p].cfg.server) /\ v = proc[p].cfg
                 /\ proc[p].cfg.server \in Servers \cup {None}
              \/ /\ proc[p].cmd \in Editors /\ x = ActiveFile /\ v = proc[p].cfg.server /\ v \in Servers
                 /\ disk[ConfigFile(v)] # None
              \/ /\ proc[p].cmd = "sync" /\ x = StateFile(proc[p].cfg.server) /\ v = proc[p].recorded
                 /\ proc[p].cfg.server \in Servers
<1>1. /\ proc[p].step = "rename" /\ x = Target(p) /\ disk' = [disk EXCEPT ![x] = tmp[x]]
      /\ tmp' = [tmp EXCEPT ![x] = None] /\ Become(p, Saved(proc[p]))
  BY DEF Rename, Writing, Target
<1>2. tmp[x] = v  BY <1>1, ItsSettings DEF ProcessSound, Writing
<1>3. /\ \A y \in Files : disk'[y] = IF y = x THEN v ELSE disk[y]
      /\ \A y \in Files : tmp'[y] = IF y = x THEN None ELSE tmp[y]
  BY <1>1, <1>2 DEF TypeInv, Typed
<1>4. /\ ProcessOK(proc[p]) /\ proc[p].cfg \in Config /\ OwnToken(proc[p].cfg)
      /\ proc[p].cmd \in Editors \cup {"sync"} /\ proc[p].cfg.server \in Servers \cup {None}
  BY <1>1, ItsSettings, StepsByCommand
<1>5. CASE proc[p].cmd = "sync"
  <2>1. x = StateFile(proc[p].cfg.server) /\ v = proc[p].recorded  BY <1>4, <1>5, NextFile DEF Writing
  <2>2. proc[p].cfg.server \in Servers  BY <1>1, <1>5 DEF Writing, ProcessOK, InSync
  <2>3. v # Torn  BY <1>4, <2>1, ProcessFields, ContentsAssumption
  <2> QED  BY <1>1, <1>3, <1>4, <1>5, <2>1, <2>2, <2>3
<1>6. CASE proc[p].cmd \in Editors
  <2>1. proc[p].cmd # "sync"  BY <1>6 DEF Editors
  <2>2. CASE x = ConfigFile(proc[p].cfg.server) /\ v = proc[p].cfg
    BY <1>1, <1>3, <1>4, <1>6, <2>2, ContentsAssumption
  <2>3. CASE x = ActiveFile /\ v = proc[p].cfg.server /\ v \in Servers
    <3>1. disk[ConfigFile(v)] # None  BY <1>1, <2>3, ItsSettings DEF ProcessSound, Writing
    <3>2. v \notin {None, Torn}  BY <2>3, ContentsAssumption, ProfileAssumption
    <3> QED  BY <1>1, <1>3, <1>4, <1>6, <2>3, <3>1, <3>2
  <2> QED  BY <2>1, <2>2, <2>3, NextFile DEF Writing
<1> QED  BY <1>4, <1>5, <1>6

LEMMA RenameFiles ==
    ASSUME TypeInv, SettingsInv, NEW p \in Procs, Rename(p), NEW x, NEW v, Writing(p, x, v), tmp[x] # None
    PROVE  /\ FilesSound(disk')
           /\ \A s \in Servers \cup {None} : disk[ConfigFile(s)] # None => disk'[ConfigFile(s)] # None
           /\ \A q \in Procs : q # p => Keeps(proc[q], disk')
<1>1. FilesSound(disk)  BY DEF SettingsInv
<1>2. /\ \A y \in Files : disk'[y] = IF y = x THEN v ELSE disk[y]
      /\ v # Torn /\ x \in Files /\ proc[p].cfg \in Config /\ OwnToken(proc[p].cfg)
  BY Renamed DEF Writing
<1>3. \A y \in Files : disk'[y] # Torn  BY <1>1, <1>2 DEF FilesSound
<1>4. disk[ActiveFile] # None => disk[ActiveFile] \in Servers
  BY <1>1, Reads, FileKinds DEF FilesSound
<1>5. CASE /\ proc[p].cmd \in Editors /\ x = ConfigFile(proc[p].cfg.server) /\ v = proc[p].cfg /\ v # None
           /\ proc[p].cfg.server \in Servers \cup {None}
  <2>1. \A s \in Servers \cup {None} : disk'[ConfigFile(s)] = IF s = proc[p].cfg.server THEN v ELSE disk[ConfigFile(s)]
    BY <1>2, <1>5, FileKinds
  <2>2. disk'[ActiveFile] = disk[ActiveFile]  BY <1>2, <1>5, FileKinds
  <2>3. FilesSound(disk')  BY <1>1, <1>2, <1>3, <1>4, <1>5, <2>1, <2>2 DEF FilesSound
  <2>4. ASSUME NEW q \in Procs, q # p PROVE Keeps(proc[q], disk')
    BY <1>5, <2>4, ItsSettings DEF Clash, Keeps
  <2> QED  BY <1>5, <2>1, <2>3, <2>4
<1>6. CASE proc[p].cmd \in Editors /\ x = ActiveFile /\ v \in Servers /\ disk[ConfigFile(v)] # None
  <2>1. \A s \in Servers \cup {None} : disk'[ConfigFile(s)] = disk[ConfigFile(s)]
    BY <1>2, <1>6, FileKinds
  <2>2. disk'[ActiveFile] = v  BY <1>2, <1>6
  <2>3. FilesSound(disk')  BY <1>1, <1>3, <1>6, <2>1, <2>2 DEF FilesSound
  <2>4. ASSUME NEW q \in Procs, q # p PROVE Keeps(proc[q], disk')
    BY <1>6, <2>4, ItsSettings DEF Clash, Keeps
  <2> QED  BY <2>1, <2>3, <2>4
<1>7. CASE x = StateFile(proc[p].cfg.server) /\ proc[p].cfg.server \in Servers
  <2>1. /\ \A s \in Servers \cup {None} : disk'[ConfigFile(s)] = disk[ConfigFile(s)]
        /\ disk'[ActiveFile] = disk[ActiveFile]
    BY <1>2, <1>7, FileKinds
  <2>2. FilesSound(disk')  BY <1>1, <1>3, <1>4, <2>1 DEF FilesSound
  <2>3. ASSUME NEW q \in Procs, q # p PROVE Keeps(proc[q], disk')
    <3>1. Keeps(proc[q], disk)  BY ItsSettings
    <3> QED  BY <2>1, <3>1 DEF Keeps
  <2> QED  BY <2>1, <2>2, <2>3
<1>8. x = ConfigFile(proc[p].cfg.server) \/ x = ActiveFile => v # None
  <2>1. ProcessOK(proc[p]) /\ proc[p].cfg.server \in Servers \cup {None}  BY ItsSettings
  <2> QED  BY <2>1, Renamed, FileKinds
<1> QED  BY <1>5, <1>6, <1>7, <1>8, Renamed

LEMMA RenameSettings ==
    ASSUME TypeInv, SettingsInv, NEW p \in Procs, Rename(p)
    PROVE  SettingsInv'
<1>1. proc[p].step = "rename" /\ proc[p].step \in Saving  BY DEF Rename, Saving
<1>2. PICK x, v : Writing(p, x, v) /\ x = Target(p) /\ v = Payload(p)  BY <1>1, Writes1
<1>3. CASE tmp[x] = None  BY <1>2, <1>3, EndSettings DEF Rename
<1>4. CASE tmp[x] # None
  <2>1. /\ \A y \in Files : disk'[y] = IF y = x THEN v ELSE disk[y]
        /\ \A y \in Files : tmp'[y] = IF y = x THEN None ELSE tmp[y]
        /\ Become(p, Saved(proc[p])) /\ ProcessOK(proc[p]) /\ proc[p].cfg \in Config /\ OwnToken(proc[p].cfg)
    BY <1>2, <1>4, Renamed
  <2>2. /\ FilesSound(disk')
        /\ \A s \in Servers \cup {None} : disk[ConfigFile(s)] # None => disk'[ConfigFile(s)] # None
        /\ \A q \in Procs : q # p => Keeps(proc[q], disk')
    BY <1>2, <1>4, RenameFiles
  <2>3. PICK n : n = Saved(proc[p])  OBVIOUS
  <2>4. \/ n = Idle
        \/ /\ proc[p].cmd # "sync" /\ n.cmd = proc[p].cmd /\ n.step = "truncate" /\ n.cfg = proc[p].cfg
           /\ n.arg = proc[p].arg
           /\ proc[p].cfg.server \in Servers /\ x = ConfigFile(proc[p].cfg.server)
        \/ /\ proc[p].cmd = "sync" /\ n.cmd = "sync" /\ n.step = "rest" /\ n.cfg = proc[p].cfg
    BY <1>1, <1>2, <2>1, <2>3, SavedOK DEF Writing
  <2>5. ASSUME NEW q \in Procs, q # p PROVE ~Clash(n, proc[q])
    <3>1. CASE n = Idle  BY <3>1, IdleSettings
    <3>2. CASE n # Idle
      <4>1. (n.cmd \in Editors => proc[p].cmd \in Editors) /\ (InSync(n) => InSync(proc[p]))
            /\ n.cfg.server = proc[p].cfg.server
        BY <1>1, <2>4, <3>2 DEF InSync, Editors
      <4> QED  BY <2>5, <4>1, ItsSettings, NoNewClash
    <3> QED  BY <3>1, <3>2
  <2>6. Apart' /\ proc'[p] = n /\ \A q \in Procs : q # p => proc'[q] = proc[q]
    BY <2>1, <2>3, <2>5, StayApart DEF SettingsInv
  <2>7. ProcessSound(n, disk', tmp') /\ Keeps(n, disk')
    <3>1. CASE n = Idle  BY <3>1, IdleSettings
    <3>2. CASE /\ n.cmd = proc[p].cmd /\ n.step = "truncate" /\ n.cfg = proc[p].cfg /\ proc[p].cmd # "sync"
               /\ n.arg = proc[p].arg
               /\ proc[p].cfg.server \in Servers /\ x = ConfigFile(proc[p].cfg.server)
      <4>1. v = proc[p].cfg /\ v # None
        <5>1. ConfigFile(proc[p].cfg.server) # ActiveFile /\ ConfigFile(proc[p].cfg.server) # StateFile(proc[p].cfg.server)
          BY <3>2, FileKinds
        <5> QED  BY <1>2, <1>4, <3>2, <5>1, Renamed
      <4>2. disk'[ConfigFile(n.cfg.server)] = n.cfg  BY <1>2, <2>1, <3>2, <4>1 DEF Writing
      <4>3. ProcessSound(n, disk', tmp')  BY <2>1, <3>2, <4>1, <4>2 DEF ProcessSound, InSync
      <4>4. Keeps(n, disk')  BY <3>2, <4>2 DEF Keeps
      <4> QED  BY <4>3, <4>4
    <3>3. CASE n.cmd = "sync" /\ n.step = "rest" /\ n.cfg = proc[p].cfg /\ proc[p].cmd = "sync"
      <4>1. InSync(proc[p])  BY <1>1, <3>3 DEF InSync
      <4>2. ProcessSound(n, disk', tmp')  BY <3>3, <4>1, ItsSettings DEF ProcessSound, Saving
      <4> QED  BY <3>3, <4>2 DEF Keeps, Editors
    <3> QED  BY <2>4, <3>1, <3>2, <3>3
  <2>8. ASSUME NEW q \in Procs, q # p PROVE ProcessSound(proc[q], disk', tmp') /\ Keeps(proc[q], disk')
    <3>1. ProcessSound(proc[q], disk, tmp) /\ proc[q].cfg.server \in Servers \cup {None}  BY ItsSettings
    <3>2. proc[q].step = "rename" => tmp'[Head(proc[q].saves)[1]] = tmp[Head(proc[q].saves)[1]]
      BY <1>2, <2>1, <2>8, OthersWrite DEF Saving
    <3> QED  BY <2>2, <2>8, <3>1, <3>2 DEF ProcessSound
  <2>9. ASSUME NEW q \in Procs PROVE ProcessSound(proc'[q], disk', tmp') /\ Keeps(proc'[q], disk')
    BY <2>6, <2>7, <2>8
  <2> QED  BY <2>2, <2>6, <2>9 DEF SettingsInv
<1> QED  BY <1>3, <1>4

LEMMA SettingsStay ==
    ASSUME TypeInv, SettingsInv, Overlaps = "none", [Next]_vars
    PROVE  SettingsInv'
<1>1. CASE UNCHANGED vars
  <2>1. disk' = disk /\ tmp' = tmp /\ proc' = proc  BY <1>1 DEF vars
  <2> QED  BY <2>1 DEF SettingsInv, Apart
<1>2. ASSUME NEW p \in Procs, Commands(p) \/ FindActive(p) \/ LoadConfig(p) \/ Login(p) \/ EditTracked(p)
      PROVE  SettingsInv'
  BY <1>2, RunSettings, FindSettings, LoadSettings, LoginSettings, EditSettings
<1>3. ASSUME NEW p \in Procs, OpenState(p) \/ EndPass(p) \/ Rest(p) \/ (\E f \in Folders : SyncFolder(p, f))
      PROVE  SettingsInv'
  BY <1>3, OpenSettings, EndPassSettings, RestSettings, FolderSettings
<1>4. ASSUME NEW p \in Procs, Truncate(p) \/ Write(p) \/ Rename(p) PROVE SettingsInv'
  BY <1>4, WriteSettings, RenameSettings
<1>5. ASSUME NEW p \in Procs, Crash(p) PROVE SettingsInv'
  BY <1>5, EndSettings DEF Crash
<1> QED  BY <1>1, <1>2, <1>3, <1>4, <1>5 DEF Next

LEMMA SettingsAtFirst == Init => SettingsInv
<1> SUFFICES ASSUME Init PROVE SettingsInv  OBVIOUS
<1>1. \A p \in Procs : proc[p] = Idle  BY DEF Init
<1>2. Apart /\ \A p \in Procs : ProcessSound(proc[p], disk, tmp) /\ Keeps(proc[p], disk)
  BY <1>1, IdleSettings DEF Apart
<1>3. \A x \in Files : x # ConfigFile(None) => disk[x] = None  BY StartFiles
<1>4. \A x \in Files : disk[x] # Torn
  <2>1. disk[ConfigFile(None)] # Torn  BY StartFiles, ContentsAssumption
  <2> QED  BY <1>3, <2>1, ContentsAssumption
<1>5. disk[ActiveFile] = None  BY <1>3, FileKinds
<1>6. \A s \in Servers : disk[ConfigFile(s)] = None  BY <1>3, FileKinds, ProfileAssumption
<1>7. disk[ConfigFile(None)] # None => OwnToken(disk[ConfigFile(None)])  BY StartFiles DEF OwnToken
<1> QED  BY <1>2, <1>4, <1>5, <1>6, <1>7 DEF SettingsInv, FilesSound

LEMMA SettingsHold == ASSUME Overlaps = "none" PROVE Spec => [](TypeInv /\ SettingsInv)
<1>1. Init => TypeInv /\ SettingsInv  BY TypesAtFirst, SettingsAtFirst
<1>2. TypeInv /\ SettingsInv /\ [Next]_vars => (TypeInv /\ SettingsInv)'  BY TypesStay, SettingsStay
<1> QED  BY <1>1, <1>2, PTL DEF Spec

\* When config commands do not overlap, and one process at a time syncs to a server,
\* every file is whole whenever a process is killed, the active server has a usable
\* profile, and a profile its own server's URL and token.
THEOREM SettingsAreSound == ASSUME Overlaps = "none" PROVE Spec => []SettingsSound
<1>1. TypeInv /\ SettingsInv => SettingsSound
  <2> SUFFICES ASSUME TypeInv, SettingsInv PROVE SettingsSound  OBVIOUS
  <2>1. FilesSound(disk)  BY DEF SettingsInv
  <2>2. disk[ActiveFile] # None => disk[ActiveFile] \in Servers  BY <2>1, Reads, FileKinds DEF FilesSound
  <2> QED  BY <2>1, <2>2, ProfileAssumption DEF SettingsSound, FilesSound, OwnToken
<1> QED  BY <1>1, SettingsHold, PTL

\* Under the same conditions only track remove takes a folder out of a profile.
THEOREM TrackedFoldersKept == ASSUME Overlaps = "none" PROVE Spec => TrackedKept
<1>1. TypeInv /\ SettingsInv /\ [Next]_vars =>
        [\A s \in Servers, f \in Folders :
          /\ disk[ActiveFile] # None /\ disk[ConfigFile(s)] # None /\ disk[ConfigFile(s)].tracked[f] # None
          /\ disk'[ConfigFile(s)].tracked[f] = None
          => \E p \in Procs : proc[p].cmd = "remove" /\ proc[p].arg = f]_vars
  <2> SUFFICES ASSUME TypeInv, SettingsInv, [Next]_vars, NEW s \in Servers, NEW f \in Folders,
                      disk[ActiveFile] # None, disk[ConfigFile(s)] # None, disk[ConfigFile(s)].tracked[f] # None,
                      disk'[ConfigFile(s)].tracked[f] = None
               PROVE  \E p \in Procs : proc[p].cmd = "remove" /\ proc[p].arg = f
    OBVIOUS
  <2>1. disk' # disk  OBVIOUS
  <2>2. PICK p \in Procs : Rename(p)
    BY <2>1 DEF Next, vars, Commands, Run, FindActive, LoadConfig, Login, EditTracked, OpenState, EndPass, Rest,
                SyncFolder, Truncate, Write, Crash
  <2>3. proc[p].step = "rename" /\ proc[p].step \in Saving  BY <2>2 DEF Rename, Saving
  <2>4. PICK x, v : Writing(p, x, v) /\ x = Target(p) /\ v = Payload(p)  BY <2>3, Writes1
  <2>5. tmp[x] # None  BY <2>1, <2>2, <2>4 DEF Rename
  <2>6. \A y \in Files : disk'[y] = IF y = x THEN v ELSE disk[y]  BY <2>2, <2>4, <2>5, Renamed
  <2>7. x = ConfigFile(s)  BY <2>6, FileKinds
  <2>8. proc[p].cfg.server \in Servers \cup {None}  BY ItsSettings
  <2>9. proc[p].cmd \in Editors /\ v = proc[p].cfg /\ proc[p].cfg.server = s
    BY <2>2, <2>4, <2>5, <2>7, <2>8, Renamed, FileKinds
  <2>10. proc[p].cfg.tracked[f] # None \/ (proc[p].cmd = "remove" /\ proc[p].arg = f)
    BY <2>3, <2>9, ItsSettings DEF Keeps
  <2> QED  BY <2>6, <2>7, <2>9, <2>10, FileKinds
<1> QED  BY <1>1, SettingsHold, PTL DEF Spec, TrackedKept

-----------------------------------------------------------------------------
(* Passes, when folders are tracked for their own drives *)

\* More deliveries disturb nothing that is said of fewer.
LEMMA MoreSent ==
    ASSUME NEW dl, NEW new, dl \subseteq new
    PROVE  /\ \A r : PassSound(r, dl) => PassSound(r, new)
           /\ \A d : StatesSound(d, dl) => StatesSound(d, new)
<1>1. ASSUME NEW s, NEW fs, Sent(s, fs, dl) PROVE Sent(s, fs, new)  BY <1>1 DEF Sent
<1>2. ASSUME NEW r, PassSound(r, dl) PROVE PassSound(r, new)  BY <1>1, <1>2 DEF PassSound
<1>3. ASSUME NEW d, StatesSound(d, dl) PROVE StatesSound(d, new)  BY <1>1, <1>3 DEF StatesSound
<1> QED  BY <1>2, <1>3

LEMMA PassStep ==
    ASSUME TypeInv, PassInv, NEW p \in Procs, NEW n, Become(p, n), delivered \subseteq delivered',
           StatesSound(disk', delivered'), PassSound(n, delivered')
    PROVE  PassInv'
<1>1. proc' = [q \in Procs |-> IF q = p THEN n ELSE proc[q]]  BY DEF TypeInv, Become
<1>2. ASSUME NEW q \in Procs PROVE PassSound(proc'[q], delivered')
  <2>1. CASE q = p  BY <1>1, <2>1
  <2>2. CASE q # p
    <3>1. proc'[q] = proc[q] /\ PassSound(proc[q], delivered)  BY <1>1, <2>2 DEF PassInv
    <3> QED  BY <3>1, MoreSent
  <2> QED  BY <2>1, <2>2
<1> QED  BY <1>2 DEF PassInv

\* A step that changes one process only.
LEMMA PassQuiet ==
    ASSUME TypeInv, PassInv, NEW p \in Procs, NEW n, Become(p, n), UNCHANGED <<disk, delivered>>,
           PassSound(n, delivered)
    PROVE  PassInv'
<1>1. disk' = disk /\ delivered' = delivered  OBVIOUS
<1>2. StatesSound(disk', delivered') /\ PassSound(n, delivered') /\ delivered \subseteq delivered'
  BY <1>1 DEF PassInv
<1> QED  BY <1>2, PassStep

LEMMA ItsPass ==
    ASSUME TypeInv, PassInv, NEW p \in Procs
    PROVE  /\ ProcessOK(proc[p]) /\ proc[p].cfg \in Config /\ proc[p].cfg.server \in Servers \cup {None}
           /\ PassSound(proc[p], delivered) /\ AtHome(proc[p].cfg)
    BY ProcessFields DEF TypeInv, PassInv, PassSound

LEMMA BlankAtHome == ASSUME NEW s \in Servers \cup {None} PROVE AtHome(Blank(s))
    BY BlankIsConfig DEF AtHome

LEMMA IdlePass == ASSUME NEW dl PROVE PassSound(Idle, dl)
    BY IdleFields DEF PassSound, InSync, AtHome

LEMMA EndOfPass ==
    ASSUME TypeInv, PassInv, NEW p \in Procs, Exit(p), UNCHANGED <<disk, delivered>>
    PROVE  PassInv'
    BY IdlePass, PassQuiet DEF Exit

LEMMA RunPasses == ASSUME TypeInv, PassInv, NEW p \in Procs, Commands(p) PROVE PassInv'
<1>1. PICK cmd \in Editors \cup {"sync"}, arg \in Servers \cup Folders \cup {None} :
        Run(p, cmd, arg) /\ (cmd \in {"add", "remove"} => arg \in Folders) /\ (cmd = "login" => arg \in Servers \cup {None})
  BY SMT DEF Commands, Editors
<1> DEFINE step == IF cmd = "login" /\ arg # None THEN "load" ELSE "find"
           s == IF cmd = "login" THEN arg ELSE None
<1>2. step \in {"find", "load"} /\ s \in Servers \cup {None}  BY <1>1
<1>3. Become(p, Started(cmd, arg, step, s)) /\ UNCHANGED <<disk, delivered>>  BY <1>1 DEF Run, Started
<1> HIDE DEF step, s
<1>4. PICK n : n = Started(cmd, arg, step, s)  OBVIOUS
<1>5. n.step = step /\ n.cfg = Blank(s)  BY <1>1, <1>2, <1>4, StartedOK
<1>6. PassSound(n, delivered)  BY <1>2, <1>5, BlankAtHome DEF PassSound, InSync, Saving
<1> QED  BY <1>3, <1>4, <1>6, PassQuiet

LEMMA FindPasses == ASSUME TypeInv, PassInv, NEW p \in Procs, FindActive(p) PROVE PassInv'
<1> DEFINE s == IF disk[ActiveFile] = Torn THEN None ELSE disk[ActiveFile]
<1>1. s \in Servers \cup {None}  BY Reads
<1>2. Become(p, Found(proc[p], s)) /\ proc[p].step = "find" /\ UNCHANGED <<disk, delivered>>
  BY DEF FindActive, Found
<1> HIDE DEF s
<1>3. PICK n : n = Found(proc[p], s)  OBVIOUS
<1>4. n.step = "load" /\ n.cfg.tracked = proc[p].cfg.tracked
  <2>1. ProcessOK(proc[p])  BY ItsPass
  <2> QED  BY <1>1, <1>2, <1>3, <2>1, FoundOK
<1>5. PassSound(n, delivered)  BY <1>4, ItsPass DEF PassSound, InSync, Saving, AtHome
<1> QED  BY <1>2, <1>3, <1>5, PassQuiet

LEMMA LoadPasses == ASSUME TypeInv, PassInv, NEW p \in Procs, LoadConfig(p) PROVE PassInv'
<1>1. ProcessOK(proc[p]) /\ proc[p].step = "load" /\ proc[p].cfg.server \in Servers \cup {None}
  BY ItsPass DEF LoadConfig
<1>2. CASE disk[ConfigFile(proc[p].cfg.server)] = Torn  BY <1>2, EndOfPass DEF LoadConfig
<1>3. CASE disk[ConfigFile(proc[p].cfg.server)] # Torn
  <2> DEFINE c == Stored(proc[p].cfg.server)
  <2>1. c \in Config /\ AtHome(c)
    <3>1. c \in Config  BY <1>1, <1>3, Reads
    <3>2. CASE disk[ConfigFile(proc[p].cfg.server)] = None  BY <1>1, <3>1, <3>2, BlankAtHome DEF Stored
    <3>3. CASE disk[ConfigFile(proc[p].cfg.server)] # None  BY <1>1, <3>1, <3>3 DEF Stored, PassInv, StatesSound
    <3> QED  BY <3>1, <3>2, <3>3
  <2>2. Become(p, Loaded(proc[p], c)) /\ UNCHANGED <<disk, delivered>>  BY <1>3 DEF LoadConfig, Loaded
  <2> HIDE DEF c
  <2>3. PICK n : n = Loaded(proc[p], c)  OBVIOUS
  <2>4. n.cfg = c /\ n.step \in {"login", "open", "edit"}  BY <1>1, <2>1, <2>3, LoadedOK
  <2>5. PassSound(n, delivered)  BY <2>1, <2>4 DEF PassSound, InSync, Saving
  <2> QED  BY <2>2, <2>3, <2>5, PassQuiet
<1> QED  BY <1>2, <1>3

\* A process that begins to save the config c.
LEMMA SavePasses ==
    ASSUME TypeInv, PassInv, NEW p \in Procs, proc[p].step \in {"login", "edit"}, NEW c \in Config, AtHome(c),
           Save(p, c), UNCHANGED <<disk, delivered>>
    PROVE  PassInv'
<1>1. ProcessOK(proc[p]) /\ proc[p].cmd \in Editors  BY ItsPass, StepsByCommand
<1>2. PICK n : n = SavingConfig(proc[p], c)  OBVIOUS
<1>3. Become(p, n)  BY <1>2 DEF Save, SavingConfig
<1>4. n.cmd = proc[p].cmd /\ n.cfg = c  BY <1>1, <1>2, SavingOK
<1>5. PassSound(n, delivered)  BY <1>1, <1>4 DEF PassSound, InSync, Editors
<1> QED  BY <1>3, <1>5, PassQuiet

LEMMA LoginPasses == ASSUME TypeInv, PassInv, NEW p \in Procs, Login(p) PROVE PassInv'
<1>1. /\ proc[p].cfg \in Config /\ AtHome(proc[p].cfg) /\ proc[p].step = "login"
      /\ UNCHANGED <<disk, delivered>>
  BY ItsPass DEF Login
<1>2. CASE Exit(p)  BY <1>1, <1>2, EndOfPass
<1>3. ASSUME NEW s \in Servers, Save(p, LoggedInTo(proc[p].cfg, s)) PROVE PassInv'
  <2>1. PICK c : c = LoggedInTo(proc[p].cfg, s)  OBVIOUS
  <2>2. c \in Config /\ c.tracked = proc[p].cfg.tracked  BY <1>1, <2>1, LoggedIn
  <2>3. AtHome(c) /\ Save(p, c)  BY <1>1, <1>3, <2>1, <2>2 DEF AtHome
  <2> QED  BY <1>1, <2>2, <2>3, SavePasses
<1> QED  BY <1>2, <1>3 DEF Login

LEMMA EditPasses ==
    ASSUME TypeInv, PassInv, Repoints = "none", NEW p \in Procs, EditTracked(p)
    PROVE  PassInv'
<1>1. /\ ProcessOK(proc[p]) /\ proc[p].cfg \in Config /\ AtHome(proc[p].cfg) /\ proc[p].step = "edit"
      /\ UNCHANGED <<disk, delivered>>
  BY ItsPass DEF EditTracked
<1>2. ASSUME proc[p].cmd \in {"add", "remove"}, NEW d \in {None, Home[proc[p].arg]},
             Save(p, [proc[p].cfg EXCEPT !.tracked[proc[p].arg] = d])
      PROVE  PassInv'
  <2>1. PICK f : f = proc[p].arg  OBVIOUS
  <2>2. f \in Folders  BY <1>1, <1>2, <2>1 DEF ProcessOK
  <2>3. d \in Drives \cup {None} /\ d \in {None, Home[f]}  BY <2>1, <2>2, ProfileAssumption
  <2>4. PICK c : c = [proc[p].cfg EXCEPT !.tracked[f] = d]  OBVIOUS
  <2>5. c \in Config /\ c.tracked = [proc[p].cfg.tracked EXCEPT ![f] = d]
    BY <1>1, <2>2, <2>3, <2>4, Retracked
  <2>6. \A g \in Folders : c.tracked[g] = IF g = f THEN d ELSE proc[p].cfg.tracked[g]
    BY <1>1, <2>5, ConfigFields
  <2>7. AtHome(c)  BY <1>1, <2>3, <2>6 DEF AtHome
  <2>8. Save(p, c)  BY <1>2, <2>1, <2>4
  <2> QED  BY <1>1, <2>5, <2>7, <2>8, SavePasses
<1>3. CASE Exit(p)  BY <1>1, <1>3, EndOfPass
<1>4. \/ Exit(p)
      \/ \E d \in {None, Home[proc[p].arg]} :
            proc[p].cmd \in {"add", "remove"} /\ Save(p, [proc[p].cfg EXCEPT !.tracked[proc[p].arg] = d])
  BY DEF EditTracked
<1> QED  BY <1>2, <1>3, <1>4

\* A process that begins a pass: every folder is still to be done.
LEMMA BeginPasses ==
    ASSUME TypeInv, PassInv, NEW p \in Procs, proc[p].cmd = "sync", proc[p].step # "idle",
           proc[p].cfg.server \in Servers, NEW recorded \in SUBSET Folders,
           Sent(proc[p].cfg.server, recorded, delivered), Pass(p, recorded), UNCHANGED <<disk, delivered>>
    PROVE  PassInv'
<1> DEFINE todo == InConfig(proc[p].cfg)
<1>1. /\ Become(p, InPass(proc[p], todo, recorded)) /\ ProcessOK(proc[p]) /\ todo \in SUBSET Folders
      /\ todo \subseteq InConfig(proc[p].cfg)
  BY ItsPass DEF Pass, InConfig, InPass
<1>2. InConfig(proc[p].cfg) \ (todo \cup {}) \subseteq recorded  OBVIOUS
<1> HIDE DEF todo
<1>3. PICK n : n = InPass(proc[p], todo, recorded)  OBVIOUS
<1>4. n.cfg = proc[p].cfg /\ n.todo = todo /\ n.failed = {} /\ n.recorded = recorded
  BY <1>1, <1>3, PassOK
<1>5. PassSound(n, delivered)  BY <1>2, <1>4, ItsPass DEF PassSound
<1> QED  BY <1>1, <1>3, <1>5, PassQuiet

LEMMA OpenPasses == ASSUME TypeInv, PassInv, NEW p \in Procs, OpenState(p) PROVE PassInv'
<1>1. /\ ProcessOK(proc[p]) /\ proc[p].cfg.server \in Servers \cup {None}
      /\ proc[p].step = "open" /\ proc[p].cmd = "sync" /\ UNCHANGED <<disk, delivered>>
  BY ItsPass, StepsByCommand DEF OpenState
<1>2. CASE Exit(p)  BY <1>1, <1>2, EndOfPass
<1> DEFINE s == proc[p].cfg.server
           recorded == IF disk[StateFile(s)] = None THEN {} ELSE disk[StateFile(s)]
<1>3. CASE disk[StateFile(s)] # Torn /\ s # None /\ Pass(p, recorded)
  <2>1. recorded \in SUBSET Folders /\ Pass(p, recorded) /\ s \in Servers  BY <1>1, <1>3, Reads
  <2>2. Sent(s, recorded, delivered)  BY <2>1 DEF PassInv, StatesSound, Sent
  <2> HIDE DEF recorded
  <2> QED  BY <1>1, <2>1, <2>2, BeginPasses
<1> QED  BY <1>2, <1>3 DEF OpenState

LEMMA RestPasses == ASSUME TypeInv, PassInv, NEW p \in Procs, Rest(p) PROVE PassInv'
<1>1. /\ ProcessOK(proc[p]) /\ proc[p].step = "rest" /\ proc[p].cmd = "sync" /\ InSync(proc[p])
      /\ UNCHANGED <<disk, delivered>>
  BY ItsPass, StepsByCommand DEF Rest, InSync
<1>2. /\ proc[p].recorded \in SUBSET Folders /\ proc[p].cfg.server \in Servers
      /\ Sent(proc[p].cfg.server, proc[p].recorded, delivered)
  BY <1>1, ProcessFields, ItsPass DEF ProcessOK, PassSound
<1>3. CASE Exit(p)  BY <1>1, <1>3, EndOfPass
<1>4. CASE Pass(p, proc[p].recorded)
  <2>1. PICK recorded : recorded = proc[p].recorded  OBVIOUS
  <2>2. recorded \in SUBSET Folders /\ Pass(p, recorded) /\ Sent(proc[p].cfg.server, recorded, delivered)
    BY <1>2, <1>4, <2>1
  <2> QED  BY <1>1, <1>2, <2>2, BeginPasses
<1> QED  BY <1>3, <1>4 DEF Rest

\* The turn of a folder: it is recorded, or it failed.
LEMMA FolderPasses ==
    ASSUME TypeInv, PassInv, NEW p \in Procs, NEW f \in Folders, SyncFolder(p, f)
    PROVE  PassInv'
<1>1. PICK n : Become(p, n) /\ AfterFolder(proc[p], f, n, delivered, delivered')  BY FolderEffect
<1>2. /\ ProcessOK(proc[p]) /\ proc[p].step = "pass" /\ InSync(proc[p]) /\ f \in proc[p].todo /\ disk' = disk
      /\ AtHome(proc[p].cfg) /\ PassSound(proc[p], delivered)
  BY ItsPass, StepsByCommand DEF SyncFolder, InSync
<1>3. /\ Sent(proc[p].cfg.server, proc[p].recorded, delivered)
      /\ InConfig(proc[p].cfg) \ (proc[p].todo \cup proc[p].failed) \subseteq proc[p].recorded
      /\ f \in InConfig(proc[p].cfg)
  BY <1>2 DEF PassSound, ProcessOK
<1>4. n.cfg = proc[p].cfg /\ n.todo = proc[p].todo \ {f}  BY <1>1 DEF AfterFolder
<1>5. /\ delivered \subseteq delivered' /\ Sent(proc[p].cfg.server, n.recorded, delivered')
      /\ InConfig(proc[p].cfg) \ (n.todo \cup n.failed) \subseteq n.recorded
  <2>1. CASE /\ delivered' = delivered /\ n.recorded = proc[p].recorded
             /\ proc[p].failed \subseteq n.failed /\ f \in n.recorded \cup n.failed
    BY <1>3, <1>4, <2>1
  <2>2. CASE /\ n.failed = proc[p].failed /\ n.recorded = proc[p].recorded \cup {f}
             /\ delivered' = delivered \cup {<<proc[p].cfg.server, proc[p].cfg.tracked[f], f>>}
    <3>1. proc[p].cfg.tracked[f] = Home[f]  BY <1>2, <1>3 DEF AtHome, InConfig
    <3>2. Sent(proc[p].cfg.server, n.recorded, delivered')  BY <1>3, <2>2, <3>1 DEF Sent
    <3> QED  BY <1>3, <1>4, <2>2, <3>2
  <2> QED  BY <1>1, <2>1, <2>2 DEF AfterFolder
<1>6. PassSound(n, delivered')  BY <1>2, <1>4, <1>5 DEF PassSound
<1>7. StatesSound(disk', delivered')  BY <1>2, <1>5, MoreSent DEF PassInv
<1> QED  BY <1>1, <1>5, <1>6, <1>7, PassStep

LEMMA EndPasses == ASSUME TypeInv, PassInv, NEW p \in Procs, EndPass(p) PROVE PassInv'
<1>1. PICK n : /\ Become(p, n) /\ n.cfg = proc[p].cfg
               /\ n.todo = proc[p].todo /\ n.failed = proc[p].failed /\ n.recorded = proc[p].recorded
  BY EndEffect
<1>2. InSync(proc[p]) /\ UNCHANGED <<disk, delivered>>  BY ItsPass, StepsByCommand DEF EndPass, InSync
<1>3. PassSound(n, delivered)  BY <1>1, <1>2, ItsPass DEF PassSound
<1> QED  BY <1>1, <1>2, <1>3, PassQuiet

LEMMA WritePasses == ASSUME TypeInv, PassInv, NEW p \in Procs, Truncate(p) \/ Write(p) PROVE PassInv'
<1>1. proc[p].step \in Saving /\ ProcessOK(proc[p]) /\ UNCHANGED <<disk, delivered>>
  BY ItsPass DEF Truncate, Write, Saving
<1>2. PICK step \in Saving : Become(p, [proc[p] EXCEPT !.step = step])  BY DEF Truncate, Write, Saving
<1>3. PICK n : n = [proc[p] EXCEPT !.step = step]  OBVIOUS
<1>4. /\ n.cmd = proc[p].cmd /\ n.step \in Saving /\ n.cfg = proc[p].cfg
      /\ n.todo = proc[p].todo /\ n.failed = proc[p].failed /\ n.recorded = proc[p].recorded
  BY <1>1, <1>3, StepOK
<1>5. PassSound(n, delivered)  BY <1>1, <1>4, ItsPass DEF PassSound, InSync
<1> QED  BY <1>1, <1>2, <1>3, <1>5, PassQuiet

LEMMA RenamePasses ==
    ASSUME TypeInv, SettingsInv, PassInv, NEW p \in Procs, Rename(p)
    PROVE  PassInv'
<1>1. proc[p].step = "rename" /\ proc[p].step \in Saving /\ delivered' = delivered  BY DEF Rename, Saving
<1>2. PICK x, v : Writing(p, x, v) /\ x = Target(p) /\ v = Payload(p)  BY <1>1, Writes1
<1>3. CASE tmp[x] = None  BY <1>1, <1>2, <1>3, EndOfPass DEF Rename
<1>4. CASE tmp[x] # None
  <2>1. \A y \in Files : disk'[y] = IF y = x THEN v ELSE disk[y]  BY <1>2, <1>4, Renamed
  <2>2. Become(p, Saved(proc[p])) /\ ProcessOK(proc[p])  BY <1>2, <1>4, Renamed
  <2>3. PICK n : n = Saved(proc[p])  OBVIOUS
  <2>4. \/ n = Idle
        \/ proc[p].cmd # "sync" /\ n.cmd = proc[p].cmd /\ n.cfg = proc[p].cfg
        \/ /\ proc[p].cmd = "sync" /\ n.cfg = proc[p].cfg
           /\ n.todo = proc[p].todo /\ n.failed = proc[p].failed /\ n.recorded = proc[p].recorded
    BY <1>1, <2>2, <2>3, SavedOK
  <2>5. PassSound(n, delivered)
    <3>1. CASE n = Idle  BY <3>1, IdlePass
    <3>2. CASE proc[p].cmd # "sync" /\ n.cmd = proc[p].cmd /\ n.cfg = proc[p].cfg
      BY <3>2, ItsPass DEF PassSound, InSync
    <3>3. CASE /\ proc[p].cmd = "sync" /\ n.cfg = proc[p].cfg
               /\ n.todo = proc[p].todo /\ n.failed = proc[p].failed /\ n.recorded = proc[p].recorded
      <4>1. InSync(proc[p])  BY <1>1, <3>3 DEF InSync
      <4> QED  BY <3>3, <4>1, ItsPass DEF PassSound
    <3> QED  BY <2>4, <3>1, <3>2, <3>3
  <2>6. \/ /\ x = ConfigFile(proc[p].cfg.server) /\ v = proc[p].cfg
        \/ x = ActiveFile
        \/ /\ x = StateFile(proc[p].cfg.server) /\ v = proc[p].recorded /\ InSync(proc[p])
    BY <1>1, <1>2, <1>4, Renamed DEF InSync
  <2>7. /\ AtHome(proc[p].cfg) /\ proc[p].cfg.server \in Servers \cup {None}
        /\ InSync(proc[p]) => Sent(proc[p].cfg.server, proc[p].recorded, delivered)
        /\ StatesSound(disk, delivered)
    BY ItsPass DEF PassSound, PassInv
  <2>8. ASSUME NEW s \in Servers \cup {None}, disk'[ConfigFile(s)] # None PROVE AtHome(disk'[ConfigFile(s)])
    <3>1. CASE x = ConfigFile(s)
      <4>1. v = proc[p].cfg  BY <2>6, <2>7, <3>1, FileKinds
      <4> QED  BY <2>1, <2>7, <3>1, <4>1, FileKinds
    <3>2. CASE x # ConfigFile(s)  BY <2>1, <2>7, <2>8, <3>2, FileKinds DEF StatesSound
    <3> QED  BY <3>1, <3>2
  <2>9. ASSUME NEW s \in Servers, disk'[StateFile(s)] # None PROVE Sent(s, disk'[StateFile(s)], delivered)
    <3>1. CASE x = StateFile(s)
      <4>1. v = proc[p].recorded /\ proc[p].cfg.server = s /\ InSync(proc[p])  BY <2>6, <2>7, <3>1, FileKinds
      <4> QED  BY <2>1, <2>7, <3>1, <4>1, FileKinds
    <3>2. CASE x # StateFile(s)  BY <2>1, <2>7, <2>9, <3>2, FileKinds DEF StatesSound
    <3> QED  BY <3>1, <3>2
  <2>10. StatesSound(disk', delivered') /\ PassSound(n, delivered') /\ delivered \subseteq delivered'
    BY <1>1, <2>5, <2>8, <2>9 DEF StatesSound
  <2> QED  BY <2>2, <2>3, <2>10, PassStep
<1> QED  BY <1>3, <1>4

LEMMA PassesStay ==
    ASSUME TypeInv, SettingsInv, PassInv, Repoints = "none", [Next]_vars
    PROVE  PassInv'
<1>1. CASE UNCHANGED vars
  <2>1. disk' = disk /\ proc' = proc /\ delivered' = delivered  BY <1>1 DEF vars
  <2> QED  BY <2>1 DEF PassInv
<1>2. ASSUME NEW p \in Procs, Commands(p) \/ FindActive(p) \/ LoadConfig(p) \/ Login(p) \/ EditTracked(p)
      PROVE  PassInv'
  BY <1>2, RunPasses, FindPasses, LoadPasses, LoginPasses, EditPasses
<1>3. ASSUME NEW p \in Procs, OpenState(p) \/ EndPass(p) \/ Rest(p) \/ (\E f \in Folders : SyncFolder(p, f))
      PROVE  PassInv'
  BY <1>3, OpenPasses, EndPasses, RestPasses, FolderPasses
<1>4. ASSUME NEW p \in Procs, Truncate(p) \/ Write(p) \/ Rename(p) PROVE PassInv'
  BY <1>4, WritePasses, RenamePasses
<1>5. ASSUME NEW p \in Procs, Crash(p) PROVE PassInv'
  BY <1>5, EndOfPass DEF Crash
<1> QED  BY <1>1, <1>2, <1>3, <1>4, <1>5 DEF Next

LEMMA PassesAtFirst == Init => PassInv
<1> SUFFICES ASSUME Init PROVE PassInv  OBVIOUS
<1>1. \A p \in Procs : PassSound(proc[p], delivered)  BY IdlePass DEF Init
<1>2. \A x \in Files : x # ConfigFile(None) => disk[x] = None  BY StartFiles
<1>3. disk[ConfigFile(None)] # None => AtHome(disk[ConfigFile(None)])  BY StartFiles DEF AtHome
<1>4. \A s \in Servers : disk[ConfigFile(s)] = None /\ disk[StateFile(s)] = None
  BY <1>2, FileKinds, ProfileAssumption
<1>5. StatesSound(disk, delivered)  BY <1>3, <1>4 DEF StatesSound
<1> QED  BY <1>1, <1>5 DEF PassInv

\* When commands do not overlap and no folder is tracked for another's drive, a pass
\* that reports no failure for a folder has it on the server it syncs to, whatever the
\* client was logged in to before and wherever it was killed.
THEOREM PassesDeliver == ASSUME Overlaps = "none", Repoints = "none" PROVE Spec => []PassDelivers
<1>1. Init => PassInv  BY PassesAtFirst
<1>2. TypeInv /\ SettingsInv /\ PassInv /\ [Next]_vars => PassInv'  BY PassesStay
<1>3. TypeInv /\ PassInv => PassDelivers
  <2> SUFFICES ASSUME TypeInv, PassInv, NEW p \in Procs, Syncing(p),
                      NEW f \in InConfig(proc[p].cfg) \ (proc[p].todo \cup proc[p].failed)
               PROVE  <<proc[p].cfg.server, proc[p].cfg.tracked[f], f>> \in delivered
    BY DEF PassDelivers
  <2>1. InSync(proc[p])  BY DEF Syncing, InSync, Saving
  <2>2. /\ Sent(proc[p].cfg.server, proc[p].recorded, delivered) /\ f \in proc[p].recorded
    BY <2>1, ItsPass DEF PassSound
  <2>3. f \in Folders /\ proc[p].cfg.tracked[f] = Home[f]  BY ItsPass DEF AtHome, InConfig
  <2> QED  BY <2>2, <2>3 DEF Sent
<1> QED  BY <1>1, <1>2, <1>3, SettingsHold, PTL DEF Spec

-----------------------------------------------------------------------------
(* Commands as edits of one profile *)

\* A step that changes one process only.
LEMMA StoreQuiet ==
    ASSUME TypeInv, StoreInv, NEW p \in Procs, NEW n, Become(p, n), disk' = disk,
           EditSound(n, disk), SyncSound(n, disk)
    PROVE  StoreInv'
<1>1. proc' = [q \in Procs |-> IF q = p THEN n ELSE proc[q]]  BY DEF TypeInv, Become
<1>2. ASSUME NEW q \in Procs PROVE EditSound(proc'[q], disk) /\ SyncSound(proc'[q], disk)
  <2>1. CASE q = p  BY <1>1, <2>1
  <2>2. CASE q # p  BY <1>1, <2>2 DEF StoreInv
  <2> QED  BY <2>1, <2>2
<1> QED  BY <1>2 DEF StoreInv

LEMMA IdleStore == ASSUME NEW d PROVE EditSound(Idle, d) /\ SyncSound(Idle, d)
    BY IdleFields DEF EditSound, SyncSound, InSync, Editors

LEMMA EndStores ==
    ASSUME TypeInv, StoreInv, NEW p \in Procs, Exit(p), disk' = disk
    PROVE  StoreInv'
    BY IdleStore, StoreQuiet DEF Exit

\* What the invariants say of the process that acts.
LEMMA ItsStore ==
    ASSUME TypeInv, StoreInv, NEW p \in Procs
    PROVE  /\ ProcessOK(proc[p]) /\ proc[p].cfg \in Config /\ proc[p].cfg.server \in Servers \cup {None}
           /\ EditSound(proc[p], disk) /\ SyncSound(proc[p], disk)
    BY ProcessFields DEF TypeInv, StoreInv

\* What is loaded is the profile as it is found.
LEMMA StoredIsFound == \A s : Stored(s) = ProfileIn(disk, s)
    BY DEF Stored, ProfileIn

LEMMA RunStores == ASSUME TypeInv, StoreInv, NEW p \in Procs, Commands(p) PROVE StoreInv'
<1>1. PICK cmd \in Editors \cup {"sync"}, arg \in Servers \cup Folders \cup {None} :
        Run(p, cmd, arg) /\ (cmd \in {"add", "remove"} => arg \in Folders) /\ (cmd = "login" => arg \in Servers \cup {None})
  BY SMT DEF Commands, Editors
<1> DEFINE step == IF cmd = "login" /\ arg # None THEN "load" ELSE "find"
           s == IF cmd = "login" THEN arg ELSE None
<1>2. step \in {"find", "load"} /\ s \in Servers \cup {None}  BY <1>1
<1>9. /\ step = "load" => cmd = "login" /\ arg # None /\ s = arg
      /\ step = "find" => ~(cmd = "login" /\ arg # None)
  BY <1>1
<1>3. Become(p, Started(cmd, arg, step, s)) /\ disk' = disk  BY <1>1 DEF Run, Started
<1> HIDE DEF step, s
<1>4. PICK n : n = Started(cmd, arg, step, s)  OBVIOUS
<1>5. n.cmd = cmd /\ n.arg = arg /\ n.step = step /\ n.cfg.server = s
  <2>1. n.cmd = cmd /\ n.arg = arg /\ n.step = step /\ n.cfg = Blank(s)  BY <1>1, <1>2, <1>4, StartedOK
  <2> QED  BY <1>2, <2>1, BlankIsConfig
<1>6. EditSound(n, disk)  BY <1>1, <1>2, <1>5, <1>9 DEF EditSound, Begins, Saving
<1>7. SyncSound(n, disk)  BY <1>2, <1>5 DEF SyncSound, InSync, Saving
<1> QED  BY <1>3, <1>4, <1>6, <1>7, StoreQuiet

LEMMA FindStores ==
    ASSUME TypeInv, SettingsInv, StoreInv, NEW p \in Procs, FindActive(p)
    PROVE  StoreInv'
<1> DEFINE s == IF disk[ActiveFile] = Torn THEN None ELSE disk[ActiveFile]
<1>1. s \in Servers \cup {None} /\ s = disk[ActiveFile]
  BY Reads, FileKinds DEF SettingsInv, FilesSound
<1>2. Become(p, Found(proc[p], s)) /\ proc[p].step = "find" /\ disk' = disk  BY DEF FindActive, Found
<1> HIDE DEF s
<1>3. PICK n : n = Found(proc[p], s)  OBVIOUS
<1>4. n.cmd = proc[p].cmd /\ n.step = "load" /\ n.arg = proc[p].arg /\ n.cfg.server = s
  <2>1. ProcessOK(proc[p])  BY ItsStore
  <2> QED  BY <1>1, <1>2, <1>3, <2>1, FoundOK
<1>5. EditSound(n, disk)  BY <1>1, <1>2, <1>4, ItsStore DEF EditSound, Begins, Saving
<1>6. SyncSound(n, disk)  BY <1>4 DEF SyncSound, InSync, Saving
<1> QED  BY <1>2, <1>3, <1>5, <1>6, StoreQuiet

LEMMA LoadStores ==
    ASSUME TypeInv, SettingsInv, StoreInv, NEW p \in Procs, LoadConfig(p)
    PROVE  StoreInv'
<1> DEFINE s == proc[p].cfg.server
           c == Stored(s)
<1>1. s \in Servers \cup {None} /\ proc[p].step = "load" /\ ProcessOK(proc[p]) /\ disk' = disk
  BY ItsStore DEF LoadConfig
<1>2. disk[ConfigFile(s)] # Torn /\ c \in Config /\ c = ProfileIn(disk, s)
  BY <1>1, StoredSound, StoredIsFound
<1>3. Become(p, Loaded(proc[p], c))  BY <1>2 DEF LoadConfig, Loaded
<1>4. c.token # None => LinkedIn(disk, c.server)
  <2> SUFFICES ASSUME c.token # None PROVE LinkedIn(disk, c.server)  OBVIOUS
  <2>1. disk[ConfigFile(s)] # None  BY <1>1, <1>2, BlankIsConfig DEF ProfileIn
  <2>2. c = disk[ConfigFile(s)]  BY <2>1 DEF Stored
  <2> QED  BY <1>1, <2>1, <2>2 DEF LinkedIn
<1> HIDE DEF c
<1>5. PICK n : n = Loaded(proc[p], c)  OBVIOUS
<1>6. /\ n.cmd = proc[p].cmd /\ n.arg = proc[p].arg /\ n.cfg = c /\ n.step \in {"login", "open", "edit"}
  BY <1>1, <1>2, <1>5, LoadedOK
<1>9. n.step = "login" => n.cmd = "login"
  <2>1. n.step = Following(n.cmd)  BY <1>1, <1>5, <1>6, ProcessFields DEF Loaded, Process
  <2> QED  BY <1>1, <1>6, <2>1, StepsByCommand DEF Following
<1>7. EditSound(n, disk)
  <2> SUFFICES ASSUME n.cmd \in Editors PROVE EditSound(n, disk)  BY DEF EditSound
  <2>1. /\ s = Begins(proc[p], disk)
        /\ n.cmd = "login" => n.arg \in Servers \cup {None}
    BY <1>1, <1>6, ItsStore DEF EditSound
  <2>2. n.cfg = ProfileIn(disk, Begins(n, disk))  BY <1>2, <1>6, <2>1 DEF Begins
  <2> QED  BY <1>6, <1>9, <2>1, <2>2 DEF EditSound, Saving
<1>8. SyncSound(n, disk)  BY <1>4, <1>6 DEF SyncSound, InSync, Saving
<1> QED  BY <1>1, <1>3, <1>5, <1>7, <1>8, StoreQuiet

\* A process that begins to save the config c, its own but for one entry.
LEMMA SaveStores ==
    ASSUME TypeInv, StoreInv, NEW p \in Procs, proc[p].step \in {"login", "edit"}, NEW c \in Config,
           Save(p, c), disk' = disk,
           IF proc[p].cmd = "login"
           THEN \E s \in Servers : proc[p].cfg.server \in {s, None} /\ c = LoggedInTo(proc[p].cfg, s)
           ELSE c = [proc[p].cfg EXCEPT !.tracked[proc[p].arg] =
                        IF proc[p].cmd = "add" THEN Home[proc[p].arg] ELSE None]
    PROVE  StoreInv'
<1>1. ProcessOK(proc[p]) /\ proc[p].cmd \in Editors  BY ItsStore, StepsByCommand
<1>2. PICK n : n = SavingConfig(proc[p], c)  OBVIOUS
<1>3. Become(p, n)  BY <1>2 DEF Save, SavingConfig
<1>4. n.cmd = proc[p].cmd /\ n.arg = proc[p].arg /\ n.cfg = c /\ n.step = "truncate"
  BY <1>1, <1>2, SavingOK
<1>5. /\ proc[p].cfg = ProfileIn(disk, Begins(proc[p], disk))
      /\ proc[p].cmd = "login" => proc[p].arg \in Servers \cup {None}
  BY <1>1, ItsStore DEF EditSound
<1>6. Edits(n, ProfileIn(disk, Begins(n, disk)))
  <2>1. Begins(n, disk) = Begins(proc[p], disk)  BY <1>4 DEF Begins
  <2>2. Edits(n, proc[p].cfg)  BY <1>4 DEF Edits
  <2> QED  BY <1>5, <2>1, <2>2
<1>7. EditSound(n, disk)  BY <1>4, <1>5, <1>6 DEF EditSound
<1>8. SyncSound(n, disk)  BY <1>1, <1>4 DEF SyncSound, InSync, Editors
<1> QED  BY <1>3, <1>7, <1>8, StoreQuiet

LEMMA LoginStores == ASSUME TypeInv, StoreInv, NEW p \in Procs, Login(p) PROVE StoreInv'
<1>1. /\ proc[p].cfg \in Config /\ proc[p].step = "login" /\ disk' = disk /\ ProcessOK(proc[p])
  BY ItsStore DEF Login
<1>2. CASE Exit(p)  BY <1>1, <1>2, EndStores
<1>3. ASSUME NEW s \in Servers, proc[p].cfg.server \in {s, None}, Save(p, LoggedInTo(proc[p].cfg, s))
      PROVE  StoreInv'
  <2>1. PICK c : c = LoggedInTo(proc[p].cfg, s)  OBVIOUS
  <2>2. c \in Config /\ Save(p, c)  BY <1>1, <1>3, <2>1, LoggedIn
  <2>3. proc[p].cmd = "login"  BY <1>1, ItsStore, StepsByCommand DEF EditSound
  <2> QED  BY <1>1, <1>3, <2>1, <2>2, <2>3, SaveStores
<1> QED  BY <1>2, <1>3 DEF Login

LEMMA EditStores ==
    ASSUME TypeInv, StoreInv, Repoints = "none", NEW p \in Procs, EditTracked(p)
    PROVE  StoreInv'
<1>1. ProcessOK(proc[p]) /\ proc[p].cfg \in Config /\ proc[p].step = "edit" /\ disk' = disk
  BY ItsStore DEF EditTracked
<1>2. ASSUME proc[p].cmd \in {"add", "remove"}, NEW d \in {None, Home[proc[p].arg]},
             d = IF proc[p].cmd = "add" THEN Home[proc[p].arg] ELSE None,
             Save(p, [proc[p].cfg EXCEPT !.tracked[proc[p].arg] = d])
      PROVE  StoreInv'
  <2>1. proc[p].arg \in Folders  BY <1>1, <1>2 DEF ProcessOK
  <2>2. d \in Drives \cup {None}  BY <1>2, <2>1, ProfileAssumption
  <2>3. PICK c : c = [proc[p].cfg EXCEPT !.tracked[proc[p].arg] = d]  OBVIOUS
  <2>4. c \in Config /\ Save(p, c)  BY <1>1, <1>2, <2>1, <2>2, <2>3, Retracked
  <2> QED  BY <1>1, <1>2, <2>3, <2>4, SaveStores
<1>3. CASE Exit(p)  BY <1>1, <1>3, EndStores
<1>4. \/ Exit(p)
      \/ \E d \in {None, Home[proc[p].arg]} :
            /\ proc[p].cmd \in {"add", "remove"} /\ (d = IF proc[p].cmd = "add" THEN Home[proc[p].arg] ELSE None)
            /\ Save(p, [proc[p].cfg EXCEPT !.tracked[proc[p].arg] = d])
  BY DEF EditTracked
<1> QED  BY <1>2, <1>3, <1>4

\* A process that syncs and forgets nothing.
LEMMA SyncStores ==
    ASSUME TypeInv, StoreInv, NEW p \in Procs, InSync(proc[p]), NEW n, Become(p, n), disk' = disk,
           InSync(n), n.cfg = proc[p].cfg, proc[p].recorded \subseteq n.recorded
    PROVE  StoreInv'
<1>1. EditSound(n, disk)  BY DEF EditSound, InSync, Editors
<1>2. SyncSound(n, disk)  BY ItsStore DEF SyncSound, InSync, Saving
<1> QED  BY <1>1, <1>2, StoreQuiet

\* A process that begins a pass.
LEMMA BeginStores ==
    ASSUME TypeInv, StoreInv, NEW p \in Procs, proc[p].cmd = "sync", proc[p].step # "idle",
           proc[p].cfg.server \in Servers, NEW recorded \in SUBSET Folders, Pass(p, recorded), disk' = disk,
           LinkedIn(disk, proc[p].cfg.server), StateIn(disk, proc[p].cfg.server) \subseteq recorded
    PROVE  StoreInv'
<1> DEFINE todo == InConfig(proc[p].cfg)
<1>1. /\ Become(p, InPass(proc[p], todo, recorded)) /\ ProcessOK(proc[p]) /\ todo \in SUBSET Folders
      /\ todo \subseteq InConfig(proc[p].cfg)
  BY ItsStore DEF Pass, InConfig, InPass
<1> HIDE DEF todo
<1>2. PICK n : n = InPass(proc[p], todo, recorded)  OBVIOUS
<1>3. n.cmd = "sync" /\ n.step = "pass" /\ n.cfg = proc[p].cfg /\ n.recorded = recorded  BY <1>1, <1>2, PassOK
<1>4. EditSound(n, disk)  BY <1>3 DEF EditSound, Editors
<1>5. SyncSound(n, disk)  BY <1>3 DEF SyncSound
<1> QED  BY <1>1, <1>2, <1>4, <1>5, StoreQuiet

LEMMA OpenStores == ASSUME TypeInv, StoreInv, NEW p \in Procs, OpenState(p) PROVE StoreInv'
<1>1. /\ ProcessOK(proc[p]) /\ proc[p].cfg.server \in Servers \cup {None}
      /\ proc[p].step = "open" /\ proc[p].cmd = "sync" /\ disk' = disk
  BY ItsStore, StepsByCommand DEF OpenState
<1>2. CASE Exit(p)  BY <1>1, <1>2, EndStores
<1> DEFINE s == proc[p].cfg.server
           recorded == IF disk[StateFile(s)] = None THEN {} ELSE disk[StateFile(s)]
<1>3. CASE disk[StateFile(s)] # Torn /\ s # None /\ proc[p].cfg.token # None /\ Pass(p, recorded)
  <2>1. recorded \in SUBSET Folders /\ Pass(p, recorded) /\ s \in Servers  BY <1>1, <1>3, Reads
  <2>2. LinkedIn(disk, s)  BY <1>1, <1>3, ItsStore DEF SyncSound
  <2>3. StateIn(disk, s) \subseteq recorded  BY DEF StateIn
  <2> HIDE DEF recorded
  <2> QED  BY <1>1, <2>1, <2>2, <2>3, BeginStores
<1> QED  BY <1>2, <1>3 DEF OpenState

LEMMA RestStores == ASSUME TypeInv, StoreInv, NEW p \in Procs, Rest(p) PROVE StoreInv'
<1>1. /\ ProcessOK(proc[p]) /\ proc[p].step = "rest" /\ proc[p].cmd = "sync" /\ InSync(proc[p]) /\ disk' = disk
  BY ItsStore, StepsByCommand DEF Rest, InSync
<1>2. CASE Exit(p)  BY <1>1, <1>2, EndStores
<1>3. CASE Pass(p, proc[p].recorded)
  <2>1. PICK recorded : recorded = proc[p].recorded  OBVIOUS
  <2>2. /\ recorded \in SUBSET Folders /\ Pass(p, recorded) /\ proc[p].cfg.server \in Servers
        /\ LinkedIn(disk, proc[p].cfg.server) /\ StateIn(disk, proc[p].cfg.server) \subseteq recorded
    BY <1>1, <1>3, <2>1, ProcessFields, ItsStore DEF ProcessOK, SyncSound
  <2> QED  BY <1>1, <2>2, BeginStores
<1> QED  BY <1>2, <1>3 DEF Rest

LEMMA FolderStores == ASSUME TypeInv, StoreInv, NEW p \in Procs, NEW f \in Folders, SyncFolder(p, f) PROVE StoreInv'
<1>1. PICK n : Become(p, n) /\ AfterFolder(proc[p], f, n, delivered, delivered')  BY FolderEffect
<1>2. InSync(proc[p]) /\ disk' = disk  BY ItsStore, StepsByCommand DEF SyncFolder, InSync
<1>3. InSync(n) /\ n.cfg = proc[p].cfg /\ proc[p].recorded \subseteq n.recorded  BY <1>1 DEF AfterFolder, InSync
<1> QED  BY <1>1, <1>2, <1>3, SyncStores

LEMMA EndPassStores == ASSUME TypeInv, StoreInv, NEW p \in Procs, EndPass(p) PROVE StoreInv'
<1>1. PICK n : Become(p, n) /\ InSync(n) /\ n.cfg = proc[p].cfg /\ n.recorded = proc[p].recorded
  BY EndEffect
<1>2. InSync(proc[p]) /\ disk' = disk  BY ItsStore, StepsByCommand DEF EndPass, InSync
<1> QED  BY <1>1, <1>2, SyncStores

LEMMA WriteStores == ASSUME TypeInv, StoreInv, NEW p \in Procs, Truncate(p) \/ Write(p) PROVE StoreInv'
<1>1. proc[p].step \in Saving /\ ProcessOK(proc[p]) /\ disk' = disk
  BY ItsStore DEF Truncate, Write, Saving
<1>2. PICK step \in Saving : Become(p, [proc[p] EXCEPT !.step = step])  BY DEF Truncate, Write, Saving
<1>3. PICK n : n = [proc[p] EXCEPT !.step = step]  OBVIOUS
<1>4. /\ n.cmd = proc[p].cmd /\ n.step \in Saving /\ n.cfg = proc[p].cfg /\ n.arg = proc[p].arg
      /\ n.saves = proc[p].saves /\ n.recorded = proc[p].recorded
  BY <1>1, <1>3, StepOK
<1>5. EditSound(n, disk)
  <2>1. Begins(n, disk) = Begins(proc[p], disk)  BY <1>4 DEF Begins
  <2>2. \A c : Edits(proc[p], c) => Edits(n, c)  BY <1>4 DEF Edits
  <2>3. EditSound(proc[p], disk)  BY ItsStore
  <2> QED  BY <1>1, <1>4, <2>1, <2>2, <2>3 DEF EditSound, Saving
<1>6. SyncSound(n, disk)  BY <1>1, <1>4, ItsStore DEF SyncSound, InSync, Saving
<1> QED  BY <1>1, <1>2, <1>3, <1>5, <1>6, StoreQuiet

\* A config is replaced by one of the same server, or of a server that is new to it.
LEMMA LinkedStays ==
    ASSUME TypeInv, SettingsInv, StoreInv, NEW p \in Procs, Rename(p), NEW x, NEW v, Writing(p, x, v), tmp[x] # None,
           NEW s \in Servers, LinkedIn(disk, s)
    PROVE  LinkedIn(disk', s)
<1>1. PICK y \in Servers \cup {None} : disk[ConfigFile(y)] # None /\ disk[ConfigFile(y)].server = s
  BY DEF LinkedIn
<1>2. \A z \in Files : disk'[z] = IF z = x THEN v ELSE disk[z]  BY Renamed
<1>3. CASE x # ConfigFile(y)
  <2>1. disk'[ConfigFile(y)] = disk[ConfigFile(y)]  BY <1>2, <1>3, FileKinds
  <2> QED  BY <1>1, <2>1 DEF LinkedIn
<1>4. CASE x = ConfigFile(y)
  <2>1. /\ proc[p].cmd \in Editors /\ v = proc[p].cfg /\ proc[p].cfg.server = y
        /\ v # None /\ disk'[ConfigFile(y)] = v
    <3>1. proc[p].cfg.server \in Servers \cup {None}  BY ItsStore
    <3> QED  BY <1>2, <1>4, <3>1, Renamed, FileKinds
  <2>2. y \in Servers
    <3> SUFFICES ASSUME y = None PROVE FALSE  OBVIOUS
    <3> DEFINE c == ProfileIn(disk, Begins(proc[p], disk))
    <3>1. Edits(proc[p], c)
      <4>1. proc[p].step \in Saving /\ Head(proc[p].saves)[1] # ActiveFile
        BY <1>4, FileKinds DEF Writing
      <4> QED  BY <2>1, <4>1, ItsStore DEF EditSound
    <3>2. disk[ActiveFile] \in Servers \cup {None}
      BY Reads, FileKinds DEF SettingsInv, FilesSound
    <3>3. proc[p].cmd = "login" => proc[p].arg \in Servers \cup {None}  BY <2>1, ItsStore DEF EditSound
    <3>4. Begins(proc[p], disk) \in Servers \cup {None}  BY <3>2, <3>3 DEF Begins
    <3>5. /\ c \in Config
          /\ Begins(proc[p], disk) # None => c.server = Begins(proc[p], disk)
      BY <3>4, StoredSound, StoredIsFound
    <3>6. CASE proc[p].cmd = "login"
      <4>1. PICK t \in Servers : proc[p].cfg = LoggedInTo(c, t)  BY <3>1, <3>6 DEF Edits
      <4> HIDE DEF c
      <4>2. proc[p].cfg.server = t  BY <3>5, <4>1, LoggedIn
      <4> QED  BY <2>1, <4>2, ProfileAssumption
    <3>7. CASE proc[p].cmd # "login"
      <4> HIDE DEF c
      <4>1. proc[p].cfg.server = c.server
        <5>1. proc[p].cfg = [c EXCEPT !.tracked[proc[p].arg] = IF proc[p].cmd = "add" THEN Home[proc[p].arg] ELSE None]
          BY <3>1, <3>7 DEF Edits
        <5> QED  BY <3>5, <5>1 DEF Config
      <4>2. Begins(proc[p], disk) = None  BY <2>1, <3>4, <3>5, <4>1, ProfileAssumption
      <4>3. c = disk[ConfigFile(None)]  BY <1>1, <4>2 DEF c, ProfileIn
      <4> QED  BY <1>1, <2>1, <4>1, <4>3, ProfileAssumption
    <3> QED  BY <3>6, <3>7
  <2>3. s = y  BY <1>1, <2>2, ProfileAssumption DEF SettingsInv, FilesSound
  <2> QED  BY <2>1, <2>3 DEF LinkedIn
<1> QED  BY <1>3, <1>4

LEMMA RenameStores ==
    ASSUME TypeInv, SettingsInv, StoreInv, NEW p \in Procs, Rename(p)
    PROVE  StoreInv'
<1>1. proc[p].step = "rename" /\ proc[p].step \in Saving  BY DEF Rename, Saving
<1>2. PICK x, v : Writing(p, x, v) /\ x = Target(p) /\ v = Payload(p)  BY <1>1, Writes1
<1>3. CASE tmp[x] = None  BY <1>2, <1>3, EndStores DEF Rename
<1>4. CASE tmp[x] # None
  <2>1. /\ \A y \in Files : disk'[y] = IF y = x THEN v ELSE disk[y]
        /\ Become(p, Saved(proc[p])) /\ ProcessOK(proc[p]) /\ x \in Files
        /\ proc[p].cfg.server \in Servers \cup {None}
    BY <1>2, <1>4, Renamed, ItsStore DEF Writing
  <2>2. /\ x = ConfigFile(proc[p].cfg.server) \/ x = ActiveFile => proc[p].cmd \in Editors
        /\ x # ConfigFile(proc[p].cfg.server) /\ x # ActiveFile =>
              proc[p].cmd = "sync" /\ x = StateFile(proc[p].cfg.server) /\ v = proc[p].recorded
    BY <1>2, <1>4, <2>1, Renamed, FileKinds
  <2>3. PICK n : n = Saved(proc[p])  OBVIOUS
  <2>4. \/ n = Idle
        \/ /\ proc[p].cmd \in Editors /\ n.cmd = proc[p].cmd /\ n.step = "truncate" /\ n.arg = proc[p].arg
           /\ Head(n.saves)[1] = ActiveFile
        \/ /\ InSync(proc[p]) /\ n.cmd = "sync" /\ n.step = "rest" /\ n.cfg = proc[p].cfg
           /\ n.recorded = proc[p].recorded
    BY <1>1, <2>1, <2>3, SavedOK, StepsByCommand DEF InSync, Saving
  <2>5. proc' = [q \in Procs |-> IF q = p THEN n ELSE proc[q]]  BY <2>1, <2>3 DEF TypeInv, Become
  <2>6. \A s \in Servers : LinkedIn(disk, s) => LinkedIn(disk', s)  BY <1>2, <1>4, LinkedStays
  <2>7. \A s \in Servers : s # proc[p].cfg.server \/ proc[p].cmd \in Editors => StateIn(disk', s) = StateIn(disk, s)
    <3> SUFFICES ASSUME NEW s \in Servers, s # proc[p].cfg.server \/ proc[p].cmd \in Editors
                 PROVE  disk'[StateFile(s)] = disk[StateFile(s)]
      BY DEF StateIn
    <3>1. StateFile(s) \in Files /\ x # StateFile(s)  BY <2>1, <2>2, FileKinds DEF Editors
    <3> QED  BY <2>1, <3>1
  <2>8. EditSound(n, disk') /\ SyncSound(n, disk')
    <3>1. CASE n = Idle  BY <3>1, IdleStore
    <3>2. CASE /\ proc[p].cmd \in Editors /\ n.cmd = proc[p].cmd /\ n.step = "truncate" /\ n.arg = proc[p].arg
               /\ Head(n.saves)[1] = ActiveFile
      <4>1. n.cmd = "login" => n.arg \in Servers \cup {None}  BY <3>2, ItsStore DEF EditSound
      <4>2. EditSound(n, disk')  BY <3>2, <4>1 DEF EditSound
      <4> QED  BY <3>2, <4>2 DEF SyncSound, InSync, Editors
    <3>3. CASE /\ InSync(proc[p]) /\ n.cmd = "sync" /\ n.step = "rest" /\ n.cfg = proc[p].cfg
               /\ n.recorded = proc[p].recorded
      <4>1. n.cfg.server \in Servers /\ LinkedIn(disk, n.cfg.server)
        BY <2>1, <3>3, ItsStore DEF SyncSound, ProcessOK
      <4>2. proc[p].cmd \notin Editors  BY <3>3 DEF InSync, Editors
      <4>3. disk'[StateFile(n.cfg.server)] = n.recorded  BY <2>1, <2>2, <3>3, <4>2
      <4>4. StateIn(disk', n.cfg.server) \subseteq n.recorded  BY <4>3 DEF StateIn
      <4>5. SyncSound(n, disk')  BY <2>6, <3>3, <4>1, <4>4 DEF SyncSound
      <4> QED  BY <3>3, <4>5 DEF EditSound, Editors
    <3> QED  BY <2>4, <3>1, <3>2, <3>3
  <2>9. ASSUME NEW q \in Procs, q # p PROVE EditSound(proc[q], disk') /\ SyncSound(proc[q], disk')
    <3>1. /\ EditSound(proc[q], disk) /\ SyncSound(proc[q], disk) /\ ProcessOK(proc[q])
          /\ proc[q].cfg \in Config /\ proc[q].cfg.server \in Servers \cup {None}
          /\ ~Clash(proc[p], proc[q]) /\ OwnToken(proc[q].cfg)
      BY <2>9, ItsStore, ItsSettings
    <3>2. EditSound(proc[q], disk')
      <4> SUFFICES ASSUME proc[q].cmd \in Editors PROVE EditSound(proc[q], disk')  BY DEF EditSound
      <4>1. proc[p].cmd \notin Editors  BY <3>1 DEF Clash
      <4>2. x = StateFile(proc[p].cfg.server)  BY <2>2, <4>1
      <4>3. disk'[ActiveFile] = disk[ActiveFile]  BY <2>1, <4>2, FileKinds
      <4>4. \A s \in Servers \cup {None} : disk'[ConfigFile(s)] = disk[ConfigFile(s)]  BY <2>1, <4>2, FileKinds
      <4>5. Begins(proc[q], disk') = Begins(proc[q], disk)  BY <4>3 DEF Begins
      <4>6. Begins(proc[q], disk) \in Servers \cup {None}
        <5>1. disk[ActiveFile] \in Servers \cup {None}  BY Reads, FileKinds DEF SettingsInv, FilesSound
        <5> QED  BY <3>1, <5>1 DEF Begins, EditSound
      <4>7. ProfileIn(disk', Begins(proc[q], disk)) = ProfileIn(disk, Begins(proc[q], disk))
        BY <4>4, <4>6 DEF ProfileIn
      <4> QED  BY <3>1, <4>3, <4>5, <4>7 DEF EditSound
    <3>3. SyncSound(proc[q], disk')
      <4>1. ASSUME proc[q].cmd = "sync", proc[q].step = "open", proc[q].cfg.token # None
            PROVE  LinkedIn(disk', proc[q].cfg.server)
        <5>1. proc[q].cfg.server \in Servers  BY <3>1, <4>1 DEF OwnToken
        <5> QED  BY <2>6, <3>1, <4>1, <5>1 DEF SyncSound
      <4>2. ASSUME InSync(proc[q])
            PROVE  /\ LinkedIn(disk', proc[q].cfg.server)
                   /\ StateIn(disk', proc[q].cfg.server) \subseteq proc[q].recorded
        <5>1. proc[q].cfg.server \in Servers  BY <3>1, <4>2 DEF ProcessOK
        <5>2. proc[p].cmd \in Editors \/ proc[p].cfg.server # proc[q].cfg.server
          BY <1>1, <2>1, <3>1, <4>2, StepsByCommand DEF Clash, InSync, Saving
        <5>3. StateIn(disk', proc[q].cfg.server) = StateIn(disk, proc[q].cfg.server)  BY <2>7, <5>1, <5>2
        <5> QED  BY <2>6, <3>1, <4>2, <5>1, <5>3 DEF SyncSound
      <4> QED  BY <4>1, <4>2 DEF SyncSound
    <3> QED  BY <3>2, <3>3
  <2>10. ASSUME NEW q \in Procs PROVE EditSound(proc'[q], disk') /\ SyncSound(proc'[q], disk')
    BY <2>5, <2>8, <2>9
  <2> QED  BY <2>10 DEF StoreInv
<1> QED  BY <1>3, <1>4

LEMMA StoresStay ==
    ASSUME TypeInv, SettingsInv, StoreInv, Repoints = "none", [Next]_vars
    PROVE  StoreInv'
<1>1. CASE UNCHANGED vars
  <2>1. disk' = disk /\ proc' = proc  BY <1>1 DEF vars
  <2> QED  BY <2>1 DEF StoreInv
<1>2. ASSUME NEW p \in Procs, Commands(p) \/ FindActive(p) \/ LoadConfig(p) \/ Login(p) \/ EditTracked(p)
      PROVE  StoreInv'
  BY <1>2, RunStores, FindStores, LoadStores, LoginStores, EditStores
<1>3. ASSUME NEW p \in Procs, OpenState(p) \/ EndPass(p) \/ Rest(p) \/ (\E f \in Folders : SyncFolder(p, f))
      PROVE  StoreInv'
  BY <1>3, OpenStores, EndPassStores, RestStores, FolderStores
<1>4. ASSUME NEW p \in Procs, Truncate(p) \/ Write(p) \/ Rename(p) PROVE StoreInv'
  BY <1>4, WriteStores, RenameStores
<1>5. ASSUME NEW p \in Procs, Crash(p) PROVE StoreInv'
  BY <1>5, EndStores DEF Crash
<1> QED  BY <1>1, <1>2, <1>3, <1>4, <1>5 DEF Next

LEMMA StoresAtFirst == Init => StoreInv
<1> SUFFICES ASSUME Init PROVE StoreInv  OBVIOUS
<1>1. \A p \in Procs : proc[p] = Idle  BY DEF Init
<1> QED  BY <1>1, IdleStore DEF StoreInv

-----------------------------------------------------------------------------
(* The files as a profile store *)

\* The store the files d stand for.
Profiles(d) == [s \in Servers \cup {None} |-> d[ConfigFile(s)]]
Known(d)    == [s \in Servers |-> StateIn(d, s)]

\* A step that renames no file is not seen in the store's profiles.
LEMMA Unseen == ASSUME disk' = disk, delivered' = delivered PROVE UNCHANGED Promise!vars
    BY DEF Promise!vars

\* A profile is replaced.
LEMMA PutConfig ==
    ASSUME NEW c, c.server \in Servers \cup {None}, delivered' = delivered,
           \A y \in Files : disk'[y] = IF y = ConfigFile(c.server) THEN c ELSE disk[y]
    PROVE  Promise!Put(c)
<1>1. \A s \in Servers \cup {None} : disk'[ConfigFile(s)] = IF s = c.server THEN c ELSE disk[ConfigFile(s)]
  BY FileKinds
<1>2. Profiles(disk') = [Profiles(disk) EXCEPT ![c.server] = c]  BY <1>1 DEF Profiles
<1>3. disk'[ActiveFile] = disk[ActiveFile]  BY FileKinds
<1>4. \A s \in Servers : disk'[StateFile(s)] = disk[StateFile(s)]  BY FileKinds
<1>5. Known(disk') = Known(disk)  BY <1>4 DEF Known, StateIn
<1> QED  BY <1>2, <1>3, <1>5 DEF Promise!Put, Profiles, Known

\* The profile a command finds is the store's.
LEMMA FoundIsCurrent ==
    ASSUME NEW s \in Servers \cup {None}
    PROVE  ProfileIn(disk, s) = Promise!Current(s)
    BY DEF ProfileIn, Promise!Current, Blank, Promise!Blank

\* A config renamed is a login, or one folder tracked or no longer tracked.
LEMMA ConfigImplements ==
    ASSUME TypeInv, SettingsInv, StoreInv, NEW p \in Procs, Rename(p), NEW x, NEW v, Writing(p, x, v), tmp[x] # None,
           proc[p].cmd \in Editors, x = ConfigFile(proc[p].cfg.server), v = proc[p].cfg
    PROVE  Promise!Next
<1>1. /\ ProcessOK(proc[p]) /\ proc[p].cfg \in Config /\ proc[p].cfg.server \in Servers \cup {None}
      /\ EditSound(proc[p], disk)
  BY ItsStore
<1>2. Promise!Put(proc[p].cfg)
  <2>1. \A y \in Files : disk'[y] = IF y = x THEN v ELSE disk[y]  BY Renamed
  <2> QED  BY <1>1, <2>1, PutConfig DEF Rename
<1> DEFINE b == Begins(proc[p], disk)
           c == ProfileIn(disk, b)
<1>3. Edits(proc[p], c)
  <2>1. proc[p].step \in Saving /\ Head(proc[p].saves)[1] # ActiveFile  BY <1>1, FileKinds DEF Writing
  <2> QED  BY <1>1, <2>1 DEF EditSound
<1>4. disk[ActiveFile] \in Servers \cup {None}  BY Reads, FileKinds DEF SettingsInv, FilesSound
<1>5. b \in Servers \cup {None} /\ (~(proc[p].cmd = "login" /\ proc[p].arg # None) => b = disk[ActiveFile])
  BY <1>1, <1>4 DEF Begins, EditSound
<1>6. c = Promise!Current(b) /\ (b # None => c.server = b)
  BY <1>5, FoundIsCurrent, StoredIsFound, StoredSound
<1> HIDE DEF b, c
<1>7. CASE proc[p].cmd = "login"
  <2>1. PICK s \in Servers : c.server \in {s, None} /\ proc[p].cfg = LoggedInTo(c, s)  BY <1>3, <1>7 DEF Edits
  <2>2. c \in {Promise!Current(s), Promise!Current(disk[ActiveFile])}
    <3>1. CASE proc[p].arg = None  BY <1>5, <1>6, <3>1
    <3>2. CASE proc[p].arg # None
      <4>1. b = proc[p].arg  BY <1>7, <3>2 DEF b, Begins
      <4>2. b = s  BY <1>6, <2>1, <3>2, <4>1
      <4> QED  BY <1>6, <4>2
    <3> QED  BY <3>1, <3>2
  <2>3. Promise!LogIn(s)  BY <1>2, <2>1, <2>2 DEF Promise!LogIn, LoggedInTo
  <2> QED  BY <2>3 DEF Promise!Next
<1>8. CASE proc[p].cmd # "login"
  <2>1. proc[p].arg \in Folders /\ c = Promise!Current(disk[ActiveFile])
    BY <1>1, <1>5, <1>6, <1>8 DEF ProcessOK, Editors
  <2>2. proc[p].cfg = [c EXCEPT !.tracked[proc[p].arg] = IF proc[p].cmd = "add" THEN Home[proc[p].arg] ELSE None]
    BY <1>3, <1>8 DEF Edits
  <2>3. Promise!Track(proc[p].arg) \/ Promise!Untrack(proc[p].arg)
    <3>1. CASE proc[p].cmd = "add"  BY <1>2, <2>1, <2>2, <3>1 DEF Promise!Track
    <3>2. CASE proc[p].cmd # "add"  BY <1>2, <2>1, <2>2, <3>2 DEF Promise!Untrack
    <3> QED  BY <3>1, <3>2
  <2> QED  BY <2>1, <2>3 DEF Promise!Next
<1> QED  BY <1>7, <1>8

LEMMA RenameImplements ==
    ASSUME TypeInv, SettingsInv, PassInv, StoreInv, NEW p \in Procs, Rename(p)
    PROVE  Promise!Next \/ UNCHANGED Promise!vars
<1>1. proc[p].step = "rename" /\ proc[p].step \in Saving /\ delivered' = delivered  BY DEF Rename, Saving
<1>2. PICK x, v : Writing(p, x, v) /\ x = Target(p) /\ v = Payload(p)  BY <1>1, Writes1
<1>3. CASE tmp[x] = None
  <2>1. disk' = disk  BY <1>2, <1>3 DEF Rename
  <2> QED  BY <1>1, <2>1, Unseen
<1>4. CASE tmp[x] # None
  <2>1. \A y \in Files : disk'[y] = IF y = x THEN v ELSE disk[y]  BY <1>2, <1>4, Renamed
  <2>2. CASE proc[p].cmd \in Editors /\ x = ConfigFile(proc[p].cfg.server) /\ v = proc[p].cfg
    BY <1>2, <1>4, <2>2, ConfigImplements
  <2>3. CASE x = ActiveFile /\ v \in Servers /\ disk[ConfigFile(v)] # None
    <3>1. disk'[ActiveFile] = v  BY <2>1, <2>3, FileKinds
    <3>2. \A s \in Servers \cup {None} : disk'[ConfigFile(s)] = disk[ConfigFile(s)] /\ disk'[StateFile(s)] = disk[StateFile(s)]
      BY <2>1, <2>3, FileKinds
    <3>3. Profiles(disk') = Profiles(disk)  BY <3>2 DEF Profiles
    <3>4. Known(disk') = Known(disk)  BY <3>2 DEF Known, StateIn
    <3>5. Promise!Activate(v)  BY <1>1, <2>3, <3>1, <3>3, <3>4 DEF Promise!Activate, Profiles, Known
    <3> QED  BY <2>3, <3>5 DEF Promise!Next
  <2>4. CASE /\ proc[p].cmd = "sync" /\ x = StateFile(proc[p].cfg.server) /\ v = proc[p].recorded
             /\ proc[p].cfg.server \in Servers
    <3> DEFINE s == proc[p].cfg.server
    <3>1. InSync(proc[p]) /\ v \in SUBSET Folders /\ s \in Servers
      BY <1>1, <2>4, ItsStore, ProcessFields DEF InSync
    <3>2. /\ StateIn(disk, s) \subseteq v /\ \A f \in v : <<s, Home[f], f>> \in delivered
      BY <2>4, <3>1, ItsStore, ItsPass DEF SyncSound, PassSound, Sent
    <3>3. disk'[ActiveFile] = disk[ActiveFile] /\ \A t \in Servers \cup {None} : disk'[ConfigFile(t)] = disk[ConfigFile(t)]
      BY <2>1, <2>4, FileKinds
    <3>4. \A t \in Servers : disk'[StateFile(t)] = IF t = s THEN v ELSE disk[StateFile(t)]
      BY <2>1, <2>4, FileKinds
    <3>5. v # None  BY <3>1, ContentsAssumption
    <3> HIDE DEF s
    <3>6. \A t \in Servers : StateIn(disk', t) = IF t = s THEN v ELSE StateIn(disk, t)
      BY <3>4, <3>5 DEF StateIn
    <3>7. Known(disk') = [Known(disk) EXCEPT ![s] = v]  BY <3>6 DEF Known
    <3>8. Profiles(disk') = Profiles(disk)  BY <3>3 DEF Profiles
    <3>9. Known(disk)[s] \subseteq v  BY <3>1, <3>2 DEF Known
    <3>10. Promise!Remember(s, v)
      BY <1>1, <3>2, <3>3, <3>7, <3>8, <3>9 DEF Promise!Remember, Profiles, Known
    <3> QED  BY <3>1, <3>10 DEF Promise!Next
  <2> QED  BY <1>2, <1>4, <2>2, <2>3, <2>4, Renamed
<1> QED  BY <1>3, <1>4

\* A folder that is uploaded goes to a server the client was logged in to.
LEMMA FolderImplements ==
    ASSUME TypeInv, SettingsInv, PassInv, StoreInv, NEW p \in Procs, NEW f \in Folders, SyncFolder(p, f)
    PROVE  Promise!Next \/ UNCHANGED Promise!vars
<1>1. PICK n : AfterFolder(proc[p], f, n, delivered, delivered')  BY FolderEffect
<1>2. /\ ProcessOK(proc[p]) /\ f \in proc[p].todo /\ InSync(proc[p]) /\ disk' = disk
  BY ItsStore, StepsByCommand DEF SyncFolder, InSync
<1>3. CASE delivered' = delivered  BY <1>2, <1>3, Unseen
<1>4. CASE delivered' = delivered \cup {<<proc[p].cfg.server, proc[p].cfg.tracked[f], f>>}
  <2> DEFINE s == proc[p].cfg.server
  <2>1. s \in Servers /\ proc[p].cfg.tracked[f] = Home[f]
    BY <1>2, ItsPass DEF ProcessOK, AtHome, InConfig
  <2>2. LinkedIn(disk, s)  BY <1>2, ItsStore DEF SyncSound
  <2> HIDE DEF s
  <2>3. Promise!Linked(s)  BY <2>2 DEF LinkedIn, Promise!Linked
  <2>4. delivered' = delivered \cup {<<s, Home[f], f>>}  BY <1>4, <2>1 DEF s
  <2>5. Promise!Upload(s, f)  BY <1>2, <2>3, <2>4 DEF Promise!Upload
  <2> QED  BY <2>1, <2>5 DEF Promise!Next
<1> QED  BY <1>1, <1>3, <1>4 DEF AfterFolder

LEMMA NextImplements ==
    ASSUME TypeInv, SettingsInv, PassInv, StoreInv, [Next]_vars
    PROVE  [Promise!Next]_(Promise!vars)
<1>1. CASE UNCHANGED vars
  <2>1. disk' = disk /\ delivered' = delivered  BY <1>1 DEF vars
  <2> QED  BY <2>1, Unseen
<1>2. ASSUME NEW p \in Procs, \/ Commands(p) \/ FindActive(p) \/ LoadConfig(p) \/ Login(p) \/ EditTracked(p)
                              \/ OpenState(p) \/ EndPass(p) \/ Rest(p) \/ Truncate(p) \/ Write(p) \/ Crash(p)
      PROVE  UNCHANGED Promise!vars
  <2>1. disk' = disk /\ delivered' = delivered
    BY <1>2 DEF Commands, Run, FindActive, LoadConfig, Login, EditTracked, OpenState, EndPass, Rest, Truncate, Write, Crash
  <2> QED  BY <2>1, Unseen
<1>3. ASSUME NEW p \in Procs, Rename(p) \/ \E f \in Folders : SyncFolder(p, f)
      PROVE  Promise!Next \/ UNCHANGED Promise!vars
  BY <1>3, RenameImplements, FolderImplements
<1> QED  BY <1>1, <1>2, <1>3 DEF Next

LEMMA InitImplements == Init => Promise!Init
<1> SUFFICES ASSUME Init PROVE Promise!Init  OBVIOUS
<1> DEFINE old == disk[ConfigFile(None)]
<1>1. \A x \in Files : x # ConfigFile(None) => disk[x] = None  BY StartFiles
<1>2. disk[ActiveFile] = None /\ \A s \in Servers : disk[ConfigFile(s)] = None /\ disk[StateFile(s)] = None
  BY <1>1, FileKinds, ProfileAssumption
<1>3. old \in {None} \cup Promise!Older
  <2> SUFFICES ASSUME old # None PROVE old \in Promise!Older  OBVIOUS
  <2>1. old \in Config /\ old.server \in Servers /\ old.token = old.server  BY StartFiles
  <2> QED  BY <2>1 DEF Promise!Older, Config, Tracked
<1>4. Known(disk) = [s \in Servers |-> {}]  BY <1>2 DEF Known, StateIn
<1>5. Profiles(disk) = [s \in Servers \cup {None} |-> IF s = None THEN old ELSE None]
  BY <1>2 DEF Profiles
<1>6. delivered = {}  BY DEF Init
<1> HIDE DEF old
<1> QED  BY <1>2, <1>3, <1>4, <1>5, <1>6 DEF Promise!Init, Profiles, Known

\* When config commands do not overlap, one process at a time syncs to a server, and
\* no folder is tracked for another's drive, the files and the processes that are
\* killed between writing them implement the profile store: a profile changes by one
\* login or one folder at a time, the active server has one, and what is remembered
\* as uploaded was uploaded, and stays remembered.
THEOREM ImplementsStore ==
    ASSUME Overlaps = "none", Repoints = "none"
    PROVE  Spec => ImplementsProfileStore
<1>1. Init => PassInv /\ StoreInv  BY PassesAtFirst, StoresAtFirst
<1>2. TypeInv /\ SettingsInv /\ PassInv /\ StoreInv /\ [Next]_vars => (PassInv /\ StoreInv)'
  BY PassesStay, StoresStay
<1>3. TypeInv /\ SettingsInv /\ PassInv /\ StoreInv /\ [Next]_vars => [Promise!Next]_(Promise!vars)
  BY NextImplements
<1> QED  BY <1>1, <1>2, <1>3, InitImplements, SettingsHold, PTL DEF Spec, ImplementsProfileStore, Promise!Spec
=============================================================================
