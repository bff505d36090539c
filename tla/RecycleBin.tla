----------------------------- MODULE RecycleBin -----------------------------
(***************************************************************************)
(* Files, folders and the recycle bin of a drive on local disk             *)
(* (DiskManager).  Bytes are moved by renames; metadata rows and recycle   *)
(* bin items are database records that are changed before or after, so     *)
(* every operation is a sequence of steps, each of which may fail, and the *)
(* process may exit between two of them.  Deleting a folder keeps its rows *)
(* and hides them; deleting a file drops its row.                          *)
(*                                                                         *)
(* The users of the drive take turns; the nightly purge runs beside them.  *)
(* A path is <<folder>> or <<folder, name>>; folders do not nest.          *)
(***************************************************************************)
EXTENDS Integers, FiniteSets, Sequences

CONSTANTS
    Folders,      \* folders of the drive, the drive root among them
    Root,
    Names,        \* file names
    Contents,     \* bound: contents uploaded, each by one request
    Items,        \* bound: recycle bin items
    Rows,         \* bound: metadata rows
    Failing,      \* the database calls that may fail
    MaxDamage,    \* bound: exits of the API, failures of a last step that are not undone
    Generations,  \* "one": no folder is deleted while an older one of its name is in the bin
    None

Calls == {"create dir", "create file", "update file", "create item", "delete file",
          "hide", "unhide", "update location", "delete item", "hard delete",
          "purge item"}

ASSUME DriveAssumption == /\ Root \in Folders /\ Folders # {Root}
                          /\ Failing \subseteq Calls
                          /\ MaxDamage \in Nat /\ Generations \in {"one", "any"}
                          /\ IsFiniteSet(Items)

VARIABLES
    disk,    \* the directory of each folder: the bytes under each name, None without one
    bin,     \* what the item's directory under .recyclebin holds, None when nothing
    binDir,  \* items whose directory under .recyclebin exists
    rows,    \* metadata rows: a path, and when it was hidden (0: live)
    items,   \* recycle bin items recorded
    record,  \* their contents: the original path, when the item was created
    clock,   \* the time: folder deletions so far
    op,      \* what the current request does next
    purge,   \* the item the user, and the nightly purge, are removing for good
    batch,   \* items the nightly purge has listed and not removed yet
    unused,  \* contents not uploaded yet
    kept,    \* contents whose upload was answered (history)
    damage,  \* exits of the API and steps left undone so far
    was      \* what the bin item had listed when it was deleted (history)

vars == <<disk, bin, binDir, rows, items, record, clock, op, purge, batch, unused, kept,
          damage, was>>

Trees  == [Names -> Contents \cup {None}]
Empty  == [n \in Names |-> None]
Files  == Folders \X Names
Paths  == {<<p>> : p \in Folders} \cup Files
Times  == 0..Cardinality(Items)
Row    == [path : Paths, hidden : Times]
Record == [path : Paths, created : Times]
Actors == {"user", "cron"}
Taking == [item : Items, step : {"bytes", "rows", "item"}]
Idle   == [step |-> "idle", path |-> None, item |-> None, row |-> None, from |-> None]
Steps  == {"idle", "mkdir", "record dir", "record file", "record item", "drop row",
           "hide", "update row", "restored", "unhide", "drop item"}

ASSUME NoneAssumption ==
    /\ None \notin Contents /\ None \notin Items /\ None \notin Rows
    /\ None \notin Trees /\ None \notin Row /\ None \notin Record /\ None \notin Taking

TypeOK ==
    /\ disk \in [Folders -> Trees \cup {None}] /\ disk[Root] # None
    /\ bin \in [Items -> Trees \cup {None}] /\ \A i \in Items : bin[i] # None => i \in binDir
    /\ binDir \in SUBSET Items /\ items \in SUBSET Items /\ batch \in SUBSET Items
    /\ rows \in [Rows -> Row \cup {None}]
    /\ record \in [Items -> Record \cup {None}]
    /\ clock \in Times
    /\ op \in [step : Steps, path : Paths \cup {None}, item : Items \cup {None},
               row : Rows \cup {None}, from : Paths \cup {None}]
    /\ purge \in [Actors -> Taking \cup {None}]
    /\ unused \in SUBSET Contents /\ kept \in SUBSET Contents
    /\ damage \in 0..MaxDamage
    /\ was \in [Items -> SUBSET (Names \X (Contents \cup {None}))]

Init ==
    /\ disk = [p \in Folders |-> IF p = Root THEN Empty ELSE None]
    /\ bin = [i \in Items |-> None] /\ binDir = {}
    /\ rows = [r \in Rows |-> None]
    /\ items = {} /\ record = [i \in Items |-> None]
    /\ clock = 0 /\ op = Idle
    /\ purge = [a \in Actors |-> None] /\ batch = {}
    /\ unused = Contents /\ kept = {} /\ damage = 0 /\ was = [i \in Items |-> {}]

-----------------------------------------------------------------------------
(* The file system and the database *)

Bytes(path) == IF disk[path[1]] = None THEN None ELSE disk[path[1]][path[2]]

\* MkdirAll of the folder; then the bytes under the path.
WithDir(d, p)   == [d EXCEPT ![p] = IF @ = None THEN Empty ELSE @]
Put(d, path, c) == [WithDir(d, path[1]) EXCEPT ![path[1]][path[2]] = c]

Only(n, c) == [Empty EXCEPT ![n] = c]
IsDir(i)   == Len(record[i].path) = 1

Live(r)         == rows[r] # None /\ rows[r].hidden = 0
LiveAt(path)    == {r \in Rows : Live(r) /\ rows[r].path = path}
Unrecorded      == {r \in Rows : rows[r] = None}
UnderFolder(p)  == {r \in Rows : rows[r] # None /\ rows[r].path[1] = p}
Listed(p)       == {<<n, Bytes(<<p, n>>)>> : n \in {m \in Names : LiveAt(<<p, m>>) # {}}}
AddRow(path)    == \E r \in Unrecorded : rows' = [rows EXCEPT ![r] = [path |-> path, hidden |-> 0]]

\* mutant: rows hidden in the instant the item was created are missed
HiddenAfter(p, since) == {r \in UnderFolder(p) : rows[r].hidden > since}
\* UnhideFolderSubtree and HardDeleteHiddenFolderSubtree work on the rows under the
\* folder's path that were hidden since the item was created.
HiddenSince(p, since) == {r \in UnderFolder(p) : rows[r].hidden # 0 /\ rows[r].hidden >= since}

Fails(call) == call \in Failing
Damage      == damage < MaxDamage /\ damage' = damage + 1

UserIdle == op = Idle /\ purge["user"] = None
Free     == {i \in Items : i \notin binDir /\ record[i] = None /\ bin[i] = None}
Begin(step, path, item, row, from) ==
    op' = [step |-> step, path |-> path, item |-> item, row |-> row, from |-> from]
Goto(step) == op' = [op EXCEPT !.step = step]
Done       == op' = Idle

-----------------------------------------------------------------------------
(* Folders and files *)

AnyFolder(p)   == TRUE   \* mutant: the drive root may be deleted, too
IsSubfolder(p) == p # Root

\* CreateDirV2 of a folder without a live row: the loop over the path's levels
\* records the folder itself, too.
CreateDir(p) ==
    /\ UserIdle /\ IsSubfolder(p)
    /\ LiveAt(<<p>>) = {} /\ Cardinality(Unrecorded) >= 2
    /\ AddRow(<<p>>)
    /\ Begin("mkdir", <<p>>, None, None, None)
    /\ UNCHANGED <<disk, bin, binDir, items, record, clock, purge, batch, unused, kept, damage, was>>

MakeDir ==
    /\ op.step = "mkdir"
    /\ disk' = WithDir(disk, op.path[1])
    /\ Goto("record dir")
    /\ UNCHANGED <<bin, binDir, rows, items, record, clock, purge, batch, unused, kept, damage, was>>

\* The folder is recorded again; on an error the directory is removed with all it holds.
RecordDir ==
    /\ op.step = "record dir"
    /\ \/ AddRow(op.path) /\ UNCHANGED disk
       \/ Fails("create dir") /\ disk' = [disk EXCEPT ![op.path[1]] = None] /\ UNCHANGED rows
    /\ Done
    /\ UNCHANGED <<bin, binDir, items, record, clock, purge, batch, unused, kept, damage, was>>

AnotherRow(path) == {None}   \* mutant: an upload is always given a row of its own
\* The row an upload updates, or None: it gets a new one.
RowFor(path) == IF LiveAt(path) = {} THEN {None} ELSE LiveAt(path)

\* UploadFileV2: the row is looked up, the bytes are written, the row recorded.
Upload(path, c) ==
    /\ UserIdle /\ c \in unused /\ Unrecorded # {}
    /\ disk' = Put(disk, path, c)
    /\ unused' = unused \ {c}
    /\ \E r \in RowFor(path) : Begin("record file", path, None, r, None)
    /\ UNCHANGED <<bin, binDir, rows, items, record, clock, purge, batch, kept, damage, was>>

RecordFile ==
    /\ op.step = "record file"
    /\ \/ /\ IF op.row # None THEN UNCHANGED rows ELSE AddRow(op.path)
          /\ kept' = kept \cup {Bytes(op.path)}
          /\ UNCHANGED disk
       \/ /\ op.row # None /\ Fails("update file")
          /\ UNCHANGED <<rows, kept, disk>>
       \/ /\ op.row = None /\ Fails("create file")
          /\ disk' = Put(disk, op.path, None)
          /\ UNCHANGED <<rows, kept>>
    /\ Done
    /\ UNCHANGED <<bin, binDir, items, record, clock, purge, batch, unused, damage, was>>

\* MoveFile: refused when a file of that name is there.
Move(r, p) ==
    LET src == rows[r].path
        dst == <<p, src[2]>>
    IN  /\ UserIdle /\ Live(r) /\ Len(src) = 2
        /\ dst # src /\ Bytes(dst) = None /\ Bytes(src) # None
        /\ disk' = Put(Put(disk, dst, Bytes(src)), src, None)
        /\ Begin("update row", dst, None, r, src)
        /\ UNCHANGED <<bin, binDir, rows, items, record, clock, purge, batch, unused, kept, damage, was>>

\* The bytes are not there to be moved, but the destination folder has been made.
MoveFails(r, p) ==
    /\ UserIdle /\ Live(r) /\ Len(rows[r].path) = 2 /\ rows[r].path[1] # p
    /\ Bytes(rows[r].path) = None /\ Bytes(<<p, rows[r].path[2]>>) = None
    /\ disk' = WithDir(disk, p)
    /\ UNCHANGED <<bin, binDir, rows, items, record, clock, op, purge, batch, unused, kept, damage, was>>

UpdateRow ==
    /\ op.step = "update row"
    /\ \/ rows' = [rows EXCEPT ![op.row].path = op.path] /\ UNCHANGED disk
       \/ /\ Fails("update location")
          /\ disk' = Put(Put(disk, op.from, Bytes(op.path)), op.path, None)
          /\ UNCHANGED rows
    /\ Done
    /\ UNCHANGED <<bin, binDir, items, record, clock, purge, batch, unused, kept, damage, was>>

-----------------------------------------------------------------------------
(* Into the bin *)

\* DeleteFileV2: the bytes are moved, the item recorded, the row dropped.
DeleteFile(r) ==
    LET path == rows[r].path
    IN  /\ UserIdle /\ Live(r) /\ Len(path) = 2 /\ Bytes(path) # None
        /\ \E i \in Free :
              /\ bin' = [bin EXCEPT ![i] = Only(path[2], Bytes(path))]
              /\ binDir' = binDir \cup {i}
              /\ was' = [was EXCEPT ![i] = {<<path[2], Bytes(path)>>}]
              /\ Begin("record item", path, i, r, None)
        /\ disk' = Put(disk, path, None)
        /\ UNCHANGED <<rows, items, record, clock, purge, batch, unused, kept, damage>>

StaysMoved(d, path, i) == d   \* mutant: a failed deletion is not undone
\* The bytes of a file are moved back from the item's directory.
BackFromBin(d, path, i) == Put(d, path, bin[i][path[2]])

RecordItem ==
    /\ op.step = "record item"
    /\ \/ /\ items' = items \cup {op.item}
          /\ record' = [record EXCEPT ![op.item] = [path |-> op.path, created |-> clock]]
          /\ Goto("drop row")
          /\ UNCHANGED <<disk, bin>>
       \/ /\ Fails("create item")
          /\ disk' = BackFromBin(disk, op.path, op.item)
          /\ bin' = [bin EXCEPT ![op.item] = None]
          /\ Done
          /\ UNCHANGED <<items, record>>
    /\ UNCHANGED <<binDir, rows, clock, purge, batch, unused, kept, damage, was>>

DropRow ==
    /\ op.step = "drop row"
    /\ \/ /\ rows' = [rows EXCEPT ![op.row] = None]
          /\ UNCHANGED damage
       \/ Fails("delete file") /\ Damage /\ UNCHANGED rows
    /\ Done
    /\ UNCHANGED <<disk, bin, binDir, items, record, clock, purge, batch, unused, kept, was>>

\* A folder is deleted only once, as long as it is in the bin.
OnlyGeneration(p) ==
    \A i \in Items : record[i] # None /\ record[i].path = <<p>>
                       => /\ i \notin items \cup batch
                          /\ \A a \in Actors : purge[a] # None => purge[a].item # i

\* DeleteDir: the directory is moved, then one transaction records the item and
\* hides the rows.
DeleteDir(p) ==
    /\ UserIdle /\ IsSubfolder(p)
    /\ LiveAt(<<p>>) # {} /\ disk[p] # None
    /\ Generations = "one" => OnlyGeneration(p)
    /\ \E i \in Free :
          /\ bin' = [bin EXCEPT ![i] = disk[p]]
          /\ binDir' = binDir \cup {i}
          /\ was' = [was EXCEPT ![i] = Listed(p)]
          /\ Begin("hide", <<p>>, i, None, None)
    /\ disk' = [disk EXCEPT ![p] = None]
    /\ UNCHANGED <<rows, items, record, clock, purge, batch, unused, kept, damage>>

HideSubtree ==
    LET p == op.path[1]
    IN  /\ op.step = "hide"
        /\ \/ /\ clock' = clock + 1
              /\ items' = items \cup {op.item}
              /\ record' = [record EXCEPT ![op.item] = [path |-> <<p>>, created |-> clock + 1]]
              /\ rows' = [r \in Rows |-> IF r \in UnderFolder(p) /\ Live(r)
                                         THEN [rows[r] EXCEPT !.hidden = clock + 1]
                                         ELSE rows[r]]
              /\ UNCHANGED <<disk, bin>>
           \/ /\ Fails("hide")
              /\ disk' = [disk EXCEPT ![p] = bin[op.item]]
              /\ bin' = [bin EXCEPT ![op.item] = None]
              /\ UNCHANGED <<clock, items, record, rows>>
        /\ Done
        /\ UNCHANGED <<binDir, purge, batch, unused, kept, damage, was>>

-----------------------------------------------------------------------------
(* Out of the bin *)

Overwrites(path) == TRUE   \* mutant: the destination is not looked at
\* Nothing is at the original location.
Vacant(path) == IF Len(path) = 1 THEN disk[path[1]] = None ELSE Bytes(path) = None

\* RestoreFile and restoreFolder: the bytes are moved back, the row recreated or
\* the rows unhidden, the item removed.
Restore(i) ==
    LET path == record[i].path
    IN  /\ UserIdle /\ i \in items /\ bin[i] # None
        /\ Vacant(path)
        /\ IF IsDir(i)
           THEN disk' = [disk EXCEPT ![path[1]] = bin[i]]
           ELSE Unrecorded # {} /\ disk' = BackFromBin(disk, path, i)
        /\ bin' = [bin EXCEPT ![i] = None]
        /\ Begin(IF IsDir(i) THEN "unhide" ELSE "restored", path, i, None, None)
        /\ UNCHANGED <<binDir, rows, items, record, clock, purge, batch, unused, kept, damage, was>>

\* The bytes of the file are gone, but its folder has been made again.
RestoreFails(i) ==
    /\ UserIdle /\ i \in items /\ bin[i] = None
    /\ ~IsDir(i) /\ Vacant(record[i].path)
    /\ disk' = WithDir(disk, record[i].path[1])
    /\ UNCHANGED <<bin, binDir, rows, items, record, clock, op, purge, batch, unused, kept, damage, was>>

NoWayBack(i) == FALSE   \* mutant: a restore that fails is not undone
\* What was moved out of the item's directory can be renamed back into it.
CanGoBack(i) == i \in binDir

\* On an error the file goes back to the item's directory, if that is still there.
RecordRestored ==
    /\ op.step = "restored"
    /\ \/ AddRow(op.path) /\ Goto("drop item") /\ UNCHANGED <<disk, bin>>
       \/ /\ Fails("create file")
          /\ IF CanGoBack(op.item)
             THEN /\ bin' = [bin EXCEPT ![op.item] = Only(op.path[2], Bytes(op.path))]
                  /\ disk' = Put(disk, op.path, None)
             ELSE UNCHANGED <<disk, bin>>
          /\ Done
          /\ UNCHANGED rows
    /\ UNCHANGED <<binDir, items, record, clock, purge, batch, unused, kept, damage, was>>

UnhideSubtree ==
    LET p == op.path[1]
    IN  /\ op.step = "unhide"
        /\ \/ /\ rows' = [r \in Rows |-> IF r \in HiddenSince(p, record[op.item].created)
                                         THEN [rows[r] EXCEPT !.hidden = 0] ELSE rows[r]]
              /\ Goto("drop item")
              /\ UNCHANGED <<disk, bin>>
           \/ /\ Fails("unhide")
              /\ IF CanGoBack(op.item)
                 THEN /\ bin' = [bin EXCEPT ![op.item] = disk[p]]
                      /\ disk' = [disk EXCEPT ![p] = None]
                 ELSE UNCHANGED <<disk, bin>>
              /\ Done
              /\ UNCHANGED rows
        /\ UNCHANGED <<binDir, items, record, clock, purge, batch, unused, kept, damage, was>>

\* The empty directory that is removed last is of no use to anybody.
DropItem ==
    /\ op.step = "drop item"
    /\ \/ /\ items' = items \ {op.item} /\ binDir' = binDir \ {op.item}
          /\ was' = [was EXCEPT ![op.item] = {}]
          /\ UNCHANGED damage
       \/ Fails("delete item") /\ Damage /\ UNCHANGED <<items, binDir, was>>
    /\ Done
    /\ UNCHANGED <<disk, bin, rows, record, clock, purge, batch, unused, kept>>

\* PurgeRecycleBinItem, and the nightly purge over the items that have expired.
UserPurge(i) ==
    /\ UserIdle /\ i \in items
    /\ purge' = [purge EXCEPT !["user"] = [item |-> i, step |-> "bytes"]]
    /\ UNCHANGED <<disk, bin, binDir, rows, items, record, clock, op, batch, unused, kept, damage, was>>

CronList ==
    /\ purge["cron"] = None /\ batch = {} /\ items # {}
    /\ batch' \in SUBSET items \ {{}}
    /\ UNCHANGED <<disk, bin, binDir, rows, items, record, clock, op, purge, unused, kept, damage, was>>

CronTake ==
    /\ purge["cron"] = None
    /\ \E i \in batch : /\ purge' = [purge EXCEPT !["cron"] = [item |-> i, step |-> "bytes"]]
                        /\ batch' = batch \ {i}
    /\ UNCHANGED <<disk, bin, binDir, rows, items, record, clock, op, unused, kept, damage, was>>

Purging(a, step) == purge[a] # None /\ purge[a].step = step

PurgeBytes(a) ==
    /\ Purging(a, "bytes")
    /\ bin' = [bin EXCEPT ![purge[a].item] = None]
    /\ binDir' = binDir \ {purge[a].item}
    /\ was' = [was EXCEPT ![purge[a].item] = {}]
    /\ purge' = [purge EXCEPT ![a].step = IF IsDir(purge[a].item) THEN "rows" ELSE "item"]
    /\ UNCHANGED <<disk, rows, items, record, clock, op, batch, unused, kept, damage>>

PurgeRows(a) ==
    LET of == record[purge[a].item]
    IN  /\ Purging(a, "rows")
        /\ \/ /\ rows' = [r \in Rows |-> IF r \in HiddenSince(of.path[1], of.created)
                                         THEN None ELSE rows[r]]
              /\ purge' = [purge EXCEPT ![a].step = "item"]
           \/ /\ Fails("hard delete")
              /\ purge' = [purge EXCEPT ![a] = None]
              /\ UNCHANGED rows
        /\ UNCHANGED <<disk, bin, binDir, items, record, clock, op, batch, unused, kept, damage, was>>

PurgeItem(a) ==
    /\ Purging(a, "item")
    /\ \/ items' = items \ {purge[a].item}
       \/ Fails("purge item") /\ UNCHANGED items
    /\ purge' = [purge EXCEPT ![a] = None]
    /\ UNCHANGED <<disk, bin, binDir, rows, record, clock, op, batch, unused, kept, damage, was>>

\* The API process, or the cron worker, exits.
ApiExits ==
    /\ ~UserIdle /\ Damage
    /\ Done
    /\ purge' = [purge EXCEPT !["user"] = None]
    /\ UNCHANGED <<disk, bin, binDir, rows, items, record, clock, batch, unused, kept, was>>

CronExits ==
    /\ (purge["cron"] # None \/ batch # {})
    /\ purge' = [purge EXCEPT !["cron"] = None]
    /\ batch' = {}
    /\ UNCHANGED <<disk, bin, binDir, rows, items, record, clock, op, unused, kept, damage, was>>

UserStep ==
    \/ \E p \in Folders : CreateDir(p) \/ DeleteDir(p)
    \/ \E path \in Files, c \in Contents : Upload(path, c)
    \/ \E r \in Rows : DeleteFile(r) \/ (\E p \in Folders : Move(r, p) \/ MoveFails(r, p))
    \/ \E i \in Items : Restore(i) \/ RestoreFails(i) \/ UserPurge(i)
    \/ MakeDir \/ RecordDir \/ RecordFile \/ UpdateRow \/ RecordItem \/ DropRow
    \/ HideSubtree \/ RecordRestored \/ UnhideSubtree \/ DropItem

PurgeStep(a) == PurgeBytes(a) \/ PurgeRows(a) \/ PurgeItem(a)

Next == \/ UserStep \/ CronList \/ CronTake \/ ApiExits \/ CronExits
        \/ \E a \in Actors : PurgeStep(a)

Spec == Init /\ [][Next]_vars

-----------------------------------------------------------------------------
(* Properties *)

OnDisk == {c \in Contents : \/ \E path \in Files : Bytes(path) = c
                            \/ \E i \in Items : bin[i] # None /\ \E n \in Names : bin[i][n] = c}

Overwritten(c) == \E path \in Files : Bytes(path) = c /\ Bytes(path)' \in unused
Purged(c)      == \E a \in Actors : /\ Purging(a, "bytes") /\ bin[purge[a].item] # None
                                    /\ \E n \in Names : bin[purge[a].item][n] = c

\* The bytes of an answered upload are on the disk, in place or in the bin, until
\* another upload overwrites them or the item that holds them is purged, whatever
\* fails and whoever exits.
NothingLost ==
    [][\A c \in OnDisk \cap kept : c \in OnDisk' \/ Overwritten(c) \/ Purged(c)]_vars

\* Between requests every listed file has its bytes: a deletion, a move or a
\* restore that fails halfway is undone (unless the process exits, or the last
\* step of a deletion or restore fails).
ListedFileHasBytes ==
    op = Idle /\ damage = 0 => \A r \in Rows : Live(r) /\ Len(rows[r].path) = 2 => Bytes(rows[r].path) # None

\* A file is listed once, whatever sequence of requests brought it there.
ListedOnce == damage = 0 => \A path \in Files : Cardinality(LiveAt(path)) <= 1

\* Every item in the bin can be restored until a purge has reached it: a restore
\* that fails puts the bytes back, and one that succeeds takes the item away.
ItemHasBytes == op = Idle /\ damage = 0 => \A i \in items \cap binDir : bin[i] # None

\* A restore that no purge has come between lists exactly what the deletion had
\* taken away, with the same bytes.
RestoreBringsBack ==
    [][LET i == op.item
           p == op.path[1]
       IN  damage = 0 /\ op.step = "drop item" /\ op' = Idle /\ i \in binDir /\ i \notin binDir'
           => IF IsDir(i) THEN Listed(p) = was[i] /\ LiveAt(<<p>>) # {}
                          ELSE was[i] \subseteq Listed(p)]_vars

=============================================================================
