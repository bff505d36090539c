----------------------------- MODULE BucketBin -----------------------------
(***************************************************************************)
(* Files, folders and the recycle bin of a drive in a bucket (S3Manager).  *)
(* A bucket has no rename: a move is a copy and a deletion, a folder is    *)
(* moved key by key, and each call may fail.  Unlike the local disk, an    *)
(* upload over a file archives the old version first.                      *)
(*                                                                         *)
(* The users of the drive take turns; the nightly purge runs beside them.  *)
(* A key is <<folder, name>>, or <<folder>> for the marker of a folder     *)
(* (the key that ends in a slash); folders do not nest.                    *)
(***************************************************************************)
EXTENDS Integers, FiniteSets, Sequences

CONSTANTS
    Folders, Root,  \* folders of the drive, the drive root among them
    Names,          \* file names
    Versions,       \* bound: names made by versionedKey, fresh each time
    Contents,       \* bound: contents uploaded, each by one request
    Items,          \* bound: recycle bin items
    Rows,           \* bound: metadata rows
    Failing,        \* the calls that may fail
    MaxDamage,      \* bound: exits, failures nothing undoes, restores that race a purge
    Collisions,     \* "none": nobody moves or restores a file onto an object that is there
    Marker, None

Calls == {"ensure", "archive row", "put", "content", "create row", "delete source",
          "location", "delete original", "create item", "drop row", "delete batch",
          "leftover", "hide", "copy back", "list", "delete recycled", "unhide",
          "drop item", "purge object", "hard delete"}

ASSUME BucketAssumption ==
    /\ Root \in Folders /\ Names \cap Versions = {}
    /\ Marker \notin Contents /\ None \notin Contents \cup {Marker}
    /\ Failing \subseteq Calls
    /\ MaxDamage \in Nat /\ Collisions \in {"none", "any"}
    /\ IsFiniteSet(Items)

VARIABLES
    bucket,  \* the object under each key of the drive
    bin,     \* the objects under .recyclebin/<item>/, by their original key
    rows,    \* metadata rows: a path, and when it was hidden (0: live)
    items,   \* recycle bin items recorded
    record,  \* their contents: the original path, when the item was created
    clock,   \* the time: folder deletions so far
    op,      \* what the current request does next
    purge,   \* the item the user, and the nightly purge, are removing for good
    batch,   \* items the nightly purge has listed and not removed yet
    unused,  \* contents not uploaded yet
    kept,    \* contents whose upload was answered, and not purged (history)
    damage   \* what went wrong for good, so far

bytes == <<bucket, bin>>
db    == <<rows, items, record, clock>>
cron  == <<purge, batch>>
past  == <<unused, kept, damage>>
vars  == <<bytes, db, op, cron, past>>

Files   == Folders \X (Names \cup Versions)
Keys    == {<<p>> : p \in Folders \ {Root}} \cup Files
Objects == Contents \cup {Marker, None}
Times   == 0..Cardinality(Items)
Idle    == [step |-> "idle", key |-> None, from |-> None, row |-> None, item |-> None,
            content |-> None, keys |-> {}]
NoKeys  == [k \in Keys |-> None]
Row     == [path : Keys, hidden : Times]
Record  == [path : Keys, created : Times]
Steps   == {"idle", "ensure", "archive row", "put", "content", "create row", "delete source",
            "location", "delete original", "create item", "drop row", "delete batch", "hide",
            "copy back", "delete recycled", "recreate row", "unhide", "drop item"}
Request == [step : Steps, key : Keys \cup {None}, from : Keys \cup {None},
            row : Rows \cup {None}, item : Items \cup {None},
            content : Contents \cup {None}, keys : SUBSET Keys]
Actors  == {"user", "cron"}
Taking  == [item : Items, step : {"object", "rows", "item"}]

ASSUME NoneAssumption ==
    None \notin Keys \cup Rows \cup Items \cup Row \cup Record \cup Taking

TypeOK ==
    /\ bucket \in [Keys -> Objects] /\ bin \in [Items -> [Keys -> Objects]]
    /\ rows \in [Rows -> Row \cup {None}]
    /\ items \in SUBSET Items /\ batch \in SUBSET Items /\ clock \in Times
    /\ record \in [Items -> Record \cup {None}]
    /\ op \in Request
    /\ purge \in [Actors -> Taking \cup {None}]
    /\ unused \in SUBSET Contents /\ kept \in SUBSET Contents /\ damage \in 0..MaxDamage

Init ==
    /\ bucket = NoKeys /\ bin = [i \in Items |-> NoKeys]
    /\ rows = [r \in Rows |-> None]
    /\ items = {} /\ record = [i \in Items |-> None] /\ clock = 0
    /\ op = Idle /\ purge = [a \in Actors |-> None] /\ batch = {}
    /\ unused = Contents /\ kept = {} /\ damage = 0

-----------------------------------------------------------------------------
(* The bucket and the database *)

\* A failing call of the bucket leaves it as it was.
Fails(call) == call \in Failing
\* Bound: what goes wrong for good meets at most one item.
Used        == {i \in Items : record[i] # None \/ bin[i] # NoKeys}
Damage      == damage < MaxDamage /\ Cardinality(Used) <= 1 /\ damage' = damage + 1

Object(k, c)        == bucket' = [bucket EXCEPT ![k] = c]
UnderPrefix(b, p)   == {k \in Keys : k[1] = p /\ b[k] # None}
\* Copies of the objects under keys, put into to.
Copied(from, to, ks) == [k \in Keys |-> IF k \in ks THEN from[k] ELSE to[k]]
Without(b, ks)       == [k \in Keys |-> IF k \in ks THEN None ELSE b[k]]

Live(r)      == rows[r] # None /\ rows[r].hidden = 0
LiveAt(path) == {r \in Rows : Live(r) /\ rows[r].path = path}
IsFile(r)    == Len(rows[r].path) = 2
Unrecorded   == {r \in Rows : rows[r] = None}
AddRow(path) == \E r \in Unrecorded : rows' = [rows EXCEPT ![r] = [path |-> path, hidden |-> 0]]
IsDir(i)     == Len(record[i].path) = 1
HiddenSince(p, since) ==
    {r \in Rows : rows[r] # None /\ rows[r].path[1] = p /\ rows[r].hidden # 0 /\ rows[r].hidden >= since}

Ready       == op = Idle /\ purge["user"] = None
FreshItem   == {i \in Items \ Used : damage = 0 \/ Used = {}}
FreshName   == {v \in Versions : \A p \in Folders : /\ bucket[<<p, v>>] = None
                                                    /\ \A i \in Items : bin[i][<<p, v>>] = None
                                                    /\ \A r \in Rows : rows[r] = None
                                                                       \/ rows[r].path # <<p, v>>}
Goto(step)  == op' = [op EXCEPT !.step = step]
Done        == op' = Idle

-----------------------------------------------------------------------------
(* Folders and uploads *)

IsSubfolder(p) == p # Root

\* CreateDirV2: the marker is put, then the row is looked up or created.
CreateDir(p) ==
    /\ Ready /\ IsSubfolder(p) /\ Unrecorded # {}
    /\ Object(<<p>>, Marker)
    /\ op' = [Idle EXCEPT !.step = "ensure", !.key = <<p>>]
    /\ UNCHANGED <<bin, db, cron, past>>

Unnoticed(path) == FALSE   \* mutant: the look-up misses the row
Recorded(path)  == LiveAt(path) # {}

\* The marker is removed on an error, that of a folder that was there before, too.
EnsureRow ==
    /\ op.step = "ensure"
    /\ \/ /\ IF Recorded(op.key) THEN UNCHANGED rows ELSE AddRow(op.key)
          /\ UNCHANGED <<bucket, damage>>
       \/ /\ Fails("ensure") /\ Object(op.key, None) /\ UNCHANGED rows
          /\ IF Recorded(op.key) THEN Damage ELSE UNCHANGED damage
    /\ Done
    /\ UNCHANGED <<bin, items, record, clock, cron, unused, kept>>

Unlisted(r) == FALSE   \* mutant: the lookup finds no row, nothing is archived
\* The key has a row: the upload is a new version.
Known(r) == r # None

\* UploadFileV2: with a row, the object is copied to a versioned key first.
Upload(path, c) ==
    /\ Ready /\ c \in unused
    /\ \E r \in IF LiveAt(path) = {} THEN {None} ELSE LiveAt(path) :
          \/ /\ Known(r) /\ bucket[path] # None
             /\ \E v \in FreshName :
                   /\ Object(<<path[1], v>>, bucket[path])
                   /\ op' = [Idle EXCEPT !.step = "archive row", !.key = path, !.row = r,
                                         !.content = c, !.from = <<path[1], v>>]
          \/ /\ ~Known(r)
             /\ op' = [Idle EXCEPT !.step = "put", !.key = path, !.row = r, !.content = c]
             /\ UNCHANGED bucket
    /\ unused' = unused \ {c}
    /\ UNCHANGED <<bin, db, cron, kept, damage>>

ArchiveRow ==
    /\ op.step = "archive row" /\ Unrecorded # {}
    /\ \/ AddRow(op.from) /\ Goto("put") /\ UNCHANGED bucket
       \/ Fails("archive row") /\ Object(op.from, None) /\ Done /\ UNCHANGED rows
    /\ UNCHANGED <<bin, items, record, clock, cron, past>>

PutObject ==
    /\ op.step = "put"
    /\ \/ /\ Object(op.key, op.content)
          /\ Goto(IF op.row = None THEN "create row" ELSE "content")
       \/ Fails("put") /\ Done /\ UNCHANGED bucket
    /\ UNCHANGED <<bin, db, cron, past>>

\* The upload is answered once the row tells of the new contents.
RecordUpload ==
    /\ \/ /\ op.step = "content"
          /\ \/ kept' = kept \cup {op.content}
             \/ Fails("content") /\ UNCHANGED kept
          /\ UNCHANGED <<bucket, rows>>
       \/ /\ op.step = "create row" /\ Unrecorded # {}
          /\ \/ AddRow(op.key) /\ kept' = kept \cup {op.content} /\ UNCHANGED bucket
             \/ Fails("create row") /\ Object(op.key, None) /\ UNCHANGED <<rows, kept>>
    /\ Done
    /\ UNCHANGED <<bin, items, record, clock, cron, unused, damage>>

\* Neither a move nor a restore looks at what is at the destination.
Vacant(k) == Collisions = "any" \/ bucket[k] = None

\* MoveFile: the object is copied, the source deleted, the row updated.
Move(r, p) ==
    LET src == rows[r].path
        dst == <<p, src[2]>>
    IN  /\ Ready /\ Live(r) /\ IsFile(r) /\ p # src[1]
        /\ bucket[src] # None /\ Vacant(dst)
        /\ Object(dst, bucket[src])
        /\ op' = [Idle EXCEPT !.step = "delete source", !.key = dst, !.from = src, !.row = r]
        /\ UNCHANGED <<bin, db, cron, past>>

DeleteSource ==
    /\ op.step = "delete source"
    /\ \/ Object(op.from, None) /\ Goto("location")
       \/ Fails("delete source") /\ Object(op.key, None) /\ Done
    /\ UNCHANGED <<bin, db, cron, past>>

\* Nothing is put back when the row cannot be updated.
UpdateLocation ==
    /\ op.step = "location"
    /\ \/ rows' = [rows EXCEPT ![op.row].path = op.key] /\ UNCHANGED damage
       \/ Fails("location") /\ Damage /\ UNCHANGED rows
    /\ Done
    /\ UNCHANGED <<bytes, items, record, clock, cron, unused, kept>>

-----------------------------------------------------------------------------
(* Into the bin *)

\* DeleteFileV2: copied into the bin, deleted, recorded as an item, the row dropped.
DeleteFile(r) ==
    /\ Ready /\ Live(r) /\ IsFile(r) /\ bucket[rows[r].path] # None
    /\ \E i \in FreshItem :
          /\ bin' = [bin EXCEPT ![i] = Copied(bucket, NoKeys, {rows[r].path})]
          /\ op' = [Idle EXCEPT !.step = "delete original", !.key = rows[r].path, !.row = r, !.item = i]
    /\ UNCHANGED <<bucket, db, cron, past>>

DeleteOriginal ==
    /\ op.step = "delete original"
    /\ \/ Object(op.key, None) /\ Goto("create item") /\ UNCHANGED bin
       \/ /\ Fails("delete original")
          /\ bin' = [bin EXCEPT ![op.item] = NoKeys] /\ Done
          /\ UNCHANGED bucket
    /\ UNCHANGED <<db, cron, past>>

\* A copy left behind in the bin, as when the copying back fails, too.
LeftInBin(ks) ==
    /\ Damage
    /\ \E back \in SUBSET ks : /\ bucket' = Copied(bin[op.item], bucket, back)
                               /\ bin' = [bin EXCEPT ![op.item] = Without(@, back)]
\* copyRecycledBack: each copy goes back to its key, and out of the bin.
CopyRecycledBack(ks) ==
    \/ /\ bucket' = Copied(bin[op.item], bucket, ks)
       /\ bin' = [bin EXCEPT ![op.item] = Without(@, ks)]
       /\ UNCHANGED damage
    \/ LeftInBin(ks)

RecordItem ==
    /\ op.step = "create item"
    /\ \/ /\ items' = items \cup {op.item}
          /\ record' = [record EXCEPT ![op.item] = [path |-> op.key, created |-> clock]]
          /\ Goto("drop row")
          /\ UNCHANGED <<bytes, damage>>
       \/ /\ Fails("create item") /\ CopyRecycledBack({op.key}) /\ Done
          /\ UNCHANGED <<items, record>>
    /\ UNCHANGED <<rows, clock, cron, unused, kept>>

DropRow ==
    /\ op.step = "drop row"
    /\ \/ rows' = [rows EXCEPT ![op.row] = None] /\ UNCHANGED damage
       \/ Fails("drop row") /\ Damage /\ UNCHANGED rows
    /\ Done
    /\ UNCHANGED <<bytes, items, record, clock, cron, unused, kept>>

\* No older folder of this name is in the bin, or on its way out of it: the items of
\* two generations hide and purge each other's rows (see RecycleBin).
OnlyGeneration(p) == \A i \in Items : record[i] # None /\ record[i].path = <<p>> =>
    /\ i \notin items \cup batch
    /\ \A a \in Actors : purge[a] # None => purge[a].item # i

\* DeleteDir: every key under the folder is copied into the bin (a copy that fails
\* is undone before anything else is changed), then all are deleted in batches.
DeleteDir(p) ==
    LET ks == UnderPrefix(bucket, p)
    IN  /\ Ready /\ IsSubfolder(p) /\ LiveAt(<<p>>) # {}
        /\ OnlyGeneration(p)
        /\ \E i \in FreshItem :
              /\ bin' = [bin EXCEPT ![i] = Copied(bucket, NoKeys, ks)]
              /\ op' = [Idle EXCEPT !.step = "delete batch", !.key = <<p>>, !.item = i, !.keys = ks]
        /\ UNCHANGED <<bucket, db, cron, past>>

\* A batch that fails may have deleted some of the keys; one that succeeds may have
\* left some, for the answer's list of errors is not read.
DeleteBatch ==
    /\ op.step = "delete batch"
    /\ \/ /\ bucket' = Without(bucket, op.keys) /\ Goto("hide") /\ UNCHANGED <<bin, damage>>
       \/ /\ Fails("delete batch") /\ CopyRecycledBack(op.keys) /\ Done
       \/ /\ Fails("leftover") /\ Damage /\ Goto("hide")
          /\ \E left \in SUBSET op.keys : bucket' = Without(bucket, op.keys \ left)
          /\ UNCHANGED bin
    /\ UNCHANGED <<db, cron, unused, kept>>

\* One transaction records the item and hides the rows.
HideSubtree ==
    LET p == op.key[1]
    IN  /\ op.step = "hide"
        /\ \/ /\ clock' = clock + 1
              /\ items' = items \cup {op.item}
              /\ record' = [record EXCEPT ![op.item] = [path |-> <<p>>, created |-> clock + 1]]
              /\ rows' = [r \in Rows |-> IF Live(r) /\ rows[r].path[1] = p
                                         THEN [rows[r] EXCEPT !.hidden = clock + 1] ELSE rows[r]]
              /\ UNCHANGED <<bytes, damage>>
           \/ /\ Fails("hide") /\ CopyRecycledBack(op.keys)
              /\ UNCHANGED <<clock, items, record, rows>>
        /\ Done
        /\ UNCHANGED <<cron, unused, kept>>

-----------------------------------------------------------------------------
(* Out of the bin *)

\* A restore and a purge of one item at once are not kept apart.
BeingPurged(i) == \E a \in Actors : purge[a] # None /\ purge[a].item = i
Alone(i) == IF BeingPurged(i) \/ bin[i] = NoKeys THEN Damage ELSE UNCHANGED damage

\* RestoreFile of a file; the object is there or the copy fails.
RestoreFile(i) ==
    LET path == record[i].path
    IN  /\ Ready /\ i \in items /\ ~IsDir(i)
        /\ bin[i][path] # None /\ Vacant(path)
        /\ Object(path, bin[i][path])
        /\ op' = [Idle EXCEPT !.step = "delete recycled", !.key = path, !.item = i, !.keys = {path}]
        /\ Alone(i)
        /\ UNCHANGED <<bin, db, cron, unused, kept>>

Always(p) == TRUE   \* mutant: a folder that exists again is overwritten
\* A folder is restored only where nothing is, as far as the listing can tell.
NothingThere(p) == UnderPrefix(bucket, p) = {} \/ Fails("list")

\* restoreFolder: the keys in the bin are listed, then copied back one by one, the
\* marker left out.
RestoreFolder(i) ==
    LET p  == record[i].path[1]
        ks == UnderPrefix(bin[i], p)
    IN  /\ Ready /\ i \in items /\ IsDir(i) /\ NothingThere(p)
        /\ op' = [Idle EXCEPT !.step = "copy back", !.key = <<p>>, !.item = i, !.keys = ks]
        /\ Alone(i)
        /\ UNCHANGED <<bytes, db, cron, unused, kept>>

NotCopied == {k \in op.keys \cap Files : bucket[k] = None}
Restored  == (op.keys \cap Files) \ NotCopied

\* After a failed copy the objects restored so far are copied to the bin again, and
\* stay where they are as well.
CopyBack ==
    /\ op.step = "copy back" /\ NotCopied # {}
    /\ \E k \in NotCopied :
          \/ /\ bin[op.item][k] # None
             /\ Object(k, bin[op.item][k])
             /\ UNCHANGED <<op, bin, damage>>
          \/ /\ bin[op.item][k] = None \/ Fails("copy back")
             /\ bin' = [bin EXCEPT ![op.item] = Copied(bucket, @, Restored)]
             /\ Damage /\ Done
             /\ UNCHANGED bucket
    /\ UNCHANGED <<db, cron, unused, kept>>

\* The copies in the bin are deleted; that they cannot be is only logged.
DeleteRecycled ==
    /\ \/ op.step = "delete recycled"
       \/ op.step = "copy back" /\ NotCopied = {}
    /\ \/ bin' = [bin EXCEPT ![op.item] = Without(@, op.keys)]
       \/ Fails("delete recycled") /\ UNCHANGED bin
    /\ Goto(IF op.step = "copy back" THEN "unhide" ELSE "recreate row")
    /\ UNCHANGED <<bucket, db, cron, past>>

\* A restored file gets a new row; nothing is put back when it cannot be created.
RecreateRow ==
    /\ op.step = "recreate row" /\ Unrecorded # {}
    /\ \/ AddRow(op.key) /\ Goto("drop item") /\ UNCHANGED damage
       \/ Fails("create row") /\ Damage /\ Done /\ UNCHANGED rows
    /\ UNCHANGED <<bytes, items, record, clock, cron, unused, kept>>

StayRestored(ks) == UNCHANGED <<bucket, bin>>   \* mutant: a failed restore is not undone
\* copyRecycledBackToBin: the restored objects go back into the bin.
CopyBackToBin(ks) ==
    /\ bin' = [bin EXCEPT ![op.item] = Copied(bucket, @, ks)]
    /\ bucket' = Without(bucket, ks)

UnhideSubtree ==
    /\ op.step = "unhide"
    /\ \/ /\ rows' = [r \in Rows |-> IF r \in HiddenSince(op.key[1], record[op.item].created)
                                     THEN [rows[r] EXCEPT !.hidden = 0] ELSE rows[r]]
          /\ Goto("drop item")
          /\ UNCHANGED bytes
       \/ /\ Fails("unhide") /\ CopyBackToBin(Restored) /\ Done
          /\ UNCHANGED rows
    /\ UNCHANGED <<items, record, clock, cron, past>>

DropItem ==
    /\ op.step = "drop item"
    /\ \/ items' = items \ {op.item} /\ UNCHANGED damage
       \/ Fails("drop item") /\ Damage /\ UNCHANGED items
    /\ Done
    /\ UNCHANGED <<bytes, rows, record, clock, cron, unused, kept>>

-----------------------------------------------------------------------------
(* Purges, by the user or by the nightly job over what has expired *)

Meets(i) == IF op.item = i THEN Damage ELSE UNCHANGED damage

UserPurge(i) ==
    /\ Ready /\ i \in items
    /\ purge' = [purge EXCEPT !["user"] = [item |-> i, step |-> "object"]]
    /\ UNCHANGED <<bytes, db, op, batch, past>>

CronList ==
    /\ purge["cron"] = None /\ batch = {} /\ items # {}
    /\ batch' \in SUBSET items \ {{}}
    /\ UNCHANGED <<bytes, db, op, purge, past>>

CronTake ==
    /\ purge["cron"] = None
    /\ \E i \in batch : /\ purge' = [purge EXCEPT !["cron"] = [item |-> i, step |-> "object"]]
                        /\ batch' = batch \ {i}
                        /\ Meets(i)
    /\ UNCHANGED <<bytes, db, op, unused, kept>>

Purging(a, step) == purge[a] # None /\ purge[a].step = step

\* purgeFileItem, purgeFolderItem: the objects first.
PurgeObjects(a) ==
    LET i == purge[a].item
    IN  /\ Purging(a, "object")
        /\ \/ /\ bin' = [bin EXCEPT ![i] = NoKeys]
              /\ kept' = kept \ {bin[i][k] : k \in Keys}
              /\ purge' = [purge EXCEPT ![a].step = IF IsDir(i) THEN "rows" ELSE "item"]
           \/ /\ Fails("purge object")
              /\ purge' = [purge EXCEPT ![a] = None]
              /\ UNCHANGED <<bin, kept>>
        /\ UNCHANGED <<bucket, db, op, batch, unused, damage>>

PurgeRows(a) ==
    LET of == record[purge[a].item]
    IN  /\ Purging(a, "rows")
        /\ \/ /\ rows' = [r \in Rows |-> IF r \in HiddenSince(of.path[1], of.created) THEN None ELSE rows[r]]
              /\ purge' = [purge EXCEPT ![a].step = "item"]
           \/ /\ Fails("hard delete")
              /\ purge' = [purge EXCEPT ![a] = None]
              /\ UNCHANGED rows
        /\ UNCHANGED <<bytes, items, record, clock, op, batch, past>>

PurgeItem(a) ==
    /\ Purging(a, "item")
    /\ \/ items' = items \ {purge[a].item}
       \/ Fails("drop item") /\ UNCHANGED items
    /\ purge' = [purge EXCEPT ![a] = None]
    /\ UNCHANGED <<bytes, rows, record, clock, op, batch, past>>

\* The API process exits in the middle of a request.
ApiExits ==
    /\ ~Ready /\ Damage
    /\ Done /\ purge' = [purge EXCEPT !["user"] = None]
    /\ UNCHANGED <<bytes, db, batch, unused, kept>>

FolderRequest == \E p \in Folders : CreateDir(p) \/ DeleteDir(p)
UploadRequest == \E path \in Folders \X Names, c \in Contents : Upload(path, c)
FileRequest   == \E r \in Rows : DeleteFile(r) \/ (\E p \in Folders : Move(r, p))
BinRequest    == \E i \in Items : RestoreFile(i) \/ RestoreFolder(i) \/ UserPurge(i)

UploadStep  == EnsureRow \/ ArchiveRow \/ PutObject \/ RecordUpload
DeleteStep  == DeleteOriginal \/ RecordItem \/ DropRow \/ DeleteBatch \/ HideSubtree
RestoreStep == CopyBack \/ DeleteRecycled \/ RecreateRow \/ UnhideSubtree \/ DropItem
MoveStep    == DeleteSource \/ UpdateLocation
PurgeStep(a) == PurgeObjects(a) \/ PurgeRows(a) \/ PurgeItem(a)

Next == \/ FolderRequest \/ UploadRequest \/ FileRequest \/ BinRequest
        \/ UploadStep \/ DeleteStep \/ RestoreStep \/ MoveStep
        \/ CronList \/ CronTake \/ ApiExits
        \/ \E a \in Actors : PurgeStep(a)

Spec == Init /\ [][Next]_vars

-----------------------------------------------------------------------------
(* Properties *)

Stored(c) == \/ \E k \in Keys : bucket[k] = c
             \/ \E i \in Items, k \in Keys : bin[i][k] = c

\* A content stays in the bucket until the purge of an item takes it, or an upload
\* goes to a key no row tells of, whatever call fails and whoever exits: every
\* deletion follows a copy that was made.
NothingLost ==
    [][\A c \in kept : Stored(c) => \/ Stored(c)' \/ c \notin kept'
                                    \/ \E k \in Keys : bucket[k] = c /\ LiveAt(k) = {}]_vars

\* Between requests a listed file has its object: what a failed call leaves behind
\* is undone (unless nothing is there to undo it, see Damage).
ListedHasObject ==
    Ready /\ damage = 0 => \A r \in Rows : Live(r) /\ IsFile(r) => bucket[rows[r].path] # None

\* A path is listed once: creating, uploading, moving and restoring look for what is
\* there, in the rows, in the objects or not at all, and must come to the same answer.
ListedOnce == Ready /\ damage = 0 => \A r \in Rows : Live(r) => LiveAt(rows[r].path) = {r}

\* Every version whose upload was answered can be had until it is purged: under a
\* listed name of its own, or in an item of the bin that restores it.
EveryVersionReachable ==
    Ready /\ damage = 0 => \A c \in kept :
        \/ \E r \in Rows : Live(r) /\ bucket[rows[r].path] = c
        \/ \E i \in items, k \in Keys :
              /\ bin[i][k] = c
              /\ IsDir(i) => \E r \in HiddenSince(k[1], record[i].created) : rows[r].path = k

=============================================================================
