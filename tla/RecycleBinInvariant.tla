------------------------- MODULE RecycleBinInvariant -------------------------
(***************************************************************************)
(* The invariants behind the properties of RecycleBin: what a request, and *)
(* a purge, may rely on at each of its steps, and how rows, hidden rows    *)
(* and recycle bin items belong together as long as nothing was left       *)
(* undone.                                                                 *)
(***************************************************************************)
EXTENDS RecycleBin

Subfolders == Folders \ {Root}
Known(i)   == record[i] # None
Hidden(r)  == rows[r] # None /\ rows[r].hidden # 0
OfFile(r)  == Len(rows[r].path) = 2
\* Items somebody is to purge, or may.
Active     == items \cup batch \cup {i \in Items : \E a \in Actors : purge[a] # None /\ purge[a].item = i}

-----------------------------------------------------------------------------
(* Requests and bytes, whatever exits *)

\* What a purge is at.
PurgeTypes ==
    /\ \A i \in Active : Known(i)
    /\ \A a \in Actors : purge[a] # None =>
          /\ purge[a].step = "rows" => IsDir(purge[a].item)
          /\ purge[a].step # "bytes" => purge[a].item \notin binDir

\* An item is of a subfolder, or of a file, and holds nothing but it.
ItemTypes ==
    \A i \in Items : Known(i) =>
        /\ record[i].path \in Files \cup {<<p>> : p \in Subfolders}
        /\ (~IsDir(i) /\ bin[i] # None) => \A n \in Names : (bin[i][n] # None <=> n = record[i].path[2])

\* Every deletion of a folder has recorded an item of its own.
KnownItems == {i \in Items : Known(i)}
Deletions  == clock <= Cardinality(KnownItems)

\* What a request has done so far and may undo.
RequestTypes ==
    /\ op.step = "idle" => op = Idle
    /\ op.step # "idle" => purge["user"] = None
    /\ op.step \in {"mkdir", "record dir"} => op.path \in {<<p>> : p \in Subfolders}
    /\ op.step = "record file" =>
          /\ op.path \in Files /\ Bytes(op.path) \in Contents \ (unused \cup kept)
          /\ op.row = None => Unrecorded # {}
    /\ op.step \in {"record item", "drop row"} =>
          /\ op.path \in Files /\ op.item \in Items /\ op.row \in Rows
          /\ Live(op.row) /\ rows[op.row].path = op.path /\ Bytes(op.path) = None
    /\ op.step \in {"record item", "hide"} => ~Known(op.item) /\ bin[op.item] # None
    /\ op.step = "record item" => \A n \in Names : (bin[op.item][n] # None <=> n = op.path[2])
    /\ op.step = "hide" => op.item \in Items /\ op.path \in {<<p>> : p \in Subfolders} /\ disk[op.path[1]] = None
    /\ op.step = "update row" =>
          /\ op.row \in Rows /\ Live(op.row) /\ rows[op.row].path = op.from
          /\ op.path \in Files /\ op.from \in Files /\ op.path # op.from
          /\ Bytes(op.from) = None /\ Bytes(op.path) # None
    /\ op.step \in {"restored", "unhide", "drop item"} =>
          /\ op.item \in Items /\ Known(op.item) /\ op.path = record[op.item].path /\ bin[op.item] = None
          /\ op.step = "restored" => ~IsDir(op.item) /\ Bytes(op.path) # None /\ Unrecorded # {}
          /\ op.step = "unhide" => IsDir(op.item) /\ disk[op.path[1]] # None

RequestInv == TypeOK /\ PurgeTypes /\ ItemTypes /\ Deletions /\ RequestTypes /\ kept \cap unused = {}

-----------------------------------------------------------------------------
(* Rows and items, as long as nothing was left undone *)

\* The row whose bytes the current request has moved, or is moving.
Moving(r) ==
    \/ op.step \in {"record item", "drop row", "update row"} /\ r = op.row
    \/ op.step = "hide" /\ r \in UnderFolder(op.path[1])

\* A listed file has its bytes and is listed once.
Listing ==
    /\ \A r \in Rows : Live(r) /\ OfFile(r) /\ ~Moving(r) => Bytes(rows[r].path) # None
    /\ \A r, s \in Rows : Live(r) /\ Live(s) /\ OfFile(r) /\ rows[r].path = rows[s].path => r = s

\* Nothing is listed where a request is to list something.
Clear ==
    /\ op.step = "record file" =>
          IF op.row = None THEN LiveAt(op.path) = {} ELSE op.row \in LiveAt(op.path)
    /\ op.step \in {"update row", "restored"} => LiveAt(op.path) = {}
    /\ op.step = "unhide" => \A r \in Rows : Live(r) /\ OfFile(r) => r \notin UnderFolder(op.path[1])
    /\ op.step = "hide" => LiveAt(op.path) # {}

\* Hidden rows are of a deletion whose item is there; of a path there is one.
HiddenRows ==
    /\ \A r \in Rows : Hidden(r) =>
          \E i \in items : record[i].path = <<rows[r].path[1]>> /\ record[i].created = rows[r].hidden
    /\ \A r, s \in Rows : Hidden(r) /\ Hidden(s) /\ OfFile(r) /\ rows[r].path = rows[s].path => r = s

\* A folder has one item that somebody may still restore or purge.
OneItem ==
    /\ \A i, k \in Active : record[i].path = record[k].path /\ IsDir(i) => i = k
    /\ op.step = "hide" => \A i \in Active : record[i].path # op.path
    /\ op.step = "unhide" => \A i \in Active : record[i].path = op.path => i = op.item

\* Before the item of a folder is removed, so are its hidden rows.
NothingHidden ==
    /\ (op.step = "drop item" /\ IsDir(op.item)) => \A r \in UnderFolder(op.path[1]) : ~Hidden(r)
    /\ \A a \in Actors : (purge[a] # None /\ purge[a].step = "item" /\ IsDir(purge[a].item)) =>
          \A r \in UnderFolder(record[purge[a].item].path[1]) : ~Hidden(r)

\* An item that no purge has reached has its bytes.
ItemBytes ==
    \A i \in items \cap binDir :
        bin[i] # None \/ (op.step \in {"restored", "unhide", "drop item"} /\ op.item = i)

\* The hidden rows of a folder are those of the bytes in the bin, or back in place.
HiddenBytes ==
    \A i \in items, r \in Rows :
        bin[i] # None /\ Hidden(r) /\ OfFile(r) /\ record[i].path = <<rows[r].path[1]>> => bin[i][rows[r].path[2]] # None
FolderBytes ==
    /\ op.step = "hide" =>
          \A r \in UnderFolder(op.path[1]) : Live(r) /\ OfFile(r) => bin[op.item][rows[r].path[2]] # None
    /\ op.step = "unhide" =>
          \A r \in UnderFolder(op.path[1]) : Hidden(r) /\ OfFile(r) => Bytes(rows[r].path) # None

\* What was listed when the item was deleted is what its restore will list.
HiddenAt(path) == {r \in Rows : Hidden(r) /\ rows[r].path = path}
HiddenNames(p) == {n \in Names : HiddenAt(<<p, n>>) # {}}
LiveNames(p)   == {n \in Names : LiveAt(<<p, n>>) # {}}
Remembered ==
    \A i \in items \cap binDir : bin[i] # None =>
        IF IsDir(i)
        THEN LET p == record[i].path[1]
             IN  was[i] = {<<n, bin[i][n]>> : n \in HiddenNames(p)} /\ HiddenAt(<<p>>) # {}
        ELSE was[i] = {<<record[i].path[2], bin[i][record[i].path[2]]>>}
RequestRemembers ==
    LET i == op.item
        p == op.path[1]
    IN  /\ op.step = "record item" => was[i] = {<<op.path[2], bin[i][op.path[2]]>>}
        /\ op.step = "hide" => was[i] = {<<n, bin[i][n]>> : n \in LiveNames(p)}
        /\ (op.step = "restored" /\ i \in binDir) => was[i] = {<<op.path[2], Bytes(op.path)>>}
        /\ (op.step = "unhide" /\ i \in binDir) =>
              was[i] = {<<n, Bytes(<<p, n>>)>> : n \in HiddenNames(p)} /\ HiddenAt(<<p>>) # {}
        /\ (op.step = "drop item" /\ i \in binDir) =>
              IF IsDir(i) THEN was[i] = Listed(p) /\ LiveAt(<<p>>) # {} ELSE was[i] \subseteq Listed(p)

ListingInv == /\ Listing /\ Clear /\ HiddenRows /\ OneItem /\ NothingHidden /\ ItemBytes
              /\ HiddenBytes /\ FolderBytes /\ Remembered /\ RequestRemembers
OrderlyInv == damage = 0 => ListingInv

=============================================================================
