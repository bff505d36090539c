-------------------------- MODULE BucketBinInvariant --------------------------
(***************************************************************************)
(* The invariants behind the properties of BucketBin: what a request, and  *)
(* a purge, may rely on at each of its steps, above all where the copies   *)
(* of an object are while it is on its way.                                *)
(***************************************************************************)
EXTENDS BucketBin

Markers    == Keys \ Files
IsKnown(i) == record[i] # None
\* Items somebody is to purge, or may.
Active     == items \cup batch \cup {i \in Items : \E a \in Actors : purge[a] # None /\ purge[a].item = i}

\* What may be purged has been recorded.
PurgeTypes == \A i \in Active : IsKnown(i)

\* The key of a folder holds its marker, or nothing.
MarkerKeys == \A k \in Markers : /\ bucket[k] \in {Marker, None}
                                 /\ \A i \in Items : bin[i][k] \in {Marker, None}

\* Every deletion of a folder has recorded an item of its own.
KnownItems == {i \in Items : IsKnown(i)}
Deletions  == clock <= Cardinality(KnownItems)

\* What a request is about.
RequestTypes ==
    /\ op.step = "idle" => op = Idle
    /\ op.step # "idle" => purge["user"] = None
    /\ op.step \in {"ensure", "delete batch", "hide", "copy back", "unhide"} => op.key \in Markers
    /\ op.step \in {"archive row", "put", "content", "create row"} =>
          op.key \in Files /\ op.content \in Contents \ (kept \cup unused)
    /\ op.step = "archive row" => op.row # None
    /\ op.step \in {"delete source", "location", "delete original", "create item", "delete recycled",
                   "recreate row"} => op.key \in Files
    /\ op.step \in {"delete source", "location"} => op.row \in Rows /\ Live(op.row)
    /\ op.step \in {"delete original", "create item", "delete batch", "hide"} =>
          op.item \in Items /\ ~IsKnown(op.item)
    /\ op.step \in {"delete recycled", "copy back", "recreate row", "unhide"} =>
          op.item \in Items /\ IsKnown(op.item)

\* Where the copies are of what a request is moving.
Copies ==
    LET b == bin[op.item]
    IN  /\ (op.step = "archive row" \/ (op.step = "put" /\ op.row # None)) =>
              op.from \in Files /\ op.from # op.key /\ bucket[op.from] = bucket[op.key]
        /\ (op.step = "put" /\ op.row = None) => LiveAt(op.key) = {}
        /\ op.step = "create row" => bucket[op.key] = op.content
        /\ op.step = "delete source" => op.from \in Files /\ op.from # op.key /\ bucket[op.from] = bucket[op.key]
        /\ op.step = "delete original" =>
              b[op.key] = bucket[op.key] /\ \A k \in Keys : k # op.key => b[k] = None
        /\ op.step = "create item" => bucket[op.key] = None
        /\ op.step = "delete batch" =>
              /\ \A k \in op.keys : b[k] = bucket[k]
              /\ \A k \in Keys \ op.keys : b[k] = None
        /\ op.step = "hide" => \A k \in op.keys : bucket[k] \in {None, b[k]}
        /\ op.step = "delete recycled" => op.keys = {op.key} /\ b[op.key] \in {None, bucket[op.key]}
        /\ (op.step \in {"copy back", "unhide"} /\ ~Fails("list")) =>
              \A k \in op.keys \cap Files : bucket[k] = None \/ b[k] \in {None, bucket[k]}

RequestInv == /\ TypeOK /\ PurgeTypes /\ MarkerKeys /\ Deletions /\ RequestTypes /\ Copies
              /\ kept \cap unused = {}

-----------------------------------------------------------------------------
(* Rows, objects and items, as long as nothing was left undone *)

Hidden(r)      == rows[r] # None /\ rows[r].hidden # 0
HiddenAt(path) == {r \in Rows : Hidden(r) /\ rows[r].path = path}

\* The row whose object the current request has moved, or is moving.
Moving(r) ==
    \/ op.step \in {"create item", "drop row", "location"} /\ r = op.row
    \/ op.step = "hide" /\ rows[r].path[1] = op.key[1]

\* A listed file has its object, and what is listed is listed once.
Listing ==
    /\ \A r \in Rows : Live(r) /\ IsFile(r) /\ ~Moving(r) => bucket[rows[r].path] # None
    /\ \A r, s \in Rows : Live(r) /\ Live(s) /\ rows[r].path = rows[s].path => r = s

\* The rows of what a request is about: where it is to list something, nothing is.
Clear ==
    /\ op.step = "archive row" => /\ op.row \in LiveAt(op.key)
                                  /\ \A r \in Rows : rows[r] # None => rows[r].path # op.from
    /\ (op.step = "put" /\ op.row # None) => op.row \in LiveAt(op.key) /\ LiveAt(op.from) # {}
    /\ op.step = "content" => op.row \in LiveAt(op.key)
    /\ op.step = "delete source" => op.row \in LiveAt(op.from)
    /\ op.step \in {"delete original", "create item", "drop row"} => op.row \in LiveAt(op.key)
    /\ op.step \in {"create row", "delete source", "location", "delete recycled", "recreate row"} =>
          LiveAt(op.key) = {}
    /\ op.step \in {"copy back", "unhide"} => \A r \in Rows : Live(r) => rows[r].path[1] # op.key[1]
    /\ (op.step = "drop item" /\ IsDir(op.item)) =>
          \A r \in Rows : Hidden(r) => <<rows[r].path[1]>> # record[op.item].path

\* Its objects: those in the drive, and those in the bin.
Held ==
    LET b == bin[op.item]
        p == op.key[1]
    IN  /\ op.step \in {"ensure", "delete source", "location", "delete original", "delete recycled", "recreate row"} =>
              bucket[op.key] # None
        /\ op.step = "content" => bucket[op.key] = op.content
        /\ op.step = "location" => bucket[rows[op.row].path] = None
        /\ op.step = "create item" => b[op.key] # None /\ \A k \in Keys : k # op.key => b[k] = None
        /\ op.step = "drop row" => bucket[op.key] = None
        /\ op.step = "delete batch" => op.keys = UnderPrefix(bucket, p)
        /\ op.step = "hide" => op.keys = UnderPrefix(b, p) /\ \A k \in Keys \ op.keys : b[k] = None
        /\ op.step = "hide" => \A r \in Rows : Live(r) /\ IsFile(r) /\ rows[r].path[1] = p => rows[r].path \in op.keys
        /\ op.step = "copy back" => op.keys = UnderPrefix(b, p) /\ b # NoKeys
        /\ op.step = "unhide" =>
              /\ \A k \in op.keys : k[1] = p
              /\ \A k \in Files : b[k] \in {None, bucket[k]}
              /\ \A r \in Rows : Hidden(r) /\ IsFile(r) /\ rows[r].path[1] = p =>
                    rows[r].path \in op.keys /\ bucket[rows[r].path] # None
        /\ op.step = "recreate row" => b[op.key] \in {None, bucket[op.key]}
        /\ (op.step = "drop item" /\ ~IsDir(op.item)) =>
              \A k \in Keys : b[k] # None => b[k] = bucket[k] /\ LiveAt(k) # {}

\* The item a request restores is there until it drops it, and nobody purges it; a
\* folder that is being deleted has no item yet.
Restorable ==
    /\ op.step \in {"delete recycled", "copy back", "recreate row", "unhide", "drop item"} =>
          op.item \in items /\ \A a \in Actors : purge[a] # None => purge[a].item # op.item
    /\ op.step \in {"delete recycled", "copy back", "recreate row", "unhide"} => record[op.item].path = op.key
    /\ op.step \in {"delete batch", "hide"} => \A i \in Active : record[i].path # op.key

\* Hidden rows are of a deletion whose item is there; of a path there is one.
HiddenRows ==
    /\ \A r \in Rows : Hidden(r) =>
          \E i \in items : record[i].path = <<rows[r].path[1]>> /\ record[i].created = rows[r].hidden
    /\ \A r, s \in Rows : Hidden(r) /\ Hidden(s) /\ rows[r].path = rows[s].path => r = s

\* A folder has one item that somebody may still restore or purge.
OneItem == \A i, k \in Active : record[i].path = record[k].path /\ IsDir(i) => i = k

\* Before the item of a folder is purged, so are its hidden rows, and its objects.
NothingHidden ==
    \A a \in Actors : Purging(a, "item") =>
        \A r \in Rows : Hidden(r) => <<rows[r].path[1]>> # record[purge[a].item].path
PurgedBytes ==
    \A a \in Actors : purge[a] # None =>
        /\ purge[a].step # "object" => bin[purge[a].item] = NoKeys
        /\ purge[a].step = "rows" => IsDir(purge[a].item)

\* A folder that is there while an older one is in the bin has a marker, so that
\* the older one is not restored into it.
Marked ==
    \A r \in Rows, i \in items : Live(r) /\ rows[r].path \in Markers /\ record[i].path = rows[r].path =>
        bucket[rows[r].path] # None \/ (op.step = "drop item" /\ op.item = i)

\* The objects of an item are of its path, and of every hidden row of it, until they
\* are purged.
ItemKeys ==
    \A i \in Items : IsKnown(i) => \A k \in Keys : bin[i][k] # None =>
        IF IsDir(i) THEN k[1] = record[i].path[1] ELSE k = record[i].path
HiddenBytes ==
    \A i \in items, r \in Rows :
        bin[i] # NoKeys /\ Hidden(r) /\ IsFile(r) /\ record[i].path = <<rows[r].path[1]>> => bin[i][rows[r].path] # None

\* A version is listed, in the bin, or on its way.
Listed(c)   == \E r \in Rows : Live(r) /\ bucket[rows[r].path] = c
InItem(c)   == \E i \in items, k \in Keys : bin[i][k] = c /\ (IsDir(i) => HiddenAt(k) # {})
OnTheWay(c) ==
    \/ op.step \in {"location", "recreate row"} /\ bucket[op.key] = c
    \/ op.step = "create item" /\ bin[op.item][op.key] = c
    \/ op.step = "hide" /\ \E k \in op.keys : bin[op.item][k] = c /\ LiveAt(k) # {}
    \/ op.step = "unhide" /\ \E k \in op.keys \cap Files : bucket[k] = c /\ HiddenAt(k) # {}
Reachable == \A c \in kept : Listed(c) \/ InItem(c) \/ OnTheWay(c)

ListingInv == /\ Listing /\ Clear /\ Held /\ Restorable /\ HiddenRows /\ OneItem /\ NothingHidden /\ Marked
              /\ ItemKeys /\ HiddenBytes /\ PurgedBytes /\ Reachable
OrderlyInv == damage = 0 => ListingInv

=============================================================================
