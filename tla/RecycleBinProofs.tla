-------------------------- MODULE RecycleBinProofs --------------------------
(***************************************************************************)
(* Proofs about RecycleBin for any folders, names, contents and items: the *)
(* bytes of answered uploads are kept whatever fails and whoever exits,    *)
(* and as long as nothing was left undone, rows, items and bytes belong    *)
(* together.                                                               *)
(***************************************************************************)
EXTENDS RecycleBinInvariant, FiniteSetTheorems, TLAPS

-----------------------------------------------------------------------------
(* Paths and directories *)

LEMMA FilePath ==
    ASSUME NEW path \in Files
    PROVE  /\ path[1] \in Folders /\ path[2] \in Names /\ Len(path) = 2 /\ path \in Paths
           /\ path = <<path[1], path[2]>>
    BY DEF Files, Paths

LEMMA FileAt ==
    ASSUME NEW p \in Folders, NEW n \in Names
    PROVE  /\ <<p, n>> \in Files /\ <<p, n>>[1] = p /\ <<p, n>>[2] = n
    BY DEF Files

LEMMA FolderPath ==
    ASSUME NEW p \in Folders
    PROVE  /\ <<p>> \in Paths /\ <<p>>[1] = p /\ Len(<<p>>) = 1 /\ <<p>> \notin Files
    BY DEF Files, Paths

LEMMA PathKinds ==
    ASSUME NEW path \in Paths
    PROVE  /\ path[1] \in Folders
           /\ Len(path) = 2 <=> path \in Files
           /\ Len(path) = 1 <=> path = <<path[1]>>
           /\ Len(path) \in {1, 2}
<1>1. CASE path \in Files  BY <1>1, FilePath
<1>2. CASE \E p \in Folders : path = <<p>>  BY <1>2, FolderPath
<1> QED  BY <1>1, <1>2 DEF Paths

LEMMA TreeKinds ==
    /\ Empty \in Trees /\ Empty # None /\ \A n \in Names : Empty[n] = None
    /\ \A t \in Trees : t # None /\ \A n \in Names : t[n] \in Contents \cup {None}
    /\ \A n \in Names, c \in Contents \cup {None} :
          /\ Only(n, c) \in Trees /\ Only(n, c) # None
          /\ \A m \in Names : Only(n, c)[m] = IF m = n THEN c ELSE None
<1>1. Empty \in Trees /\ \A n \in Names : Empty[n] = None  BY DEF Empty, Trees
<1>2. \A t \in Trees : t # None /\ \A n \in Names : t[n] \in Contents \cup {None}
  BY NoneAssumption DEF Trees
<1>3. ASSUME NEW n \in Names, NEW c \in Contents \cup {None}
      PROVE  /\ Only(n, c) \in Trees
             /\ \A m \in Names : Only(n, c)[m] = IF m = n THEN c ELSE None
  BY <1>1 DEF Only, Trees
<1> QED  BY <1>1, <1>2, <1>3

Disks == [Folders -> Trees \cup {None}]
\* The bytes under a path of the directories d: Bytes(path) is At(disk, path).
At(d, path) == IF d[path[1]] = None THEN None ELSE d[path[1]][path[2]]

LEMMA BytesAt ==
    ASSUME NEW path
    PROVE  Bytes(path) = At(disk, path) /\ (Bytes(path))' = At(disk', path)
    BY DEF Bytes, At

LEMMA AtType ==
    ASSUME NEW d \in Disks, NEW path \in Files
    PROVE  /\ At(d, path) \in Contents \cup {None}
           /\ At(d, path) # None => d[path[1]] # None
<1>1. path[1] \in Folders /\ path[2] \in Names  BY FilePath
<1>2. d[path[1]] \in Trees \cup {None}  BY <1>1 DEF Disks
<1>3. d[path[1]] # None => d[path[1]][path[2]] \in Contents \cup {None}  BY <1>1, <1>2 DEF Trees
<1> QED  BY <1>3 DEF At

\* A directory that is made, if it is not there.
LEMMA DirMade ==
    ASSUME NEW d \in Disks, NEW p \in Folders, NEW e, e = WithDir(d, p)
    PROVE  /\ e \in Disks /\ e[p] # None
           /\ \A q \in Folders : q # p => e[q] = d[q]
           /\ \A q \in Files : At(e, q) = At(d, q)
<1>1. \A q \in Folders : e[q] = IF q = p THEN (IF d[p] = None THEN Empty ELSE d[p]) ELSE d[q]
  BY DEF WithDir, Disks
<1>2. e \in Disks  BY TreeKinds DEF WithDir, Disks
<1>3. e[p] # None  BY <1>1, TreeKinds
<1>4. ASSUME NEW q \in Files PROVE At(e, q) = At(d, q)
  <2>1. q[1] \in Folders /\ q[2] \in Names  BY FilePath
  <2>2. CASE q[1] # p  BY <1>1, <2>1, <2>2 DEF At
  <2>3. CASE q[1] = p /\ d[p] # None  BY <1>1, <2>1, <2>3 DEF At
  <2>4. CASE q[1] = p /\ d[p] = None
    <3>1. e[q[1]] = Empty  BY <1>1, <2>1, <2>4
    <3> QED  BY <2>1, <2>4, <3>1, TreeKinds DEF At
  <2> QED  BY <2>2, <2>3, <2>4
<1> QED  BY <1>1, <1>2, <1>3, <1>4

\* Bytes put under a path, or taken away.
LEMMA BytesPut ==
    ASSUME NEW d \in Disks, NEW path \in Files, NEW c \in Contents \cup {None},
           NEW e, e = Put(d, path, c)
    PROVE  /\ e \in Disks /\ e[path[1]] # None
           /\ \A p \in Folders : p # path[1] => e[p] = d[p]
           /\ \A q \in Files : At(e, q) = IF q = path THEN c ELSE At(d, q)
<1>1. path[1] \in Folders /\ path[2] \in Names /\ path = <<path[1], path[2]>>  BY FilePath
<1>2. PICK w : w = WithDir(d, path[1])  OBVIOUS
<1>3. /\ w \in Disks /\ w[path[1]] # None
      /\ \A q \in Folders : q # path[1] => w[q] = d[q]
      /\ \A q \in Files : At(w, q) = At(d, q)
  BY <1>1, <1>2, DirMade
<1>4. w[path[1]] \in Trees  BY <1>1, <1>3 DEF Disks
<1>5. e = [w EXCEPT ![path[1]] = [w[path[1]] EXCEPT ![path[2]] = c]]
  BY <1>1, <1>2, <1>3 DEF Put, Disks
<1>6. PICK t : t = [w[path[1]] EXCEPT ![path[2]] = c]  OBVIOUS
<1>7. t \in Trees /\ \A n \in Names : t[n] = IF n = path[2] THEN c ELSE w[path[1]][n]
  BY <1>1, <1>4, <1>6 DEF Trees
<1>8. e \in Disks /\ \A q \in Folders : e[q] = IF q = path[1] THEN t ELSE w[q]
  BY <1>1, <1>3, <1>5, <1>6, <1>7 DEF Disks
<1>9. ASSUME NEW q \in Files PROVE At(e, q) = IF q = path THEN c ELSE At(d, q)
  <2>1. q[1] \in Folders /\ q[2] \in Names /\ q = <<q[1], q[2]>>  BY FilePath
  <2>2. CASE q[1] # path[1]
    BY <1>3, <1>8, <2>1, <2>2 DEF At
  <2>3. CASE q[1] = path[1]
    <3>1. At(e, q) = t[q[2]]  BY <1>7, <1>8, <2>1, <2>3, TreeKinds DEF At
    <3>2. At(w, q) = w[path[1]][q[2]]  BY <1>3, <2>3 DEF At
    <3>3. q = path <=> q[2] = path[2]  BY <1>1, <2>1, <2>3
    <3> QED  BY <1>3, <1>7, <2>1, <3>1, <3>2, <3>3
  <2> QED  BY <2>2, <2>3
<1>10. e[path[1]] # None  BY <1>1, <1>7, <1>8, TreeKinds
<1> QED  BY <1>3, <1>8, <1>9, <1>10

\* A whole directory that is put in place, or taken away.
LEMMA DirPut ==
    ASSUME NEW d \in Disks, NEW p \in Folders, NEW t \in Trees \cup {None},
           NEW e, e = [d EXCEPT ![p] = t]
    PROVE  /\ e \in Disks /\ e[p] = t
           /\ \A q \in Folders : q # p => e[q] = d[q]
           /\ \A q \in Files : q[1] # p => At(e, q) = At(d, q)
           /\ \A q \in Files : q[1] = p => At(e, q) = IF t = None THEN None ELSE t[q[2]]
<1>1. e \in Disks /\ \A q \in Folders : e[q] = IF q = p THEN t ELSE d[q]  BY DEF Disks
<1>2. \A q \in Files : q[1] \in Folders  BY FilePath
<1> QED  BY <1>1, <1>2 DEF At

-----------------------------------------------------------------------------
(* What the steps leave alone *)

LEMMA PurgesStay ==
    ASSUME TypeOK, PurgeTypes,
           \A i \in Active' : i \in Active,
           \A i \in Items : Known(i) => record'[i] = record[i],
           \A i \in Items : Known(i) /\ i \in binDir' => i \in binDir,
           purge' = purge
    PROVE  PurgeTypes'
<1>1. \A i \in Active : i \in Items  BY DEF Active, TypeOK
<1>2. \A i \in Active' : Known(i)'  BY <1>1 DEF PurgeTypes, Known
<1>3. \A a \in Actors : purge[a] # None => purge[a].item \in Items /\ purge[a].item \in Active
  BY DEF Active, TypeOK, Taking
<1>4. ASSUME NEW a \in Actors, purge[a] # None
      PROVE  /\ purge'[a].step = "rows" => Len(record'[purge'[a].item].path) = 1
             /\ purge'[a].step # "bytes" => purge'[a].item \notin binDir'
  <2>1. Known(purge[a].item) /\ purge[a].item \in Items  BY <1>3, <1>4 DEF PurgeTypes
  <2>2. record'[purge[a].item] = record[purge[a].item]  BY <2>1
  <2>3. purge[a].step = "rows" => Len(record[purge[a].item].path) = 1  BY <1>4 DEF PurgeTypes, IsDir
  <2>4. purge[a].step # "bytes" => purge[a].item \notin binDir  BY <1>4 DEF PurgeTypes
  <2> QED  BY <2>1, <2>2, <2>3, <2>4
<1> QED  BY <1>2, <1>4 DEF PurgeTypes, IsDir

LEMMA ActiveStays ==
    ASSUME items' \subseteq items, batch' \subseteq batch, purge' = purge
    PROVE  \A i \in Active' : i \in Active
    BY DEF Active

LEMMA ItemsStay ==
    ASSUME ItemTypes,
           \A i \in Items : Known(i)' => Known(i) /\ record'[i] = record[i],
           \A i \in Items : Known(i) => bin'[i] \in {bin[i], None}
    PROVE  ItemTypes'
<1> SUFFICES ASSUME NEW i \in Items, Known(i)'
             PROVE  /\ record'[i].path \in Files \cup {<<p>> : p \in Subfolders}
                    /\ (Len(record'[i].path) # 1 /\ bin'[i] # None) =>
                          \A n \in Names : (bin'[i][n] # None <=> n = record'[i].path[2])
  BY DEF ItemTypes, IsDir
<1>1. Known(i) /\ record'[i] = record[i] /\ bin'[i] \in {bin[i], None}  OBVIOUS
<1>2. /\ record[i].path \in Files \cup {<<p>> : p \in Subfolders}
      /\ (Len(record[i].path) # 1 /\ bin[i] # None) => \A n \in Names : (bin[i][n] # None <=> n = record[i].path[2])
  BY <1>1 DEF ItemTypes, IsDir
<1> QED  BY <1>1, <1>2

LEMMA DeletionsStay ==
    ASSUME Deletions, UNCHANGED <<clock, record>>
    PROVE  Deletions'
    BY DEF Deletions, KnownItems, Known

\* A step of a purge changes nothing a request relies on.
LEMMA RequestStays ==
    ASSUME TypeOK, RequestTypes, UNCHANGED <<disk, op, record, unused, kept>>,
           op.step # "idle" => purge'["user"] = None,
           \A r \in Rows : Live(r) => rows'[r] = rows[r],
           \A r \in Rows : rows[r] = None => rows'[r] = None,
           \A i \in Items : bin'[i] \in {bin[i], None} /\ (~Known(i) => bin'[i] = bin[i])
    PROVE  RequestTypes'
<1>1. Unrecorded # {} => Unrecorded' # {}  BY DEF Unrecorded
<1>2. \A path : (Bytes(path))' = Bytes(path)  BY DEF Bytes
<1>3. \A r \in Rows : Live(r) => Live(r)' /\ rows'[r].path = rows[r].path  BY DEF Live
<1>4. op.item \in Items =>
        /\ ~Known(op.item) => bin'[op.item] = bin[op.item]
        /\ bin[op.item] = None => bin'[op.item] = None
  OBVIOUS
<1>5. op.step = "record file" => (op.path \in Files /\ Bytes(op.path) \in Contents \ (unused \cup kept)
                                  /\ (op.row = None => Unrecorded # {}))'
  BY <1>1, <1>2 DEF RequestTypes, Bytes
<1>6. op.step \in {"record item", "drop row"} =>
        (/\ op.path \in Files /\ op.item \in Items /\ op.row \in Rows
         /\ Live(op.row) /\ rows[op.row].path = op.path /\ Bytes(op.path) = None)'
  BY <1>3 DEF RequestTypes, Bytes, Live
<1>7. op.step \in {"record item", "hide"} => (~Known(op.item) /\ bin[op.item] # None)'
  <2>1. op.step \in {"record item", "hide"} => op.item \in Items  BY DEF RequestTypes
  <2> QED  BY <1>4, <2>1 DEF RequestTypes, Known
<1>8. op.step = "record item" => (\A n \in Names : (bin[op.item][n] # None <=> n = op.path[2]))'
  BY <1>4 DEF RequestTypes
<1>9. op.step = "hide" => (op.item \in Items /\ op.path \in {<<p>> : p \in Subfolders} /\ disk[op.path[1]] = None)'
  BY DEF RequestTypes
<1>10. op.step = "update row" =>
         (/\ op.row \in Rows /\ Live(op.row) /\ rows[op.row].path = op.from
          /\ op.path \in Files /\ op.from \in Files /\ op.path # op.from
          /\ Bytes(op.from) = None /\ Bytes(op.path) # None)'
  BY <1>3 DEF RequestTypes, Bytes, Live
<1>11. op.step \in {"restored", "unhide", "drop item"} =>
         (/\ op.item \in Items /\ Known(op.item) /\ op.path = record[op.item].path /\ bin[op.item] = None
          /\ op.step = "restored" => ~IsDir(op.item) /\ Bytes(op.path) # None /\ Unrecorded # {}
          /\ op.step = "unhide" => IsDir(op.item) /\ disk[op.path[1]] # None)'
  BY <1>1, <1>4 DEF RequestTypes, Bytes, Known, IsDir
<1>12. (op.step # "idle" => purge["user"] = None)' /\ (op.step = "idle" => op = Idle)'
       /\ (op.step \in {"mkdir", "record dir"} => op.path \in {<<p>> : p \in Subfolders})'
  BY DEF RequestTypes
<1> QED  BY <1>5, <1>6, <1>7, <1>8, <1>9, <1>10, <1>11, <1>12 DEF RequestTypes

LEMMA RequestEnds ==
    ASSUME op' = Idle
    PROVE  RequestTypes'
    BY DEF RequestTypes, Idle

-----------------------------------------------------------------------------
(* Requests and bytes *)

LEMMA RequestsInit ==
    ASSUME Init
    PROVE  RequestInv
<1>1. TypeOK
  <2>1. disk \in [Folders -> Trees \cup {None}] /\ disk[Root] # None
    BY TreeKinds, DriveAssumption DEF Init
  <2>2. Cardinality(Items) \in Nat  BY DriveAssumption, FS_CardinalityType
  <2>3. clock \in Times  BY <2>2 DEF Init, Times
  <2>4. op = Idle /\ Idle \in [step : Steps, path : Paths \cup {None}, item : Items \cup {None},
                               row : Rows \cup {None}, from : Paths \cup {None}]
    BY DEF Init, Idle, Steps
  <2> QED  BY <2>1, <2>3, <2>4, DriveAssumption DEF Init, TypeOK
<1>2. PurgeTypes /\ ItemTypes  BY DEF Init, PurgeTypes, ItemTypes, Active, Known
<1>3. Deletions
  <2>1. IsFiniteSet(KnownItems)  BY DriveAssumption, FS_Subset DEF KnownItems
  <2>2. Cardinality(KnownItems) \in Nat  BY <2>1, FS_CardinalityType
  <2> QED  BY <2>2 DEF Init, Deletions
<1>4. RequestTypes  BY DEF Init, RequestTypes, Idle
<1> QED  BY <1>1, <1>2, <1>3, <1>4 DEF RequestInv, Init

\* A row that is added.
LEMMA RowAdded ==
    ASSUME TypeOK, NEW path \in Paths, AddRow(path)
    PROVE  /\ rows' \in [Rows -> Row \cup {None}]
           /\ \E r \in Rows : \E n \in Row :
                 /\ rows[r] = None /\ n.path = path /\ n.hidden = 0 /\ n # None
                 /\ \A s \in Rows : rows'[s] = IF s = r THEN n ELSE rows[s]
<1>1. PICK r \in Unrecorded : rows' = [rows EXCEPT ![r] = [path |-> path, hidden |-> 0]]
  BY DEF AddRow
<1>2. PICK n : n = [path |-> path, hidden |-> 0]  OBVIOUS
<1>3. 0 \in Times
  <2>1. Cardinality(Items) \in Nat  BY DriveAssumption, FS_CardinalityType
  <2> QED  BY <2>1 DEF Times
<1>4. n \in Row /\ n # None /\ n.path = path /\ n.hidden = 0  BY <1>2, <1>3, NoneAssumption DEF Row
<1>5. r \in Rows /\ rows[r] = None  BY DEF Unrecorded
<1>6. rows' = [rows EXCEPT ![r] = n]  BY <1>1, <1>2
<1>7. rows' \in [Rows -> Row \cup {None}] /\ \A s \in Rows : rows'[s] = IF s = r THEN n ELSE rows[s]
  BY <1>4, <1>5, <1>6 DEF TypeOK
<1> QED  BY <1>4, <1>5, <1>7

LEMMA RowTypes ==
    ASSUME TypeOK, NEW r \in Rows, rows[r] # None
    PROVE  rows[r] \in Row /\ rows[r].path \in Paths /\ rows[r].hidden \in Times
    BY DEF TypeOK, Row

LEMMA ItemPaths ==
    ASSUME TypeOK, ItemTypes, NEW i \in Items, Known(i)
    PROVE  /\ record[i] \in Record /\ record[i].created \in Times /\ record[i].path \in Paths
           /\ record[i].path[1] \in Folders
           /\ IsDir(i) => record[i].path = <<record[i].path[1]>> /\ record[i].path[1] \in Subfolders
           /\ ~IsDir(i) => record[i].path \in Files
<1>1. record[i] \in Record /\ record[i].created \in Times /\ record[i].path \in Paths  BY DEF TypeOK, Record, Known
<1>2. record[i].path \in Files \cup {<<p>> : p \in Subfolders}  BY DEF ItemTypes
<1>3. CASE record[i].path \in Files
  <2>1. Len(record[i].path) = 2 /\ record[i].path[1] \in Folders  BY <1>3, FilePath
  <2> QED  BY <1>1, <1>3, <2>1 DEF IsDir
<1>4. CASE record[i].path \in {<<p>> : p \in Subfolders}
  <2>1. PICK p \in Subfolders : record[i].path = <<p>>  BY <1>4
  <2>2. p \in Folders  BY DEF Subfolders
  <2> QED  BY <1>1, <2>1, <2>2, FolderPath DEF IsDir
<1> QED  BY <1>2, <1>3, <1>4

LEMMA CreateDirRequest ==
    ASSUME RequestInv, NEW p \in Folders, CreateDir(p)
    PROVE  RequestInv'
<1>1. TypeOK /\ PurgeTypes /\ ItemTypes /\ Deletions /\ RequestTypes  BY DEF RequestInv
<1>2. <<p>> \in Paths /\ p \in Subfolders  BY FolderPath DEF CreateDir, IsSubfolder, Subfolders
<1>3. rows' \in [Rows -> Row \cup {None}]  BY <1>1, <1>2, RowAdded DEF CreateDir
<1>4. op' = [step |-> "mkdir", path |-> <<p>>, item |-> None, row |-> None, from |-> None]
  BY DEF CreateDir, Begin
<1>5. UNCHANGED <<disk, bin, binDir, items, record, clock, purge, batch, unused, kept, damage, was>> /\ purge["user"] = None
  BY DEF CreateDir, UserIdle
<1>6. TypeOK'  BY <1>1, <1>2, <1>3, <1>4, <1>5 DEF TypeOK, Steps
<1>7. PurgeTypes'  BY <1>1, <1>5, PurgesStay, ActiveStays
<1>8. ItemTypes'  BY <1>1, <1>5, ItemsStay DEF Known
<1>9. RequestTypes'  BY <1>2, <1>4, <1>5 DEF RequestTypes
<1> QED  BY <1>1, <1>5, <1>6, <1>7, <1>8, <1>9, DeletionsStay DEF RequestInv

LEMMA MakeDirRequest ==
    ASSUME RequestInv, MakeDir
    PROVE  RequestInv'
<1>1. TypeOK /\ PurgeTypes /\ ItemTypes /\ Deletions /\ RequestTypes  BY DEF RequestInv
<1>2. op.path \in {<<p>> : p \in Subfolders}  BY <1>1 DEF MakeDir, RequestTypes
<1>3. PICK p : p = op.path[1]  OBVIOUS
<1>4. p \in Folders  BY <1>2, <1>3, FolderPath DEF Subfolders
<1>5. disk' \in Disks /\ disk'[p] # None /\ \A q \in Folders : q # p => disk'[q] = disk[q]
  <2>1. disk' = WithDir(disk, p)  BY <1>3 DEF MakeDir
  <2>2. disk \in Disks  BY <1>1 DEF TypeOK, Disks
  <2> QED  BY <1>4, <2>1, <2>2, DirMade
<1>6. disk' \in Disks /\ disk'[Root] # None  BY <1>1, <1>5, DriveAssumption DEF TypeOK
<1>7. op' = [op EXCEPT !.step = "record dir"]  BY DEF MakeDir, Goto
<1>8. op'.step = "record dir" /\ op'.path = op.path  BY <1>1, <1>7 DEF TypeOK
<1>9. UNCHANGED <<bin, binDir, rows, items, record, clock, purge, batch, unused, kept, damage, was>>  BY DEF MakeDir
<1>10. TypeOK'  BY <1>1, <1>6, <1>7, <1>9 DEF TypeOK, Steps, Disks
<1>11. PurgeTypes'  BY <1>1, <1>9, PurgesStay, ActiveStays
<1>12. ItemTypes'  BY <1>1, <1>9, ItemsStay DEF Known
<1>13. RequestTypes'  BY <1>1, <1>2, <1>8, <1>9 DEF RequestTypes, MakeDir
<1> QED  BY <1>1, <1>9, <1>10, <1>11, <1>12, <1>13, DeletionsStay DEF RequestInv

LEMMA IdleTyped ==
    Idle \in [step : Steps, path : Paths \cup {None}, item : Items \cup {None},
              row : Rows \cup {None}, from : Paths \cup {None}]
    BY DEF Idle, Steps

LEMMA RecordDirRequest ==
    ASSUME RequestInv, RecordDir
    PROVE  RequestInv'
<1>1. TypeOK /\ PurgeTypes /\ ItemTypes /\ Deletions /\ RequestTypes  BY DEF RequestInv
<1>2. PICK p \in Subfolders : op.path = <<p>>  BY <1>1 DEF RecordDir, RequestTypes
<1>3. p \in Folders /\ p # Root /\ op.path \in Paths /\ op.path[1] = p  BY <1>2, FolderPath DEF Subfolders
<1>4. UNCHANGED <<bin, binDir, items, record, clock, purge, batch, unused, kept, damage, was>> /\ op' = Idle
  BY DEF RecordDir, Done
<1>5. rows' \in [Rows -> Row \cup {None}] /\ disk' \in Disks /\ disk'[Root] # None
  <2>1. CASE AddRow(op.path) /\ UNCHANGED disk  BY <1>1, <1>3, <2>1, RowAdded DEF TypeOK, Disks
  <2>2. CASE disk' = [disk EXCEPT ![op.path[1]] = None] /\ UNCHANGED rows
    BY <1>1, <1>3, <2>2, DriveAssumption DEF TypeOK, Disks
  <2> QED  BY <2>1, <2>2 DEF RecordDir
<1>6. TypeOK'  BY <1>1, <1>4, <1>5, IdleTyped DEF TypeOK, Disks
<1>7. PurgeTypes'  BY <1>1, <1>4, PurgesStay, ActiveStays
<1>8. ItemTypes'  BY <1>1, <1>4, ItemsStay DEF Known
<1> QED  BY <1>1, <1>4, <1>6, <1>7, <1>8, DeletionsStay, RequestEnds DEF RequestInv

LEMMA UploadRequest ==
    ASSUME RequestInv, NEW path \in Files, NEW c \in Contents, Upload(path, c)
    PROVE  RequestInv'
<1>1. TypeOK /\ PurgeTypes /\ ItemTypes /\ Deletions /\ RequestTypes /\ kept \cap unused = {}  BY DEF RequestInv
<1>2. UNCHANGED <<bin, binDir, rows, items, record, clock, purge, batch, kept, damage, was>> /\ purge["user"] = None
  BY DEF Upload, UserIdle
<1>3. path \in Paths /\ path[1] \in Folders  BY FilePath
<1>4. /\ disk' \in Disks /\ disk'[path[1]] # None
      /\ \A p \in Folders : p # path[1] => disk'[p] = disk[p]
      /\ At(disk', path) = c
  <2>1. disk' = Put(disk, path, c)  BY DEF Upload
  <2>2. disk \in Disks  BY <1>1 DEF TypeOK, Disks
  <2> QED  BY <2>1, <2>2, BytesPut
<1>5. disk'[Root] # None  BY <1>1, <1>4, DriveAssumption DEF TypeOK
<1>6. PICK r \in RowFor(path) : op' = [step |-> "record file", path |-> path, item |-> None, row |-> r, from |-> None]
  BY DEF Upload, Begin
<1>7. r \in Rows \cup {None}  BY DEF RowFor, LiveAt
<1>8. TypeOK'  BY <1>1, <1>2, <1>3, <1>4, <1>5, <1>6, <1>7 DEF TypeOK, Steps, Disks, Upload
<1>9. PurgeTypes'  BY <1>1, <1>2, PurgesStay, ActiveStays
<1>10. ItemTypes'  BY <1>1, <1>2, ItemsStay DEF Known
<1>11. RequestTypes'
  <2>1. c \in Contents \ (unused' \cup kept')  BY <1>1, <1>2 DEF Upload
  <2>2. Unrecorded' # {}  BY <1>2 DEF Upload, Unrecorded
  <2> QED  BY <1>2, <1>4, <1>6, <2>1, <2>2, BytesAt DEF RequestTypes, Bytes, At
<1>12. kept' \cap unused' = {}  BY <1>1, <1>2 DEF Upload
<1> QED  BY <1>1, <1>2, <1>8, <1>9, <1>10, <1>11, <1>12, DeletionsStay DEF RequestInv

LEMMA RecordFileRequest ==
    ASSUME RequestInv, RecordFile
    PROVE  RequestInv'
<1>1. TypeOK /\ PurgeTypes /\ ItemTypes /\ Deletions /\ RequestTypes /\ kept \cap unused = {}  BY DEF RequestInv
<1>2. UNCHANGED <<bin, binDir, items, record, clock, purge, batch, unused, damage, was>> /\ op' = Idle
  BY DEF RecordFile, Done
<1>3. op.path \in Files /\ Bytes(op.path) \in Contents \ (unused \cup kept)  BY <1>1 DEF RequestTypes, RecordFile
<1>4. op.path \in Paths /\ op.path[1] \in Folders  BY <1>3, FilePath
<1>5. rows' \in [Rows -> Row \cup {None}] /\ disk' \in Disks /\ disk'[Root] # None
      /\ kept' \subseteq kept \cup {Bytes(op.path)}
  <2>1. CASE (IF op.row # None THEN UNCHANGED rows ELSE AddRow(op.path)) /\ kept' = kept \cup {Bytes(op.path)} /\ UNCHANGED disk
    BY <1>1, <1>4, <2>1, RowAdded DEF TypeOK, Disks
  <2>2. CASE UNCHANGED <<rows, kept, disk>>  BY <1>1, <2>2 DEF TypeOK, Disks
  <2>3. CASE disk' = Put(disk, op.path, None) /\ UNCHANGED <<rows, kept>>
    <3>1. disk' \in Disks /\ disk'[op.path[1]] # None /\ \A p \in Folders : p # op.path[1] => disk'[p] = disk[p]
      BY <1>1, <1>3, <2>3, BytesPut DEF TypeOK, Disks
    <3> QED  BY <1>1, <2>3, <3>1, DriveAssumption DEF TypeOK
  <2> QED  BY <2>1, <2>2, <2>3 DEF RecordFile
<1>6. kept' \in SUBSET Contents /\ kept' \cap unused' = {}  BY <1>1, <1>2, <1>3, <1>5 DEF TypeOK
<1>7. TypeOK'  BY <1>1, <1>2, <1>5, <1>6, IdleTyped DEF TypeOK, Disks
<1>8. PurgeTypes'  BY <1>1, <1>2, PurgesStay, ActiveStays
<1>9. ItemTypes'  BY <1>1, <1>2, ItemsStay DEF Known
<1> QED  BY <1>1, <1>2, <1>6, <1>7, <1>8, <1>9, DeletionsStay, RequestEnds DEF RequestInv

LEMMA MoveRequest ==
    ASSUME RequestInv, NEW r \in Rows, NEW p \in Folders, Move(r, p)
    PROVE  RequestInv'
<1>1. TypeOK /\ PurgeTypes /\ ItemTypes /\ Deletions /\ RequestTypes /\ kept \cap unused = {}  BY DEF RequestInv
<1>2. PICK src : src = rows[r].path  OBVIOUS
<1>3. PICK dst : dst = <<p, src[2]>>  OBVIOUS
<1>4. /\ Live(r) /\ Len(src) = 2 /\ dst # src /\ Bytes(dst) = None /\ Bytes(src) # None
      /\ disk' = Put(Put(disk, dst, Bytes(src)), src, None)
      /\ op' = [step |-> "update row", path |-> dst, item |-> None, row |-> r, from |-> src]
      /\ UNCHANGED <<bin, binDir, rows, items, record, clock, purge, batch, unused, kept, damage, was>> /\ purge["user"] = None
  BY <1>2, <1>3 DEF Move, Begin, UserIdle
<1>5. src \in Files  BY <1>1, <1>2, <1>4, RowTypes, PathKinds DEF Live
<1>6. dst \in Files  BY <1>3, <1>5, FilePath, FileAt
<1>7. src \in Paths /\ dst \in Paths /\ src[1] \in Folders /\ dst[1] \in Folders  BY <1>5, <1>6, FilePath
<1>8. disk \in Disks  BY <1>1 DEF TypeOK, Disks
<1>9. PICK mid : mid = Put(disk, dst, Bytes(src))  OBVIOUS
<1>10. Bytes(src) \in Contents \cup {None}  BY <1>5, <1>8, AtType, BytesAt
<1>11. /\ mid \in Disks /\ mid[dst[1]] # None /\ \A q \in Folders : q # dst[1] => mid[q] = disk[q]
       /\ \A q \in Files : At(mid, q) = IF q = dst THEN Bytes(src) ELSE At(disk, q)
  BY <1>6, <1>8, <1>9, <1>10, BytesPut
<1>12. disk' = Put(mid, src, None)  BY <1>4, <1>9
<1>13. /\ disk' \in Disks /\ disk'[src[1]] # None /\ \A q \in Folders : q # src[1] => disk'[q] = mid[q]
       /\ \A q \in Files : At(disk', q) = IF q = src THEN None ELSE At(mid, q)
  BY <1>5, <1>11, <1>12, BytesPut
<1>14. disk'[Root] # None  BY <1>1, <1>7, <1>11, <1>13, DriveAssumption DEF TypeOK
<1>15. TypeOK'  BY <1>1, <1>4, <1>7, <1>13, <1>14 DEF TypeOK, Steps, Disks
<1>16. PurgeTypes'  BY <1>1, <1>4, PurgesStay, ActiveStays
<1>17. ItemTypes'  BY <1>1, <1>4, ItemsStay DEF Known
<1>18. RequestTypes'
  <2>1. At(disk', src) = None /\ At(disk', dst) # None  BY <1>4, <1>5, <1>6, <1>11, <1>13
  <2> QED  BY <1>2, <1>4, <1>5, <1>6, <2>1 DEF RequestTypes, Bytes, At, Live
<1> QED  BY <1>1, <1>4, <1>15, <1>16, <1>17, <1>18, DeletionsStay DEF RequestInv

LEMMA MoveFailsRequest ==
    ASSUME RequestInv, NEW r \in Rows, NEW p \in Folders, MoveFails(r, p)
    PROVE  RequestInv'
<1>1. TypeOK /\ PurgeTypes /\ ItemTypes /\ Deletions /\ RequestTypes  BY DEF RequestInv
<1>2. UNCHANGED <<bin, binDir, rows, items, record, clock, op, purge, batch, unused, kept, damage, was>> /\ op = Idle
  BY DEF MoveFails, UserIdle
<1>3. disk' \in Disks /\ disk'[p] # None /\ \A q \in Folders : q # p => disk'[q] = disk[q]
  BY <1>1, DirMade DEF MoveFails, TypeOK, Disks
<1>4. TypeOK'  BY <1>1, <1>2, <1>3, DriveAssumption DEF TypeOK, Disks
<1>5. PurgeTypes'  BY <1>1, <1>2, PurgesStay, ActiveStays
<1>6. ItemTypes'  BY <1>1, <1>2, ItemsStay DEF Known
<1> QED  BY <1>1, <1>2, <1>4, <1>5, <1>6, DeletionsStay, RequestEnds DEF RequestInv

LEMMA UpdateRowRequest ==
    ASSUME RequestInv, UpdateRow
    PROVE  RequestInv'
<1>1. TypeOK /\ PurgeTypes /\ ItemTypes /\ Deletions /\ RequestTypes  BY DEF RequestInv
<1>2. UNCHANGED <<bin, binDir, items, record, clock, purge, batch, unused, kept, damage, was>> /\ op' = Idle
  BY DEF UpdateRow, Done
<1>3. op.row \in Rows /\ Live(op.row) /\ op.path \in Files /\ op.from \in Files  BY <1>1 DEF RequestTypes, UpdateRow
<1>4. op.path \in Paths /\ op.path[1] \in Folders /\ op.from[1] \in Folders  BY <1>3, FilePath
<1>5. rows' \in [Rows -> Row \cup {None}] /\ disk' \in Disks /\ disk'[Root] # None
  <2>1. CASE rows' = [rows EXCEPT ![op.row].path = op.path] /\ UNCHANGED disk
    <3>1. rows[op.row] \in Row  BY <1>1, <1>3, RowTypes DEF Live
    <3>2. [rows[op.row] EXCEPT !.path = op.path] \in Row  BY <1>4, <3>1 DEF Row
    <3> QED  BY <1>1, <1>3, <2>1, <3>2 DEF TypeOK, Disks
  <2>2. CASE disk' = Put(Put(disk, op.from, Bytes(op.path)), op.path, None) /\ UNCHANGED rows
    <3>1. disk \in Disks  BY <1>1 DEF TypeOK, Disks
    <3>2. Bytes(op.path) \in Contents \cup {None}  BY <1>3, <3>1, AtType, BytesAt
    <3>3. PICK mid : mid = Put(disk, op.from, Bytes(op.path))  OBVIOUS
    <3>4. mid \in Disks /\ mid[op.from[1]] # None /\ \A q \in Folders : q # op.from[1] => mid[q] = disk[q]
      BY <1>3, <3>1, <3>2, <3>3, BytesPut
    <3>5. disk' = Put(mid, op.path, None)  BY <2>2, <3>3
    <3>6. disk' \in Disks /\ disk'[op.path[1]] # None /\ \A q \in Folders : q # op.path[1] => disk'[q] = mid[q]
      BY <1>3, <3>4, <3>5, BytesPut
    <3> QED  BY <1>1, <1>4, <2>2, <3>4, <3>6, DriveAssumption DEF TypeOK
  <2> QED  BY <2>1, <2>2 DEF UpdateRow
<1>6. TypeOK'  BY <1>1, <1>2, <1>5, IdleTyped DEF TypeOK, Disks
<1>7. PurgeTypes'  BY <1>1, <1>2, PurgesStay, ActiveStays
<1>8. ItemTypes'  BY <1>1, <1>2, ItemsStay DEF Known
<1> QED  BY <1>1, <1>2, <1>6, <1>7, <1>8, DeletionsStay, RequestEnds DEF RequestInv

\* An item nobody has recorded is in no list and no purge.
LEMMA UnknownIsIdle ==
    ASSUME TypeOK, PurgeTypes, NEW i \in Items, ~Known(i)
    PROVE  i \notin Active /\ i \notin items /\ i \notin batch /\ \A a \in Actors : purge[a] # None => purge[a].item # i
    BY DEF PurgeTypes, Active

LEMMA DeleteFileRequest ==
    ASSUME RequestInv, NEW r \in Rows, DeleteFile(r)
    PROVE  RequestInv'
<1>1. TypeOK /\ PurgeTypes /\ ItemTypes /\ Deletions /\ RequestTypes /\ kept \cap unused = {}  BY DEF RequestInv
<1>2. PICK path : path = rows[r].path  OBVIOUS
<1>3. PICK c : c = Bytes(path)  OBVIOUS
<1>4. PICK i \in Free :
         /\ bin' = [bin EXCEPT ![i] = Only(path[2], c)]
         /\ binDir' = binDir \cup {i}
         /\ was' = [was EXCEPT ![i] = {<<path[2], c>>}]
         /\ op' = [step |-> "record item", path |-> path, item |-> i, row |-> r, from |-> None]
  BY <1>2, <1>3 DEF DeleteFile, Begin
<1>5. /\ Live(r) /\ Len(path) = 2 /\ c # None /\ disk' = Put(disk, path, None) /\ purge["user"] = None
      /\ UNCHANGED <<rows, items, record, clock, purge, batch, unused, kept, damage>>
  BY <1>2, <1>3 DEF DeleteFile, UserIdle
<1>6. path \in Files  BY <1>1, <1>2, <1>5, RowTypes, PathKinds DEF Live
<1>7. path \in Paths /\ path[1] \in Folders /\ path[2] \in Names  BY <1>6, FilePath
<1>8. disk \in Disks  BY <1>1 DEF TypeOK, Disks
<1>9. c \in Contents  BY <1>3, <1>5, <1>6, <1>8, AtType, BytesAt
<1>10. /\ disk' \in Disks /\ disk'[path[1]] # None /\ \A q \in Folders : q # path[1] => disk'[q] = disk[q]
       /\ At(disk', path) = None
  BY <1>5, <1>6, <1>8, BytesPut
<1>11. i \in Items /\ ~Known(i) /\ i \notin binDir  BY DEF Free, Known
<1>12. Only(path[2], c) \in Trees /\ Only(path[2], c) # None
       /\ \A n \in Names : (Only(path[2], c)[n] # None <=> n = path[2])
  BY <1>5, <1>7, <1>9, TreeKinds
<1>13. \A k \in Items : bin'[k] = IF k = i THEN Only(path[2], c) ELSE bin[k]  BY <1>1, <1>4 DEF TypeOK
<1>14. TypeOK'
  <2>1. bin' \in [Items -> Trees \cup {None}] /\ \A k \in Items : bin'[k] # None => k \in binDir'
    BY <1>1, <1>4, <1>12, <1>13 DEF TypeOK
  <2>2. was' \in [Items -> SUBSET (Names \X (Contents \cup {None}))]
    <3>1. {<<path[2], c>>} \in SUBSET (Names \X (Contents \cup {None}))  BY <1>7, <1>9
    <3> QED  BY <1>1, <1>4, <3>1 DEF TypeOK
  <2>3. disk'[Root] # None  BY <1>1, <1>10, DriveAssumption DEF TypeOK
  <2> QED  BY <1>1, <1>4, <1>5, <1>7, <1>10, <1>11, <2>1, <2>2, <2>3 DEF TypeOK, Steps, Disks
<1>15. PurgeTypes'
  <2>1. \A k \in Items : Known(k) /\ k \in binDir' => k \in binDir  BY <1>4, <1>11
  <2> QED  BY <1>1, <1>5, <2>1, PurgesStay, ActiveStays
<1>16. ItemTypes'  BY <1>1, <1>5, <1>11, <1>13, ItemsStay DEF Known
<1>17. RequestTypes'
  <2>1. op'.step = "record item" /\ op'.path = path /\ op'.item = i /\ op'.row = r  BY <1>4
  <2>2. (Bytes(path))' = None /\ Live(r)' /\ rows'[r].path = path  BY <1>2, <1>5, <1>10, BytesAt DEF Live
  <2>3. ~Known(i)' /\ bin'[i] # None /\ \A n \in Names : (bin'[i][n] # None <=> n = path[2])
    BY <1>5, <1>11, <1>12, <1>13 DEF Known
  <2> QED  BY <1>5, <1>6, <1>11, <2>1, <2>2, <2>3 DEF RequestTypes, Bytes, Live, Known
<1> QED  BY <1>1, <1>5, <1>14, <1>15, <1>16, <1>17, DeletionsStay DEF RequestInv

\* An item that is recorded.
LEMMA ItemRecorded ==
    ASSUME TypeOK, PurgeTypes, Deletions, NEW i \in Items, ~Known(i),
           NEW path \in Paths, NEW t \in Times,
           items' = items \cup {i}, record' = [record EXCEPT ![i] = [path |-> path, created |-> t]],
           UNCHANGED <<purge, batch, binDir>>, clock' \in {clock, clock + 1}
    PROVE  /\ record' \in [Items -> Record \cup {None}] /\ items' \in SUBSET Items
           /\ record'[i].path = path /\ record'[i].created = t
           /\ \A k \in Items : k # i => record'[k] = record[k]
           /\ \A k \in Items : Known(k)' <=> Known(k) \/ k = i
           /\ clock' \in Times
           /\ Deletions' /\ PurgeTypes'
<1>1. [path |-> path, created |-> t] \in Record  BY DEF Record
<1>2. PICK n : n = [path |-> path, created |-> t]  OBVIOUS
<1>3. n \in Record /\ n # None /\ n.path = path /\ n.created = t  BY <1>1, <1>2, NoneAssumption
<1>4. record' = [record EXCEPT ![i] = n]  BY <1>2
<1>5. \A k \in Items : record'[k] = IF k = i THEN n ELSE record[k]  BY <1>4 DEF TypeOK
<1>6. record' \in [Items -> Record \cup {None}]  BY <1>3, <1>4 DEF TypeOK
<1>7. \A k \in Items : Known(k)' <=> Known(k) \/ k = i  BY <1>3, <1>5 DEF Known
<1>8. KnownItems' = KnownItems \cup {i} /\ i \notin KnownItems  BY <1>7 DEF KnownItems
<1>9. IsFiniteSet(Items) /\ IsFiniteSet(KnownItems) /\ KnownItems \cup {i} \subseteq Items
  BY DriveAssumption, FS_Subset DEF KnownItems
<1>10. Cardinality(KnownItems') = Cardinality(KnownItems) + 1  BY <1>8, <1>9, FS_AddElement
<1>11. /\ Cardinality(KnownItems') <= Cardinality(Items)
       /\ Cardinality(Items) \in Nat /\ Cardinality(KnownItems) \in Nat
  BY <1>8, <1>9, FS_Subset, FS_CardinalityType
<1>12. clock \in Nat /\ clock <= Cardinality(KnownItems)  BY <1>11 DEF Deletions, TypeOK, Times
<1>13. clock' \in Nat /\ clock' <= Cardinality(KnownItems')  BY <1>10, <1>11, <1>12
<1>14. clock' \in Times  BY <1>10, <1>11, <1>13 DEF Times
<1>15. Deletions'  BY <1>13 DEF Deletions
<1>16. PurgeTypes'
  <2>1. \A k \in Active' : Known(k)'
    <3>1. \A k \in Active' : k \in Items /\ (k \in Active \/ k = i)  BY DEF Active, TypeOK
    <3> QED  BY <1>7, <3>1 DEF PurgeTypes
  <2>2. \A a \in Actors : purge[a] # None =>
           /\ purge[a].item \in Items /\ purge[a].item # i
           /\ purge[a].step = "rows" => IsDir(purge[a].item)
           /\ purge[a].step # "bytes" => purge[a].item \notin binDir
    BY UnknownIsIdle DEF PurgeTypes, TypeOK, Taking
  <2>3. \A a \in Actors : purge[a] # None => record'[purge[a].item] = record[purge[a].item]  BY <1>5, <2>2
  <2> QED  BY <2>1, <2>2, <2>3 DEF PurgeTypes, IsDir
<1> QED  BY <1>3, <1>5, <1>6, <1>7, <1>14, <1>15, <1>16 DEF TypeOK

LEMMA RecordItemRequest ==
    ASSUME RequestInv, RecordItem
    PROVE  RequestInv'
<1>1. TypeOK /\ PurgeTypes /\ ItemTypes /\ Deletions /\ RequestTypes /\ kept \cap unused = {}  BY DEF RequestInv
<1>2. op.step = "record item" /\ UNCHANGED <<binDir, rows, clock, purge, batch, unused, kept, damage, was>>
  BY DEF RecordItem
<1>3. PICK i, path : i = op.item /\ path = op.path  OBVIOUS
<1>4. /\ i \in Items /\ ~Known(i) /\ bin[i] # None /\ op.row \in Rows /\ Live(op.row) /\ rows[op.row].path = path
      /\ path \in Files /\ Bytes(path) = None /\ purge["user"] = None
      /\ \A n \in Names : (bin[i][n] # None <=> n = path[2])
  BY <1>1, <1>2, <1>3 DEF RequestTypes
<1>5. path \in Paths /\ path[1] \in Folders /\ path[2] \in Names /\ Len(path) = 2  BY <1>4, FilePath
<1>6. CASE /\ items' = items \cup {i} /\ record' = [record EXCEPT ![i] = [path |-> path, created |-> clock]]
           /\ op' = [op EXCEPT !.step = "drop row"] /\ UNCHANGED <<disk, bin>>
  <2>1. clock \in Times  BY <1>1 DEF TypeOK
  <2>2. /\ record' \in [Items -> Record \cup {None}] /\ items' \in SUBSET Items
        /\ record'[i].path = path
        /\ \A k \in Items : k # i => record'[k] = record[k]
        /\ \A k \in Items : Known(k)' <=> Known(k) \/ k = i
        /\ Deletions' /\ PurgeTypes'
    BY <1>1, <1>2, <1>4, <1>5, <1>6, <2>1, ItemRecorded
  <2>3. op'.step = "drop row" /\ op'.path = path /\ op'.item = i /\ op'.row = op.row  BY <1>1, <1>3, <1>6 DEF TypeOK
  <2>4. TypeOK'  BY <1>1, <1>2, <1>6, <2>2 DEF TypeOK, Steps
  <2>5. ItemTypes'
    <3> SUFFICES ASSUME NEW k \in Items, Known(k)'
                 PROVE  /\ record'[k].path \in Files \cup {<<p>> : p \in Subfolders}
                        /\ (Len(record'[k].path) # 1 /\ bin'[k] # None) =>
                              \A n \in Names : (bin'[k][n] # None <=> n = record'[k].path[2])
      BY DEF ItemTypes, IsDir
    <3>1. CASE k = i  BY <1>4, <1>5, <1>6, <2>2, <3>1
    <3>2. CASE k # i  BY <1>1, <1>6, <2>2, <3>2 DEF ItemTypes, IsDir
    <3> QED  BY <3>1, <3>2
  <2>6. RequestTypes'  BY <1>2, <1>4, <1>6, <2>3 DEF RequestTypes, Bytes, Live
  <2> QED  BY <1>1, <1>2, <2>2, <2>4, <2>5, <2>6 DEF RequestInv
<1>7. CASE /\ disk' = BackFromBin(disk, path, i) /\ bin' = [bin EXCEPT ![i] = None]
           /\ op' = Idle /\ UNCHANGED <<items, record>>
  <2>1. bin[i][path[2]] \in Contents \cup {None}  BY <1>1, <1>4, <1>5, TreeKinds DEF TypeOK
  <2>2. disk' \in Disks /\ disk'[path[1]] # None /\ \A p \in Folders : p # path[1] => disk'[p] = disk[p]
    <3>1. disk \in Disks  BY <1>1 DEF TypeOK, Disks
    <3> QED  BY <1>4, <1>7, <2>1, <3>1, BytesPut DEF BackFromBin
  <2>3. TypeOK'  BY <1>1, <1>2, <1>7, <2>2, IdleTyped, DriveAssumption DEF TypeOK, Disks
  <2>4. PurgeTypes'  BY <1>1, <1>2, <1>7, PurgesStay, ActiveStays
  <2>5. ItemTypes'
    <3>1. \A k \in Items : bin'[k] \in {bin[k], None}  BY <1>1, <1>7 DEF TypeOK
    <3> QED  BY <1>1, <1>7, <3>1, ItemsStay DEF Known
  <2> QED  BY <1>1, <1>2, <1>7, <2>3, <2>4, <2>5, DeletionsStay, RequestEnds DEF RequestInv
<1> QED  BY <1>3, <1>6, <1>7 DEF RecordItem, Goto, Done

LEMMA DropRowRequest ==
    ASSUME RequestInv, DropRow
    PROVE  RequestInv'
<1>1. TypeOK /\ PurgeTypes /\ ItemTypes /\ Deletions /\ RequestTypes /\ kept \cap unused = {}  BY DEF RequestInv
<1>2. UNCHANGED <<disk, bin, binDir, items, record, clock, purge, batch, unused, kept, was>> /\ op' = Idle
  BY DEF DropRow, Done
<1>3. rows' \in [Rows -> Row \cup {None}]  BY <1>1 DEF DropRow, TypeOK
<1>4. damage' \in 0..MaxDamage
  <2>1. damage \in 0..MaxDamage  BY <1>1 DEF TypeOK
  <2>2. damage' = damage \/ (damage < MaxDamage /\ damage' = damage + 1)  BY DEF DropRow, Damage
  <2> QED  BY <2>1, <2>2, DriveAssumption
<1>5. TypeOK'  BY <1>1, <1>2, <1>3, <1>4, IdleTyped DEF TypeOK
<1>6. PurgeTypes'  BY <1>1, <1>2, PurgesStay, ActiveStays
<1>7. ItemTypes'  BY <1>1, <1>2, ItemsStay DEF Known
<1> QED  BY <1>1, <1>2, <1>5, <1>6, <1>7, DeletionsStay, RequestEnds DEF RequestInv

LEMMA DeleteDirRequest ==
    ASSUME RequestInv, NEW p \in Folders, DeleteDir(p)
    PROVE  RequestInv'
<1>1. TypeOK /\ PurgeTypes /\ ItemTypes /\ Deletions /\ RequestTypes /\ kept \cap unused = {}  BY DEF RequestInv
<1>2. PICK i \in Free :
         /\ bin' = [bin EXCEPT ![i] = disk[p]]
         /\ binDir' = binDir \cup {i}
         /\ was' = [was EXCEPT ![i] = Listed(p)]
         /\ op' = [step |-> "hide", path |-> <<p>>, item |-> i, row |-> None, from |-> None]
  BY DEF DeleteDir, Begin
<1>3. /\ p # Root /\ disk[p] # None /\ disk' = [disk EXCEPT ![p] = None] /\ purge["user"] = None
      /\ UNCHANGED <<rows, items, record, clock, purge, batch, unused, kept, damage>>
  BY DEF DeleteDir, IsSubfolder, UserIdle
<1>4. p \in Subfolders /\ <<p>> \in Paths /\ <<p>>[1] = p  BY <1>3, FolderPath DEF Subfolders
<1>5. i \in Items /\ ~Known(i) /\ i \notin binDir  BY DEF Free, Known
<1>6. disk[p] \in Trees  BY <1>1, <1>3 DEF TypeOK
<1>7. \A k \in Items : bin'[k] = IF k = i THEN disk[p] ELSE bin[k]  BY <1>1, <1>2 DEF TypeOK
<1>8. TypeOK'
  <2>1. bin' \in [Items -> Trees \cup {None}] /\ \A k \in Items : bin'[k] # None => k \in binDir'
    BY <1>1, <1>2, <1>6, <1>7 DEF TypeOK
  <2>2. Listed(p) \in SUBSET (Names \X (Contents \cup {None}))
    <3>1. disk \in Disks  BY <1>1 DEF TypeOK, Disks
    <3>2. \A n \in Names : Bytes(<<p, n>>) \in Contents \cup {None}  BY <3>1, FileAt, AtType, BytesAt
    <3>3. \A n \in Names : <<n, Bytes(<<p, n>>)>> \in Names \X (Contents \cup {None})  BY <3>2
    <3>4. \A x \in Listed(p) : \E n \in Names : x = <<n, Bytes(<<p, n>>)>>  BY DEF Listed
    <3> QED  BY <3>3, <3>4
  <2>3. was' \in [Items -> SUBSET (Names \X (Contents \cup {None}))]  BY <1>1, <1>2, <2>2 DEF TypeOK
  <2>4. disk' \in [Folders -> Trees \cup {None}] /\ disk'[Root] # None  BY <1>1, <1>3, DriveAssumption DEF TypeOK
  <2> QED  BY <1>1, <1>2, <1>3, <1>4, <1>5, <2>1, <2>3, <2>4 DEF TypeOK, Steps
<1>9. PurgeTypes'
  <2>1. \A k \in Items : Known(k) /\ k \in binDir' => k \in binDir  BY <1>2, <1>5
  <2> QED  BY <1>1, <1>3, <2>1, PurgesStay, ActiveStays
<1>10. ItemTypes'  BY <1>1, <1>3, <1>5, <1>7, ItemsStay DEF Known
<1>11. RequestTypes'
  <2>1. disk'[p] = None  BY <1>1, <1>3 DEF TypeOK
  <2> QED  BY <1>2, <1>3, <1>4, <1>5, <1>6, <1>7, <2>1 DEF RequestTypes, Known
<1> QED  BY <1>1, <1>3, <1>8, <1>9, <1>10, <1>11, DeletionsStay DEF RequestInv

\* The rows of a folder, hidden.
LEMMA RowsHidden ==
    ASSUME TypeOK, NEW p \in Folders, NEW t \in Times, t # 0,
           rows' = [r \in Rows |-> IF r \in UnderFolder(p) /\ Live(r) THEN [rows[r] EXCEPT !.hidden = t] ELSE rows[r]]
    PROVE  /\ rows' \in [Rows -> Row \cup {None}]
           /\ \A r \in Rows : rows[r] = None <=> rows'[r] = None
           /\ \A r \in Rows : rows[r] # None => rows'[r].path = rows[r].path
           /\ \A r \in Rows : r \in UnderFolder(p) /\ Live(r) => rows'[r].hidden = t
           /\ \A r \in Rows : ~(r \in UnderFolder(p) /\ Live(r)) => rows'[r] = rows[r]
<1>1. \A r \in Rows : rows[r] # None =>
         LET n == [rows[r] EXCEPT !.hidden = t]
         IN  n \in Row /\ n # None /\ n.path = rows[r].path /\ n.hidden = t
  <2> SUFFICES ASSUME NEW r \in Rows, rows[r] # None
               PROVE  LET n == [rows[r] EXCEPT !.hidden = t]
                      IN  n \in Row /\ n # None /\ n.path = rows[r].path /\ n.hidden = t
    OBVIOUS
  <2>1. rows[r] \in Row  BY RowTypes
  <2>2. [rows[r] EXCEPT !.hidden = t] \in Row  BY <2>1 DEF Row
  <2> QED  BY <2>1, <2>2, NoneAssumption DEF Row
<1>2. \A r \in Rows : rows'[r] = IF r \in UnderFolder(p) /\ Live(r) THEN [rows[r] EXCEPT !.hidden = t] ELSE rows[r]
  OBVIOUS
<1>3. \A r \in Rows : Live(r) => rows[r] # None  BY DEF Live
<1>4. \A r \in Rows : rows'[r] \in Row \cup {None}  BY <1>1, <1>2, <1>3 DEF TypeOK
<1>5. rows' \in [Rows -> Row \cup {None}]  BY <1>4
<1> QED  BY <1>1, <1>2, <1>3, <1>5

\* There is an item for every deletion of a folder, and the time is their number.
LEMMA ClockGoesOn ==
    ASSUME TypeOK, Deletions, NEW i \in Items, ~Known(i)
    PROVE  clock + 1 \in Times /\ clock + 1 # 0
<1>1. KnownItems \cup {i} \subseteq Items /\ i \notin KnownItems /\ IsFiniteSet(KnownItems) /\ IsFiniteSet(Items)
  BY DriveAssumption, FS_Subset DEF KnownItems
<1>2. Cardinality(KnownItems \cup {i}) = Cardinality(KnownItems) + 1  BY <1>1, FS_AddElement
<1>3. Cardinality(KnownItems \cup {i}) <= Cardinality(Items) /\ Cardinality(Items) \in Nat /\ Cardinality(KnownItems) \in Nat
  BY <1>1, FS_Subset, FS_CardinalityType
<1> QED  BY <1>2, <1>3 DEF Deletions, TypeOK, Times

LEMMA HideRequest ==
    ASSUME RequestInv, HideSubtree
    PROVE  RequestInv'
<1>1. TypeOK /\ PurgeTypes /\ ItemTypes /\ Deletions /\ RequestTypes /\ kept \cap unused = {}  BY DEF RequestInv
<1>2. op.step = "hide" /\ op' = Idle /\ UNCHANGED <<binDir, purge, batch, unused, kept, damage, was>>
  BY DEF HideSubtree, Done
<1>3. PICK i, p : i = op.item /\ p = op.path[1]  OBVIOUS
<1>4. i \in Items /\ ~Known(i) /\ bin[i] # None /\ op.path \in {<<q>> : q \in Subfolders} /\ disk[p] = None
  BY <1>1, <1>2, <1>3 DEF RequestTypes
<1>5. p \in Subfolders /\ p \in Folders /\ <<p>> \in Paths /\ op.path = <<p>> /\ Len(<<p>>) = 1
  <2>1. PICK q \in Subfolders : op.path = <<q>>  BY <1>4
  <2> QED  BY <1>3, <2>1, FolderPath DEF Subfolders
<1>6. CASE /\ clock' = clock + 1 /\ items' = items \cup {i}
           /\ record' = [record EXCEPT ![i] = [path |-> <<p>>, created |-> clock + 1]]
           /\ rows' = [r \in Rows |-> IF r \in UnderFolder(p) /\ Live(r)
                                      THEN [rows[r] EXCEPT !.hidden = clock + 1] ELSE rows[r]]
           /\ UNCHANGED <<disk, bin>>
  <2>1. clock + 1 \in Times /\ clock + 1 # 0  BY <1>1, <1>4, ClockGoesOn
  <2>2. /\ record' \in [Items -> Record \cup {None}] /\ items' \in SUBSET Items
        /\ record'[i].path = <<p>>
        /\ \A k \in Items : k # i => record'[k] = record[k]
        /\ \A k \in Items : Known(k)' <=> Known(k) \/ k = i
        /\ clock' \in Times /\ Deletions' /\ PurgeTypes'
    BY <1>1, <1>2, <1>4, <1>5, <1>6, <2>1, ItemRecorded
  <2>3. rows' \in [Rows -> Row \cup {None}]  BY <1>1, <1>5, <1>6, <2>1, RowsHidden
  <2>4. TypeOK'  BY <1>1, <1>2, <1>6, <2>2, <2>3, IdleTyped DEF TypeOK
  <2>5. ItemTypes'
    <3> SUFFICES ASSUME NEW k \in Items, Known(k)'
                 PROVE  /\ record'[k].path \in Files \cup {<<q>> : q \in Subfolders}
                        /\ (Len(record'[k].path) # 1 /\ bin'[k] # None) =>
                              \A n \in Names : (bin'[k][n] # None <=> n = record'[k].path[2])
      BY DEF ItemTypes, IsDir
    <3>1. CASE k = i  BY <1>5, <2>2, <3>1
    <3>2. CASE k # i  BY <1>1, <1>6, <2>2, <3>2 DEF ItemTypes, IsDir
    <3> QED  BY <3>1, <3>2
  <2> QED  BY <1>1, <1>2, <2>2, <2>4, <2>5, RequestEnds DEF RequestInv
<1>7. CASE /\ disk' = [disk EXCEPT ![p] = bin[i]] /\ bin' = [bin EXCEPT ![i] = None]
           /\ UNCHANGED <<clock, items, record, rows>>
  <2>1. bin[i] \in Trees  BY <1>1, <1>4 DEF TypeOK
  <2>2. p # Root  BY <1>5 DEF Subfolders
  <2>3. TypeOK'  BY <1>1, <1>2, <1>5, <1>7, <2>1, <2>2, IdleTyped, DriveAssumption DEF TypeOK
  <2>4. PurgeTypes'  BY <1>1, <1>2, <1>7, PurgesStay, ActiveStays
  <2>5. ItemTypes'
    <3>1. \A k \in Items : bin'[k] \in {bin[k], None}  BY <1>1, <1>7 DEF TypeOK
    <3> QED  BY <1>1, <1>7, <3>1, ItemsStay DEF Known
  <2> QED  BY <1>1, <1>2, <1>7, <2>3, <2>4, <2>5, DeletionsStay, RequestEnds DEF RequestInv
<1> QED  BY <1>3, <1>6, <1>7 DEF HideSubtree

\* An object that is back in place is not in the bin any more.
LEMMA TakenFromBin ==
    ASSUME TypeOK, ItemTypes, NEW i \in Items, bin' = [bin EXCEPT ![i] = None], UNCHANGED record
    PROVE  /\ bin' \in [Items -> Trees \cup {None}] /\ bin'[i] = None
           /\ \A k \in Items : k # i => bin'[k] = bin[k]
           /\ \A k \in Items : bin'[k] # None => k \in binDir
           /\ ItemTypes'
<1>1. \A k \in Items : bin'[k] = IF k = i THEN None ELSE bin[k]  BY DEF TypeOK
<1>2. bin' \in [Items -> Trees \cup {None}]  BY DEF TypeOK
<1>3. ItemTypes'  BY <1>1, ItemsStay DEF Known
<1> QED  BY <1>1, <1>2, <1>3 DEF TypeOK

LEMMA RestoreRequest ==
    ASSUME RequestInv, NEW i \in Items, Restore(i)
    PROVE  RequestInv'
<1>1. TypeOK /\ PurgeTypes /\ ItemTypes /\ Deletions /\ RequestTypes /\ kept \cap unused = {}  BY DEF RequestInv
<1>2. PICK path : path = record[i].path  OBVIOUS
<1>3. /\ i \in items /\ bin[i] # None /\ Vacant(path) /\ bin' = [bin EXCEPT ![i] = None] /\ purge["user"] = None
      /\ op' = [step |-> IF IsDir(i) THEN "unhide" ELSE "restored", path |-> path, item |-> i, row |-> None, from |-> None]
      /\ UNCHANGED <<binDir, rows, items, record, clock, purge, batch, unused, kept, damage, was>>
      /\ IsDir(i) => disk' = [disk EXCEPT ![path[1]] = bin[i]]
      /\ ~IsDir(i) => Unrecorded # {} /\ disk' = BackFromBin(disk, path, i)
  BY <1>2 DEF Restore, Begin, UserIdle
<1>4. Known(i)  BY <1>1, <1>3 DEF PurgeTypes, Active
<1>5. /\ path \in Paths /\ path[1] \in Folders
      /\ IsDir(i) => path = <<path[1]>> /\ path[1] \in Subfolders
      /\ ~IsDir(i) => path \in Files
  BY <1>1, <1>2, <1>4, ItemPaths
<1>6. /\ bin' \in [Items -> Trees \cup {None}] /\ bin'[i] = None
      /\ \A k \in Items : bin'[k] # None => k \in binDir
      /\ ItemTypes'
  BY <1>1, <1>3, TakenFromBin
<1>7. bin[i] \in Trees /\ disk \in Disks  BY <1>1, <1>3 DEF TypeOK, Disks
<1>8. /\ disk' \in Disks /\ disk'[path[1]] # None /\ \A p \in Folders : p # path[1] => disk'[p] = disk[p]
      /\ ~IsDir(i) => At(disk', path) # None
  <2>1. CASE IsDir(i)
    <3>1. disk' = [disk EXCEPT ![path[1]] = bin[i]]  BY <1>3, <2>1
    <3>2. disk' \in Disks /\ \A q \in Folders : disk'[q] = IF q = path[1] THEN bin[i] ELSE disk[q]
      BY <1>7, <3>1 DEF Disks
    <3> QED  BY <1>3, <1>5, <2>1, <3>2
  <2>2. CASE ~IsDir(i)
    <3>1. path \in Files /\ path[2] \in Names  BY <1>5, <2>2, FilePath
    <3>2. bin[i][path[2]] # None  BY <1>1, <1>2, <1>3, <1>4, <2>2, <3>1 DEF ItemTypes
    <3>3. bin[i][path[2]] \in Contents \cup {None}  BY <1>7, <3>1, TreeKinds
    <3>4. disk' = Put(disk, path, bin[i][path[2]])  BY <1>3, <2>2 DEF BackFromBin
    <3> QED  BY <1>7, <3>1, <3>2, <3>3, <3>4, BytesPut
  <2> QED  BY <2>1, <2>2
<1>9. disk'[Root] # None  BY <1>1, <1>5, <1>8, DriveAssumption DEF TypeOK
<1>10. TypeOK'  BY <1>1, <1>3, <1>5, <1>6, <1>8, <1>9 DEF TypeOK, Steps, Disks
<1>11. PurgeTypes'  BY <1>1, <1>3, PurgesStay, ActiveStays
<1>12. RequestTypes'
  <2>1. /\ op'.step \in {"unhide", "restored"} /\ op'.path = path /\ op'.item = i
        /\ op'.step = "unhide" <=> IsDir(i)
    BY <1>3
  <2>2. Known(i)' /\ record'[i].path = path /\ IsDir(i)' = IsDir(i)  BY <1>2, <1>3, <1>4 DEF Known, IsDir
  <2>3. (~IsDir(i) => (Bytes(path))' # None) /\ (~IsDir(i) => Unrecorded' # {})
    BY <1>3, <1>8, BytesAt DEF Unrecorded
  <2> QED  BY <1>3, <1>6, <1>8, <2>1, <2>2, <2>3 DEF RequestTypes, Bytes, Known, IsDir
<1> QED  BY <1>1, <1>3, <1>6, <1>10, <1>11, <1>12, DeletionsStay DEF RequestInv

LEMMA RestoreFailsRequest ==
    ASSUME RequestInv, NEW i \in Items, RestoreFails(i)
    PROVE  RequestInv'
<1>1. TypeOK /\ PurgeTypes /\ ItemTypes /\ Deletions /\ RequestTypes  BY DEF RequestInv
<1>2. UNCHANGED <<bin, binDir, rows, items, record, clock, op, purge, batch, unused, kept, damage, was>> /\ op = Idle
  BY DEF RestoreFails, UserIdle
<1>3. PICK p : p = record[i].path[1]  OBVIOUS
<1>4. Known(i)  BY <1>1 DEF RestoreFails, PurgeTypes, Active
<1>5. p \in Folders  BY <1>1, <1>3, <1>4, ItemPaths
<1>6. disk' \in Disks /\ disk'[p] # None /\ \A q \in Folders : q # p => disk'[q] = disk[q]
  <2>1. disk' = WithDir(disk, p)  BY <1>3 DEF RestoreFails
  <2>2. disk \in Disks  BY <1>1 DEF TypeOK, Disks
  <2> QED  BY <1>5, <2>1, <2>2, DirMade
<1>7. TypeOK'  BY <1>1, <1>2, <1>6, DriveAssumption DEF TypeOK, Disks
<1>8. PurgeTypes'  BY <1>1, <1>2, PurgesStay, ActiveStays
<1>9. ItemTypes'  BY <1>1, <1>2, ItemsStay DEF Known
<1> QED  BY <1>1, <1>2, <1>7, <1>8, <1>9, DeletionsStay, RequestEnds DEF RequestInv

\* What is put back into an item's directory.
LEMMA BackInBin ==
    ASSUME TypeOK, ItemTypes, NEW i \in Items, i \in binDir, NEW t \in Trees,
           bin' = [bin EXCEPT ![i] = t], UNCHANGED <<record, binDir>>,
           ~IsDir(i) => \A n \in Names : (t[n] # None <=> n = record[i].path[2])
    PROVE  /\ bin' \in [Items -> Trees \cup {None}] /\ bin'[i] = t
           /\ \A k \in Items : k # i => bin'[k] = bin[k]
           /\ \A k \in Items : bin'[k] # None => k \in binDir'
           /\ ItemTypes'
<1>1. \A k \in Items : bin'[k] = IF k = i THEN t ELSE bin[k]  BY DEF TypeOK
<1>2. bin' \in [Items -> Trees \cup {None}]  BY DEF TypeOK
<1>3. ItemTypes'
  <2> SUFFICES ASSUME NEW k \in Items, Known(k)'
               PROVE  /\ record'[k].path \in Files \cup {<<p>> : p \in Subfolders}
                      /\ (Len(record'[k].path) # 1 /\ bin'[k] # None) =>
                            \A n \in Names : (bin'[k][n] # None <=> n = record'[k].path[2])
    BY DEF ItemTypes, IsDir
  <2>1. Known(k) /\ record'[k] = record[k]  BY DEF Known
  <2>2. CASE k = i  BY <1>1, <2>1, <2>2 DEF ItemTypes, IsDir
  <2>3. CASE k # i  BY <1>1, <2>1, <2>3 DEF ItemTypes, IsDir
  <2> QED  BY <2>2, <2>3
<1> QED  BY <1>1, <1>2, <1>3 DEF TypeOK

LEMMA RecordRestoredRequest ==
    ASSUME RequestInv, RecordRestored
    PROVE  RequestInv'
<1>1. TypeOK /\ PurgeTypes /\ ItemTypes /\ Deletions /\ RequestTypes /\ kept \cap unused = {}  BY DEF RequestInv
<1>2. op.step = "restored" /\ UNCHANGED <<binDir, items, record, clock, purge, batch, unused, kept, damage, was>>
  BY DEF RecordRestored
<1>3. PICK i, path : i = op.item /\ path = op.path  OBVIOUS
<1>4. /\ i \in Items /\ Known(i) /\ path = record[i].path /\ bin[i] = None /\ ~IsDir(i) /\ Bytes(path) # None
      /\ purge["user"] = None
  BY <1>1, <1>2, <1>3 DEF RequestTypes
<1>5. path \in Files /\ path \in Paths /\ path[1] \in Folders /\ path[2] \in Names
  BY <1>1, <1>4, ItemPaths, FilePath
<1>6. disk \in Disks  BY <1>1 DEF TypeOK, Disks
<1>7. CASE AddRow(path) /\ op' = [op EXCEPT !.step = "drop item"] /\ UNCHANGED <<disk, bin>>
  <2>1. rows' \in [Rows -> Row \cup {None}]  BY <1>1, <1>5, <1>7, RowAdded
  <2>2. op'.step = "drop item" /\ op'.path = path /\ op'.item = i  BY <1>1, <1>3, <1>7 DEF TypeOK
  <2>3. TypeOK'  BY <1>1, <1>2, <1>7, <2>1 DEF TypeOK, Steps
  <2>4. PurgeTypes'  BY <1>1, <1>2, PurgesStay, ActiveStays
  <2>5. ItemTypes'  BY <1>1, <1>2, <1>7, ItemsStay DEF Known
  <2>6. RequestTypes'  BY <1>2, <1>4, <1>7, <2>2 DEF RequestTypes, Known
  <2> QED  BY <1>1, <1>2, <2>3, <2>4, <2>5, <2>6, DeletionsStay DEF RequestInv
<1>8. CASE CanGoBack(i) /\ bin' = [bin EXCEPT ![i] = Only(path[2], Bytes(path))]
           /\ disk' = Put(disk, path, None) /\ op' = Idle /\ UNCHANGED rows
  <2>1. Bytes(path) \in Contents \cup {None}  BY <1>5, <1>6, AtType, BytesAt
  <2>2. Only(path[2], Bytes(path)) \in Trees /\ \A n \in Names : (Only(path[2], Bytes(path))[n] # None <=> n = path[2])
    BY <1>4, <1>5, <2>1, TreeKinds
  <2>3. /\ bin' \in [Items -> Trees \cup {None}]
        /\ \A k \in Items : bin'[k] # None => k \in binDir'
        /\ ItemTypes'
    BY <1>1, <1>2, <1>4, <1>8, <2>2, BackInBin DEF CanGoBack
  <2>4. disk' \in Disks /\ disk'[path[1]] # None /\ \A p \in Folders : p # path[1] => disk'[p] = disk[p]
    BY <1>5, <1>6, <1>8, BytesPut
  <2>5. TypeOK'  BY <1>1, <1>2, <1>8, <2>3, <2>4, IdleTyped, DriveAssumption DEF TypeOK, Disks
  <2>6. PurgeTypes'  BY <1>1, <1>2, PurgesStay, ActiveStays
  <2> QED  BY <1>1, <1>2, <1>8, <2>3, <2>5, <2>6, DeletionsStay, RequestEnds DEF RequestInv
<1>9. CASE UNCHANGED <<disk, bin, rows>> /\ op' = Idle
  <2>1. TypeOK'  BY <1>1, <1>2, <1>9, IdleTyped DEF TypeOK
  <2>2. PurgeTypes'  BY <1>1, <1>2, PurgesStay, ActiveStays
  <2>3. ItemTypes'  BY <1>1, <1>2, <1>9, ItemsStay DEF Known
  <2> QED  BY <1>1, <1>2, <1>9, <2>1, <2>2, <2>3, DeletionsStay, RequestEnds DEF RequestInv
<1> QED  BY <1>3, <1>7, <1>8, <1>9 DEF RecordRestored, Goto, Done

\* The hidden rows of a folder that are listed again, or removed.
LEMMA RowsUnhidden ==
    ASSUME TypeOK, NEW S,
           rows' = [r \in Rows |-> IF r \in S THEN [rows[r] EXCEPT !.hidden = 0] ELSE rows[r]],
           \A r \in S : r \in Rows /\ Hidden(r)
    PROVE  /\ rows' \in [Rows -> Row \cup {None}]
           /\ \A r \in Rows : rows[r] = None <=> rows'[r] = None
           /\ \A r \in Rows : rows[r] # None => rows'[r].path = rows[r].path
           /\ \A r \in Rows : r \in S => rows'[r].hidden = 0
           /\ \A r \in Rows : r \notin S => rows'[r] = rows[r]
<1>1. \A r \in S : LET n == [rows[r] EXCEPT !.hidden = 0]
                   IN  n \in Row /\ n # None /\ n.path = rows[r].path /\ n.hidden = 0
  <2> SUFFICES ASSUME NEW r \in S
               PROVE  LET n == [rows[r] EXCEPT !.hidden = 0]
                      IN  n \in Row /\ n # None /\ n.path = rows[r].path /\ n.hidden = 0
    OBVIOUS
  <2>1. rows[r] \in Row  BY RowTypes DEF Hidden
  <2>2. 0 \in Times
    <3>1. Cardinality(Items) \in Nat  BY DriveAssumption, FS_CardinalityType
    <3> QED  BY <3>1 DEF Times
  <2>3. [rows[r] EXCEPT !.hidden = 0] \in Row  BY <2>1, <2>2 DEF Row
  <2> QED  BY <2>1, <2>3, NoneAssumption DEF Row
<1>2. \A r \in Rows : rows'[r] = IF r \in S THEN [rows[r] EXCEPT !.hidden = 0] ELSE rows[r]  OBVIOUS
<1>3. \A r \in Rows : rows'[r] \in Row \cup {None}  BY <1>1, <1>2 DEF TypeOK
<1>4. rows' \in [Rows -> Row \cup {None}]  BY <1>3
<1> QED  BY <1>1, <1>2, <1>4 DEF Hidden

LEMMA UnhideRequest ==
    ASSUME RequestInv, UnhideSubtree
    PROVE  RequestInv'
<1>1. TypeOK /\ PurgeTypes /\ ItemTypes /\ Deletions /\ RequestTypes /\ kept \cap unused = {}  BY DEF RequestInv
<1>2. op.step = "unhide" /\ UNCHANGED <<binDir, items, record, clock, purge, batch, unused, kept, damage, was>>
  BY DEF UnhideSubtree
<1>3. PICK i, p : i = op.item /\ p = op.path[1]  OBVIOUS
<1>4. /\ i \in Items /\ Known(i) /\ op.path = record[i].path /\ bin[i] = None /\ IsDir(i) /\ disk[p] # None
      /\ purge["user"] = None
  BY <1>1, <1>2, <1>3 DEF RequestTypes
<1>5. p \in Subfolders /\ p \in Folders /\ p # Root  BY <1>1, <1>3, <1>4, ItemPaths DEF Subfolders
<1>6. CASE /\ rows' = [r \in Rows |-> IF r \in HiddenSince(p, record[i].created)
                                      THEN [rows[r] EXCEPT !.hidden = 0] ELSE rows[r]]
           /\ op' = [op EXCEPT !.step = "drop item"] /\ UNCHANGED <<disk, bin>>
  <2>1. \A r \in HiddenSince(p, record[i].created) : r \in Rows /\ Hidden(r)
    BY DEF HiddenSince, UnderFolder, Hidden
  <2>2. rows' \in [Rows -> Row \cup {None}]  BY <1>1, <1>6, <2>1, RowsUnhidden
  <2>3. op'.step = "drop item" /\ op'.path = op.path /\ op'.item = i  BY <1>1, <1>3, <1>6 DEF TypeOK
  <2>4. TypeOK'  BY <1>1, <1>2, <1>6, <2>2 DEF TypeOK, Steps
  <2>5. PurgeTypes'  BY <1>1, <1>2, PurgesStay, ActiveStays
  <2>6. ItemTypes'  BY <1>1, <1>2, <1>6, ItemsStay DEF Known
  <2>7. RequestTypes'  BY <1>2, <1>4, <1>6, <2>3 DEF RequestTypes, Known
  <2> QED  BY <1>1, <1>2, <2>4, <2>5, <2>6, <2>7, DeletionsStay DEF RequestInv
<1>7. CASE CanGoBack(i) /\ bin' = [bin EXCEPT ![i] = disk[p]] /\ disk' = [disk EXCEPT ![p] = None]
           /\ op' = Idle /\ UNCHANGED rows
  <2>1. disk[p] \in Trees  BY <1>1, <1>4, <1>5 DEF TypeOK
  <2>2. /\ bin' \in [Items -> Trees \cup {None}]
        /\ \A k \in Items : bin'[k] # None => k \in binDir'
        /\ ItemTypes'
    BY <1>1, <1>2, <1>4, <1>7, <2>1, BackInBin DEF CanGoBack
  <2>3. disk' \in [Folders -> Trees \cup {None}] /\ disk'[Root] # None
    BY <1>1, <1>5, <1>7, DriveAssumption DEF TypeOK
  <2>4. TypeOK'  BY <1>1, <1>2, <1>7, <2>2, <2>3, IdleTyped DEF TypeOK
  <2>5. PurgeTypes'  BY <1>1, <1>2, PurgesStay, ActiveStays
  <2> QED  BY <1>1, <1>2, <1>7, <2>2, <2>4, <2>5, DeletionsStay, RequestEnds DEF RequestInv
<1>8. CASE UNCHANGED <<disk, bin, rows>> /\ op' = Idle
  <2>1. TypeOK'  BY <1>1, <1>2, <1>8, IdleTyped DEF TypeOK
  <2>2. PurgeTypes'  BY <1>1, <1>2, PurgesStay, ActiveStays
  <2>3. ItemTypes'  BY <1>1, <1>2, <1>8, ItemsStay DEF Known
  <2> QED  BY <1>1, <1>2, <1>8, <2>1, <2>2, <2>3, DeletionsStay, RequestEnds DEF RequestInv
<1> QED  BY <1>3, <1>6, <1>7, <1>8 DEF UnhideSubtree, Goto, Done

\* Failures of a last step and exits are counted.
LEMMA DamageCounted ==
    ASSUME TypeOK, Damage \/ UNCHANGED damage
    PROVE  damage' \in 0..MaxDamage
<1>1. damage \in 0..MaxDamage  BY DEF TypeOK
<1>2. damage' = damage \/ (damage < MaxDamage /\ damage' = damage + 1)  BY DEF Damage
<1> QED  BY <1>1, <1>2, DriveAssumption

LEMMA DropItemRequest ==
    ASSUME RequestInv, DropItem
    PROVE  RequestInv'
<1>1. TypeOK /\ PurgeTypes /\ ItemTypes /\ Deletions /\ RequestTypes /\ kept \cap unused = {}  BY DEF RequestInv
<1>2. op.step = "drop item" /\ op' = Idle /\ UNCHANGED <<disk, bin, rows, record, clock, purge, batch, unused, kept>>
  BY DEF DropItem, Done
<1>3. PICK i : i = op.item  OBVIOUS
<1>4. i \in Items /\ bin[i] = None  BY <1>1, <1>2, <1>3 DEF RequestTypes
<1>5. /\ items' \subseteq items /\ binDir' \subseteq binDir /\ (Damage \/ UNCHANGED damage)
      /\ \A k \in binDir : k # i => k \in binDir'
      /\ was' = [was EXCEPT ![i] = {}] \/ was' = was
  BY <1>3 DEF DropItem
<1>6. damage' \in 0..MaxDamage  BY <1>1, <1>5, DamageCounted
<1>7. \A k \in Items : bin'[k] # None => k \in binDir'  BY <1>1, <1>2, <1>4, <1>5 DEF TypeOK
<1>8. was' \in [Items -> SUBSET (Names \X (Contents \cup {None}))]  BY <1>1, <1>5 DEF TypeOK
<1>9. TypeOK'  BY <1>1, <1>2, <1>5, <1>6, <1>7, <1>8, IdleTyped DEF TypeOK
<1>10. PurgeTypes'  BY <1>1, <1>2, <1>5, PurgesStay, ActiveStays
<1>11. ItemTypes'  BY <1>1, <1>2, ItemsStay DEF Known
<1> QED  BY <1>1, <1>2, <1>9, <1>10, <1>11, DeletionsStay, RequestEnds DEF RequestInv

\* A purge takes an item's bytes, its hidden rows, and the item.
LEMMA TakingOf ==
    ASSUME TypeOK, NEW a \in Actors, purge[a] # None
    PROVE  purge[a] \in Taking /\ purge[a].item \in Items /\ purge[a].item \in Active
<1>1. purge[a] \in Taking  BY DEF TypeOK
<1>2. purge[a].item \in Items  BY <1>1 DEF Taking
<1> QED  BY <1>1, <1>2 DEF Active

LEMMA TakingOn ==
    ASSUME TypeOK, NEW a \in Actors, purge[a] # None, NEW s \in {"bytes", "rows", "item"},
           purge' = [purge EXCEPT ![a].step = s]
    PROVE  /\ purge' \in [Actors -> Taking \cup {None}]
           /\ purge'[a].item = purge[a].item /\ purge'[a].step = s /\ purge'[a] # None
           /\ \A b \in Actors : b # a => purge'[b] = purge[b]
<1>1. purge[a] \in Taking  BY TakingOf
<1>2. PICK n : n = [purge[a] EXCEPT !.step = s]  OBVIOUS
<1>3. n \in Taking /\ n.item = purge[a].item /\ n.step = s /\ n # None  BY <1>1, <1>2, NoneAssumption DEF Taking
<1>4. purge' = [purge EXCEPT ![a] = n]  BY <1>2 DEF TypeOK
<1> QED  BY <1>3, <1>4 DEF TypeOK

LEMMA PurgesGoOn ==
    ASSUME TypeOK, PurgeTypes, UNCHANGED record,
           \A i \in Active' : i \in Active,
           \A i \in binDir' : i \in binDir,
           \A a \in Actors : \/ purge'[a] \in {purge[a], None}
                             \/ /\ purge[a] # None /\ purge'[a].item = purge[a].item
                                /\ purge'[a].step = "rows" => IsDir(purge[a].item)
                                /\ purge'[a].step # "bytes" => purge[a].item \notin binDir'
    PROVE  PurgeTypes'
<1>1. \A i \in Active' : Known(i)'  BY DEF PurgeTypes, Known
<1>2. ASSUME NEW a \in Actors, purge'[a] # None
      PROVE  /\ purge'[a].step = "rows" => Len(record'[purge'[a].item].path) = 1
             /\ purge'[a].step # "bytes" => purge'[a].item \notin binDir'
  BY <1>2 DEF PurgeTypes, IsDir
<1> QED  BY <1>1, <1>2 DEF PurgeTypes, IsDir

LEMMA UserPurgeRequest ==
    ASSUME RequestInv, NEW i \in Items, UserPurge(i)
    PROVE  RequestInv'
<1>1. TypeOK /\ PurgeTypes /\ ItemTypes /\ Deletions /\ RequestTypes /\ kept \cap unused = {}  BY DEF RequestInv
<1>2. /\ op = Idle /\ purge["user"] = None /\ i \in items
      /\ UNCHANGED <<disk, bin, binDir, rows, items, record, clock, op, batch, unused, kept, damage, was>>
  BY DEF UserPurge, UserIdle
<1>3. PICK n : n = [item |-> i, step |-> "bytes"]  OBVIOUS
<1>4. n \in Taking /\ n.item = i /\ n.step = "bytes" /\ n # None  BY <1>3, NoneAssumption DEF Taking
<1>5. purge' = [purge EXCEPT !["user"] = n]  BY <1>3 DEF UserPurge
<1>6. "user" \in Actors  BY DEF Actors
<1>7. purge' \in [Actors -> Taking \cup {None}] /\ purge'["user"] = n /\ \A a \in Actors : a # "user" => purge'[a] = purge[a]
  BY <1>1, <1>4, <1>5, <1>6 DEF TypeOK
<1>8. TypeOK'  BY <1>1, <1>2, <1>7 DEF TypeOK
<1>9. \A k \in Active' : k \in Active  BY <1>2, <1>4, <1>7 DEF Active
<1>10. PurgeTypes'
  <2>1. \A k \in Active' : Known(k)'  BY <1>1, <1>2, <1>9 DEF PurgeTypes, Known
  <2>2. ASSUME NEW a \in Actors, purge'[a] # None
        PROVE  /\ purge'[a].step = "rows" => Len(record'[purge'[a].item].path) = 1
               /\ purge'[a].step # "bytes" => purge'[a].item \notin binDir'
    BY <1>1, <1>2, <1>4, <1>7, <2>2 DEF PurgeTypes, IsDir
  <2> QED  BY <2>1, <2>2 DEF PurgeTypes, IsDir
<1>11. ItemTypes'  BY <1>1, <1>2, ItemsStay DEF Known
<1> QED  BY <1>1, <1>2, <1>8, <1>10, <1>11, DeletionsStay, RequestEnds DEF RequestInv

LEMMA CronListRequest ==
    ASSUME RequestInv, CronList
    PROVE  RequestInv'
<1>1. TypeOK /\ PurgeTypes /\ ItemTypes /\ Deletions /\ RequestTypes /\ kept \cap unused = {}  BY DEF RequestInv
<1>2. /\ batch' \subseteq items
      /\ UNCHANGED <<disk, bin, binDir, rows, items, record, clock, op, purge, unused, kept, damage, was>>
  BY DEF CronList
<1>3. TypeOK'  BY <1>1, <1>2 DEF TypeOK
<1>4. \A k \in Active' : k \in Active  BY <1>2 DEF Active
<1>5. PurgeTypes'  BY <1>1, <1>2, <1>4, PurgesStay
<1>6. ItemTypes'  BY <1>1, <1>2, ItemsStay DEF Known
<1>7. RequestTypes'  BY <1>1, <1>2, RequestStays DEF RequestTypes
<1> QED  BY <1>1, <1>2, <1>3, <1>5, <1>6, <1>7, DeletionsStay DEF RequestInv

LEMMA CronTakeRequest ==
    ASSUME RequestInv, CronTake
    PROVE  RequestInv'
<1>1. TypeOK /\ PurgeTypes /\ ItemTypes /\ Deletions /\ RequestTypes /\ kept \cap unused = {}  BY DEF RequestInv
<1>2. purge["cron"] = None /\ UNCHANGED <<disk, bin, binDir, rows, items, record, clock, op, unused, kept, damage, was>>
  BY DEF CronTake
<1>3. PICK i \in batch : /\ purge' = [purge EXCEPT !["cron"] = [item |-> i, step |-> "bytes"]]
                         /\ batch' = batch \ {i}
  BY DEF CronTake
<1>4. PICK n : n = [item |-> i, step |-> "bytes"]  OBVIOUS
<1>5. i \in Items  BY <1>1 DEF TypeOK
<1>6. n \in Taking /\ n.item = i /\ n.step = "bytes" /\ n # None  BY <1>4, <1>5, NoneAssumption DEF Taking
<1>7. "cron" \in Actors /\ "user" # "cron" /\ "user" \in Actors  BY DEF Actors
<1>8. /\ purge' \in [Actors -> Taking \cup {None}] /\ purge'["cron"] = n
      /\ \A a \in Actors : a # "cron" => purge'[a] = purge[a]
  BY <1>1, <1>3, <1>4, <1>6, <1>7 DEF TypeOK
<1>9. TypeOK'  BY <1>1, <1>2, <1>3, <1>8 DEF TypeOK
<1>10. \A k \in Active' : k \in Active
  <2>1. i \in Active  BY DEF Active
  <2>2. \A k \in Items, a \in Actors : purge'[a] # None /\ purge'[a].item = k => k = i \/ (purge[a] # None /\ purge[a].item = k)
    BY <1>6, <1>8
  <2> QED  BY <1>2, <1>3, <2>1, <2>2 DEF Active
<1>11. PurgeTypes'
  <2>1. \A k \in Active' : Known(k)'  BY <1>1, <1>2, <1>10 DEF PurgeTypes, Known
  <2>2. ASSUME NEW a \in Actors, purge'[a] # None
        PROVE  /\ purge'[a].step = "rows" => Len(record'[purge'[a].item].path) = 1
               /\ purge'[a].step # "bytes" => purge'[a].item \notin binDir'
    BY <1>1, <1>2, <1>6, <1>8, <2>2 DEF PurgeTypes, IsDir
  <2> QED  BY <2>1, <2>2 DEF PurgeTypes, IsDir
<1>12. ItemTypes'  BY <1>1, <1>2, ItemsStay DEF Known
<1>13. RequestTypes'  BY <1>1, <1>2, <1>7, <1>8, RequestStays DEF RequestTypes
<1> QED  BY <1>1, <1>2, <1>9, <1>11, <1>12, <1>13, DeletionsStay DEF RequestInv

LEMMA PurgeBytesRequest ==
    ASSUME RequestInv, NEW a \in Actors, PurgeBytes(a)
    PROVE  RequestInv'
<1>1. TypeOK /\ PurgeTypes /\ ItemTypes /\ Deletions /\ RequestTypes /\ kept \cap unused = {}  BY DEF RequestInv
<1>2. PICK i, s : i = purge[a].item /\ s = IF IsDir(i) THEN "rows" ELSE "item"  OBVIOUS
<1>3. /\ purge[a] # None /\ purge[a].step = "bytes"
      /\ bin' = [bin EXCEPT ![i] = None] /\ binDir' = binDir \ {i} /\ was' = [was EXCEPT ![i] = {}]
      /\ purge' = [purge EXCEPT ![a].step = s]
      /\ UNCHANGED <<disk, rows, items, record, clock, op, batch, unused, kept, damage>>
  BY <1>2 DEF PurgeBytes, Purging
<1>4. i \in Items /\ i \in Active  BY <1>1, <1>2, <1>3, TakingOf
<1>5. Known(i)  BY <1>1, <1>4 DEF PurgeTypes
<1>6. /\ purge' \in [Actors -> Taking \cup {None}] /\ purge'[a].item = i /\ purge'[a].step = s
      /\ \A b \in Actors : b # a => purge'[b] = purge[b]
  <2>1. purge[a] # None /\ purge' = [purge EXCEPT ![a].step = s]  BY <1>3
  <2>2. s \in {"bytes", "rows", "item"}  BY <1>2
  <2> QED  BY <1>1, <1>2, <2>1, <2>2, TakingOn
<1>7. /\ bin' \in [Items -> Trees \cup {None}] /\ bin'[i] = None
      /\ \A k \in Items : k # i => bin'[k] = bin[k]
      /\ \A k \in Items : bin'[k] # None => k \in binDir
      /\ ItemTypes'
  BY <1>1, <1>3, <1>4, TakenFromBin
<1>8. was' \in [Items -> SUBSET (Names \X (Contents \cup {None}))]  BY <1>1, <1>3 DEF TypeOK
<1>9. TypeOK'  BY <1>1, <1>3, <1>6, <1>7, <1>8 DEF TypeOK
<1>10. PurgeTypes'
  <2>1. \A k \in Active' : k \in Active
    BY <1>2, <1>3, <1>6 DEF Active
  <2>2. \A b \in Actors : \/ purge'[b] \in {purge[b], None}
                          \/ /\ purge[b] # None /\ purge'[b].item = purge[b].item
                             /\ purge'[b].step = "rows" => IsDir(purge[b].item)
                             /\ purge'[b].step # "bytes" => purge[b].item \notin binDir'
    BY <1>2, <1>3, <1>6
  <2> QED  BY <1>1, <1>3, <2>1, <2>2, PurgesGoOn
<1>11. RequestTypes'
  <2>1. op.step # "idle" => purge'["user"] = None
    BY <1>1, <1>3, <1>6 DEF RequestTypes, Actors
  <2>2. \A k \in Items : bin'[k] \in {bin[k], None} /\ (~Known(k) => bin'[k] = bin[k])
    BY <1>5, <1>7
  <2> QED  BY <1>1, <1>3, <2>1, <2>2, RequestStays DEF RequestTypes
<1> QED  BY <1>1, <1>3, <1>7, <1>9, <1>10, <1>11, DeletionsStay DEF RequestInv

LEMMA PurgeRowsRequest ==
    ASSUME RequestInv, NEW a \in Actors, PurgeRows(a)
    PROVE  RequestInv'
<1>1. TypeOK /\ PurgeTypes /\ ItemTypes /\ Deletions /\ RequestTypes /\ kept \cap unused = {}  BY DEF RequestInv
<1>2. PICK i, of : i = purge[a].item /\ of = record[i]  OBVIOUS
<1>3. /\ purge[a] # None /\ purge[a].step = "rows"
      /\ UNCHANGED <<disk, bin, binDir, items, record, clock, op, batch, unused, kept, damage, was>>
      /\ \/ /\ rows' = [r \in Rows |-> IF r \in HiddenSince(of.path[1], of.created) THEN None ELSE rows[r]]
            /\ purge' = [purge EXCEPT ![a].step = "item"]
         \/ purge' = [purge EXCEPT ![a] = None] /\ UNCHANGED rows
  BY <1>2 DEF PurgeRows, Purging
<1>4. i \in Items /\ i \in Active  BY <1>1, <1>2, <1>3, TakingOf
<1>5. /\ purge' \in [Actors -> Taking \cup {None}] /\ \A b \in Actors : b # a => purge'[b] = purge[b]
      /\ purge'[a] = None \/ (purge'[a].item = i /\ purge'[a].step = "item")
  <2>1. CASE purge' = [purge EXCEPT ![a].step = "item"]
    <3>1. "item" \in {"bytes", "rows", "item"} /\ purge[a] # None  BY <1>3
    <3> QED  BY <1>1, <1>2, <2>1, <3>1, TakingOn
  <2>2. CASE purge' = [purge EXCEPT ![a] = None]  BY <1>1, <2>2 DEF TypeOK
  <2> QED  BY <1>3, <2>1, <2>2
<1>6. /\ rows' \in [Rows -> Row \cup {None}]
      /\ \A r \in Rows : rows'[r] = rows[r] \/ (Hidden(r) /\ rows'[r] = None)
  BY <1>1, <1>3 DEF TypeOK, HiddenSince, UnderFolder, Hidden
<1>7. TypeOK'  BY <1>1, <1>3, <1>5, <1>6 DEF TypeOK
<1>8. PurgeTypes'
  <2>1. \A k \in Active' : k \in Active
    BY <1>2, <1>3, <1>5 DEF Active
  <2>2. i \notin binDir  BY <1>1, <1>2, <1>3 DEF PurgeTypes
  <2>3. \A b \in Actors : \/ purge'[b] \in {purge[b], None}
                          \/ /\ purge[b] # None /\ purge'[b].item = purge[b].item
                             /\ purge'[b].step = "rows" => IsDir(purge[b].item)
                             /\ purge'[b].step # "bytes" => purge[b].item \notin binDir'
    BY <1>2, <1>3, <1>5, <2>2
  <2> QED  BY <1>1, <1>3, <2>1, <2>3, PurgesGoOn
<1>9. ItemTypes'  BY <1>1, <1>3, ItemsStay DEF Known
<1>10. RequestTypes'
  <2>1. op.step # "idle" => purge'["user"] = None
    BY <1>1, <1>3, <1>5 DEF RequestTypes, Actors
  <2>2. /\ \A r \in Rows : Live(r) => rows'[r] = rows[r]
        /\ \A r \in Rows : rows[r] = None => rows'[r] = None
    BY <1>6 DEF Live, Hidden
  <2> QED  BY <1>1, <1>3, <2>1, <2>2, RequestStays DEF RequestTypes
<1> QED  BY <1>1, <1>3, <1>7, <1>8, <1>9, <1>10, DeletionsStay DEF RequestInv

LEMMA PurgeItemRequest ==
    ASSUME RequestInv, NEW a \in Actors, PurgeItem(a)
    PROVE  RequestInv'
<1>1. TypeOK /\ PurgeTypes /\ ItemTypes /\ Deletions /\ RequestTypes /\ kept \cap unused = {}  BY DEF RequestInv
<1>2. /\ purge' = [purge EXCEPT ![a] = None] /\ items' \subseteq items
      /\ UNCHANGED <<disk, bin, binDir, rows, record, clock, op, batch, unused, kept, damage, was>>
  BY DEF PurgeItem
<1>3. /\ purge' \in [Actors -> Taking \cup {None}] /\ \A b \in Actors : purge'[b] \in {purge[b], None}
  BY <1>1, <1>2 DEF TypeOK
<1>4. TypeOK'  BY <1>1, <1>2, <1>3 DEF TypeOK
<1>5. PurgeTypes'
  <2>1. \A k \in Active' : k \in Active  BY <1>2, <1>3 DEF Active
  <2> QED  BY <1>1, <1>2, <1>3, <2>1, PurgesGoOn
<1>6. ItemTypes'  BY <1>1, <1>2, ItemsStay DEF Known
<1>7. RequestTypes'
  <2>1. op.step # "idle" => purge'["user"] = None  BY <1>1, <1>3 DEF RequestTypes, Actors
  <2> QED  BY <1>1, <1>2, <2>1, RequestStays DEF RequestTypes
<1> QED  BY <1>1, <1>2, <1>4, <1>5, <1>6, <1>7, DeletionsStay DEF RequestInv

\* A process that exits.
LEMMA ApiExitsRequest ==
    ASSUME RequestInv, ApiExits
    PROVE  RequestInv'
<1>1. TypeOK /\ PurgeTypes /\ ItemTypes /\ Deletions /\ RequestTypes /\ kept \cap unused = {}  BY DEF RequestInv
<1>2. /\ purge' = [purge EXCEPT !["user"] = None] /\ op' = Idle /\ Damage
      /\ UNCHANGED <<disk, bin, binDir, rows, items, record, clock, batch, unused, kept, was>>
  BY DEF ApiExits, Done
<1>3. purge' \in [Actors -> Taking \cup {None}] /\ \A b \in Actors : purge'[b] \in {purge[b], None}
  BY <1>1, <1>2 DEF TypeOK
<1>4. damage' \in 0..MaxDamage  BY <1>1, <1>2, DamageCounted
<1>5. TypeOK'  BY <1>1, <1>2, <1>3, <1>4, IdleTyped DEF TypeOK
<1>6. PurgeTypes'
  <2>1. \A k \in Active' : k \in Active  BY <1>2, <1>3 DEF Active
  <2> QED  BY <1>1, <1>2, <1>3, <2>1, PurgesGoOn
<1>7. ItemTypes'  BY <1>1, <1>2, ItemsStay DEF Known
<1> QED  BY <1>1, <1>2, <1>5, <1>6, <1>7, DeletionsStay, RequestEnds DEF RequestInv

LEMMA CronExitsRequest ==
    ASSUME RequestInv, CronExits
    PROVE  RequestInv'
<1>1. TypeOK /\ PurgeTypes /\ ItemTypes /\ Deletions /\ RequestTypes /\ kept \cap unused = {}  BY DEF RequestInv
<1>2. /\ purge' = [purge EXCEPT !["cron"] = None] /\ batch' = {}
      /\ UNCHANGED <<disk, bin, binDir, rows, items, record, clock, op, unused, kept, damage, was>>
  BY DEF CronExits
<1>3. purge' \in [Actors -> Taking \cup {None}] /\ \A b \in Actors : purge'[b] \in {purge[b], None}
  BY <1>1, <1>2 DEF TypeOK
<1>4. TypeOK'  BY <1>1, <1>2, <1>3 DEF TypeOK
<1>5. PurgeTypes'
  <2>1. \A k \in Active' : k \in Active  BY <1>2, <1>3 DEF Active
  <2> QED  BY <1>1, <1>2, <1>3, <2>1, PurgesGoOn
<1>6. ItemTypes'  BY <1>1, <1>2, ItemsStay DEF Known
<1>7. RequestTypes'
  <2>1. op.step # "idle" => purge'["user"] = None  BY <1>1, <1>3 DEF RequestTypes, Actors
  <2> QED  BY <1>1, <1>2, <2>1, RequestStays DEF RequestTypes
<1> QED  BY <1>1, <1>2, <1>4, <1>5, <1>6, <1>7, DeletionsStay DEF RequestInv

LEMMA StutterRequest ==
    ASSUME RequestInv, UNCHANGED vars
    PROVE  RequestInv'
<1>1. TypeOK /\ PurgeTypes /\ ItemTypes /\ Deletions /\ RequestTypes /\ kept \cap unused = {}  BY DEF RequestInv
<1>2. UNCHANGED <<disk, bin, binDir, rows, items, record, clock, op, purge, batch, unused, kept, damage, was>>
  BY DEF vars
<1>3. TypeOK'  BY <1>1, <1>2 DEF TypeOK
<1>4. PurgeTypes'  BY <1>1, <1>2, PurgesStay, ActiveStays
<1>5. ItemTypes'  BY <1>1, <1>2, ItemsStay DEF Known
<1>6. RequestTypes'  BY <1>1, <1>2, RequestStays DEF RequestTypes
<1> QED  BY <1>1, <1>2, <1>3, <1>4, <1>5, <1>6, DeletionsStay DEF RequestInv

LEMMA RequestsStep ==
    ASSUME RequestInv, [Next]_vars
    PROVE  RequestInv'
<1>1. CASE UserStep
  BY <1>1, CreateDirRequest, MakeDirRequest, RecordDirRequest, UploadRequest, RecordFileRequest,
     MoveRequest, MoveFailsRequest, UpdateRowRequest, DeleteFileRequest, RecordItemRequest,
     DropRowRequest, DeleteDirRequest, HideRequest, RestoreRequest, RestoreFailsRequest,
     RecordRestoredRequest, UnhideRequest, DropItemRequest, UserPurgeRequest
  DEF UserStep
<1>2. CASE CronList \/ CronTake \/ ApiExits \/ CronExits
  BY <1>2, CronListRequest, CronTakeRequest, ApiExitsRequest, CronExitsRequest
<1>3. CASE \E a \in Actors : PurgeStep(a)
  BY <1>3, PurgeBytesRequest, PurgeRowsRequest, PurgeItemRequest DEF PurgeStep
<1> QED  BY <1>1, <1>2, <1>3, StutterRequest DEF Next

\* Every request leaves directories, rows and items of their types behind, and
\* relies on what it has done itself only.
THEOREM RequestsAreSound == Spec => []RequestInv
<1>1. Init => RequestInv  BY RequestsInit
<1>2. RequestInv /\ [Next]_vars => RequestInv'  BY RequestsStep
<1> QED  BY <1>1, <1>2, PTL DEF Spec

\* Whatever fails and whoever exits, the variables keep their types: an item has
\* bytes only while its directory is there, and the drive has a root.
THEOREM TypeCorrect == Spec => []TypeOK
<1>1. RequestInv => TypeOK  BY DEF RequestInv
<1> QED  BY <1>1, RequestsAreSound, PTL

-----------------------------------------------------------------------------
(* Nothing is lost *)

\* Where the bytes of an upload may be after a step.
LEMMA StaysOnDisk ==
    ASSUME NEW c \in Contents, c \in OnDisk,
           \A q \in Files : At(disk, q) = c =>
              \/ \E p \in Files : At(disk', p) = c
              \/ \E i \in Items : bin'[i] # None /\ \E n \in Names : bin'[i][n] = c,
           \A i \in Items, n \in Names : bin[i] # None /\ bin[i][n] = c =>
              \/ \E p \in Files : At(disk', p) = c
              \/ \E k \in Items : bin'[k] # None /\ \E m \in Names : bin'[k][m] = c
    PROVE  c \in OnDisk'
<1>1. \/ \E q \in Files : At(disk, q) = c
      \/ \E i \in Items : bin[i] # None /\ \E n \in Names : bin[i][n] = c
  BY BytesAt DEF OnDisk
<1>2. \/ \E p \in Files : At(disk', p) = c
      \/ \E i \in Items : bin'[i] # None /\ \E n \in Names : bin'[i][n] = c
  BY <1>1
<1>3. \A p \in Files : (Bytes(p))' = At(disk', p)  BY BytesAt
<1> QED  BY <1>2, <1>3 DEF OnDisk

\* A step that leaves the bin alone, and the bytes under every path.
LEMMA SameBytes ==
    ASSUME NEW c \in Contents, c \in OnDisk, bin' = bin,
           \A q \in Files : At(disk', q) = At(disk, q)
    PROVE  c \in OnDisk'
    BY StaysOnDisk

LEMMA RootMade ==
    ASSUME TypeOK
    PROVE  disk \in Disks
    BY DEF TypeOK, Disks

LEMMA UploadKeeps ==
    ASSUME RequestInv, NEW path \in Files, NEW d \in Contents, Upload(path, d), NEW c \in Contents, c \in OnDisk
    PROVE  c \in OnDisk' \/ Overwritten(c)
<1>1. disk' = Put(disk, path, d) /\ bin' = bin /\ d \in unused  BY DEF Upload
<1>2. disk \in Disks  BY RootMade DEF RequestInv
<1>3. \A q \in Files : At(disk', q) = IF q = path THEN d ELSE At(disk, q)  BY <1>1, <1>2, BytesPut
<1>4. CASE At(disk, path) = c
  <2>1. Bytes(path) = c /\ (Bytes(path))' = d  BY <1>3, <1>4, BytesAt
  <2> QED  BY <1>1, <2>1 DEF Overwritten
<1>5. CASE At(disk, path) # c
  <2>1. \A q \in Files : At(disk, q) = c => At(disk', q) = c  BY <1>3, <1>5
  <2> QED  BY <1>1, <2>1, StaysOnDisk
<1> QED  BY <1>4, <1>5

\* Bytes that were never answered for are taken away again.
LEMMA RecordFileKeeps ==
    ASSUME RequestInv, RecordFile, NEW c \in Contents, c \in OnDisk, c \in kept
    PROVE  c \in OnDisk'
<1>1. op.path \in Files /\ Bytes(op.path) \notin kept  BY DEF RequestInv, RequestTypes, RecordFile
<1>2. disk \in Disks  BY RootMade DEF RequestInv
<1>3. bin' = bin  BY DEF RecordFile
<1>4. CASE disk' = disk  BY <1>3, <1>4, SameBytes
<1>5. CASE disk' = Put(disk, op.path, None)
  <2>1. \A q \in Files : At(disk', q) = IF q = op.path THEN None ELSE At(disk, q)  BY <1>1, <1>2, <1>5, BytesPut
  <2>2. At(disk, op.path) # c  BY <1>1, BytesAt
  <2>3. \A q \in Files : At(disk, q) = c => At(disk', q) = c  BY <2>1, <2>2
  <2> QED  BY <1>3, <2>3, StaysOnDisk
<1> QED  BY <1>4, <1>5 DEF RecordFile

\* Bytes that are moved from one path to another one, where nothing was.
LEMMA Moved ==
    ASSUME NEW d \in Disks, NEW from \in Files, NEW to \in Files, from # to, At(d, to) = None,
           NEW e, e = Put(Put(d, to, At(d, from)), from, None)
    PROVE  /\ e \in Disks
           /\ \A q \in Files : At(e, q) = IF q = from THEN None ELSE IF q = to THEN At(d, from) ELSE At(d, q)
<1>1. PICK mid : mid = Put(d, to, At(d, from))  OBVIOUS
<1>2. At(d, from) \in Contents \cup {None}  BY AtType
<1>3. mid \in Disks /\ \A q \in Files : At(mid, q) = IF q = to THEN At(d, from) ELSE At(d, q)
  BY <1>1, <1>2, BytesPut
<1>4. e = Put(mid, from, None)  BY <1>1
<1>5. e \in Disks /\ \A q \in Files : At(e, q) = IF q = from THEN None ELSE At(mid, q)
  BY <1>3, <1>4, BytesPut
<1> QED  BY <1>3, <1>5

LEMMA MovedStays ==
    ASSUME NEW c \in Contents, c \in OnDisk, bin' = bin, NEW from \in Files, NEW to \in Files, from # to,
           At(disk, to) = None,
           \A q \in Files : At(disk', q) = IF q = from THEN None ELSE IF q = to THEN At(disk, from) ELSE At(disk, q)
    PROVE  c \in OnDisk'
<1>1. c # None  BY NoneAssumption
<1>2. ASSUME NEW q \in Files, At(disk, q) = c PROVE \E p \in Files : At(disk', p) = c
  <2>1. CASE q = from  BY <1>2, <2>1
  <2>2. CASE q # from  BY <1>1, <1>2, <2>2
  <2> QED  BY <2>1, <2>2
<1> QED  BY <1>2, StaysOnDisk

LEMMA MoveKeeps ==
    ASSUME RequestInv, NEW r \in Rows, NEW p \in Folders, Move(r, p), NEW c \in Contents, c \in OnDisk
    PROVE  c \in OnDisk'
<1>1. PICK src : src = rows[r].path  OBVIOUS
<1>2. PICK dst : dst = <<p, src[2]>>  OBVIOUS
<1>3. /\ Live(r) /\ Len(src) = 2 /\ dst # src /\ Bytes(dst) = None /\ bin' = bin
      /\ disk' = Put(Put(disk, dst, Bytes(src)), src, None)
  BY <1>1, <1>2 DEF Move
<1>4. src \in Files  BY <1>1, <1>3, RowTypes, PathKinds DEF Live, RequestInv
<1>5. dst \in Files  BY <1>2, <1>4, FilePath, FileAt
<1>6. At(disk, dst) = None /\ disk' = Put(Put(disk, dst, At(disk, src)), src, None)  BY <1>3, BytesAt
<1>7. disk \in Disks  BY RootMade DEF RequestInv
<1>8. \A q \in Files : At(disk', q) = IF q = src THEN None ELSE IF q = dst THEN At(disk, src) ELSE At(disk, q)
  BY <1>3, <1>4, <1>5, <1>6, <1>7, Moved
<1> QED  BY <1>3, <1>4, <1>5, <1>6, <1>8, MovedStays

LEMMA UpdateRowKeeps ==
    ASSUME RequestInv, UpdateRow, NEW c \in Contents, c \in OnDisk
    PROVE  c \in OnDisk'
<1>1. /\ op.path \in Files /\ op.from \in Files /\ op.path # op.from /\ Bytes(op.from) = None
  BY DEF RequestInv, RequestTypes, UpdateRow
<1>2. disk \in Disks /\ bin' = bin  BY RootMade DEF RequestInv, UpdateRow
<1>3. CASE disk' = disk  BY <1>2, <1>3, SameBytes
<1>4. CASE disk' = Put(Put(disk, op.from, Bytes(op.path)), op.path, None)
  <2>1. At(disk, op.from) = None /\ disk' = Put(Put(disk, op.from, At(disk, op.path)), op.path, None)
    BY <1>1, <1>4, BytesAt
  <2>2. \A q \in Files : At(disk', q) = IF q = op.path THEN None ELSE IF q = op.from THEN At(disk, op.path) ELSE At(disk, q)
    BY <1>1, <1>2, <2>1, Moved
  <2> QED  BY <1>1, <1>2, <2>1, <2>2, MovedStays
<1> QED  BY <1>3, <1>4 DEF UpdateRow

\* A file's bytes that go into the bin, or come back out of it.
LEMMA FileBinned ==
    ASSUME TypeOK, NEW c \in Contents, c \in OnDisk, NEW path \in Files, NEW i \in Items, bin[i] = None,
           disk' = Put(disk, path, None), bin' = [bin EXCEPT ![i] = Only(path[2], Bytes(path))]
    PROVE  c \in OnDisk'
<1>1. disk \in Disks /\ path[2] \in Names /\ c # None  BY RootMade, FilePath, NoneAssumption
<1>2. PICK t : t = Only(path[2], Bytes(path))  OBVIOUS
<1>3. Bytes(path) = At(disk, path) /\ Bytes(path) \in Contents \cup {None}  BY <1>1, AtType, BytesAt
<1>4. t # None /\ t[path[2]] = At(disk, path)  BY <1>1, <1>2, <1>3, TreeKinds
<1>5. \A k \in Items : bin'[k] = IF k = i THEN t ELSE bin[k]  BY <1>2 DEF TypeOK
<1>6. \A q \in Files : At(disk', q) = IF q = path THEN None ELSE At(disk, q)  BY <1>1, BytesPut
<1>7. ASSUME NEW q \in Files, At(disk, q) = c
      PROVE  \/ \E p \in Files : At(disk', p) = c
             \/ \E k \in Items : bin'[k] # None /\ \E n \in Names : bin'[k][n] = c
  <2>1. CASE q = path  BY <1>1, <1>4, <1>5, <1>7, <2>1
  <2>2. CASE q # path  BY <1>6, <1>7, <2>2
  <2> QED  BY <2>1, <2>2
<1>8. \A k \in Items, n \in Names : bin[k] # None /\ bin[k][n] = c => bin'[k] # None /\ bin'[k][n] = c
  BY <1>5
<1> QED  BY <1>7, <1>8, StaysOnDisk

LEMMA FileBack ==
    ASSUME TypeOK, NEW c \in Contents, c \in OnDisk, NEW path \in Files, NEW i \in Items, bin[i] # None,
           \A n \in Names : (bin[i][n] # None <=> n = path[2]), Bytes(path) = None,
           disk' = BackFromBin(disk, path, i), bin' = [bin EXCEPT ![i] = None]
    PROVE  c \in OnDisk'
<1>1. disk \in Disks /\ path[2] \in Names /\ c # None  BY RootMade, FilePath, NoneAssumption
<1>2. PICK b : b = bin[i][path[2]]  OBVIOUS
<1>3. bin[i] \in Trees  BY DEF TypeOK
<1>4. b \in Contents \cup {None}  BY <1>1, <1>2, <1>3, TreeKinds
<1>5. disk' = Put(disk, path, b)  BY <1>2 DEF BackFromBin
<1>6. \A q \in Files : At(disk', q) = IF q = path THEN b ELSE At(disk, q)  BY <1>1, <1>4, <1>5, BytesPut
<1>7. At(disk, path) # c  BY <1>1, BytesAt
<1>8. \A k \in Items : bin'[k] = IF k = i THEN None ELSE bin[k]  BY DEF TypeOK
<1>9. \A q \in Files : At(disk, q) = c => At(disk', q) = c  BY <1>6, <1>7
<1>10. ASSUME NEW k \in Items, NEW n \in Names, bin[k] # None, bin[k][n] = c
       PROVE  \/ \E p \in Files : At(disk', p) = c
              \/ \E m \in Items : bin'[m] # None /\ \E l \in Names : bin'[m][l] = c
  <2>1. CASE k = i
    <3>1. n = path[2]  BY <1>1, <1>10, <2>1
    <3> QED  BY <1>2, <1>6, <1>10, <2>1, <3>1
  <2>2. CASE k # i  BY <1>8, <1>10, <2>2
  <2> QED  BY <2>1, <2>2
<1> QED  BY <1>9, <1>10, StaysOnDisk

\* The same for a folder.
LEMMA DirBinned ==
    ASSUME TypeOK, NEW c \in Contents, c \in OnDisk, NEW p \in Folders, NEW i \in Items, bin[i] = None,
           disk' = [disk EXCEPT ![p] = None], bin' = [bin EXCEPT ![i] = disk[p]]
    PROVE  c \in OnDisk'
<1>1. c # None  BY NoneAssumption
<1>2. \A k \in Items : bin'[k] = IF k = i THEN disk[p] ELSE bin[k]  BY DEF TypeOK
<1>3. \A q \in Folders : disk'[q] = IF q = p THEN None ELSE disk[q]  BY DEF TypeOK
<1>4. ASSUME NEW q \in Files, At(disk, q) = c
      PROVE  \/ \E r \in Files : At(disk', r) = c
             \/ \E k \in Items : bin'[k] # None /\ \E n \in Names : bin'[k][n] = c
  <2>1. q[1] \in Folders /\ q[2] \in Names  BY FilePath
  <2>2. disk[q[1]] # None /\ disk[q[1]][q[2]] = c  BY <1>1, <1>4 DEF At
  <2>3. CASE q[1] = p  BY <1>2, <2>1, <2>2, <2>3
  <2>4. CASE q[1] # p  BY <1>3, <1>4, <2>1, <2>4 DEF At
  <2> QED  BY <2>3, <2>4
<1>5. \A k \in Items, n \in Names : bin[k] # None /\ bin[k][n] = c => bin'[k] # None /\ bin'[k][n] = c
  BY <1>2
<1>6. \A q \in Files : At(disk, q) = c =>
         \/ \E r \in Files : At(disk', r) = c
         \/ \E k \in Items : bin'[k] # None /\ \E n \in Names : bin'[k][n] = c
  BY <1>4
<1>7. \A k \in Items, n \in Names : bin[k] # None /\ bin[k][n] = c =>
         \E m \in Items : bin'[m] # None /\ \E l \in Names : bin'[m][l] = c
  BY <1>5
<1> QED  BY <1>6, <1>7, StaysOnDisk

LEMMA DirBack ==
    ASSUME TypeOK, NEW c \in Contents, c \in OnDisk, NEW p \in Folders, NEW i \in Items, bin[i] # None,
           disk[p] = None, disk' = [disk EXCEPT ![p] = bin[i]], bin' = [bin EXCEPT ![i] = None]
    PROVE  c \in OnDisk'
<1>1. c # None  BY NoneAssumption
<1>2. \A k \in Items : bin'[k] = IF k = i THEN None ELSE bin[k]  BY DEF TypeOK
<1>3. \A q \in Folders : disk'[q] = IF q = p THEN bin[i] ELSE disk[q]  BY DEF TypeOK
<1>4. ASSUME NEW q \in Files, At(disk, q) = c PROVE At(disk', q) = c
  <2>1. q[1] \in Folders /\ disk[q[1]] # None  BY <1>1, <1>4, FilePath DEF At
  <2> QED  BY <1>3, <1>4, <2>1 DEF At
<1>5. ASSUME NEW k \in Items, NEW n \in Names, bin[k] # None, bin[k][n] = c
      PROVE  \/ \E q \in Files : At(disk', q) = c
             \/ \E m \in Items : bin'[m] # None /\ \E l \in Names : bin'[m][l] = c
  <2>1. CASE k = i
    <3>1. PICK q : q = <<p, n>>  OBVIOUS
    <3>2. q \in Files /\ q[1] = p /\ q[2] = n  BY <3>1, FileAt
    <3>3. At(disk', q) = c  BY <1>3, <1>5, <2>1, <3>2 DEF At
    <3> QED  BY <3>2, <3>3
  <2>2. CASE k # i  BY <1>2, <1>5, <2>2
  <2> QED  BY <2>1, <2>2
<1>6. \A q \in Files : At(disk, q) = c => \E r \in Files : At(disk', r) = c  BY <1>4
<1>7. \A k \in Items, n \in Names : bin[k] # None /\ bin[k][n] = c =>
         \/ \E q \in Files : At(disk', q) = c
         \/ \E m \in Items : bin'[m] # None /\ \E l \in Names : bin'[m][l] = c
  BY <1>5
<1> QED  BY <1>6, <1>7, StaysOnDisk

\* Each step of a request, and of a purge.
LEMMA DirKeeps ==
    ASSUME RequestInv, "create dir" \notin Failing, NEW c \in Contents, c \in OnDisk, MakeDir \/ RecordDir
    PROVE  c \in OnDisk'
<1>1. CASE MakeDir
  <2>1. PICK p : p = op.path[1]  OBVIOUS
  <2>2. p \in Folders  BY <1>1, <2>1, FolderPath DEF RequestInv, RequestTypes, MakeDir, Subfolders
  <2>3. disk' = WithDir(disk, p) /\ bin' = bin  BY <1>1, <2>1 DEF MakeDir
  <2>4. \A q \in Files : At(disk', q) = At(disk, q)  BY <2>2, <2>3, RootMade, DirMade DEF RequestInv
  <2> QED  BY <2>3, <2>4, SameBytes
<1>2. CASE RecordDir
  <2>1. disk' = disk /\ bin' = bin  BY <1>2 DEF RecordDir, Fails
  <2> QED  BY <2>1, SameBytes
<1> QED  BY <1>1, <1>2

LEMMA MoveFailsKeeps ==
    ASSUME RequestInv, NEW r \in Rows, NEW p \in Folders, MoveFails(r, p), NEW c \in Contents, c \in OnDisk
    PROVE  c \in OnDisk'
<1>1. disk' = WithDir(disk, p) /\ bin' = bin  BY DEF MoveFails
<1>2. \A q \in Files : At(disk', q) = At(disk, q)  BY <1>1, RootMade, DirMade DEF RequestInv
<1> QED  BY <1>1, <1>2, SameBytes

LEMMA RestoreFailsKeeps ==
    ASSUME RequestInv, NEW i \in Items, RestoreFails(i), NEW c \in Contents, c \in OnDisk
    PROVE  c \in OnDisk'
<1>1. TypeOK /\ PurgeTypes /\ ItemTypes  BY DEF RequestInv
<1>2. Known(i)  BY <1>1 DEF RestoreFails, PurgeTypes, Active
<1>3. PICK p : p = record[i].path[1]  OBVIOUS
<1>4. p \in Folders  BY <1>1, <1>2, <1>3, ItemPaths
<1>5. disk' = WithDir(disk, p) /\ bin' = bin  BY <1>3 DEF RestoreFails
<1>6. \A q \in Files : At(disk', q) = At(disk, q)  BY <1>1, <1>4, <1>5, RootMade, DirMade
<1> QED  BY <1>5, <1>6, SameBytes

LEMMA DeleteFileKeeps ==
    ASSUME RequestInv, NEW r \in Rows, DeleteFile(r), NEW c \in Contents, c \in OnDisk
    PROVE  c \in OnDisk'
<1>1. PICK path : path = rows[r].path  OBVIOUS
<1>2. PICK i \in Free : bin' = [bin EXCEPT ![i] = Only(path[2], Bytes(path))]  BY <1>1 DEF DeleteFile
<1>3. Live(r) /\ Len(path) = 2 /\ disk' = Put(disk, path, None)  BY <1>1 DEF DeleteFile
<1>4. path \in Files  BY <1>1, <1>3, RowTypes, PathKinds DEF Live, RequestInv
<1>5. i \in Items /\ bin[i] = None  BY DEF Free
<1> QED  BY <1>2, <1>3, <1>4, <1>5, FileBinned DEF RequestInv

LEMMA RecordItemKeeps ==
    ASSUME RequestInv, RecordItem, NEW c \in Contents, c \in OnDisk
    PROVE  c \in OnDisk'
<1>1. PICK path, i : path = op.path /\ i = op.item  OBVIOUS
<1>2. /\ path \in Files /\ i \in Items /\ Bytes(path) = None /\ bin[i] # None
      /\ \A n \in Names : (bin[i][n] # None <=> n = path[2])
  BY <1>1 DEF RequestInv, RequestTypes, RecordItem
<1>3. CASE UNCHANGED <<disk, bin>>  BY <1>3, SameBytes
<1>4. CASE disk' = BackFromBin(disk, path, i) /\ bin' = [bin EXCEPT ![i] = None]
  BY <1>2, <1>4, FileBack DEF RequestInv
<1> QED  BY <1>1, <1>3, <1>4 DEF RecordItem

LEMMA DeleteDirKeeps ==
    ASSUME RequestInv, NEW p \in Folders, DeleteDir(p), NEW c \in Contents, c \in OnDisk
    PROVE  c \in OnDisk'
<1>1. PICK i \in Free : bin' = [bin EXCEPT ![i] = disk[p]]  BY DEF DeleteDir
<1>2. disk' = [disk EXCEPT ![p] = None]  BY DEF DeleteDir
<1>3. i \in Items /\ bin[i] = None  BY DEF Free
<1> QED  BY <1>1, <1>2, <1>3, DirBinned DEF RequestInv

LEMMA HideKeeps ==
    ASSUME RequestInv, HideSubtree, NEW c \in Contents, c \in OnDisk
    PROVE  c \in OnDisk'
<1>1. PICK p, i : p = op.path[1] /\ i = op.item  OBVIOUS
<1>2. i \in Items /\ bin[i] # None /\ op.path \in {<<q>> : q \in Subfolders} /\ disk[p] = None
  BY <1>1 DEF RequestInv, RequestTypes, HideSubtree
<1>3. p \in Folders  BY <1>1, <1>2, FolderPath DEF Subfolders
<1>4. CASE UNCHANGED <<disk, bin>>  BY <1>4, SameBytes
<1>5. CASE disk' = [disk EXCEPT ![p] = bin[i]] /\ bin' = [bin EXCEPT ![i] = None]
  BY <1>2, <1>3, <1>5, DirBack DEF RequestInv
<1> QED  BY <1>1, <1>4, <1>5 DEF HideSubtree

LEMMA RestoreKeeps ==
    ASSUME RequestInv, NEW i \in Items, Restore(i), NEW c \in Contents, c \in OnDisk
    PROVE  c \in OnDisk'
<1>1. TypeOK /\ PurgeTypes /\ ItemTypes  BY DEF RequestInv
<1>2. PICK path : path = record[i].path  OBVIOUS
<1>3. /\ i \in items /\ bin[i] # None /\ Vacant(path) /\ bin' = [bin EXCEPT ![i] = None]
      /\ IsDir(i) => disk' = [disk EXCEPT ![path[1]] = bin[i]]
      /\ ~IsDir(i) => disk' = BackFromBin(disk, path, i)
  BY <1>2 DEF Restore
<1>4. Known(i)  BY <1>1, <1>3 DEF PurgeTypes, Active
<1>5. CASE IsDir(i)
  <2>1. path[1] \in Folders /\ disk[path[1]] = None  BY <1>1, <1>2, <1>3, <1>4, <1>5, ItemPaths DEF Vacant, IsDir
  <2> QED  BY <1>1, <1>3, <1>5, <2>1, DirBack
<1>6. CASE ~IsDir(i)
  <2>1. path \in Files /\ Bytes(path) = None  BY <1>1, <1>2, <1>3, <1>4, <1>6, ItemPaths DEF Vacant, IsDir
  <2>2. \A n \in Names : (bin[i][n] # None <=> n = path[2])  BY <1>1, <1>2, <1>3, <1>4, <1>6 DEF ItemTypes
  <2> QED  BY <1>1, <1>3, <1>6, <2>1, <2>2, FileBack
<1> QED  BY <1>5, <1>6

LEMMA RecordRestoredKeeps ==
    ASSUME RequestInv, RecordRestored, NEW c \in Contents, c \in OnDisk
    PROVE  c \in OnDisk'
<1>1. TypeOK /\ ItemTypes /\ RequestTypes  BY DEF RequestInv
<1>2. PICK i, path : i = op.item /\ path = op.path  OBVIOUS
<1>3. i \in Items /\ Known(i) /\ path = record[i].path /\ bin[i] = None /\ ~IsDir(i)
  BY <1>1, <1>2 DEF RequestTypes, RecordRestored
<1>4. path \in Files  BY <1>1, <1>3, ItemPaths
<1>5. CASE UNCHANGED <<disk, bin>>  BY <1>5, SameBytes
<1>6. CASE bin' = [bin EXCEPT ![i] = Only(path[2], Bytes(path))] /\ disk' = Put(disk, path, None)
  BY <1>1, <1>3, <1>4, <1>6, FileBinned
<1> QED  BY <1>2, <1>5, <1>6 DEF RecordRestored

LEMMA UnhideKeeps ==
    ASSUME RequestInv, UnhideSubtree, NEW c \in Contents, c \in OnDisk
    PROVE  c \in OnDisk'
<1>1. TypeOK /\ ItemTypes /\ RequestTypes  BY DEF RequestInv
<1>2. PICK i, p : i = op.item /\ p = op.path[1]  OBVIOUS
<1>3. i \in Items /\ Known(i) /\ op.path = record[i].path /\ bin[i] = None /\ IsDir(i)
  BY <1>1, <1>2 DEF RequestTypes, UnhideSubtree
<1>4. p \in Folders  BY <1>1, <1>2, <1>3, ItemPaths
<1>5. CASE UNCHANGED <<disk, bin>>  BY <1>5, SameBytes
<1>6. CASE bin' = [bin EXCEPT ![i] = disk[p]] /\ disk' = [disk EXCEPT ![p] = None]
  BY <1>1, <1>3, <1>4, <1>6, DirBinned
<1> QED  BY <1>2, <1>5, <1>6 DEF UnhideSubtree

LEMMA PurgeBytesKeeps ==
    ASSUME RequestInv, NEW a \in Actors, PurgeBytes(a), NEW c \in Contents, c \in OnDisk
    PROVE  c \in OnDisk' \/ Purged(c)
<1>1. PICK i : i = purge[a].item  OBVIOUS
<1>2. Purging(a, "bytes") /\ disk' = disk /\ bin' = [bin EXCEPT ![i] = None]  BY <1>1 DEF PurgeBytes
<1>3. CASE bin[i] # None /\ \E n \in Names : bin[i][n] = c  BY <1>1, <1>2, <1>3 DEF Purged
<1>4. CASE ~(bin[i] # None /\ \E n \in Names : bin[i][n] = c)
  <2>1. \A k \in Items : bin'[k] = IF k = i THEN None ELSE bin[k]  BY <1>2 DEF RequestInv, TypeOK
  <2>2. \A k \in Items, n \in Names : bin[k] # None /\ bin[k][n] = c => bin'[k] # None /\ bin'[k][n] = c
    BY <1>4, <2>1
  <2>3. c \in OnDisk'  BY <1>2, <2>2, StaysOnDisk
  <2> QED  BY <2>3
<1> QED  BY <1>3, <1>4

LEMMA OthersKeep ==
    ASSUME NEW c \in Contents, c \in OnDisk,
           \/ \E p \in Folders : CreateDir(p)
           \/ \E i \in Items : UserPurge(i)
           \/ DropRow \/ DropItem \/ CronList \/ CronTake \/ ApiExits \/ CronExits
           \/ \E a \in Actors : PurgeRows(a) \/ PurgeItem(a)
           \/ UNCHANGED vars
    PROVE  c \in OnDisk'
<1>1. UNCHANGED <<disk, bin>>
  BY DEF CreateDir, UserPurge, DropRow, DropItem, CronList, CronTake, ApiExits, CronExits, PurgeRows, PurgeItem, vars
<1> QED  BY <1>1, SameBytes

LEMMA BytesKept ==
    ASSUME RequestInv, "create dir" \notin Failing, [Next]_vars, NEW c \in Contents, c \in OnDisk, c \in kept
    PROVE  c \in OnDisk' \/ Overwritten(c) \/ Purged(c)
<1>1. CASE UserStep
  BY <1>1, OthersKeep, DirKeeps, UploadKeeps, RecordFileKeeps, MoveKeeps, MoveFailsKeeps, UpdateRowKeeps,
     DeleteFileKeeps, RecordItemKeeps, DeleteDirKeeps, HideKeeps, RestoreKeeps, RestoreFailsKeeps,
     RecordRestoredKeeps, UnhideKeeps
  DEF UserStep
<1>2. CASE CronList \/ CronTake \/ ApiExits \/ CronExits \/ UNCHANGED vars  BY <1>2, OthersKeep
<1>3. CASE \E a \in Actors : PurgeStep(a)
  BY <1>3, OthersKeep, PurgeBytesKeeps DEF PurgeStep
<1> QED  BY <1>1, <1>2, <1>3 DEF Next

\* As long as the database records every folder it is asked to, the bytes of an
\* answered upload are in place or in the bin until another upload overwrites them
\* or their item is purged, whatever else fails and whoever exits: every deletion,
\* move and restore, and the undoing of each, moves bytes to where there are none.
THEOREM BytesAreKept ==
    ASSUME "create dir" \notin Failing
    PROVE  Spec => NothingLost
<1>1. ASSUME RequestInv, [Next]_vars
      PROVE  \A c \in OnDisk \cap kept : c \in OnDisk' \/ Overwritten(c) \/ Purged(c)
  <2>1. \A c \in OnDisk : c \in Contents  BY DEF OnDisk
  <2> QED  BY <1>1, <2>1, BytesKept
<1>2. RequestInv /\ [Next]_vars => [\A c \in OnDisk \cap kept : c \in OnDisk' \/ Overwritten(c) \/ Purged(c)]_vars
  BY <1>1
<1> QED  BY <1>2, RequestsAreSound, PTL DEF Spec, NothingLost

-----------------------------------------------------------------------------
(* Rows and items: what the steps leave alone *)

\* Hidden rows stay as they are, or go.
FewerHidden == \A r \in Rows : Hidden(r)' => Hidden(r) /\ rows'[r] = rows[r]
SameHidden  == FewerHidden /\ \A r \in Rows : Hidden(r) => Hidden(r)'
SameLive    == \A r \in Rows : (Live(r)' <=> Live(r)) /\ (Live(r) => rows'[r] = rows[r])
SameRecords == \A i \in Items : Known(i) => record'[i] = record[i]

LEMMA HiddenRowsStay ==
    ASSUME RequestInv, HiddenRows, FewerHidden, SameRecords, items \subseteq items'
    PROVE  HiddenRows'
<1>1. \A i \in items : i \in Items /\ Known(i)  BY DEF RequestInv, TypeOK, PurgeTypes, Active
<1>2. ASSUME NEW r \in Rows, Hidden(r)'
      PROVE  \E i \in items' : record'[i].path = <<rows'[r].path[1]>> /\ record'[i].created = rows'[r].hidden
  <2>1. Hidden(r) /\ rows'[r] = rows[r]  BY <1>2 DEF FewerHidden
  <2>2. PICK i \in items : record[i].path = <<rows[r].path[1]>> /\ record[i].created = rows[r].hidden
    BY <2>1 DEF HiddenRows
  <2> QED  BY <1>1, <2>1, <2>2 DEF SameRecords
<1>3. ASSUME NEW r \in Rows, NEW s \in Rows, Hidden(r)', Hidden(s)', Len(rows'[r].path) = 2, rows'[r].path = rows'[s].path
      PROVE  r = s
  BY <1>3 DEF FewerHidden, HiddenRows, OfFile
<1> QED  BY <1>2, <1>3 DEF HiddenRows, OfFile

LEMMA OneItemStays ==
    ASSUME RequestInv, OneItem, SameRecords, \A i \in Active' : i \in Active,
           op' = op \/ op'.step \notin {"hide", "unhide"}
    PROVE  OneItem'
<1>1. \A i \in Active : i \in Items /\ Known(i)  BY DEF RequestInv, TypeOK, PurgeTypes, Active, Taking
<1>2. \A i \in Active' : record'[i] = record[i]  BY <1>1 DEF SameRecords
<1>3. ASSUME NEW i \in Active', NEW k \in Active', record'[i].path = record'[k].path, Len(record'[i].path) = 1
      PROVE  i = k
  BY <1>2, <1>3 DEF OneItem, IsDir
<1>4. op'.step = "hide" => \A i \in Active' : record'[i].path # op'.path  BY <1>2 DEF OneItem
<1>5. op'.step = "unhide" => \A i \in Active' : record'[i].path = op'.path => i = op'.item  BY <1>2 DEF OneItem
<1> QED  BY <1>3, <1>4, <1>5 DEF OneItem, IsDir

LEMMA NothingHiddenStays ==
    ASSUME RequestInv, NothingHidden, FewerHidden, SameRecords,
           op' = op \/ (op'.step = "drop item" => Len(record'[op'.item].path) # 1),
           \A a \in Actors : purge'[a] # None /\ purge'[a].step = "item" /\ Len(record'[purge'[a].item].path) = 1
                              => purge'[a] = purge[a]
    PROVE  NothingHidden'
<1>1. \A i \in Active : i \in Items /\ Known(i)  BY DEF RequestInv, TypeOK, PurgeTypes, Active, Taking
<1>2. \A r \in Rows : Hidden(r)' => Hidden(r) /\ rows[r] # None /\ rows'[r] = rows[r]
  BY DEF Hidden, FewerHidden
<1>3. ASSUME op'.step = "drop item", Len(record'[op'.item].path) = 1
      PROVE  \A r \in Rows : Hidden(r)' => rows'[r].path[1] # op'.path[1]
  <2>1. op' = op /\ op.step = "drop item"  BY <1>3
  <2>2. op.item \in Items /\ Known(op.item)  BY <2>1 DEF RequestInv, RequestTypes
  <2>3. IsDir(op.item)  BY <1>3, <2>1, <2>2 DEF SameRecords, IsDir
  <2>4. \A r \in UnderFolder(op.path[1]) : ~Hidden(r)  BY <2>1, <2>3 DEF NothingHidden
  <2> QED  BY <1>2, <2>1, <2>4 DEF UnderFolder
<1>4. ASSUME NEW a \in Actors, purge'[a] # None, purge'[a].step = "item", Len(record'[purge'[a].item].path) = 1
      PROVE  \A r \in Rows : Hidden(r)' => rows'[r].path[1] # record'[purge'[a].item].path[1]
  <2>1. purge'[a] = purge[a]  BY <1>4
  <2>2. purge[a].item \in Items /\ Known(purge[a].item)  BY <1>1, <1>4, <2>1, TakingOf DEF RequestInv
  <2>3. record'[purge[a].item] = record[purge[a].item] /\ IsDir(purge[a].item)
    BY <1>4, <2>1, <2>2 DEF SameRecords, IsDir
  <2>4. PICK p : p = record[purge[a].item].path[1]  OBVIOUS
  <2>5. \A r \in UnderFolder(p) : ~Hidden(r)  BY <1>4, <2>1, <2>3, <2>4 DEF NothingHidden
  <2>6. \A r \in Rows : rows[r] # None /\ rows[r].path[1] = p => ~Hidden(r)  BY <2>5 DEF UnderFolder
  <2>7. record'[purge'[a].item].path[1] = p  BY <2>1, <2>3, <2>4
  <2> QED  BY <1>2, <2>6, <2>7
<1> QED  BY <1>3, <1>4 DEF NothingHidden, IsDir, UnderFolder

LEMMA ItemBytesStay ==
    ASSUME ItemBytes, items' \subseteq items,
           \A i \in items' : i \in binDir' => i \in binDir /\ bin'[i] = bin[i],
           op' = op \/ op.step \notin {"restored", "unhide", "drop item"}
    PROVE  ItemBytes'
    BY DEF ItemBytes

LEMMA HiddenBytesStay ==
    ASSUME RequestInv, HiddenBytes, FewerHidden, SameRecords, items' \subseteq items,
           \A i \in items' : bin'[i] \in {bin[i], None}
    PROVE  HiddenBytes'
<1>1. \A i \in items : i \in Items /\ Known(i)  BY DEF RequestInv, TypeOK, PurgeTypes, Active
<1> SUFFICES ASSUME NEW i \in items', NEW r \in Rows, bin'[i] # None, Hidden(r)', Len(rows'[r].path) = 2,
                    record'[i].path = <<rows'[r].path[1]>>
             PROVE  bin'[i][rows'[r].path[2]] # None
  BY DEF HiddenBytes, OfFile
<1>2. Hidden(r) /\ rows'[r] = rows[r]  BY DEF FewerHidden
<1>3. i \in items /\ bin'[i] = bin[i] /\ record'[i] = record[i]  BY <1>1 DEF SameRecords
<1> QED  BY <1>2, <1>3 DEF HiddenBytes, OfFile

LEMMA HiddenAtStays ==
    ASSUME SameHidden
    PROVE  \A path : HiddenAt(path)' = HiddenAt(path)
<1>1. \A r \in Rows : (Hidden(r)' <=> Hidden(r)) /\ (Hidden(r) => rows'[r] = rows[r])  BY DEF SameHidden, FewerHidden
<1>2. ASSUME NEW path PROVE {r \in Rows : Hidden(r)' /\ rows'[r].path = path} = {r \in Rows : Hidden(r) /\ rows[r].path = path}
  BY <1>1
<1> QED  BY <1>2 DEF HiddenAt

\* What an item remembers, as long as its folder's hidden rows are there.
Remembers(i) ==
    IF IsDir(i)
    THEN LET p == record[i].path[1]
         IN  was[i] = {<<n, bin[i][n]>> : n \in HiddenNames(p)} /\ HiddenAt(<<p>>) # {}
    ELSE was[i] = {<<record[i].path[2], bin[i][record[i].path[2]]>>}

LEMMA RemembersStays ==
    ASSUME NEW i, Remembers(i), record'[i] = record[i], bin'[i] = bin[i], was'[i] = was[i],
           IsDir(i) => /\ HiddenAt(<<record[i].path[1]>>)' = HiddenAt(<<record[i].path[1]>>)
                       /\ \A n \in Names : HiddenAt(<<record[i].path[1], n>>)' = HiddenAt(<<record[i].path[1], n>>)
    PROVE  Remembers(i)'
<1>1. PICK p : p = record[i].path[1]  OBVIOUS
<1>2. CASE IsDir(i)
  <2>1. HiddenNames(p)' = HiddenNames(p) /\ HiddenAt(<<p>>)' = HiddenAt(<<p>>)  BY <1>1, <1>2 DEF HiddenNames
  <2>2. was[i] = {<<n, bin[i][n]>> : n \in HiddenNames(p)} /\ HiddenAt(<<p>>) # {}  BY <1>1, <1>2 DEF Remembers
  <2>3. was'[i] = {<<n, bin'[i][n]>> : n \in HiddenNames(p)'} /\ HiddenAt(<<p>>)' # {}  BY <2>1, <2>2
  <2>4. record'[i].path[1] = p /\ Len(record'[i].path) = 1  BY <1>1, <1>2 DEF IsDir
  <2> QED  BY <2>3, <2>4 DEF Remembers, IsDir
<1>3. CASE ~IsDir(i)  BY <1>3 DEF Remembers, IsDir
<1> QED  BY <1>2, <1>3

LEMMA RememberedStays ==
    ASSUME RequestInv, Remembered, SameHidden, SameRecords, items' \subseteq items,
           \A i \in items' : i \in binDir' /\ bin'[i] # None => i \in binDir /\ bin'[i] = bin[i] /\ was'[i] = was[i]
    PROVE  Remembered'
<1>1. \A i \in items : i \in Items /\ Known(i)  BY DEF RequestInv, TypeOK, PurgeTypes, Active
<1>2. ASSUME NEW i \in items' \cap binDir', bin'[i] # None PROVE Remembers(i)'
  <2>1. i \in items \cap binDir /\ bin'[i] = bin[i] /\ was'[i] = was[i] /\ record'[i] = record[i]
    BY <1>1, <1>2 DEF SameRecords
  <2>2. Remembers(i)  BY <1>2, <2>1 DEF Remembered, Remembers
  <2> QED  BY <2>1, <2>2, HiddenAtStays, RemembersStays
<1> QED  BY <1>2 DEF Remembered, Remembers

\* Steps that leave the bin and the hidden rows alone.
LEMMA BinStays ==
    ASSUME RequestInv, ListingInv, SameHidden, UNCHANGED <<items, record, batch, purge>>,
           \A i \in items : i \in binDir' => i \in binDir /\ bin'[i] = bin[i] /\ was'[i] = was[i],
           \A i \in items : bin'[i] = bin[i],
           op.step \notin {"restored", "unhide", "drop item"}, op'.step \notin {"unhide", "drop item"}
    PROVE  /\ HiddenRows' /\ NothingHidden' /\ ItemBytes' /\ HiddenBytes' /\ Remembered'
           /\ op'.step # "hide" => OneItem'
<1>1. FewerHidden /\ SameRecords  BY DEF SameHidden, SameRecords
<1>2. HiddenRows'  BY <1>1, HiddenRowsStay DEF ListingInv
<1>3. NothingHidden'  BY <1>1, NothingHiddenStays DEF ListingInv
<1>4. ItemBytes'  BY ItemBytesStay DEF ListingInv
<1>5. HiddenBytes'  BY <1>1, HiddenBytesStay DEF ListingInv
<1>6. Remembered'  BY <1>1, RememberedStays DEF ListingInv
<1>7. op'.step # "hide" => OneItem'  BY <1>1, ActiveStays, OneItemStays DEF ListingInv
<1> QED  BY <1>2, <1>3, <1>4, <1>5, <1>6, <1>7

\* A row that is added is live.
LEMMA LiveRowAdded ==
    ASSUME TypeOK, NEW path \in Paths, AddRow(path)
    PROVE  /\ SameHidden
           /\ \E r \in Rows : /\ rows[r] = None /\ Live(r)' /\ rows'[r].path = path
                              /\ \A s \in Rows : s # r => rows'[s] = rows[s]
<1>1. PICK r \in Rows : \E n \in Row :
                 /\ rows[r] = None /\ n.path = path /\ n.hidden = 0 /\ n # None
                 /\ \A s \in Rows : rows'[s] = IF s = r THEN n ELSE rows[s]
  BY RowAdded
<1> QED  BY <1>1 DEF SameHidden, FewerHidden, Hidden, Live

LEMMA LiveFile ==
    ASSUME TypeOK, NEW r \in Rows, Live(r), OfFile(r)
    PROVE  rows[r].path \in Files
    BY RowTypes, PathKinds DEF Live, OfFile

LEMMA ListingPrimed ==
    ASSUME \A r \in Rows : Live(r)' /\ Len(rows'[r].path) = 2 /\ ~Moving(r)' => At(disk', rows'[r].path) # None,
           \A r, s \in Rows : Live(r)' /\ Live(s)' /\ Len(rows'[r].path) = 2 /\ rows'[r].path = rows'[s].path => r = s
    PROVE  Listing'
    BY DEF Listing, OfFile, Bytes, At

\* Nothing is moved by a request that has not begun.
LEMMA IdleListing ==
    ASSUME Listing, op = Idle, NEW r \in Rows, Live(r), OfFile(r)
    PROVE  At(disk, rows[r].path) # None
    BY DEF Listing, Moving, Idle, Bytes, At

LEMMA RequestOver ==
    ASSUME op'.step \in {"idle", "mkdir", "record dir", "drop row"}
    PROVE  Clear' /\ FolderBytes' /\ RequestRemembers'
    BY DEF Clear, FolderBytes, RequestRemembers

\* Steps that list no file, and move no bytes.
LEMMA QuietOrder ==
    ASSUME RequestInv, ListingInv,
           op.step \in {"idle", "mkdir", "record dir"}, op'.step \in {"idle", "mkdir", "record dir"},
           \A q \in Files : At(disk', q) = At(disk, q),
           UNCHANGED <<bin, binDir, items, record, batch, purge, was>>,
           rows' = rows \/ \E path \in Paths \ Files : AddRow(path)
    PROVE  ListingInv'
<1>1. TypeOK /\ Listing  BY DEF RequestInv, ListingInv
<1>2. /\ SameHidden
      /\ \A r \in Rows : rows'[r] = rows[r] \/ rows'[r].path \in Paths \ Files
  <2>1. CASE rows' = rows  BY <2>1 DEF SameHidden, FewerHidden, Hidden
  <2>2. ASSUME NEW path \in Paths \ Files, AddRow(path)
        PROVE  SameHidden /\ \A r \in Rows : rows'[r] = rows[r] \/ rows'[r].path \in Paths \ Files
    <3>1. path \in Paths  OBVIOUS
    <3>2. PICK r \in Rows : rows'[r].path = path /\ \A s \in Rows : s # r => rows'[s] = rows[s]
      BY <1>1, <2>2, <3>1, LiveRowAdded
    <3>3. SameHidden  BY <1>1, <2>2, <3>1, LiveRowAdded
    <3> QED  BY <3>2, <3>3
  <2> QED  BY <2>1, <2>2
<1>3. \A r \in Rows : Live(r)' /\ Len(rows'[r].path) = 2 => rows'[r] = rows[r] /\ Live(r) /\ OfFile(r)
  BY <1>2, PathKinds DEF Live, OfFile
<1>4. \A r \in Rows : ~Moving(r)  BY DEF Moving
<1>5. ASSUME NEW r \in Rows, Live(r)', Len(rows'[r].path) = 2 PROVE At(disk', rows'[r].path) # None
  <2>1. Live(r) /\ OfFile(r) /\ rows'[r] = rows[r]  BY <1>3, <1>5
  <2>2. Bytes(rows[r].path) # None  BY <1>1, <1>4, <2>1 DEF Listing
  <2>3. rows[r].path \in Files  BY <1>1, <2>1, LiveFile
  <2> QED  BY <2>1, <2>2, <2>3, BytesAt
<1>6. ASSUME NEW r \in Rows, NEW s \in Rows, Live(r)', Live(s)', Len(rows'[r].path) = 2, rows'[r].path = rows'[s].path
      PROVE  r = s
  BY <1>1, <1>3, <1>6 DEF Listing
<1>7. Listing'  BY <1>5, <1>6, ListingPrimed
<1>8. Clear' /\ FolderBytes' /\ RequestRemembers'  BY RequestOver
<1>9. HiddenRows' /\ NothingHidden' /\ ItemBytes' /\ HiddenBytes' /\ Remembered' /\ OneItem'
  BY <1>2, BinStays
<1> QED  BY <1>7, <1>8, <1>9 DEF ListingInv

LEMMA DirOrder ==
    ASSUME RequestInv, ListingInv, "create dir" \notin Failing, (\E p \in Folders : CreateDir(p)) \/ MakeDir \/ RecordDir
    PROVE  ListingInv'
<1>1. UNCHANGED <<bin, binDir, items, record, batch, purge, was>>  BY DEF CreateDir, MakeDir, RecordDir
<1>2. CASE \E p \in Folders : CreateDir(p)
  <2>1. PICK p \in Folders : CreateDir(p)  BY <1>2
  <2>2. AddRow(<<p>>) /\ disk' = disk /\ op = Idle
        /\ op' = [step |-> "mkdir", path |-> <<p>>, item |-> None, row |-> None, from |-> None]
    BY <2>1 DEF CreateDir, Begin, UserIdle
  <2>3. op.step = "idle" /\ op'.step = "mkdir"  BY <2>2 DEF Idle
  <2>4. <<p>> \in Paths \ Files  BY FolderPath
  <2>5. \A q \in Files : At(disk', q) = At(disk, q)  BY <2>2
  <2> QED  BY <1>1, <2>2, <2>3, <2>4, <2>5, QuietOrder
<1>3. CASE MakeDir
  <2>1. PICK p : p = op.path[1]  OBVIOUS
  <2>2. p \in Folders  BY <1>3, <2>1, FolderPath DEF RequestInv, RequestTypes, MakeDir, Subfolders
  <2>3. disk' = WithDir(disk, p) /\ rows' = rows /\ op.step = "mkdir" /\ op' = [op EXCEPT !.step = "record dir"]
    BY <1>3, <2>1 DEF MakeDir, Goto
  <2>4. \A q \in Files : At(disk', q) = At(disk, q)  BY <2>2, <2>3, RootMade, DirMade DEF RequestInv
  <2>5. op'.step = "record dir"  BY <2>3 DEF RequestInv, TypeOK
  <2> QED  BY <1>1, <2>3, <2>4, <2>5, QuietOrder
<1>4. CASE RecordDir
  <2>1. AddRow(op.path) /\ disk' = disk /\ op.step = "record dir" /\ op' = Idle  BY <1>4 DEF RecordDir, Fails, Done
  <2>2. PICK p \in Subfolders : op.path = <<p>>  BY <2>1 DEF RequestInv, RequestTypes
  <2>3. op.path \in Paths \ Files  BY <2>2, FolderPath DEF Subfolders
  <2>4. op'.step = "idle" /\ \A q \in Files : At(disk', q) = At(disk, q)  BY <2>1 DEF Idle
  <2> QED  BY <1>1, <2>1, <2>3, <2>4, QuietOrder
<1> QED  BY <1>2, <1>3, <1>4

LEMMA FailsOrder ==
    ASSUME RequestInv, ListingInv,
           (\E r \in Rows, p \in Folders : MoveFails(r, p)) \/ (\E i \in Items : RestoreFails(i))
    PROVE  ListingInv'
<1>1. UNCHANGED <<bin, binDir, rows, items, record, op, batch, purge, was>> /\ op = Idle
  BY DEF MoveFails, RestoreFails, UserIdle
<1>2. op.step = "idle" /\ op'.step = "idle"  BY <1>1 DEF Idle
<1>3. \E p \in Folders : disk' = WithDir(disk, p)
  <2>1. ASSUME NEW i \in Items, RestoreFails(i) PROVE \E p \in Folders : disk' = WithDir(disk, p)
    <3>1. Known(i)  BY <2>1 DEF RestoreFails, RequestInv, PurgeTypes, Active
    <3>2. record[i].path[1] \in Folders  BY <3>1, ItemPaths DEF RequestInv
    <3> QED  BY <2>1, <3>2 DEF RestoreFails
  <2> QED  BY <2>1 DEF MoveFails
<1>4. \A q \in Files : At(disk', q) = At(disk, q)  BY <1>3, RootMade, DirMade DEF RequestInv
<1> QED  BY <1>1, <1>2, <1>4, QuietOrder

-----------------------------------------------------------------------------
(* Uploads and moves *)

LEMMA SameRowsHidden ==
    ASSUME rows' = rows
    PROVE  SameHidden
    BY DEF SameHidden, FewerHidden, Hidden

LEMMA UploadOrder ==
    ASSUME RequestInv, ListingInv, NEW path \in Files, NEW c \in Contents, Upload(path, c)
    PROVE  ListingInv'
<1>1. TypeOK /\ Listing  BY DEF RequestInv, ListingInv
<1>2. op = Idle /\ disk' = Put(disk, path, c) /\ UNCHANGED <<bin, binDir, rows, items, record, purge, batch, was>>
  BY DEF Upload, UserIdle
<1>3. PICK r \in RowFor(path) : op' = [step |-> "record file", path |-> path, item |-> None, row |-> r, from |-> None]
  BY DEF Upload, Begin
<1>4. op.step = "idle" /\ op'.step = "record file" /\ op'.path = path /\ op'.row = r  BY <1>2, <1>3 DEF Idle
<1>5. disk \in Disks /\ c # None  BY <1>1, RootMade, NoneAssumption
<1>6. \A q \in Files : At(disk', q) = IF q = path THEN c ELSE At(disk, q)  BY <1>2, <1>5, BytesPut
<1>7. Listing'
  <2>1. ASSUME NEW s \in Rows, Live(s)', Len(rows'[s].path) = 2 PROVE At(disk', rows'[s].path) # None
    <3>1. Live(s) /\ OfFile(s) /\ rows'[s] = rows[s]  BY <1>2, <2>1 DEF Live, OfFile
    <3>2. rows[s].path \in Files  BY <1>1, <3>1, LiveFile
    <3>3. At(disk, rows[s].path) # None  BY <1>1, <1>2, <3>1, IdleListing
    <3> QED  BY <1>5, <1>6, <3>1, <3>2, <3>3
  <2>2. \A s, u \in Rows : Live(s)' /\ Live(u)' /\ Len(rows'[s].path) = 2 /\ rows'[s].path = rows'[u].path => s = u
    BY <1>1, <1>2 DEF Listing, Live, OfFile
  <2> QED  BY <2>1, <2>2, ListingPrimed
<1>8. Clear'
  <2>1. IF r = None THEN LiveAt(path) = {} ELSE r \in LiveAt(path)
    <3>1. LiveAt(path) \subseteq Rows /\ None \notin Rows  BY NoneAssumption DEF LiveAt
    <3> QED  BY <3>1 DEF RowFor
  <2>2. LiveAt(path)' = LiveAt(path)  BY <1>2 DEF LiveAt, Live
  <2> QED  BY <1>4, <2>1, <2>2 DEF Clear
<1>9. FolderBytes' /\ RequestRemembers'  BY <1>4 DEF FolderBytes, RequestRemembers
<1>10. HiddenRows' /\ NothingHidden' /\ ItemBytes' /\ HiddenBytes' /\ Remembered' /\ OneItem'
  BY <1>2, <1>4, SameRowsHidden, BinStays
<1> QED  BY <1>7, <1>8, <1>9, <1>10 DEF ListingInv

LEMMA RecordFileOrder ==
    ASSUME RequestInv, ListingInv, RecordFile
    PROVE  ListingInv'
<1>1. TypeOK /\ Listing /\ Clear  BY DEF RequestInv, ListingInv
<1>2. op.step = "record file" /\ op' = Idle /\ UNCHANGED <<bin, binDir, items, record, purge, batch, was>>
  BY DEF RecordFile, Done
<1>3. PICK path : path = op.path  OBVIOUS
<1>4. /\ path \in Files /\ path \in Paths /\ Bytes(path) # None
      /\ op.row = None => LiveAt(path) = {}
  BY <1>1, <1>2, <1>3, FilePath, NoneAssumption DEF RequestInv, RequestTypes, Clear
<1>5. op'.step = "idle"  BY <1>2 DEF Idle
<1>6. \A r \in Rows : Live(r) /\ OfFile(r) => At(disk, rows[r].path) # None /\ rows[r].path \in Files
  <2>1. \A r \in Rows : ~Moving(r)  BY <1>2 DEF Moving
  <2> QED  BY <1>1, <2>1, LiveFile, BytesAt DEF Listing
<1>7. CASE disk' = disk /\ rows' = rows
  <2>1. Listing'
    <3>1. \A r \in Rows : Live(r)' /\ Len(rows'[r].path) = 2 => At(disk', rows'[r].path) # None
      BY <1>6, <1>7 DEF Live, OfFile
    <3>2. \A s, u \in Rows : Live(s)' /\ Live(u)' /\ Len(rows'[s].path) = 2 /\ rows'[s].path = rows'[u].path => s = u
      BY <1>1, <1>7 DEF Listing, Live, OfFile
    <3> QED  BY <3>1, <3>2, ListingPrimed
  <2>2. SameHidden  BY <1>7, SameRowsHidden
  <2> QED  BY <1>2, <1>5, <2>1, <2>2, BinStays, RequestOver DEF ListingInv
<1>8. CASE disk' = disk /\ AddRow(path) /\ op.row = None
  <2>1. PICK r \in Rows : /\ rows[r] = None /\ Live(r)' /\ rows'[r].path = path
                          /\ \A s \in Rows : s # r => rows'[s] = rows[s]
    BY <1>1, <1>4, <1>8, LiveRowAdded
  <2>2. Listing'
    <3>1. ASSUME NEW s \in Rows, Live(s)', Len(rows'[s].path) = 2 PROVE At(disk', rows'[s].path) # None
      <4>1. CASE s = r  BY <1>4, <1>8, <2>1, <4>1, BytesAt
      <4>2. CASE s # r  BY <1>6, <1>8, <2>1, <3>1, <4>2 DEF Live, OfFile
      <4> QED  BY <4>1, <4>2
    <3>2. \A s \in Rows : s # r /\ Live(s)' => rows'[s].path # path
      BY <1>4, <1>8, <2>1 DEF Live, LiveAt
    <3>3. ASSUME NEW s \in Rows, NEW u \in Rows, Live(s)', Live(u)', Len(rows'[s].path) = 2, rows'[s].path = rows'[u].path
          PROVE  s = u
      <4>1. CASE s # r /\ u # r  BY <1>1, <2>1, <3>3, <4>1 DEF Listing, Live, OfFile
      <4>2. CASE s = r \/ u = r  BY <2>1, <3>2, <3>3, <4>2
      <4> QED  BY <4>1, <4>2
    <3> QED  BY <3>1, <3>3, ListingPrimed
  <2>3. SameHidden  BY <1>1, <1>4, <1>8, LiveRowAdded
  <2> QED  BY <1>2, <1>5, <2>2, <2>3, BinStays, RequestOver DEF ListingInv
<1>9. CASE disk' = Put(disk, path, None) /\ rows' = rows /\ op.row = None
  <2>1. \A q \in Files : At(disk', q) = IF q = path THEN None ELSE At(disk, q)
    BY <1>1, <1>4, <1>9, RootMade, BytesPut
  <2>2. Listing'
    <3>1. ASSUME NEW s \in Rows, Live(s)', Len(rows'[s].path) = 2 PROVE At(disk', rows'[s].path) # None
      <4>1. Live(s) /\ OfFile(s) /\ rows'[s] = rows[s]  BY <1>9, <3>1 DEF Live, OfFile
      <4>2. rows[s].path # path  BY <1>4, <1>9, <4>1 DEF LiveAt
      <4> QED  BY <1>6, <2>1, <4>1, <4>2
    <3>2. \A s, u \in Rows : Live(s)' /\ Live(u)' /\ Len(rows'[s].path) = 2 /\ rows'[s].path = rows'[u].path => s = u
      BY <1>1, <1>9 DEF Listing, Live, OfFile
    <3> QED  BY <3>1, <3>2, ListingPrimed
  <2>3. SameHidden  BY <1>9, SameRowsHidden
  <2> QED  BY <1>2, <1>5, <2>2, <2>3, BinStays, RequestOver DEF ListingInv
<1> QED  BY <1>3, <1>7, <1>8, <1>9 DEF RecordFile

LEMMA MoveOrder ==
    ASSUME RequestInv, ListingInv, NEW r \in Rows, NEW p \in Folders, Move(r, p)
    PROVE  ListingInv'
<1>1. TypeOK /\ Listing  BY DEF RequestInv, ListingInv
<1>2. PICK src : src = rows[r].path  OBVIOUS
<1>3. PICK dst : dst = <<p, src[2]>>  OBVIOUS
<1>4. /\ Live(r) /\ Len(src) = 2 /\ dst # src /\ Bytes(dst) = None /\ Bytes(src) # None /\ op = Idle
      /\ disk' = Put(Put(disk, dst, Bytes(src)), src, None)
      /\ op' = [step |-> "update row", path |-> dst, item |-> None, row |-> r, from |-> src]
      /\ UNCHANGED <<bin, binDir, rows, items, record, purge, batch, was>>
  BY <1>2, <1>3 DEF Move, Begin, UserIdle
<1>5. op.step = "idle" /\ op'.step = "update row" /\ op'.path = dst /\ op'.row = r  BY <1>4 DEF Idle
<1>6. src \in Files  BY <1>1, <1>2, <1>4, LiveFile DEF OfFile
<1>7. dst \in Files  BY <1>3, <1>6, FilePath, FileAt
<1>8. /\ disk' = Put(Put(disk, dst, At(disk, src)), src, None) /\ At(disk, dst) = None
      /\ disk \in Disks /\ src # dst
  BY <1>1, <1>4, BytesAt, RootMade
<1>9. \A q \in Files : At(disk', q) = IF q = src THEN None ELSE IF q = dst THEN At(disk, src) ELSE At(disk, q)
  BY <1>6, <1>7, <1>8, Moved
<1>10. \A s \in Rows : Live(s) /\ OfFile(s) => At(disk, rows[s].path) # None /\ rows[s].path \in Files
  BY <1>1, <1>4, IdleListing, LiveFile
<1>11. \A s \in Rows : Live(s) /\ OfFile(s) => rows[s].path # dst  BY <1>8, <1>10
<1>12. Listing'
  <2>1. ASSUME NEW s \in Rows, Live(s)', Len(rows'[s].path) = 2, ~Moving(s)' PROVE At(disk', rows'[s].path) # None
    <3>1. Live(s) /\ OfFile(s) /\ rows'[s] = rows[s]  BY <1>4, <2>1 DEF Live, OfFile
    <3>2. s # r  BY <1>5, <2>1 DEF Moving
    <3>3. rows[s].path # src  BY <1>1, <1>2, <1>4, <3>1, <3>2 DEF Listing
    <3> QED  BY <1>9, <1>10, <1>11, <3>1, <3>3
  <2>2. \A s, u \in Rows : Live(s)' /\ Live(u)' /\ Len(rows'[s].path) = 2 /\ rows'[s].path = rows'[u].path => s = u
    BY <1>1, <1>4 DEF Listing, Live, OfFile
  <2> QED  BY <2>1, <2>2, ListingPrimed
<1>13. Clear'
  <2>1. Len(dst) = 2  BY <1>7, FilePath
  <2>2. \A s \in Rows : Live(s)' => rows'[s].path # dst  BY <1>4, <1>11, <2>1 DEF Live, OfFile
  <2> QED  BY <1>5, <2>2 DEF Clear, LiveAt
<1>14. FolderBytes' /\ RequestRemembers'  BY <1>5 DEF FolderBytes, RequestRemembers
<1>15. HiddenRows' /\ NothingHidden' /\ ItemBytes' /\ HiddenBytes' /\ Remembered' /\ OneItem'
  BY <1>4, <1>5, SameRowsHidden, BinStays
<1> QED  BY <1>12, <1>13, <1>14, <1>15 DEF ListingInv

LEMMA UpdateRowOrder ==
    ASSUME RequestInv, ListingInv, UpdateRow
    PROVE  ListingInv'
<1>1. TypeOK /\ Listing /\ Clear  BY DEF RequestInv, ListingInv
<1>2. PICK path, from, r : path = op.path /\ from = op.from /\ r = op.row  OBVIOUS
<1>3. op.step = "update row" /\ op' = Idle /\ UNCHANGED <<bin, binDir, items, record, purge, batch, was>>
  BY DEF UpdateRow, Done
<1>4. /\ r \in Rows /\ Live(r) /\ rows[r].path = from /\ path \in Files /\ from \in Files /\ path # from
      /\ At(disk, from) = None /\ At(disk, path) # None /\ LiveAt(path) = {}
  BY <1>1, <1>2, <1>3, BytesAt DEF RequestInv, RequestTypes, Clear
<1>5. op'.step = "idle" /\ \A s \in Rows : s # r => ~Moving(s)  BY <1>2, <1>3 DEF Idle, Moving
<1>6. \A s \in Rows : s # r /\ Live(s) /\ OfFile(s) =>
         At(disk, rows[s].path) # None /\ rows[s].path \in Files /\ rows[s].path # path /\ rows[s].path # from
  <2>1. Len(from) = 2 /\ OfFile(r)  BY <1>4, FilePath DEF OfFile
  <2>2. \A s \in Rows : Live(s) /\ OfFile(s) /\ rows[s].path = from => s = r  BY <1>1, <1>4, <2>1 DEF Listing
  <2>3. \A s \in Rows : Live(s) => rows[s].path # path  BY <1>4 DEF LiveAt
  <2> QED  BY <1>1, <1>5, <2>2, <2>3, LiveFile, BytesAt DEF Listing
<1>7. CASE rows' = [rows EXCEPT ![r].path = path] /\ disk' = disk
  <2>1. PICK n : n = [rows[r] EXCEPT !.path = path]  OBVIOUS
  <2>2. rows[r] \in Row /\ rows[r].hidden = 0  BY <1>1, <1>4, RowTypes DEF Live
  <2>3. path \in Paths  BY <1>4, FilePath
  <2>4. n \in Row /\ n.path = path /\ n.hidden = 0 /\ n # None  BY <2>1, <2>2, <2>3, NoneAssumption DEF Row
  <2>5. \A s \in Rows : rows'[s] = IF s = r THEN n ELSE rows[s]  BY <1>1, <1>7, <2>1 DEF TypeOK
  <2>6. SameHidden  BY <1>4, <2>2, <2>4, <2>5 DEF SameHidden, FewerHidden, Hidden
  <2>7. Listing'
    <3>1. ASSUME NEW s \in Rows, Live(s)', Len(rows'[s].path) = 2 PROVE At(disk', rows'[s].path) # None
      <4>1. CASE s = r  BY <1>4, <1>7, <2>4, <2>5, <4>1
      <4>2. CASE s # r  BY <1>6, <1>7, <2>5, <3>1, <4>2 DEF Live, OfFile
      <4> QED  BY <4>1, <4>2
    <3>2. ASSUME NEW s \in Rows, NEW u \in Rows, Live(s)', Live(u)', Len(rows'[s].path) = 2, rows'[s].path = rows'[u].path
          PROVE  s = u
      <4>1. CASE s # r /\ u # r  BY <1>1, <2>5, <3>2, <4>1 DEF Listing, Live, OfFile
      <4>2. CASE s = r \/ u = r  BY <1>6, <2>4, <2>5, <3>2, <4>2 DEF Live, OfFile
      <4> QED  BY <4>1, <4>2
    <3> QED  BY <3>1, <3>2, ListingPrimed
  <2> QED  BY <1>3, <1>5, <2>6, <2>7, BinStays, RequestOver DEF ListingInv
<1>8. CASE disk' = Put(Put(disk, from, Bytes(path)), path, None) /\ rows' = rows
  <2>1. disk' = Put(Put(disk, from, At(disk, path)), path, None)  BY <1>8, BytesAt
  <2>2. \A q \in Files : At(disk', q) = IF q = path THEN None ELSE IF q = from THEN At(disk, path) ELSE At(disk, q)
    BY <1>1, <1>4, <2>1, RootMade, Moved
  <2>3. Listing'
    <3>1. ASSUME NEW s \in Rows, Live(s)', Len(rows'[s].path) = 2 PROVE At(disk', rows'[s].path) # None
      <4>1. CASE s = r  BY <1>4, <1>8, <2>2, <4>1
      <4>2. CASE s # r  BY <1>6, <1>8, <2>2, <3>1, <4>2 DEF Live, OfFile
      <4> QED  BY <4>1, <4>2
    <3>2. \A s, u \in Rows : Live(s)' /\ Live(u)' /\ Len(rows'[s].path) = 2 /\ rows'[s].path = rows'[u].path => s = u
      BY <1>1, <1>8 DEF Listing, Live, OfFile
    <3> QED  BY <3>1, <3>2, ListingPrimed
  <2>4. SameHidden  BY <1>8, SameRowsHidden
  <2> QED  BY <1>3, <1>5, <2>3, <2>4, BinStays, RequestOver DEF ListingInv
<1> QED  BY <1>2, <1>7, <1>8 DEF UpdateRow

-----------------------------------------------------------------------------
(* Into the bin *)

LEMMA DeleteFileOrder ==
    ASSUME RequestInv, ListingInv, NEW r \in Rows, DeleteFile(r)
    PROVE  ListingInv'
<1>1. TypeOK /\ PurgeTypes /\ Listing  BY DEF RequestInv, ListingInv
<1>2. PICK path, c : path = rows[r].path /\ c = Bytes(path)  OBVIOUS
<1>3. PICK i \in Free :
         /\ bin' = [bin EXCEPT ![i] = Only(path[2], c)]
         /\ binDir' = binDir \cup {i}
         /\ was' = [was EXCEPT ![i] = {<<path[2], c>>}]
         /\ op' = [step |-> "record item", path |-> path, item |-> i, row |-> r, from |-> None]
  BY <1>2 DEF DeleteFile, Begin
<1>4. /\ Live(r) /\ Len(path) = 2 /\ c # None /\ disk' = Put(disk, path, None) /\ op = Idle
      /\ UNCHANGED <<rows, items, record, purge, batch>>
  BY <1>2 DEF DeleteFile, UserIdle
<1>5. op.step = "idle" /\ op'.step = "record item" /\ op'.path = path /\ op'.item = i /\ op'.row = r
  BY <1>3, <1>4 DEF Idle
<1>6. path \in Files  BY <1>1, <1>2, <1>4, LiveFile DEF OfFile
<1>7. \A q \in Files : At(disk', q) = IF q = path THEN None ELSE At(disk, q)  BY <1>1, <1>4, <1>6, RootMade, BytesPut
<1>8. i \in Items /\ i \notin items  BY <1>1, UnknownIsIdle DEF Free, Known
<1>9. \A k \in Items : k # i => bin'[k] = bin[k] /\ was'[k] = was[k]  BY <1>1, <1>3 DEF TypeOK
<1>10. bin'[i] = Only(path[2], c) /\ was'[i] = {<<path[2], c>>}  BY <1>1, <1>3, <1>8 DEF TypeOK
<1>11. Listing'
  <2>1. ASSUME NEW s \in Rows, Live(s)', Len(rows'[s].path) = 2, ~Moving(s)' PROVE At(disk', rows'[s].path) # None
    <3>1. Live(s) /\ OfFile(s) /\ rows'[s] = rows[s]  BY <1>4, <2>1 DEF Live, OfFile
    <3>2. s # r  BY <1>5, <2>1 DEF Moving
    <3>3. rows[s].path # path  BY <1>1, <1>2, <1>4, <3>1, <3>2 DEF Listing
    <3> QED  BY <1>1, <1>4, <1>7, <3>1, <3>3, IdleListing, LiveFile
  <2>2. \A s, u \in Rows : Live(s)' /\ Live(u)' /\ Len(rows'[s].path) = 2 /\ rows'[s].path = rows'[u].path => s = u
    BY <1>1, <1>4 DEF Listing, Live, OfFile
  <2> QED  BY <2>1, <2>2, ListingPrimed
<1>12. Clear' /\ FolderBytes'  BY <1>5 DEF Clear, FolderBytes
<1>13. RequestRemembers'
  <2>1. path[2] \in Names /\ c \in Contents \cup {None}  BY <1>1, <1>2, <1>6, FilePath, RootMade, AtType, BytesAt
  <2>2. bin'[i][path[2]] = c  BY <1>10, <2>1, TreeKinds
  <2> QED  BY <1>5, <1>10, <2>2 DEF RequestRemembers
<1>14. HiddenRows' /\ NothingHidden' /\ ItemBytes' /\ HiddenBytes' /\ Remembered' /\ OneItem'
  <2>1. \A k \in items : k \in Items  BY <1>1 DEF TypeOK
  <2>2. /\ \A k \in items : k \in binDir' => k \in binDir /\ bin'[k] = bin[k] /\ was'[k] = was[k]
        /\ \A k \in items : bin'[k] = bin[k]
    BY <1>3, <1>8, <1>9, <2>1
  <2> QED  BY <1>4, <1>5, <2>2, SameRowsHidden, BinStays
<1> QED  BY <1>11, <1>12, <1>13, <1>14 DEF ListingInv

LEMMA RecordItemOrder ==
    ASSUME RequestInv, ListingInv, RecordItem
    PROVE  ListingInv'
<1>1. TypeOK /\ PurgeTypes /\ ItemTypes /\ Deletions /\ Listing /\ RequestTypes  BY DEF RequestInv, ListingInv
<1>2. PICK path, i, r : path = op.path /\ i = op.item /\ r = op.row  OBVIOUS
<1>3. op.step = "record item" /\ UNCHANGED <<binDir, rows, clock, purge, batch, was>>  BY DEF RecordItem
<1>4. /\ path \in Files /\ i \in Items /\ r \in Rows /\ Live(r) /\ rows[r].path = path /\ At(disk, path) = None
      /\ ~Known(i) /\ bin[i] # None /\ bin[i] \in Trees
      /\ \A n \in Names : (bin[i][n] # None <=> n = path[2])
      /\ was[i] = {<<path[2], bin[i][path[2]]>>}
  BY <1>1, <1>2, <1>3, BytesAt DEF RequestTypes, TypeOK, ListingInv, RequestRemembers
<1>5. path \in Paths /\ path[2] \in Names /\ Len(path) = 2  BY <1>4, FilePath
<1>6. i \notin Active /\ i \notin items  BY <1>1, <1>4, UnknownIsIdle
<1>7. SameHidden /\ SameLive  BY <1>3 DEF SameHidden, SameLive, FewerHidden, Hidden, Live
<1>8. \A s \in Rows : ~Moving(s) <=> s # r  BY <1>2, <1>3 DEF Moving
<1>9. CASE /\ items' = items \cup {i} /\ record' = [record EXCEPT ![i] = [path |-> path, created |-> clock]]
           /\ op' = [op EXCEPT !.step = "drop row"] /\ UNCHANGED <<disk, bin>>
  <2>1. clock \in Times  BY <1>1 DEF TypeOK
  <2>2. /\ record'[i].path = path /\ \A k \in Items : k # i => record'[k] = record[k]
    BY <1>1, <1>3, <1>4, <1>5, <1>9, <2>1, ItemRecorded
  <2>3. op'.step = "drop row" /\ op'.row = r  BY <1>1, <1>2, <1>9 DEF TypeOK
  <2>4. SameRecords  BY <1>4, <2>2 DEF SameRecords
  <2>5. Listing'
    <3>1. \A s \in Rows : ~Moving(s)' => s # r  BY <2>3 DEF Moving
    <3> QED  BY <1>1, <1>3, <1>8, <1>9, <3>1 DEF Listing, Live, OfFile, Bytes
  <2>6. HiddenRows'  BY <1>7, <1>9, <2>4, HiddenRowsStay DEF ListingInv, SameHidden
  <2>7. OneItem'
    <3>1. \A k \in Active' : k = i \/ k \in Active  BY <1>3, <1>9 DEF Active
    <3>2. \A k \in Active : k \in Items /\ k # i  BY <1>1, <1>6 DEF Active, TypeOK, Taking
    <3>3. ASSUME NEW j \in Active', NEW k \in Active', record'[j].path = record'[k].path, Len(record'[j].path) = 1
          PROVE  j = k
      <4>1. j # i /\ k # i  BY <1>5, <2>2, <3>3
      <4> QED  BY <2>2, <3>1, <3>2, <3>3, <4>1 DEF ListingInv, OneItem, IsDir
    <3> QED  BY <2>3, <3>3 DEF OneItem, IsDir
  <2>8. NothingHidden'  BY <1>3, <1>7, <2>3, <2>4, NothingHiddenStays DEF ListingInv, SameHidden
  <2>9. ItemBytes'  BY <1>3, <1>4, <1>9 DEF ListingInv, ItemBytes
  <2>10. HiddenBytes'
    <3>1. ASSUME NEW k \in items', NEW s \in Rows, bin'[k] # None, Hidden(s)', Len(rows'[s].path) = 2,
                 record'[k].path = <<rows'[s].path[1]>>
          PROVE  bin'[k][rows'[s].path[2]] # None
      <4>1. k # i  BY <1>5, <2>2, <3>1
      <4>2. k \in items /\ k \in Items  BY <1>1, <1>9, <4>1 DEF TypeOK
      <4>3. Hidden(s) /\ rows'[s] = rows[s]  BY <1>3, <3>1 DEF Hidden
      <4> QED  BY <1>9, <2>2, <3>1, <4>1, <4>2, <4>3 DEF ListingInv, HiddenBytes, OfFile
    <3> QED  BY <3>1 DEF HiddenBytes, OfFile
  <2>11. Remembered'
    <3>1. ASSUME NEW k \in items' \cap binDir', bin'[k] # None PROVE Remembers(k)'
      <4>1. CASE k = i
        <5>1. record'[k].path = path /\ Len(record'[k].path) # 1  BY <1>5, <2>2, <4>1
        <5>2. was'[k] = {<<path[2], bin'[k][path[2]]>>}  BY <1>3, <1>4, <1>9, <4>1
        <5> QED  BY <5>1, <5>2 DEF Remembers, IsDir
      <4>2. CASE k # i
        <5>1. k \in items \cap binDir /\ k \in Items  BY <1>1, <1>3, <1>9, <4>2 DEF TypeOK
        <5>2. record'[k] = record[k] /\ bin'[k] = bin[k] /\ was'[k] = was[k]  BY <1>3, <1>9, <2>2, <4>2, <5>1
        <5>3. Remembers(k)  BY <3>1, <5>1, <5>2 DEF ListingInv, Remembered, Remembers
        <5> QED  BY <1>7, <5>2, <5>3, HiddenAtStays, RemembersStays
      <4> QED  BY <4>1, <4>2
    <3> QED  BY <3>1 DEF Remembered, Remembers
  <2> QED  BY <2>3, <2>5, <2>6, <2>7, <2>8, <2>9, <2>10, <2>11, RequestOver DEF ListingInv
<1>10. CASE /\ disk' = BackFromBin(disk, path, i) /\ bin' = [bin EXCEPT ![i] = None] /\ op' = Idle
            /\ UNCHANGED <<items, record>>
  <2>1. PICK b : b = bin[i][path[2]]  OBVIOUS
  <2>2. b \in Contents \cup {None} /\ b # None  BY <1>4, <1>5, <2>1, TreeKinds
  <2>3. disk' = Put(disk, path, b)  BY <1>10, <2>1 DEF BackFromBin
  <2>4. \A q \in Files : At(disk', q) = IF q = path THEN b ELSE At(disk, q)
    BY <1>1, <1>4, <2>2, <2>3, RootMade, BytesPut
  <2>5. Listing'
    <3>1. ASSUME NEW s \in Rows, Live(s)', Len(rows'[s].path) = 2 PROVE At(disk', rows'[s].path) # None
      <4>1. Live(s) /\ OfFile(s) /\ rows'[s] = rows[s] /\ rows[s].path \in Files
        BY <1>1, <1>3, <3>1, LiveFile DEF Live, OfFile
      <4>2. CASE s = r  BY <1>4, <2>2, <2>4, <4>1, <4>2
      <4>3. CASE s # r
        <5>1. At(disk, rows[s].path) # None  BY <1>1, <1>8, <4>1, <4>3, BytesAt DEF Listing
        <5> QED  BY <2>2, <2>4, <4>1, <5>1
      <4> QED  BY <4>2, <4>3
    <3>2. \A s, u \in Rows : Live(s)' /\ Live(u)' /\ Len(rows'[s].path) = 2 /\ rows'[s].path = rows'[u].path => s = u
      BY <1>1, <1>3 DEF Listing, Live, OfFile
    <3> QED  BY <3>1, <3>2, ListingPrimed
  <2>6. op'.step = "idle"  BY <1>10 DEF Idle
  <2>7. \A k \in items : bin'[k] = bin[k]  BY <1>1, <1>6, <1>10 DEF TypeOK
  <2>8. HiddenRows' /\ NothingHidden' /\ ItemBytes' /\ HiddenBytes' /\ Remembered' /\ OneItem'
    BY <1>3, <1>7, <1>10, <2>6, <2>7, BinStays
  <2> QED  BY <2>5, <2>6, <2>8, RequestOver DEF ListingInv
<1> QED  BY <1>2, <1>9, <1>10 DEF RecordItem, Goto, Done

\* The row whose bytes have been moved is dropped.
LEMMA DropRowOrder ==
    ASSUME RequestInv, ListingInv, DropRow, UNCHANGED damage
    PROVE  ListingInv'
<1>1. TypeOK /\ Listing  BY DEF RequestInv, ListingInv
<1>2. PICK r : r = op.row  OBVIOUS
<1>3. /\ op.step = "drop row" /\ op' = Idle /\ UNCHANGED <<disk, bin, binDir, items, record, purge, batch, was>>
  BY DEF DropRow, Done
<1>4. rows' = [rows EXCEPT ![r] = None]
  <2>1. damage # damage + 1  BY <1>1, DriveAssumption DEF TypeOK
  <2> QED  BY <1>2, <2>1 DEF DropRow, Damage
<1>5. r \in Rows /\ Live(r)  BY <1>2, <1>3 DEF RequestInv, RequestTypes
<1>6. \A s \in Rows : rows'[s] = IF s = r THEN None ELSE rows[s]  BY <1>1, <1>4 DEF TypeOK
<1>7. SameHidden  BY <1>5, <1>6 DEF SameHidden, FewerHidden, Hidden, Live
<1>8. op'.step = "idle" /\ \A s \in Rows : s # r => ~Moving(s)  BY <1>2, <1>3 DEF Idle, Moving
<1>9. \A s \in Rows : Live(s)' => s # r /\ Live(s) /\ rows'[s] = rows[s]  BY <1>6 DEF Live
<1>10. Listing'
  <2>1. ASSUME NEW s \in Rows, Live(s)', Len(rows'[s].path) = 2 PROVE At(disk', rows'[s].path) # None
    BY <1>1, <1>3, <1>8, <1>9, <2>1, BytesAt DEF Listing, OfFile
  <2>2. \A s, u \in Rows : Live(s)' /\ Live(u)' /\ Len(rows'[s].path) = 2 /\ rows'[s].path = rows'[u].path => s = u
    BY <1>1, <1>9 DEF Listing, OfFile
  <2> QED  BY <2>1, <2>2, ListingPrimed
<1>11. HiddenRows' /\ NothingHidden' /\ ItemBytes' /\ HiddenBytes' /\ Remembered' /\ OneItem'
  BY <1>3, <1>7, <1>8, BinStays
<1> QED  BY <1>8, <1>10, <1>11, RequestOver DEF ListingInv

\* The rows of a folder, whose directory is in the bin.
LEMMA DeleteDirOrder ==
    ASSUME RequestInv, ListingInv, Generations = "one", NEW p \in Folders, DeleteDir(p)
    PROVE  ListingInv'
<1>1. TypeOK /\ PurgeTypes /\ Listing  BY DEF RequestInv, ListingInv
<1>2. PICK i \in Free :
         /\ bin' = [bin EXCEPT ![i] = disk[p]]
         /\ binDir' = binDir \cup {i}
         /\ was' = [was EXCEPT ![i] = Listed(p)]
         /\ op' = [step |-> "hide", path |-> <<p>>, item |-> i, row |-> None, from |-> None]
  BY DEF DeleteDir, Begin
<1>3. /\ op = Idle /\ LiveAt(<<p>>) # {} /\ disk[p] # None /\ OnlyGeneration(p)
      /\ disk' = [disk EXCEPT ![p] = None] /\ UNCHANGED <<rows, items, record, purge, batch>>
  BY DEF DeleteDir, UserIdle
<1>4. /\ op.step = "idle" /\ op'.step = "hide" /\ op'.path = <<p>> /\ op'.item = i /\ op'.path[1] = p
  BY <1>2, <1>3 DEF Idle
<1>5. i \in Items /\ i \notin items  BY <1>1, UnknownIsIdle DEF Free, Known
<1>6. \A k \in Items : k # i => bin'[k] = bin[k] /\ was'[k] = was[k]  BY <1>1, <1>2 DEF TypeOK
<1>7. bin'[i] = disk[p] /\ was'[i] = Listed(p)  BY <1>1, <1>2, <1>5 DEF TypeOK
<1>8. \A q \in Files : q[1] # p => At(disk', q) = At(disk, q)
  <2>1. \A q \in Folders : q # p => disk'[q] = disk[q]  BY <1>1, <1>3 DEF TypeOK
  <2> QED  BY <2>1, FilePath DEF At
<1>9. \A s \in Rows : Live(s) /\ OfFile(s) => At(disk, rows[s].path) # None /\ rows[s].path \in Files
  BY <1>1, <1>3, IdleListing, LiveFile
<1>10. Listing'
  <2>1. ASSUME NEW s \in Rows, Live(s)', Len(rows'[s].path) = 2, ~Moving(s)' PROVE At(disk', rows'[s].path) # None
    <3>1. Live(s) /\ OfFile(s) /\ rows'[s] = rows[s] /\ rows[s] # None  BY <1>3, <2>1 DEF Live, OfFile
    <3>2. rows[s].path[1] # p  BY <1>4, <2>1, <3>1 DEF Moving, UnderFolder
    <3> QED  BY <1>8, <1>9, <3>1, <3>2
  <2>2. \A s, u \in Rows : Live(s)' /\ Live(u)' /\ Len(rows'[s].path) = 2 /\ rows'[s].path = rows'[u].path => s = u
    BY <1>1, <1>3 DEF Listing, Live, OfFile
  <2> QED  BY <2>1, <2>2, ListingPrimed
<1>11. \A path : LiveAt(path)' = LiveAt(path)  BY <1>3 DEF LiveAt, Live
<1>12. Clear'  BY <1>3, <1>4, <1>11 DEF Clear
<1>13. FolderBytes'
  <2>1. ASSUME NEW s \in Rows, rows[s] # None, rows[s].path[1] = p, Live(s), OfFile(s) PROVE disk[p][rows[s].path[2]] # None
    BY <1>3, <1>9, <2>1 DEF At
  <2>2. \A s \in UnderFolder(p)' : Live(s)' /\ OfFile(s)' => bin'[i][rows'[s].path[2]] # None
    BY <1>3, <1>7, <2>1 DEF UnderFolder, Live, OfFile
  <2> QED  BY <1>4, <2>2 DEF FolderBytes
<1>14. RequestRemembers'
  <2>1. \A n \in Names : Bytes(<<p, n>>) = disk[p][n]  BY <1>3, FileAt DEF Bytes
  <2>2. LiveNames(p)' = LiveNames(p)  BY <1>11 DEF LiveNames
  <2>3. Listed(p) = {<<n, disk[p][n]>> : n \in LiveNames(p)}  BY <2>1 DEF Listed, LiveNames
  <2>4. was'[i] = {<<n, bin'[i][n]>> : n \in LiveNames(p)'}  BY <1>7, <2>2, <2>3
  <2> QED  BY <1>4, <2>4 DEF RequestRemembers
<1>15. OneItem'
  <2>1. Active' = Active  BY <1>3 DEF Active
  <2>2. \A k \in Active : k \in Items /\ Known(k)  BY <1>1 DEF PurgeTypes, Active, TypeOK, Taking
  <2>3. \A k \in Active : record[k].path # <<p>>
    BY <1>3, <2>2 DEF OnlyGeneration, Active, Known
  <2> QED  BY <1>3, <1>4, <2>1, <2>3 DEF ListingInv, OneItem, IsDir
<1>16. HiddenRows' /\ NothingHidden' /\ ItemBytes' /\ HiddenBytes' /\ Remembered'
  <2>1. \A k \in items : k \in Items  BY <1>1 DEF TypeOK
  <2>2. /\ \A k \in items : k \in binDir' => k \in binDir /\ bin'[k] = bin[k] /\ was'[k] = was[k]
        /\ \A k \in items : bin'[k] = bin[k]
    BY <1>2, <1>5, <1>6, <2>1
  <2> QED  BY <1>3, <1>4, <2>2, SameRowsHidden, BinStays
<1> QED  BY <1>10, <1>12, <1>13, <1>14, <1>15, <1>16 DEF ListingInv

LEMMA HideOrder ==
    ASSUME RequestInv, ListingInv, HideSubtree
    PROVE  ListingInv'
<1>1. TypeOK /\ PurgeTypes /\ ItemTypes /\ Deletions /\ Listing /\ OneItem  BY DEF RequestInv, ListingInv
<1>2. op.step = "hide" /\ op' = Idle /\ op'.step = "idle" /\ UNCHANGED <<binDir, purge, batch, was>>
  BY DEF HideSubtree, Done, Idle
<1>3. PICK i, p : i = op.item /\ p = op.path[1]  OBVIOUS
<1>4. i \in Items /\ ~Known(i) /\ bin[i] # None /\ op.path \in {<<q>> : q \in Subfolders} /\ disk[p] = None
  BY <1>2, <1>3 DEF RequestInv, RequestTypes
<1>5. p \in Folders /\ <<p>> \in Paths /\ op.path = <<p>> /\ Len(<<p>>) = 1 /\ <<p>>[1] = p
  <2>1. PICK q \in Subfolders : op.path = <<q>>  BY <1>4
  <2> QED  BY <1>3, <2>1, FolderPath DEF Subfolders
<1>6. \A k \in Active : k \in Items /\ Known(k) /\ record[k].path # <<p>>
  BY <1>1, <1>2, <1>5 DEF OneItem, PurgeTypes, Active, TypeOK, Taking
<1>7. /\ \A r \in UnderFolder(p) : Live(r) /\ OfFile(r) => bin[i][rows[r].path[2]] # None
      /\ was[i] = {<<n, bin[i][n]>> : n \in LiveNames(p)} /\ LiveAt(<<p>>) # {}
  BY <1>2, <1>3, <1>5 DEF ListingInv, FolderBytes, RequestRemembers, Clear
<1>8. i \notin Active /\ i \notin items  BY <1>1, <1>4, UnknownIsIdle
<1>9. \A r \in Rows : Moving(r) <=> r \in UnderFolder(p)  BY <1>2, <1>3 DEF Moving
<1>10. CASE /\ clock' = clock + 1 /\ items' = items \cup {i}
            /\ record' = [record EXCEPT ![i] = [path |-> <<p>>, created |-> clock + 1]]
            /\ rows' = [r \in Rows |-> IF r \in UnderFolder(p) /\ Live(r)
                                       THEN [rows[r] EXCEPT !.hidden = clock + 1] ELSE rows[r]]
            /\ UNCHANGED <<disk, bin>>
  <2>1. clock + 1 \in Times /\ clock + 1 # 0  BY <1>1, <1>4, ClockGoesOn
  <2>2. /\ record'[i].path = <<p>> /\ record'[i].created = clock + 1
        /\ \A k \in Items : k # i => record'[k] = record[k]
    BY <1>1, <1>2, <1>4, <1>5, <1>10, <2>1, ItemRecorded
  <2>3. /\ \A r \in Rows : rows[r] = None <=> rows'[r] = None
        /\ \A r \in Rows : rows[r] # None => rows'[r].path = rows[r].path
        /\ \A r \in Rows : r \in UnderFolder(p) /\ Live(r) => rows'[r].hidden = clock + 1
        /\ \A r \in Rows : ~(r \in UnderFolder(p) /\ Live(r)) => rows'[r] = rows[r]
    BY <1>1, <1>5, <1>10, <2>1, RowsHidden
  <2>4. \A r \in Rows : Live(r) => rows[r] # None /\ ~Hidden(r)  BY DEF Live, Hidden
  <2>5. \A r \in Rows : Hidden(r)' <=> Hidden(r) \/ (r \in UnderFolder(p) /\ Live(r))
    BY <2>1, <2>3, <2>4 DEF Hidden
  <2>6. \A r \in Rows : Hidden(r) => rows'[r] = rows[r] /\ rows[r] # None  BY <2>3, <2>4 DEF Hidden
  <2>7. \A r \in Rows : Live(r)' => Live(r) /\ rows'[r] = rows[r] /\ r \notin UnderFolder(p)
    BY <2>1, <2>3 DEF Live, UnderFolder
  <2>8. \A r \in Rows : Hidden(r) => rows[r].path[1] # p
    <3>1. \A k \in items : k \in Active  BY DEF Active
    <3> QED  BY <1>6, <3>1 DEF ListingInv, HiddenRows
  <2>9. SameRecords  BY <1>4, <2>2 DEF SameRecords
  <2>10. Listing'
    <3>1. ASSUME NEW r \in Rows, Live(r)', Len(rows'[r].path) = 2 PROVE At(disk', rows'[r].path) # None
      BY <1>1, <1>9, <1>10, <2>7, <3>1, BytesAt DEF Listing, OfFile
    <3>2. \A r, s \in Rows : Live(r)' /\ Live(s)' /\ Len(rows'[r].path) = 2 /\ rows'[r].path = rows'[s].path => r = s
      BY <1>1, <2>7 DEF Listing, OfFile
    <3> QED  BY <3>1, <3>2, ListingPrimed
  <2>11. HiddenRows'
    <3>1. ASSUME NEW r \in Rows, Hidden(r)'
          PROVE  \E k \in items' : record'[k].path = <<rows'[r].path[1]>> /\ record'[k].created = rows'[r].hidden
      <4>1. CASE Hidden(r)
        <5>1. PICK k \in items : record[k].path = <<rows[r].path[1]>> /\ record[k].created = rows[r].hidden
          BY <4>1 DEF ListingInv, HiddenRows
        <5>2. k \in Items /\ k # i  BY <1>1, <1>8 DEF TypeOK
        <5> QED  BY <1>10, <2>2, <2>6, <4>1, <5>1, <5>2
      <4>2. CASE ~Hidden(r)
        <5>1. r \in UnderFolder(p) /\ Live(r)  BY <2>5, <3>1, <4>2
        <5>2. rows'[r].path[1] = p /\ rows'[r].hidden = clock + 1  BY <2>3, <5>1 DEF UnderFolder
        <5> QED  BY <1>10, <2>2, <5>2
      <4> QED  BY <4>1, <4>2
    <3>2. ASSUME NEW r \in Rows, NEW s \in Rows, Hidden(r)', Hidden(s)', Len(rows'[r].path) = 2, rows'[r].path = rows'[s].path
          PROVE  r = s
      <4>1. \A u \in Rows : Hidden(u)' => rows'[u].path = rows[u].path /\ (rows[u].path[1] = p <=> ~Hidden(u))
        BY <2>3, <2>4, <2>5, <2>6, <2>8 DEF UnderFolder
      <4>2. Hidden(r) <=> Hidden(s)  BY <3>2, <4>1
      <4>3. OfFile(r) /\ rows[r].path = rows[s].path  BY <3>2, <4>1 DEF OfFile
      <4>4. CASE Hidden(r)  BY <4>2, <4>3, <4>4 DEF ListingInv, HiddenRows
      <4>5. CASE ~Hidden(r)
        <5>1. Live(r) /\ Live(s)  BY <2>5, <3>2, <4>2, <4>5
        <5> QED  BY <1>1, <4>3, <5>1 DEF Listing
      <4> QED  BY <4>4, <4>5
    <3> QED  BY <3>1, <3>2 DEF HiddenRows, OfFile
  <2>12. OneItem'
    <3>1. \A k \in Active' : k = i \/ k \in Active  BY <1>2, <1>10 DEF Active
    <3>2. ASSUME NEW j \in Active', NEW k \in Active', record'[j].path = record'[k].path, Len(record'[j].path) = 1
          PROVE  j = k
      <4>1. CASE j = i /\ k = i  BY <4>1
      <4>2. CASE j = i /\ k # i  BY <1>6, <2>2, <3>1, <3>2, <4>2
      <4>3. CASE j # i /\ k = i  BY <1>6, <2>2, <3>1, <3>2, <4>3
      <4>4. CASE j # i /\ k # i  BY <1>1, <1>6, <2>2, <3>1, <3>2, <4>4 DEF OneItem, IsDir
      <4> QED  BY <4>1, <4>2, <4>3, <4>4
    <3> QED  BY <1>2, <3>2 DEF OneItem, IsDir
  <2>13. NothingHidden'
    <3>1. ASSUME NEW a \in Actors, purge'[a] # None, purge'[a].step = "item", Len(record'[purge'[a].item].path) = 1
          PROVE  \A r \in Rows : Hidden(r)' => rows'[r].path[1] # record'[purge'[a].item].path[1]
      <4>1. PICK k : k = purge[a].item  OBVIOUS
      <4>2. purge'[a] = purge[a] /\ k \in Active /\ k # i /\ k \in Items
        BY <1>1, <1>2, <1>6, <1>8, <3>1, <4>1, TakingOf
      <4>3. record'[k] = record[k] /\ IsDir(k)  BY <2>2, <3>1, <4>1, <4>2 DEF IsDir
      <4>4. PICK q : q = record[k].path[1]  OBVIOUS
      <4>5. record[k].path = <<q>>  BY <1>1, <1>6, <4>2, <4>3, <4>4, ItemPaths
      <4>6. q # p  BY <1>6, <4>2, <4>5
      <4>7. \A r \in UnderFolder(q) : ~Hidden(r)  BY <3>1, <4>1, <4>2, <4>3, <4>4 DEF ListingInv, NothingHidden
      <4>8. \A r \in Rows : Hidden(r) => rows[r].path[1] # q  BY <2>6, <4>7 DEF UnderFolder
      <4>9. \A r \in Rows : Hidden(r)' => rows'[r].path[1] # q
        BY <2>3, <2>4, <2>5, <2>6, <4>6, <4>8 DEF UnderFolder
      <4> QED  BY <4>1, <4>2, <4>3, <4>4, <4>9
    <3> QED  BY <1>2, <3>1 DEF NothingHidden, IsDir, UnderFolder
  <2>14. ItemBytes'  BY <1>2, <1>4, <1>10 DEF ListingInv, ItemBytes
  <2>15. HiddenBytes'
    <3>1. ASSUME NEW k \in items', NEW r \in Rows, bin'[k] # None, Hidden(r)', Len(rows'[r].path) = 2,
                 record'[k].path = <<rows'[r].path[1]>>
          PROVE  bin'[k][rows'[r].path[2]] # None
      <4>1. CASE Hidden(r)
        <5>1. rows'[r] = rows[r] /\ rows[r].path[1] # p  BY <2>6, <2>8, <4>1
        <5>2. k # i  BY <2>2, <3>1, <5>1
        <5>3. k \in items /\ k \in Items  BY <1>1, <1>10, <5>2 DEF TypeOK
        <5> QED  BY <1>10, <2>2, <3>1, <4>1, <5>1, <5>2, <5>3 DEF ListingInv, HiddenBytes, OfFile
      <4>2. CASE ~Hidden(r)
        <5>1. r \in UnderFolder(p) /\ Live(r)  BY <2>5, <3>1, <4>2
        <5>2. rows'[r].path = rows[r].path /\ rows[r].path[1] = p  BY <2>3, <5>1 DEF UnderFolder
        <5>3. k = i
          <6>1. k \in items => k \in Active  BY DEF Active
          <6>2. record'[k].path = <<p>>  BY <3>1, <5>2
          <6> QED  BY <1>6, <1>10, <2>2, <6>1, <6>2
        <5> QED  BY <1>7, <1>10, <3>1, <5>1, <5>2, <5>3 DEF OfFile
      <4> QED  BY <4>1, <4>2
    <3> QED  BY <3>1 DEF HiddenBytes, OfFile
  <2>16. Remembered'
    <3>1. ASSUME NEW k \in items' \cap binDir', bin'[k] # None PROVE Remembers(k)'
      <4>1. CASE k = i
        <5>1. \A path : path[1] = p => HiddenAt(path)' = LiveAt(path)
          <6>1. ASSUME NEW path, path[1] = p, NEW r \in Rows
                PROVE  (Hidden(r)' /\ rows'[r].path = path) <=> (Live(r) /\ rows[r].path = path)
            BY <2>3, <2>4, <2>5, <2>6, <2>8, <6>1 DEF UnderFolder
          <6> QED  BY <6>1 DEF HiddenAt, LiveAt
        <5>2. \A n : <<p, n>>[1] = p  OBVIOUS
        <5>3. HiddenNames(p)' = LiveNames(p) /\ HiddenAt(<<p>>)' # {}
          BY <1>5, <1>7, <5>1, <5>2 DEF HiddenNames, LiveNames
        <5>4. was'[k] = {<<n, bin'[k][n]>> : n \in HiddenNames(p)'}  BY <1>2, <1>7, <1>10, <4>1, <5>3
        <5>5. record'[k].path[1] = p /\ Len(record'[k].path) = 1  BY <1>5, <2>2, <4>1
        <5> QED  BY <5>3, <5>4, <5>5 DEF Remembers, IsDir
      <4>2. CASE k # i
        <5>1. k \in items \cap binDir /\ k \in Items /\ k \in Active  BY <1>1, <1>2, <1>10, <4>2 DEF TypeOK, Active
        <5>2. record'[k] = record[k] /\ bin'[k] = bin[k] /\ was'[k] = was[k]  BY <1>2, <1>10, <2>2, <4>2, <5>1
        <5>3. Remembers(k)  BY <3>1, <5>1, <5>2 DEF ListingInv, Remembered, Remembers
        <5>4. PICK q : q = record[k].path[1]  OBVIOUS
        <5>5. IsDir(k) => q # p  BY <1>1, <1>6, <5>1, <5>4, ItemPaths
        <5>6. \A path : path[1] # p => HiddenAt(path)' = HiddenAt(path)
          <6>1. ASSUME NEW path, path[1] # p, NEW r \in Rows
                PROVE  (Hidden(r)' /\ rows'[r].path = path) <=> (Hidden(r) /\ rows[r].path = path)
            BY <2>3, <2>4, <2>5, <2>6, <6>1 DEF UnderFolder
          <6> QED  BY <6>1 DEF HiddenAt
        <5>7. <<q>>[1] = q /\ \A n : <<q, n>>[1] = q  OBVIOUS
        <5>8. IsDir(k) => HiddenAt(<<q>>)' = HiddenAt(<<q>>) /\ \A n \in Names : HiddenAt(<<q, n>>)' = HiddenAt(<<q, n>>)
          BY <5>5, <5>6, <5>7
        <5> QED  BY <5>2, <5>3, <5>4, <5>8, RemembersStays
      <4> QED  BY <4>1, <4>2
    <3> QED  BY <3>1 DEF Remembered, Remembers
  <2> QED  BY <1>2, <2>10, <2>11, <2>12, <2>13, <2>14, <2>15, <2>16, RequestOver DEF ListingInv
<1>11. CASE /\ disk' = [disk EXCEPT ![p] = bin[i]] /\ bin' = [bin EXCEPT ![i] = None]
            /\ UNCHANGED <<clock, items, record, rows>>
  <2>1. \A q \in Folders : disk'[q] = IF q = p THEN bin[i] ELSE disk[q]  BY <1>1, <1>11 DEF TypeOK
  <2>2. Listing'
    <3>1. ASSUME NEW s \in Rows, Live(s)', Len(rows'[s].path) = 2 PROVE At(disk', rows'[s].path) # None
      <4>1. Live(s) /\ OfFile(s) /\ rows'[s] = rows[s] /\ rows[s].path \in Files /\ rows[s] # None
        BY <1>1, <1>11, <3>1, LiveFile DEF Live, OfFile
      <4>2. rows[s].path[1] \in Folders  BY <4>1, FilePath
      <4>3. CASE rows[s].path[1] = p
        <5>1. bin[i][rows[s].path[2]] # None  BY <1>7, <4>1, <4>3 DEF UnderFolder
        <5> QED  BY <1>4, <2>1, <4>1, <4>2, <4>3, <5>1 DEF At
      <4>4. CASE rows[s].path[1] # p
        <5>1. At(disk, rows[s].path) # None  BY <1>1, <1>9, <4>1, <4>4, BytesAt DEF Listing, UnderFolder
        <5> QED  BY <2>1, <4>1, <4>2, <4>4, <5>1 DEF At
      <4> QED  BY <4>3, <4>4
    <3>2. \A s, u \in Rows : Live(s)' /\ Live(u)' /\ Len(rows'[s].path) = 2 /\ rows'[s].path = rows'[u].path => s = u
      BY <1>1, <1>11 DEF Listing, Live, OfFile
    <3> QED  BY <3>1, <3>2, ListingPrimed
  <2>3. \A k \in items : bin'[k] = bin[k]  BY <1>1, <1>8, <1>11 DEF TypeOK
  <2>4. HiddenRows' /\ NothingHidden' /\ ItemBytes' /\ HiddenBytes' /\ Remembered' /\ OneItem'
    BY <1>2, <1>11, <2>3, SameRowsHidden, BinStays
  <2> QED  BY <1>2, <2>2, <2>4, RequestOver DEF ListingInv
<1> QED  BY <1>3, <1>10, <1>11 DEF HideSubtree

-----------------------------------------------------------------------------
(* Out of the bin *)

LEMMA RestoreOrder ==
    ASSUME RequestInv, ListingInv, NEW i \in Items, Restore(i)
    PROVE  ListingInv'
<1>1. TypeOK /\ PurgeTypes /\ ItemTypes /\ Listing  BY DEF RequestInv, ListingInv
<1>2. PICK path, p : path = record[i].path /\ p = path[1]  OBVIOUS
<1>3. /\ op = Idle /\ i \in items /\ bin[i] # None /\ Vacant(path) /\ bin' = [bin EXCEPT ![i] = None]
      /\ op' = [step |-> IF IsDir(i) THEN "unhide" ELSE "restored", path |-> path, item |-> i, row |-> None, from |-> None]
      /\ UNCHANGED <<binDir, rows, items, record, purge, batch, was>>
      /\ IsDir(i) => disk' = [disk EXCEPT ![path[1]] = bin[i]]
      /\ ~IsDir(i) => disk' = BackFromBin(disk, path, i)
  BY <1>2 DEF Restore, Begin, UserIdle
<1>4. Known(i) /\ i \in Active  BY <1>1, <1>3 DEF PurgeTypes, Active
<1>5. /\ p \in Folders
      /\ IsDir(i) => path = <<p>>
      /\ ~IsDir(i) => path \in Files
  BY <1>1, <1>2, <1>4, ItemPaths
<1>6. op.step = "idle" /\ op'.step \in {"unhide", "restored"} /\ (op'.step = "unhide" <=> IsDir(i))
      /\ op'.path = path /\ op'.item = i
  BY <1>3 DEF Idle
<1>7. bin[i] \in Trees /\ \A k \in Items : bin'[k] = IF k = i THEN None ELSE bin[k]  BY <1>1, <1>3 DEF TypeOK
<1>8. SameHidden /\ FewerHidden /\ SameRecords  BY <1>3, SameRowsHidden DEF SameHidden, SameRecords
<1>9. \A k \in items : k \in Items  BY <1>1 DEF TypeOK
<1>10. HiddenRows'  BY <1>3, <1>8, HiddenRowsStay DEF ListingInv
<1>11. NothingHidden'  BY <1>3, <1>6, <1>8, NothingHiddenStays DEF ListingInv
<1>12. ItemBytes'  BY <1>3, <1>6, <1>7, <1>9 DEF ListingInv, ItemBytes
<1>13. HiddenBytes'  BY <1>3, <1>7, <1>8, <1>9, HiddenBytesStay DEF ListingInv
<1>14. Remembered'  BY <1>3, <1>7, <1>8, <1>9, RememberedStays DEF ListingInv
<1>15. OneItem'
  <2>1. Active' = Active  BY <1>3 DEF Active
  <2>2. op'.step = "unhide" => \A k \in Active : record[k].path = path => k = i
    BY <1>2, <1>4, <1>6 DEF ListingInv, OneItem
  <2> QED  BY <1>3, <1>6, <2>1, <2>2 DEF ListingInv, OneItem, IsDir
<1>16. \A s \in Rows : Live(s) /\ OfFile(s) => At(disk, rows[s].path) # None /\ rows[s].path \in Files
  BY <1>1, <1>3, IdleListing, LiveFile
<1>17. \A s, u \in Rows : Live(s)' /\ Live(u)' /\ Len(rows'[s].path) = 2 /\ rows'[s].path = rows'[u].path => s = u
  BY <1>1, <1>3 DEF Listing, Live, OfFile
<1>18. Remembers(i) \/ i \notin binDir  BY <1>3 DEF ListingInv, Remembered, Remembers
<1>19. CASE IsDir(i)
  <2>1. op'.step = "unhide" /\ path = <<p>> /\ Len(path) = 1  BY <1>2, <1>5, <1>6, <1>19 DEF IsDir
  <2>2. disk[p] = None  BY <1>2, <1>3, <2>1 DEF Vacant
  <2>3. \A q \in Folders : disk'[q] = IF q = p THEN bin[i] ELSE disk[q]  BY <1>1, <1>2, <1>3, <1>19 DEF TypeOK
  <2>4. \A s \in Rows : Live(s) /\ OfFile(s) => rows[s].path[1] # p  BY <1>16, <2>2 DEF At
  <2>5. Listing'
    <3>1. ASSUME NEW s \in Rows, Live(s)', Len(rows'[s].path) = 2 PROVE At(disk', rows'[s].path) # None
      <4>1. Live(s) /\ OfFile(s) /\ rows'[s] = rows[s]  BY <1>3, <3>1 DEF Live, OfFile
      <4>2. rows[s].path[1] \in Folders  BY <1>16, <4>1, FilePath
      <4> QED  BY <1>16, <2>3, <2>4, <4>1, <4>2 DEF At
    <3> QED  BY <1>17, <3>1, ListingPrimed
  <2>6. Clear'
    <3>1. \A s \in Rows : Live(s)' /\ OfFile(s)' => s \notin UnderFolder(p)'
      BY <1>3, <2>4 DEF Live, OfFile, UnderFolder
    <3> QED  BY <1>2, <1>6, <2>1, <3>1 DEF Clear
  <2>7. FolderBytes'
    <3>1. ASSUME NEW s \in Rows, rows[s] # None, rows[s].path[1] = p, Hidden(s), OfFile(s)
          PROVE  disk'[p] # None /\ disk'[p][rows[s].path[2]] # None
      <4>1. record[i].path = <<rows[s].path[1]>>  BY <1>2, <2>1, <3>1
      <4>2. bin[i][rows[s].path[2]] # None  BY <1>3, <3>1, <4>1 DEF ListingInv, HiddenBytes
      <4> QED  BY <1>3, <1>5, <2>3, <4>2
    <3>2. \A s \in UnderFolder(p)' : Hidden(s)' /\ OfFile(s)' => (Bytes(rows[s].path))' # None
      BY <1>3, <3>1 DEF UnderFolder, Hidden, OfFile, Bytes
    <3> QED  BY <1>2, <1>6, <2>1, <3>2 DEF FolderBytes
  <2>8. RequestRemembers'
    <3>1. ASSUME i \in binDir
          PROVE  was[i] = {<<n, bin[i][n]>> : n \in HiddenNames(p)} /\ HiddenAt(<<p>>) # {}
      BY <1>2, <1>18, <1>19, <3>1 DEF Remembers
    <3>2. HiddenNames(p)' = HiddenNames(p) /\ HiddenAt(<<p>>)' = HiddenAt(<<p>>)
      BY <1>8, HiddenAtStays DEF HiddenNames
    <3>3. \A n \in Names : (Bytes(<<p, n>>))' = bin[i][n]  BY <1>3, <1>5, <2>3, FileAt DEF Bytes
    <3>4. {<<n, bin[i][n]>> : n \in HiddenNames(p)} = {<<n, (Bytes(<<p, n>>))'>> : n \in HiddenNames(p)}
      BY <3>3 DEF HiddenNames
    <3>5. i \in binDir' => was'[i] = {<<n, (Bytes(<<p, n>>))'>> : n \in HiddenNames(p)'} /\ HiddenAt(<<p>>)' # {}
      BY <1>3, <3>1, <3>2, <3>4
    <3> QED  BY <1>2, <1>6, <2>1, <3>5 DEF RequestRemembers
  <2> QED  BY <1>10, <1>11, <1>12, <1>13, <1>14, <1>15, <2>5, <2>6, <2>7, <2>8 DEF ListingInv
<1>20. CASE ~IsDir(i)
  <2>1. op'.step = "restored" /\ path \in Files /\ path[2] \in Names /\ Len(path) = 2
    BY <1>5, <1>6, <1>20, FilePath
  <2>2. At(disk, path) = None  BY <1>3, <2>1, BytesAt DEF Vacant
  <2>3. PICK b : b = bin[i][path[2]]  OBVIOUS
  <2>4. b \in Contents \cup {None} /\ b # None
    <3>1. b # None  BY <1>1, <1>2, <1>3, <1>4, <1>20, <2>1, <2>3 DEF ItemTypes
    <3> QED  BY <1>7, <2>1, <2>3, <3>1, TreeKinds
  <2>5. disk' = Put(disk, path, b)  BY <1>3, <1>20, <2>3 DEF BackFromBin
  <2>6. \A q \in Files : At(disk', q) = IF q = path THEN b ELSE At(disk, q)
    BY <1>1, <2>1, <2>4, <2>5, RootMade, BytesPut
  <2>7. Listing'
    <3>1. ASSUME NEW s \in Rows, Live(s)', Len(rows'[s].path) = 2 PROVE At(disk', rows'[s].path) # None
      <4>1. Live(s) /\ OfFile(s) /\ rows'[s] = rows[s]  BY <1>3, <3>1 DEF Live, OfFile
      <4> QED  BY <1>16, <2>4, <2>6, <4>1
    <3> QED  BY <1>17, <3>1, ListingPrimed
  <2>8. Clear'
    <3>1. \A s \in Rows : Live(s)' => rows'[s].path # path  BY <1>3, <1>16, <2>1, <2>2 DEF Live, OfFile
    <3> QED  BY <1>6, <2>1, <3>1 DEF Clear, LiveAt
  <2>9. FolderBytes'  BY <2>1 DEF FolderBytes
  <2>10. RequestRemembers'
    <3>1. i \in binDir => was[i] = {<<path[2], b>>}  BY <1>2, <1>18, <1>20, <2>3 DEF Remembers
    <3>2. (Bytes(path))' = b  BY <2>1, <2>6, BytesAt
    <3> QED  BY <1>3, <1>6, <2>1, <3>1, <3>2 DEF RequestRemembers, Bytes
  <2> QED  BY <1>10, <1>11, <1>12, <1>13, <1>14, <1>15, <2>7, <2>8, <2>9, <2>10 DEF ListingInv
<1> QED  BY <1>19, <1>20

LEMMA RecordRestoredOrder ==
    ASSUME RequestInv, ListingInv, RecordRestored
    PROVE  ListingInv'
<1>1. TypeOK /\ PurgeTypes /\ ItemTypes /\ Listing /\ Clear  BY DEF RequestInv, ListingInv
<1>2. op.step = "restored" /\ UNCHANGED <<binDir, items, record, purge, batch, was>>  BY DEF RecordRestored
<1>3. PICK i, path : i = op.item /\ path = op.path  OBVIOUS
<1>4. /\ i \in Items /\ Known(i) /\ path = record[i].path /\ bin[i] = None /\ ~IsDir(i) /\ At(disk, path) # None
      /\ LiveAt(path) = {} /\ (i \in binDir => was[i] = {<<path[2], Bytes(path)>>})
  BY <1>1, <1>2, <1>3, BytesAt DEF RequestInv, RequestTypes, ListingInv, Clear, RequestRemembers
<1>5. path \in Files /\ path \in Paths /\ path[1] \in Folders /\ path[2] \in Names /\ path = <<path[1], path[2]>>
  BY <1>1, <1>4, ItemPaths, FilePath
<1>6. \A r \in Rows : Live(r) /\ OfFile(r) => At(disk, rows[r].path) # None /\ rows[r].path \in Files
  <2>1. \A r \in Rows : ~Moving(r)  BY <1>2 DEF Moving
  <2> QED  BY <1>1, <2>1, LiveFile, BytesAt DEF Listing
<1>7. SameRecords /\ \A k \in items : k \in Items  BY <1>1, <1>2 DEF SameRecords, TypeOK
<1>8. CASE AddRow(path) /\ op' = [op EXCEPT !.step = "drop item"] /\ UNCHANGED <<disk, bin>>
  <2>1. PICK r \in Rows : /\ rows[r] = None /\ Live(r)' /\ rows'[r].path = path
                          /\ \A s \in Rows : s # r => rows'[s] = rows[s]
    BY <1>1, <1>5, <1>8, LiveRowAdded
  <2>2. SameHidden /\ FewerHidden  BY <1>1, <1>5, <1>8, LiveRowAdded DEF SameHidden
  <2>3. op'.step = "drop item" /\ op'.path = path /\ op'.item = i  BY <1>1, <1>3, <1>8 DEF TypeOK
  <2>4. Len(record'[i].path) # 1  BY <1>2, <1>4 DEF IsDir
  <2>5. Listing'
    <3>1. ASSUME NEW s \in Rows, Live(s)', Len(rows'[s].path) = 2 PROVE At(disk', rows'[s].path) # None
      <4>1. CASE s = r  BY <1>4, <1>8, <2>1, <4>1
      <4>2. CASE s # r  BY <1>6, <1>8, <2>1, <3>1, <4>2 DEF Live, OfFile
      <4> QED  BY <4>1, <4>2
    <3>2. \A s \in Rows : s # r /\ Live(s)' => rows'[s].path # path  BY <1>4, <2>1 DEF Live, LiveAt
    <3>3. ASSUME NEW s \in Rows, NEW u \in Rows, Live(s)', Live(u)', Len(rows'[s].path) = 2, rows'[s].path = rows'[u].path
          PROVE  s = u
      <4>1. CASE s # r /\ u # r  BY <1>1, <2>1, <3>3, <4>1 DEF Listing, Live, OfFile
      <4>2. CASE s = r \/ u = r  BY <2>1, <3>2, <3>3, <4>2
      <4> QED  BY <4>1, <4>2
    <3> QED  BY <3>1, <3>3, ListingPrimed
  <2>6. Clear' /\ FolderBytes'  BY <2>3 DEF Clear, FolderBytes
  <2>7. HiddenRows'  BY <1>2, <1>7, <2>2, HiddenRowsStay DEF ListingInv
  <2>8. OneItem'
    <3>1. Active' = Active  BY <1>2 DEF Active
    <3> QED  BY <1>7, <2>3, <3>1, OneItemStays DEF ListingInv
  <2>9. NothingHidden'  BY <1>2, <1>7, <2>2, <2>3, <2>4, NothingHiddenStays DEF ListingInv
  <2>10. ItemBytes'  BY <1>2, <1>3, <1>8, <2>3 DEF ListingInv, ItemBytes
  <2>11. HiddenBytes'  BY <1>2, <1>7, <1>8, <2>2, HiddenBytesStay DEF ListingInv
  <2>12. Remembered'  BY <1>2, <1>7, <1>8, <2>2, RememberedStays DEF ListingInv
  <2>13. RequestRemembers'
    <3>1. r \in LiveAt(path)'  BY <2>1 DEF LiveAt
    <3>2. (Bytes(path))' = Bytes(path)  BY <1>8 DEF Bytes
    <3>3. <<path[2], Bytes(path)>> \in Listed(path[1])'  BY <1>5, <3>1, <3>2 DEF Listed
    <3> QED  BY <1>2, <1>4, <2>3, <2>4, <3>3 DEF RequestRemembers, IsDir
  <2> QED  BY <2>5, <2>6, <2>7, <2>8, <2>9, <2>10, <2>11, <2>12, <2>13 DEF ListingInv
<1>9. CASE CanGoBack(i) /\ bin' = [bin EXCEPT ![i] = Only(path[2], Bytes(path))]
           /\ disk' = Put(disk, path, None) /\ op' = Idle /\ UNCHANGED rows
  <2>1. PICK t : t = Only(path[2], Bytes(path))  OBVIOUS
  <2>2. Bytes(path) \in Contents \cup {None}  BY <1>1, <1>5, RootMade, AtType, BytesAt
  <2>3. t # None /\ t[path[2]] = Bytes(path)  BY <1>5, <2>1, <2>2, TreeKinds
  <2>4. \A k \in Items : bin'[k] = IF k = i THEN t ELSE bin[k]  BY <1>1, <1>9, <2>1 DEF TypeOK
  <2>5. \A q \in Files : At(disk', q) = IF q = path THEN None ELSE At(disk, q)
    BY <1>1, <1>5, <1>9, RootMade, BytesPut
  <2>6. SameHidden /\ FewerHidden /\ op'.step = "idle"  BY <1>9, SameRowsHidden DEF SameHidden, Idle
  <2>7. Listing'
    <3>1. ASSUME NEW s \in Rows, Live(s)', Len(rows'[s].path) = 2 PROVE At(disk', rows'[s].path) # None
      <4>1. Live(s) /\ OfFile(s) /\ rows'[s] = rows[s]  BY <1>9, <3>1 DEF Live, OfFile
      <4>2. rows[s].path # path  BY <1>4, <4>1 DEF LiveAt
      <4> QED  BY <1>6, <2>5, <4>1, <4>2
    <3>2. \A s, u \in Rows : Live(s)' /\ Live(u)' /\ Len(rows'[s].path) = 2 /\ rows'[s].path = rows'[u].path => s = u
      BY <1>1, <1>9 DEF Listing, Live, OfFile
    <3> QED  BY <3>1, <3>2, ListingPrimed
  <2>8. HiddenRows'  BY <1>2, <1>7, <2>6, HiddenRowsStay DEF ListingInv
  <2>9. OneItem'
    <3>1. Active' = Active  BY <1>2 DEF Active
    <3> QED  BY <1>7, <2>6, <3>1, OneItemStays DEF ListingInv
  <2>10. NothingHidden'  BY <1>2, <1>7, <2>6, NothingHiddenStays DEF ListingInv
  <2>11. ItemBytes'  BY <1>2, <1>3, <1>7, <2>3, <2>4 DEF ListingInv, ItemBytes
  <2>12. HiddenBytes'
    <3>1. ASSUME NEW k \in items', NEW s \in Rows, bin'[k] # None, Hidden(s)', Len(rows'[s].path) = 2,
                 record'[k].path = <<rows'[s].path[1]>>
          PROVE  bin'[k][rows'[s].path[2]] # None
      <4>1. k # i  BY <1>2, <1>4, <3>1 DEF IsDir
      <4>2. k \in items /\ k \in Items /\ bin'[k] = bin[k]  BY <1>2, <1>7, <2>4, <4>1
      <4> QED  BY <1>2, <1>9, <3>1, <4>2 DEF ListingInv, HiddenBytes, OfFile, Hidden
    <3> QED  BY <3>1 DEF HiddenBytes, OfFile
  <2>13. Remembered'
    <3>1. ASSUME NEW k \in items' \cap binDir', bin'[k] # None PROVE Remembers(k)'
      <4>1. k \in items \cap binDir /\ k \in Items /\ record'[k] = record[k] /\ was'[k] = was[k]  BY <1>2, <1>7
      <4>2. CASE k = i
        <5>1. record'[k].path = path /\ Len(record'[k].path) # 1  BY <1>4, <4>1, <4>2 DEF IsDir
        <5>2. was'[k] = {<<path[2], bin'[k][path[2]]>>}  BY <1>4, <2>3, <2>4, <4>1, <4>2
        <5> QED  BY <5>1, <5>2 DEF Remembers, IsDir
      <4>3. CASE k # i
        <5>1. bin'[k] = bin[k]  BY <2>4, <4>1, <4>3
        <5>2. Remembers(k)  BY <3>1, <4>1, <5>1 DEF ListingInv, Remembered, Remembers
        <5> QED  BY <2>6, <4>1, <5>1, <5>2, HiddenAtStays, RemembersStays
      <4> QED  BY <4>2, <4>3
    <3> QED  BY <3>1 DEF Remembered, Remembers
  <2> QED  BY <2>6, <2>7, <2>8, <2>9, <2>10, <2>11, <2>12, <2>13, RequestOver DEF ListingInv
<1>10. CASE ~CanGoBack(i) /\ UNCHANGED <<disk, bin, rows>> /\ op' = Idle
  <2>1. i \notin binDir  BY <1>10 DEF CanGoBack
  <2>2. SameHidden /\ FewerHidden /\ op'.step = "idle"  BY <1>10, SameRowsHidden DEF SameHidden, Idle
  <2>3. Listing'
    <3>1. \A r \in Rows : Live(r)' /\ Len(rows'[r].path) = 2 => At(disk', rows'[r].path) # None
      BY <1>6, <1>10 DEF Live, OfFile
    <3>2. \A s, u \in Rows : Live(s)' /\ Live(u)' /\ Len(rows'[s].path) = 2 /\ rows'[s].path = rows'[u].path => s = u
      BY <1>1, <1>10 DEF Listing, Live, OfFile
    <3> QED  BY <3>1, <3>2, ListingPrimed
  <2>4. HiddenRows'  BY <1>2, <1>7, <2>2, HiddenRowsStay DEF ListingInv
  <2>5. OneItem'
    <3>1. Active' = Active  BY <1>2 DEF Active
    <3> QED  BY <1>7, <2>2, <3>1, OneItemStays DEF ListingInv
  <2>6. NothingHidden'  BY <1>2, <1>7, <2>2, NothingHiddenStays DEF ListingInv
  <2>7. ItemBytes'  BY <1>2, <1>3, <1>10, <2>1 DEF ListingInv, ItemBytes
  <2>8. HiddenBytes'  BY <1>2, <1>7, <1>10, <2>2, HiddenBytesStay DEF ListingInv
  <2>9. Remembered'  BY <1>2, <1>7, <1>10, <2>2, RememberedStays DEF ListingInv
  <2> QED  BY <2>2, <2>3, <2>4, <2>5, <2>6, <2>7, <2>8, <2>9, RequestOver DEF ListingInv
<1> QED  BY <1>3, <1>8, <1>9, <1>10 DEF RecordRestored, Goto, Done

LEMMA UnhideOrder ==
    ASSUME RequestInv, ListingInv, UnhideSubtree
    PROVE  ListingInv'
<1>1. TypeOK /\ PurgeTypes /\ ItemTypes /\ Listing /\ OneItem  BY DEF RequestInv, ListingInv
<1>2. op.step = "unhide" /\ UNCHANGED <<binDir, items, record, purge, batch, was>>  BY DEF UnhideSubtree
<1>3. PICK i, p : i = op.item /\ p = op.path[1]  OBVIOUS
<1>4. /\ i \in Items /\ Known(i) /\ op.path = record[i].path /\ bin[i] = None /\ IsDir(i) /\ disk[p] # None
  BY <1>1, <1>2, <1>3 DEF RequestInv, RequestTypes
<1>5. p \in Folders /\ op.path = <<p>> /\ record[i].path = <<p>> /\ record[i].path[1] = p /\ <<p>>[1] = p
  BY <1>1, <1>3, <1>4, ItemPaths
<1>6. /\ \A r \in Rows : Live(r) /\ OfFile(r) => rows[r].path[1] # p
      /\ \A r \in Rows : Hidden(r) /\ OfFile(r) /\ rows[r].path[1] = p => At(disk, rows[r].path) # None
  BY <1>2, <1>3, BytesAt DEF ListingInv, Clear, FolderBytes, UnderFolder, Live, Hidden
<1>7. \A k \in Active : record[k].path = <<p>> => k = i  BY <1>1, <1>2, <1>3, <1>5 DEF OneItem
<1>8. i \in binDir => was[i] = {<<n, Bytes(<<p, n>>)>> : n \in HiddenNames(p)} /\ HiddenAt(<<p>>) # {}
  BY <1>2, <1>3 DEF ListingInv, RequestRemembers
<1>9. \A r \in Rows : Live(r) /\ OfFile(r) => At(disk, rows[r].path) # None /\ rows[r].path \in Files
  <2>1. \A r \in Rows : ~Moving(r)  BY <1>2 DEF Moving
  <2> QED  BY <1>1, <2>1, LiveFile, BytesAt DEF Listing
<1>10. SameRecords /\ (\A k \in items : k \in Items /\ k \in Active) /\ Active' = Active
  BY <1>1, <1>2 DEF SameRecords, TypeOK, Active
<1>11. CASE /\ rows' = [r \in Rows |-> IF r \in HiddenSince(p, record[i].created)
                                       THEN [rows[r] EXCEPT !.hidden = 0] ELSE rows[r]]
            /\ op' = [op EXCEPT !.step = "drop item"] /\ UNCHANGED <<disk, bin>>
  <2>1. PICK S : S = HiddenSince(p, record[i].created)  OBVIOUS
  <2>2. \A r \in S : r \in Rows /\ Hidden(r)  BY <2>1 DEF HiddenSince, UnderFolder, Hidden
  <2>3. /\ \A r \in Rows : rows[r] = None <=> rows'[r] = None
        /\ \A r \in Rows : rows[r] # None => rows'[r].path = rows[r].path
        /\ \A r \in Rows : r \in S => rows'[r].hidden = 0
        /\ \A r \in Rows : r \notin S => rows'[r] = rows[r]
    BY <1>1, <1>11, <2>1, <2>2, RowsUnhidden
  <2>4. \A r \in Rows : r \in S <=> Hidden(r) /\ rows[r].path[1] = p
    <3>1. ASSUME NEW r \in Rows, Hidden(r), rows[r].path[1] = p PROVE r \in S
      <4>1. PICK k \in items : record[k].path = <<p>> /\ record[k].created = rows[r].hidden
        BY <3>1 DEF ListingInv, HiddenRows
      <4>2. k = i  BY <1>7, <1>10, <4>1
      <4>3. rows[r].hidden \in Times /\ rows[r] # None  BY <1>1, <3>1, RowTypes DEF Hidden
      <4>4. rows[r].hidden \in Int  BY <4>3 DEF Times
      <4> QED  BY <2>1, <3>1, <4>1, <4>2, <4>3, <4>4 DEF HiddenSince, UnderFolder, Hidden
    <3> QED  BY <2>1, <2>2, <3>1 DEF HiddenSince, UnderFolder
  <2>5. \A r \in Rows : Hidden(r) => ~Live(r) /\ rows[r] # None  BY DEF Hidden, Live
  <2>6. \A r \in Rows : Hidden(r)' => Hidden(r) /\ rows'[r] = rows[r] /\ rows[r].path[1] # p
    BY <2>3, <2>4 DEF Hidden
  <2>7. \A r \in Rows : Hidden(r) /\ rows[r].path[1] # p => Hidden(r)' /\ rows'[r] = rows[r]
    BY <2>3, <2>4 DEF Hidden
  <2>8. \A r \in Rows : Live(r)' <=> Live(r) \/ r \in S  BY <2>2, <2>3, <2>5 DEF Live
  <2>9. \A r \in Rows : Live(r) => rows'[r] = rows[r] /\ r \notin S  BY <2>3, <2>4, <2>5
  <2>10. FewerHidden  BY <2>6 DEF FewerHidden
  <2>11. op'.step = "drop item" /\ op'.path = op.path /\ op'.item = i  BY <1>1, <1>3, <1>11 DEF TypeOK
  <2>12. \A r \in S : rows'[r].path = rows[r].path /\ rows[r].path[1] = p /\ Hidden(r)  BY <2>2, <2>3, <2>4, <2>5
  <2>13. Listing'
    <3>1. ASSUME NEW r \in Rows, Live(r)', Len(rows'[r].path) = 2 PROVE At(disk', rows'[r].path) # None
      <4>1. CASE r \in S  BY <1>6, <1>11, <2>12, <3>1, <4>1 DEF OfFile
      <4>2. CASE r \notin S  BY <1>9, <1>11, <2>8, <2>9, <3>1, <4>2 DEF OfFile
      <4> QED  BY <4>1, <4>2
    <3>2. ASSUME NEW r \in Rows, NEW s \in Rows, Live(r)', Live(s)', Len(rows'[r].path) = 2, rows'[r].path = rows'[s].path
          PROVE  r = s
      <4>1. \A u \in Rows : Live(u)' => rows'[u].path = rows[u].path  BY <2>8, <2>9, <2>12
      <4>2. OfFile(r) /\ OfFile(s) /\ rows[r].path = rows[s].path  BY <3>2, <4>1 DEF OfFile
      <4>3. \A u \in {r, s} : rows[u].path[1] = p <=> u \in S  BY <1>6, <2>8, <2>12, <3>2, <4>2
      <4>4. CASE r \in S
        <5>1. Hidden(r) /\ Hidden(s)  BY <2>12, <4>2, <4>3, <4>4
        <5> QED  BY <4>2, <5>1 DEF ListingInv, HiddenRows
      <4>5. CASE r \notin S
        <5>1. Live(r) /\ Live(s)  BY <2>8, <3>2, <4>2, <4>3, <4>5
        <5> QED  BY <1>1, <4>2, <5>1 DEF Listing
      <4> QED  BY <4>4, <4>5
    <3> QED  BY <3>1, <3>2, ListingPrimed
  <2>14. Clear' /\ FolderBytes'  BY <2>11 DEF Clear, FolderBytes
  <2>15. HiddenRows'  BY <1>2, <1>10, <2>10, HiddenRowsStay DEF ListingInv
  <2>16. OneItem'  BY <1>1, <1>10, <2>11, OneItemStays
  <2>17. NothingHidden'
    <3>1. \A r \in Rows : Hidden(r)' => rows'[r].path[1] # p  BY <2>6
    <3>2. ASSUME NEW a \in Actors, purge'[a] # None, purge'[a].step = "item", Len(record'[purge'[a].item].path) = 1
          PROVE  \A r \in Rows : Hidden(r)' => rows'[r].path[1] # record'[purge'[a].item].path[1]
      <4>1. PICK q : q = record[purge[a].item].path[1]  OBVIOUS
      <4>2. \A r \in UnderFolder(q) : ~Hidden(r)  BY <1>2, <3>2, <4>1 DEF ListingInv, NothingHidden, IsDir
      <4>3. \A r \in Rows : Hidden(r) => rows[r].path[1] # q  BY <2>5, <4>2 DEF UnderFolder
      <4> QED  BY <1>2, <2>6, <4>1, <4>3
    <3> QED  BY <1>5, <2>11, <3>1, <3>2 DEF NothingHidden, IsDir, UnderFolder
  <2>18. ItemBytes'  BY <1>2, <1>3, <1>11, <2>11 DEF ListingInv, ItemBytes
  <2>19. HiddenBytes'  BY <1>2, <1>10, <1>11, <2>10, HiddenBytesStay DEF ListingInv
  <2>20. Remembered'
    <3>1. ASSUME NEW k \in items' \cap binDir', bin'[k] # None PROVE Remembers(k)'
      <4>1. k \in items \cap binDir /\ k \in Items /\ k \in Active /\ k # i  BY <1>2, <1>4, <1>10, <1>11, <3>1
      <4>2. record'[k] = record[k] /\ bin'[k] = bin[k] /\ was'[k] = was[k] /\ Known(k)
        BY <1>1, <1>2, <1>11, <4>1 DEF PurgeTypes
      <4>3. Remembers(k)  BY <3>1, <4>1, <4>2 DEF ListingInv, Remembered, Remembers
      <4>4. PICK q : q = record[k].path[1]  OBVIOUS
      <4>5. IsDir(k) => q # p  BY <1>1, <1>7, <4>1, <4>2, <4>4, ItemPaths
      <4>6. \A path : path[1] # p => HiddenAt(path)' = HiddenAt(path)
        <5>1. ASSUME NEW path, path[1] # p, NEW r \in Rows
              PROVE  (Hidden(r)' /\ rows'[r].path = path) <=> (Hidden(r) /\ rows[r].path = path)
          BY <2>6, <2>7, <5>1
        <5> QED  BY <5>1 DEF HiddenAt
      <4>7. <<q>>[1] = q /\ \A n : <<q, n>>[1] = q  OBVIOUS
      <4>8. IsDir(k) => HiddenAt(<<q>>)' = HiddenAt(<<q>>) /\ \A n \in Names : HiddenAt(<<q, n>>)' = HiddenAt(<<q, n>>)
        BY <4>5, <4>6, <4>7
      <4> QED  BY <4>2, <4>3, <4>4, <4>8, RemembersStays
    <3> QED  BY <3>1 DEF Remembered, Remembers
  <2>21. RequestRemembers'
    <3>1. \A n \in Names : LiveAt(<<p, n>>)' = HiddenAt(<<p, n>>)
      <4> SUFFICES ASSUME NEW n \in Names
                   PROVE  \A r \in Rows : (Live(r)' /\ rows'[r].path = <<p, n>>) <=> (Hidden(r) /\ rows[r].path = <<p, n>>)
        BY DEF LiveAt, HiddenAt
      <4> TAKE r \in Rows
      <4>1. <<p, n>>[1] = p /\ Len(<<p, n>>) = 2  OBVIOUS
      <4>2. CASE r \in S  BY <2>8, <2>12, <4>2
      <4>3. CASE r \notin S
        <5>1. ~(Hidden(r) /\ rows[r].path = <<p, n>>)  BY <2>4, <4>1, <4>3
        <5>2. ~(Live(r)' /\ rows'[r].path = <<p, n>>)  BY <1>6, <2>8, <2>9, <4>1, <4>3 DEF OfFile
        <5> QED  BY <5>1, <5>2
      <4> QED  BY <4>2, <4>3
    <3>2. HiddenAt(<<p>>) \subseteq LiveAt(<<p>>)'  BY <1>5, <2>4, <2>8, <2>12 DEF HiddenAt, LiveAt
    <3>3. \A n \in Names : (Bytes(<<p, n>>))' = Bytes(<<p, n>>)  BY <1>11 DEF Bytes
    <3>4. Listed(p)' = {<<n, Bytes(<<p, n>>)>> : n \in HiddenNames(p)}
      BY <3>1, <3>3 DEF Listed, HiddenNames
    <3>5. i \in binDir' => was'[i] = Listed(p)' /\ LiveAt(<<p>>)' # {}  BY <1>2, <1>8, <3>2, <3>4
    <3> QED  BY <1>2, <1>4, <1>5, <2>11, <3>5 DEF RequestRemembers, IsDir
  <2> QED  BY <2>13, <2>14, <2>15, <2>16, <2>17, <2>18, <2>19, <2>20, <2>21 DEF ListingInv
<1>12. CASE CanGoBack(i) /\ bin' = [bin EXCEPT ![i] = disk[p]] /\ disk' = [disk EXCEPT ![p] = None]
            /\ op' = Idle /\ UNCHANGED rows
  <2>1. \A k \in Items : bin'[k] = IF k = i THEN disk[p] ELSE bin[k]  BY <1>1, <1>12 DEF TypeOK
  <2>2. \A q \in Folders : disk'[q] = IF q = p THEN None ELSE disk[q]  BY <1>1, <1>12 DEF TypeOK
  <2>3. SameHidden /\ FewerHidden /\ op'.step = "idle" /\ i \in binDir
    BY <1>12, SameRowsHidden DEF SameHidden, Idle, CanGoBack
  <2>4. Listing'
    <3>1. ASSUME NEW s \in Rows, Live(s)', Len(rows'[s].path) = 2 PROVE At(disk', rows'[s].path) # None
      <4>1. Live(s) /\ OfFile(s) /\ rows'[s] = rows[s]  BY <1>12, <3>1 DEF Live, OfFile
      <4>2. rows[s].path[1] \in Folders /\ rows[s].path[1] # p /\ At(disk, rows[s].path) # None
        BY <1>6, <1>9, <4>1, FilePath
      <4> QED  BY <2>2, <4>1, <4>2 DEF At
    <3>2. \A s, u \in Rows : Live(s)' /\ Live(u)' /\ Len(rows'[s].path) = 2 /\ rows'[s].path = rows'[u].path => s = u
      BY <1>1, <1>12 DEF Listing, Live, OfFile
    <3> QED  BY <3>1, <3>2, ListingPrimed
  <2>5. HiddenRows'  BY <1>2, <1>10, <2>3, HiddenRowsStay DEF ListingInv
  <2>6. OneItem'  BY <1>1, <1>10, <2>3, OneItemStays
  <2>7. NothingHidden'  BY <1>2, <1>10, <2>3, NothingHiddenStays DEF ListingInv
  <2>8. ItemBytes'  BY <1>2, <1>3, <1>4, <1>10, <2>1 DEF ListingInv, ItemBytes
  <2>9. HiddenBytes'
    <3>1. ASSUME NEW k \in items', NEW s \in Rows, bin'[k] # None, Hidden(s)', Len(rows'[s].path) = 2,
                 record'[k].path = <<rows'[s].path[1]>>
          PROVE  bin'[k][rows'[s].path[2]] # None
      <4>1. Hidden(s) /\ OfFile(s) /\ rows'[s] = rows[s] /\ record'[k] = record[k] /\ k \in items /\ k \in Items
        BY <1>2, <1>10, <1>12, <3>1 DEF Hidden, OfFile
      <4>2. CASE k = i
        <5>1. rows[s].path[1] = p  BY <1>5, <3>1, <4>1, <4>2
        <5> QED  BY <1>4, <1>6, <2>1, <4>1, <4>2, <5>1 DEF At
      <4>3. CASE k # i  BY <2>1, <3>1, <4>1, <4>3 DEF ListingInv, HiddenBytes
      <4> QED  BY <4>2, <4>3
    <3> QED  BY <3>1 DEF HiddenBytes, OfFile
  <2>10. Remembered'
    <3>1. ASSUME NEW k \in items' \cap binDir', bin'[k] # None PROVE Remembers(k)'
      <4>1. k \in items \cap binDir /\ k \in Items /\ record'[k] = record[k] /\ was'[k] = was[k]  BY <1>2, <1>10
      <4>2. CASE k = i
        <5>1. \A n \in Names : Bytes(<<p, n>>) = disk[p][n]  BY <1>4, FileAt DEF Bytes
        <5>2. {<<n, Bytes(<<p, n>>)>> : n \in HiddenNames(p)} = {<<n, disk[p][n]>> : n \in HiddenNames(p)}
          BY <5>1 DEF HiddenNames
        <5>3. HiddenNames(p)' = HiddenNames(p) /\ HiddenAt(<<p>>)' = HiddenAt(<<p>>)
          BY <2>3, HiddenAtStays DEF HiddenNames
        <5>4. was'[k] = {<<n, bin'[k][n]>> : n \in HiddenNames(p)'} /\ HiddenAt(<<p>>)' # {}
          BY <1>8, <2>1, <2>3, <4>1, <4>2, <5>2, <5>3
        <5>5. record'[k].path[1] = p /\ Len(record'[k].path) = 1  BY <1>4, <1>5, <4>1, <4>2 DEF IsDir
        <5> QED  BY <5>4, <5>5 DEF Remembers, IsDir
      <4>3. CASE k # i
        <5>1. bin'[k] = bin[k]  BY <2>1, <4>1, <4>3
        <5>2. Remembers(k)  BY <3>1, <4>1, <5>1 DEF ListingInv, Remembered, Remembers
        <5> QED  BY <2>3, <4>1, <5>1, <5>2, HiddenAtStays, RemembersStays
      <4> QED  BY <4>2, <4>3
    <3> QED  BY <3>1 DEF Remembered, Remembers
  <2> QED  BY <2>3, <2>4, <2>5, <2>6, <2>7, <2>8, <2>9, <2>10, RequestOver DEF ListingInv
<1>13. CASE ~CanGoBack(i) /\ UNCHANGED <<disk, bin, rows>> /\ op' = Idle
  <2>1. i \notin binDir  BY <1>13 DEF CanGoBack
  <2>2. SameHidden /\ FewerHidden /\ op'.step = "idle"  BY <1>13, SameRowsHidden DEF SameHidden, Idle
  <2>3. Listing'
    <3>1. \A r \in Rows : Live(r)' /\ Len(rows'[r].path) = 2 => At(disk', rows'[r].path) # None
      BY <1>9, <1>13 DEF Live, OfFile
    <3>2. \A s, u \in Rows : Live(s)' /\ Live(u)' /\ Len(rows'[s].path) = 2 /\ rows'[s].path = rows'[u].path => s = u
      BY <1>1, <1>13 DEF Listing, Live, OfFile
    <3> QED  BY <3>1, <3>2, ListingPrimed
  <2>4. HiddenRows'  BY <1>2, <1>10, <2>2, HiddenRowsStay DEF ListingInv
  <2>5. OneItem'  BY <1>1, <1>10, <2>2, OneItemStays
  <2>6. NothingHidden'  BY <1>2, <1>10, <2>2, NothingHiddenStays DEF ListingInv
  <2>7. ItemBytes'  BY <1>2, <1>3, <1>13, <2>1 DEF ListingInv, ItemBytes
  <2>8. HiddenBytes'  BY <1>2, <1>10, <1>13, <2>2, HiddenBytesStay DEF ListingInv
  <2>9. Remembered'  BY <1>2, <1>10, <1>13, <2>2, RememberedStays DEF ListingInv
  <2> QED  BY <2>2, <2>3, <2>4, <2>5, <2>6, <2>7, <2>8, <2>9, RequestOver DEF ListingInv
<1> QED  BY <1>3, <1>11, <1>12, <1>13 DEF UnhideSubtree, Goto, Done

-----------------------------------------------------------------------------
(* The end of a restore, and purges *)

\* A request does not see a purge go by: live rows stay, and so does all it will
\* still look at.
LEMMA RequestUndisturbed ==
    ASSUME RequestInv, ListingInv, UNCHANGED <<disk, op, record>>,
           \A r \in Rows : rows'[r] = rows[r] \/ (rows'[r] = None /\ Hidden(r)),
           op.step \in {"record item", "hide"} => bin'[op.item] = bin[op.item] /\ was'[op.item] = was[op.item],
           op.step \in {"restored", "unhide", "drop item"} /\ op.item \in binDir' =>
              op.item \in binDir /\ was'[op.item] = was[op.item],
           op.step = "unhide" /\ op.item \in binDir' =>
              \A r \in Rows : Hidden(r) /\ rows[r].path[1] = op.path[1] => rows'[r] = rows[r]
    PROVE  FewerHidden /\ SameRecords /\ Listing' /\ Clear' /\ FolderBytes' /\ RequestRemembers'
<1>1. \A r \in Rows : (Live(r)' <=> Live(r)) /\ (Live(r) => rows'[r] = rows[r])  BY DEF Live, Hidden
<1>2. FewerHidden /\ SameRecords  BY DEF FewerHidden, Hidden, SameRecords
<1>3. PICK path, p, i : path = op.path /\ p = op.path[1] /\ i = op.item  OBVIOUS
<1>4. \A q : LiveAt(q)' = LiveAt(q)
  <2>1. ASSUME NEW q, NEW r \in Rows
        PROVE  (Live(r)' /\ rows'[r].path = q) <=> (Live(r) /\ rows[r].path = q)
    BY <1>1
  <2> QED  BY <2>1 DEF LiveAt
<1>5. op' = op /\ op'.path = path /\ op'.path[1] = p /\ op'.item = i /\ disk' = disk /\ record' = record  BY <1>3
<1>6. Listing'
  <2>1. ASSUME NEW r \in Rows, Live(r)', Len(rows'[r].path) = 2, ~Moving(r)' PROVE At(disk', rows'[r].path) # None
    <3>1. Live(r) /\ OfFile(r) /\ rows'[r] = rows[r]  BY <1>1, <2>1 DEF OfFile
    <3>2. ~Moving(r)
      <4>1. ~(op.step \in {"record item", "drop row", "update row"} /\ r = op.row)  BY <1>5, <2>1 DEF Moving
      <4>2. ~(op'.step = "hide" /\ rows'[r] # None /\ rows'[r].path[1] = op'.path[1])
        BY <2>1 DEF Moving, UnderFolder
      <4>3. ~(op.step = "hide" /\ rows[r] # None /\ rows[r].path[1] = op.path[1])  BY <1>5, <3>1, <4>2
      <4> QED  BY <4>1, <4>3 DEF Moving, UnderFolder
    <3> QED  BY <1>5, <3>1, <3>2 DEF ListingInv, Listing, Bytes, At
  <2>2. ASSUME NEW r \in Rows, NEW s \in Rows, Live(r)', Live(s)', Len(rows'[r].path) = 2, rows'[r].path = rows'[s].path
        PROVE  r = s
    <3>1. Live(r) /\ Live(s) /\ OfFile(r) /\ rows[r].path = rows[s].path  BY <1>1, <2>2 DEF OfFile
    <3> QED  BY <3>1 DEF ListingInv, Listing
  <2> QED  BY <2>1, <2>2, ListingPrimed
<1>7. Clear'
  <2>1. op.step = "unhide" => \A r \in Rows : Live(r) /\ OfFile(r) => rows[r].path[1] # p
    BY <1>3 DEF ListingInv, Clear, UnderFolder, Live
  <2>2. op'.step = "unhide" => \A r \in Rows : Live(r)' /\ Len(rows'[r].path) = 2 => rows'[r].path[1] # p
    BY <1>1, <1>5, <2>1 DEF OfFile
  <2>3. LiveAt(path)' = LiveAt(path)  BY <1>4
  <2> QED  BY <1>3, <1>5, <2>2, <2>3 DEF ListingInv, Clear, OfFile, UnderFolder
<1>8. FolderBytes'
  <2>1. op.step = "hide" => \A r \in Rows : Live(r) /\ OfFile(r) /\ rows[r].path[1] = p => bin[i][rows[r].path[2]] # None
    BY <1>3 DEF ListingInv, FolderBytes, UnderFolder, Live
  <2>2. op'.step = "hide" => \A r \in Rows : Live(r)' /\ Len(rows'[r].path) = 2 /\ rows'[r].path[1] = p =>
                                bin'[i][rows'[r].path[2]] # None
    BY <1>1, <1>3, <1>5, <2>1 DEF OfFile
  <2>3. op.step = "unhide" => \A r \in Rows : Hidden(r) /\ OfFile(r) /\ rows[r].path[1] = p => At(disk, rows[r].path) # None
    BY <1>3 DEF ListingInv, FolderBytes, UnderFolder, Hidden, Bytes, At
  <2>4. op'.step = "unhide" => \A r \in Rows : Hidden(r)' /\ Len(rows'[r].path) = 2 /\ rows'[r].path[1] = p =>
                                  At(disk', rows'[r].path) # None
    BY <1>2, <1>5, <2>3 DEF FewerHidden, OfFile
  <2> QED  BY <1>5, <2>2, <2>4 DEF FolderBytes, UnderFolder, OfFile, Bytes, At
<1>9. RequestRemembers'
  <2>1. \A q \in Files \cup {path} : Bytes(q)' = Bytes(q)  BY <1>5 DEF Bytes
  <2>2. Listed(p)' = Listed(p)
    <3>1. \A n \in Names : Bytes(<<p, n>>)' = Bytes(<<p, n>>) /\ LiveAt(<<p, n>>)' = LiveAt(<<p, n>>)
      BY <1>4, <1>5 DEF Bytes
    <3> QED  BY <3>1 DEF Listed
  <2>3. LiveNames(p)' = LiveNames(p)  BY <1>4 DEF LiveNames
  <2>4. LiveAt(<<p>>)' = LiveAt(<<p>>)  BY <1>4
  <2>5. op.step = "unhide" /\ i \in binDir' => HiddenNames(p)' = HiddenNames(p) /\ HiddenAt(<<p>>)' = HiddenAt(<<p>>)
    <3> SUFFICES ASSUME op.step = "unhide", i \in binDir'
                 PROVE  HiddenNames(p)' = HiddenNames(p) /\ HiddenAt(<<p>>)' = HiddenAt(<<p>>)
      OBVIOUS
    <3>1. \A r \in Rows : Hidden(r) /\ rows[r].path[1] = p => rows'[r] = rows[r] /\ Hidden(r)'  BY <1>3 DEF Hidden
    <3>2. ASSUME NEW q, q[1] = p, NEW r \in Rows
          PROVE  (Hidden(r)' /\ rows'[r].path = q) <=> (Hidden(r) /\ rows[r].path = q)
      BY <1>2, <3>1, <3>2 DEF FewerHidden
    <3>3. \A q : q[1] = p => HiddenAt(q)' = HiddenAt(q)  BY <3>2 DEF HiddenAt
    <3>4. <<p>>[1] = p /\ \A n : <<p, n>>[1] = p  OBVIOUS
    <3> QED  BY <3>3, <3>4 DEF HiddenNames
  <2>6. IsDir(i)' <=> IsDir(i)  BY <1>5 DEF IsDir
  <2>7. op.step = "record item" => was'[i] = {<<path[2], bin'[i][path[2]]>>}
    BY <1>3 DEF ListingInv, RequestRemembers
  <2>8. op.step = "hide" => was'[i] = {<<n, bin'[i][n]>> : n \in LiveNames(p)'}
    BY <1>3, <2>3 DEF ListingInv, RequestRemembers
  <2>9. op.step = "restored" /\ i \in binDir' => was'[i] = {<<path[2], Bytes(path)'>>}
    BY <1>3, <2>1 DEF ListingInv, RequestRemembers
  <2>10. op.step = "unhide" /\ i \in binDir' =>
            was'[i] = {<<n, Bytes(<<p, n>>)'>> : n \in HiddenNames(p)'} /\ HiddenAt(<<p>>)' # {}
    <3>1. \A n \in Names : Bytes(<<p, n>>)' = Bytes(<<p, n>>)  BY <1>5 DEF Bytes
    <3>2. {<<n, Bytes(<<p, n>>)'>> : n \in HiddenNames(p)} = {<<n, Bytes(<<p, n>>)>> : n \in HiddenNames(p)}
      BY <3>1 DEF HiddenNames
    <3>3. op.step = "unhide" /\ i \in binDir =>
             was[i] = {<<n, Bytes(<<p, n>>)>> : n \in HiddenNames(p)} /\ HiddenAt(<<p>>) # {}
      BY <1>3 DEF ListingInv, RequestRemembers
    <3>4. op.step = "unhide" /\ i \in binDir' => i \in binDir /\ was'[i] = was[i]  BY <1>3
    <3> QED  BY <2>5, <3>2, <3>3, <3>4
  <2>11. op.step = "drop item" /\ i \in binDir' =>
            IF IsDir(i)' THEN was'[i] = Listed(p)' /\ LiveAt(<<p>>)' # {} ELSE was'[i] \subseteq Listed(p)'
    BY <1>3, <2>2, <2>4, <2>6 DEF ListingInv, RequestRemembers
  <2>12. p = (op.path[1])' /\ i = op'.item /\ path = op'.path  BY <1>5
  <2>13. op'.step = "record item" => was'[i] = {<<path[2], bin'[i][path[2]]>>}  BY <1>5, <2>7
  <2>14. op'.step = "hide" => was'[i] = {<<n, bin'[i][n]>> : n \in LiveNames(p)'}  BY <1>5, <2>8
  <2>15. op'.step = "restored" /\ i \in binDir' => was'[i] = {<<path[2], Bytes(path)'>>}  BY <1>5, <2>9
  <2>16. op'.step = "unhide" /\ i \in binDir' =>
            was'[i] = {<<n, Bytes(<<p, n>>)'>> : n \in HiddenNames(p)'} /\ HiddenAt(<<p>>)' # {}
    BY <1>5, <2>10
  <2>17. op'.step = "drop item" /\ i \in binDir' =>
            IF IsDir(i)' THEN was'[i] = Listed(p)' /\ LiveAt(<<p>>)' # {} ELSE was'[i] \subseteq Listed(p)'
    BY <1>5, <2>11
  <2>18. CASE op'.step = "record item"  BY <2>12, <2>13, <2>18 DEF RequestRemembers
  <2>19. CASE op'.step = "hide"  BY <2>12, <2>14, <2>19 DEF RequestRemembers
  <2>20. CASE op'.step = "restored"  BY <2>12, <2>15, <2>20 DEF RequestRemembers
  <2>21. CASE op'.step = "unhide"  BY <2>12, <2>16, <2>21 DEF RequestRemembers
  <2>22. CASE op'.step = "drop item"  BY <2>12, <2>17, <2>22 DEF RequestRemembers
  <2>23. CASE op'.step \notin {"record item", "hide", "restored", "unhide", "drop item"}
    BY <2>23 DEF RequestRemembers
  <2> QED  BY <2>18, <2>19, <2>20, <2>21, <2>22, <2>23
<1> QED  BY <1>2, <1>6, <1>7, <1>8, <1>9

\* An item may go when none of its folder's rows is hidden.
LEMMA ItemGone ==
    ASSUME RequestInv, HiddenRows, UNCHANGED <<rows, record>>, NEW i \in Items, Known(i),
           items \ {i} \subseteq items',
           IsDir(i) => \A r \in UnderFolder(record[i].path[1]) : ~Hidden(r)
    PROVE  HiddenRows'
<1>1. PICK p : p = record[i].path[1]  OBVIOUS
<1>2. IsDir(i) => \A r \in Rows : Hidden(r) => rows[r].path[1] # p  BY <1>1 DEF UnderFolder, Hidden
<1>3. ASSUME NEW r \in Rows, Hidden(r)'
      PROVE  \E k \in items' : record'[k].path = <<rows'[r].path[1]>> /\ record'[k].created = rows'[r].hidden
  <2>1. Hidden(r)  BY <1>3 DEF Hidden
  <2>2. PICK k \in items : record[k].path = <<rows[r].path[1]>> /\ record[k].created = rows[r].hidden
    BY <2>1 DEF HiddenRows
  <2>3. k # i  BY <1>1, <1>2, <2>1, <2>2 DEF IsDir
  <2> QED  BY <2>2, <2>3
<1>4. ASSUME NEW r \in Rows, NEW s \in Rows, Hidden(r)', Hidden(s)', Len(rows'[r].path) = 2, rows'[r].path = rows'[s].path
      PROVE  r = s
  BY <1>4 DEF Hidden, HiddenRows, OfFile
<1> QED  BY <1>3, <1>4 DEF HiddenRows, OfFile

LEMMA DropItemOrder ==
    ASSUME RequestInv, ListingInv, UNCHANGED damage, DropItem
    PROVE  ListingInv'
<1>1. TypeOK /\ PurgeTypes /\ Listing  BY DEF RequestInv, ListingInv
<1>2. PICK i : i = op.item  OBVIOUS
<1>3. /\ op.step = "drop item" /\ op' = Idle /\ UNCHANGED <<disk, bin, rows, record, purge, batch>>
      /\ items' = items \ {i} /\ binDir' = binDir \ {i} /\ was' = [was EXCEPT ![i] = {}]
  <2>1. damage' # damage + 1  BY <1>1 DEF TypeOK
  <2> QED  BY <1>2, <2>1 DEF DropItem, Damage, Done
<1>4. i \in Items /\ Known(i) /\ op.path = record[i].path  BY <1>2, <1>3 DEF RequestInv, RequestTypes
<1>5. op'.step = "idle"  BY <1>3 DEF Idle
<1>6. SameHidden /\ FewerHidden /\ SameRecords  BY <1>3, SameRowsHidden DEF SameHidden, SameRecords
<1>7. \A k \in Items : was'[k] = IF k = i THEN {} ELSE was[k]  BY <1>1, <1>3 DEF TypeOK
<1>8. \A k \in items : k \in Items  BY <1>1 DEF TypeOK
<1>9. Listing'
  <2>1. ASSUME NEW r \in Rows, Live(r)', Len(rows'[r].path) = 2 PROVE At(disk', rows'[r].path) # None
    <3>1. Live(r) /\ OfFile(r) /\ rows'[r] = rows[r] /\ ~Moving(r)  BY <1>3, <2>1 DEF Live, OfFile, Moving
    <3> QED  BY <1>1, <1>3, <3>1 DEF Listing, Bytes, At
  <2>2. \A r, s \in Rows : Live(r)' /\ Live(s)' /\ Len(rows'[r].path) = 2 /\ rows'[r].path = rows'[s].path => r = s
    BY <1>1, <1>3 DEF Listing, Live, OfFile
  <2> QED  BY <2>1, <2>2, ListingPrimed
<1>10. HiddenRows'
  <2>1. IsDir(i) => \A r \in UnderFolder(record[i].path[1]) : ~Hidden(r)
    BY <1>2, <1>3, <1>4 DEF ListingInv, NothingHidden
  <2> QED  BY <1>3, <1>4, <2>1, ItemGone DEF ListingInv
<1>11. OneItem'
  <2>1. \A k \in Active' : k \in Active  BY <1>3, ActiveStays
  <2> QED  BY <1>5, <1>6, <2>1, OneItemStays DEF ListingInv
<1>12. NothingHidden'  BY <1>3, <1>5, <1>6, NothingHiddenStays DEF ListingInv
<1>13. ItemBytes'  BY <1>2, <1>3 DEF ListingInv, ItemBytes
<1>14. HiddenBytes'  BY <1>3, <1>6, HiddenBytesStay DEF ListingInv
<1>15. Remembered'
  <2>1. \A k \in items' : k \in binDir' /\ bin'[k] # None => k \in binDir /\ bin'[k] = bin[k] /\ was'[k] = was[k]
    BY <1>3, <1>7, <1>8
  <2>2. items' \subseteq items  BY <1>3
  <2> QED  BY <1>6, <2>1, <2>2, RememberedStays DEF ListingInv
<1> QED  BY <1>5, <1>9, <1>10, <1>11, <1>12, <1>13, <1>14, <1>15, RequestOver DEF ListingInv

\* Items are chosen to be purged, and given up, and nothing else happens.
LEMMA NobodyRemoves ==
    ASSUME RequestInv, ListingInv, UNCHANGED <<disk, bin, binDir, rows, items, record, op, was>>,
           \A i \in Active' : i \in Active,
           \A a \in Actors : purge'[a] # None /\ purge'[a].step = "item" => purge'[a] = purge[a]
    PROVE  ListingInv'
<1>1. FewerHidden /\ SameRecords /\ Listing' /\ Clear' /\ FolderBytes' /\ RequestRemembers'  BY RequestUndisturbed
<1>2. SameHidden  BY SameRowsHidden
<1>3. HiddenRows'  BY <1>1, HiddenRowsStay DEF ListingInv
<1>4. OneItem'  BY <1>1, OneItemStays DEF ListingInv
<1>5. NothingHidden'  BY <1>1, NothingHiddenStays DEF ListingInv
<1>6. ItemBytes'  BY DEF ListingInv, ItemBytes
<1>7. HiddenBytes'  BY <1>1, HiddenBytesStay DEF ListingInv
<1>8. Remembered'  BY <1>1, <1>2, RememberedStays DEF ListingInv
<1> QED  BY <1>1, <1>3, <1>4, <1>5, <1>6, <1>7, <1>8 DEF ListingInv

LEMMA ChoosingOrder ==
    ASSUME RequestInv, ListingInv,
           (\E i \in Items : UserPurge(i)) \/ CronList \/ CronTake \/ CronExits \/ UNCHANGED vars
    PROVE  ListingInv'
<1>1. TypeOK  BY DEF RequestInv
<1>2. UNCHANGED <<disk, bin, binDir, rows, items, record, op, was>>
  BY DEF UserPurge, CronList, CronTake, CronExits, vars
<1>3. /\ \A i \in Active' : i \in Active
      /\ \A a \in Actors : purge'[a] # None /\ purge'[a].step = "item" => purge'[a] = purge[a]
  <2>1. ASSUME NEW b \in Actors, NEW i \in items \cup batch, NEW n, n = [item |-> i, step |-> "bytes"],
               purge' = [purge EXCEPT ![b] = n], batch' \subseteq batch
        PROVE  /\ \A k \in Active' : k \in Active
               /\ \A a \in Actors : purge'[a] # None /\ purge'[a].step = "item" => purge'[a] = purge[a]
    <3>1. \A a \in Actors : purge'[a] = IF a = b THEN n ELSE purge[a]  BY <1>1, <2>1 DEF TypeOK
    <3>2. n.item = i /\ n.step = "bytes"  BY <2>1
    <3>3. \A a \in Actors : purge'[a] # None /\ purge'[a].step = "item" => purge'[a] = purge[a]  BY <3>1, <3>2
    <3>4. \A k \in Active' : k \in Active  BY <1>2, <2>1, <3>1, <3>2 DEF Active
    <3> QED  BY <3>3, <3>4
  <2>2. CASE \E i \in Items : UserPurge(i)
    <3>1. PICK i \in Items : UserPurge(i)  BY <2>2
    <3>2. i \in items /\ batch' = batch /\ purge' = [purge EXCEPT !["user"] = [item |-> i, step |-> "bytes"]]
      BY <3>1 DEF UserPurge
    <3>3. PICK n : n = [item |-> i, step |-> "bytes"]  OBVIOUS
    <3> QED  BY <2>1, <3>2, <3>3 DEF Actors
  <2>3. CASE CronTake
    <3>1. PICK i \in batch : purge' = [purge EXCEPT !["cron"] = [item |-> i, step |-> "bytes"]] /\ batch' = batch \ {i}
      BY <2>3 DEF CronTake
    <3>2. PICK n : n = [item |-> i, step |-> "bytes"]  OBVIOUS
    <3> QED  BY <2>1, <3>1, <3>2 DEF Actors
  <2>4. CASE CronList  BY <1>2, <2>4 DEF CronList, Active
  <2>5. CASE CronExits
    <3>1. \A a \in Actors : purge'[a] \in {purge[a], None}  BY <1>1, <2>5 DEF CronExits, TypeOK
    <3> QED  BY <1>2, <2>5, <3>1 DEF CronExits, Active
  <2>6. CASE UNCHANGED vars  BY <2>6 DEF vars, Active
  <2> QED  BY <2>2, <2>3, <2>4, <2>5, <2>6
<1> QED  BY <1>2, <1>3, NobodyRemoves

LEMMA PurgeBytesOrder ==
    ASSUME RequestInv, ListingInv, NEW a \in Actors, PurgeBytes(a)
    PROVE  ListingInv'
<1>1. TypeOK /\ PurgeTypes /\ RequestTypes  BY DEF RequestInv
<1>2. PICK i, s : i = purge[a].item /\ s = IF IsDir(i) THEN "rows" ELSE "item"  OBVIOUS
<1>3. /\ purge[a] # None /\ binDir' = binDir \ {i}
      /\ bin' = [bin EXCEPT ![i] = None] /\ was' = [was EXCEPT ![i] = {}]
      /\ purge' = [purge EXCEPT ![a].step = s] /\ UNCHANGED <<disk, rows, items, record, op, batch>>
  BY <1>2 DEF PurgeBytes, Purging
<1>4. i \in Items /\ Known(i)  BY <1>1, <1>2, <1>3, TakingOf DEF PurgeTypes
<1>5. /\ purge'[a].item = i /\ purge'[a].step = s /\ purge'[a] # None
      /\ \A b \in Actors : b # a => purge'[b] = purge[b]
  <2>1. s \in {"bytes", "rows", "item"}  BY <1>2
  <2> QED  BY <1>1, <1>2, <1>3, <2>1, TakingOn
<1>6. /\ \A k \in Items : bin'[k] = IF k = i THEN None ELSE bin[k]
      /\ \A k \in Items : was'[k] = IF k = i THEN {} ELSE was[k]
  BY <1>1, <1>3 DEF TypeOK
<1>7. /\ FewerHidden /\ SameRecords /\ Listing' /\ Clear' /\ FolderBytes' /\ RequestRemembers'
  <2>1. op.step \in {"record item", "hide"} => bin'[op.item] = bin[op.item] /\ was'[op.item] = was[op.item]
    <3>1. op.step \in {"record item", "hide"} => op.item \in Items /\ op.item # i  BY <1>1, <1>4 DEF RequestTypes
    <3> QED  BY <1>6, <3>1
  <2>2. op.step \in {"restored", "unhide", "drop item"} /\ op.item \in binDir' =>
           op.item \in binDir /\ was'[op.item] = was[op.item]
    <3>1. op.step \in {"restored", "unhide", "drop item"} => op.item \in Items  BY <1>1 DEF RequestTypes
    <3> QED  BY <1>3, <1>6, <3>1
  <2>3. \A r \in Rows : rows'[r] = rows[r]  BY <1>3
  <2>4. disk' = disk /\ op' = op /\ record' = record  BY <1>3
  <2> QED  BY <2>1, <2>2, <2>3, <2>4, RequestUndisturbed
<1>8. SameHidden  BY <1>3, SameRowsHidden
<1>9. \A k \in items : k \in Items  BY <1>1 DEF TypeOK
<1>10. HiddenRows'  BY <1>3, <1>7, HiddenRowsStay DEF ListingInv
<1>11. OneItem'
  <2>1. \A k \in Active' : k \in Active
    <3>1. \A b \in Actors : purge'[b] # None => purge[b] # None /\ purge'[b].item = purge[b].item
      BY <1>2, <1>3, <1>5
    <3> QED  BY <1>3, <3>1 DEF Active
  <2> QED  BY <1>3, <1>7, <2>1, OneItemStays DEF ListingInv
<1>12. NothingHidden'
  <2>1. ASSUME NEW b \in Actors, purge'[b] # None, purge'[b].step = "item", Len(record'[purge'[b].item].path) = 1
        PROVE  purge'[b] = purge[b]
    <3>1. CASE b = a  BY <1>2, <1>3, <1>5, <2>1, <3>1 DEF IsDir
    <3> QED  BY <1>5, <3>1
  <2> QED  BY <1>3, <1>7, <2>1, NothingHiddenStays DEF ListingInv
<1>13. ItemBytes'  BY <1>3, <1>6, <1>9 DEF ListingInv, ItemBytes
<1>14. HiddenBytes'  BY <1>3, <1>6, <1>7, <1>9, HiddenBytesStay DEF ListingInv
<1>15. Remembered'
  <2>1. \A k \in items' : k \in binDir' /\ bin'[k] # None => k \in binDir /\ bin'[k] = bin[k] /\ was'[k] = was[k]
    BY <1>3, <1>6, <1>9
  <2> QED  BY <1>3, <1>7, <1>8, <2>1, RememberedStays DEF ListingInv
<1> QED  BY <1>7, <1>10, <1>11, <1>12, <1>13, <1>14, <1>15 DEF ListingInv

\* The rows purged are all the hidden rows of the folder, and no other item's.
LEMMA PurgeRowsOrder ==
    ASSUME RequestInv, ListingInv, NEW a \in Actors, PurgeRows(a)
    PROVE  ListingInv'
<1>1. TypeOK /\ PurgeTypes /\ ItemTypes /\ RequestTypes /\ OneItem  BY DEF RequestInv, ListingInv
<1>2. PICK i, p : i = purge[a].item /\ p = record[i].path[1]  OBVIOUS
<1>3. /\ purge[a] # None /\ purge[a].step = "rows"
      /\ UNCHANGED <<disk, bin, binDir, items, record, op, batch, was>>
  BY DEF PurgeRows, Purging
<1>4. i \in Items /\ i \in Active /\ Known(i) /\ IsDir(i) /\ i \notin binDir
  BY <1>1, <1>2, <1>3, TakingOf DEF PurgeTypes
<1>5. record[i].path = <<p>>  BY <1>1, <1>2, <1>4, ItemPaths
<1>6. \A k \in Active : record[k].path = <<p>> => k = i  BY <1>1, <1>4, <1>5 DEF OneItem
<1>7. CASE purge' = [purge EXCEPT ![a] = None] /\ UNCHANGED rows
  <2>1. \A b \in Actors : purge'[b] \in {purge[b], None}  BY <1>1, <1>7 DEF TypeOK
  <2>2. \A k \in Active' : k \in Active  BY <1>3, <2>1 DEF Active
  <2>3. \A b \in Actors : purge'[b] # None /\ purge'[b].step = "item" => purge'[b] = purge[b]  BY <2>1
  <2> QED  BY <1>3, <1>7, <2>2, <2>3, NobodyRemoves
<1>8. CASE /\ rows' = [r \in Rows |-> IF r \in HiddenSince(p, record[i].created) THEN None ELSE rows[r]]
           /\ purge' = [purge EXCEPT ![a].step = "item"]
  <2>1. /\ purge'[a].item = i /\ purge'[a] # None /\ \A b \in Actors : b # a => purge'[b] = purge[b]
    BY <1>1, <1>2, <1>3, <1>8, TakingOn
  <2>2. \A r \in Rows : r \in HiddenSince(p, record[i].created) <=> Hidden(r) /\ rows[r].path[1] = p
    <3>1. ASSUME NEW r \in Rows, Hidden(r), rows[r].path[1] = p PROVE r \in HiddenSince(p, record[i].created)
      <4>1. PICK k \in items : record[k].path = <<p>> /\ record[k].created = rows[r].hidden
        BY <3>1 DEF ListingInv, HiddenRows
      <4>2. k = i  BY <1>6, <4>1 DEF Active
      <4>3. rows[r].hidden \in Times /\ rows[r] # None  BY <1>1, <3>1, RowTypes DEF Hidden
      <4>4. rows[r].hidden \in Int  BY <4>3 DEF Times
      <4> QED  BY <3>1, <4>1, <4>2, <4>3, <4>4 DEF HiddenSince, UnderFolder, Hidden
    <3> QED  BY <3>1 DEF HiddenSince, UnderFolder, Hidden
  <2>3. \A r \in Rows : rows'[r] = IF Hidden(r) /\ rows[r].path[1] = p THEN None ELSE rows[r]
    BY <1>8, <2>2
  <2>4. /\ FewerHidden /\ SameRecords /\ Listing' /\ Clear' /\ FolderBytes' /\ RequestRemembers'
    <3>1. \A r \in Rows : rows'[r] = rows[r] \/ (rows'[r] = None /\ Hidden(r))  BY <2>3
    <3>2. op.step = "unhide" /\ op.item \in binDir' =>
             \A r \in Rows : Hidden(r) /\ rows[r].path[1] = op.path[1] => rows'[r] = rows[r]
      <4> SUFFICES ASSUME op.step = "unhide", op.item \in binDir'
                   PROVE  \A r \in Rows : Hidden(r) /\ rows[r].path[1] = op.path[1] => rows'[r] = rows[r]
        OBVIOUS
      <4>1. op.item # i  BY <1>3, <1>4
      <4>2. record[i].path # op.path  BY <1>1, <1>4, <4>1 DEF OneItem
      <4>3. op.item \in Items /\ Known(op.item) /\ IsDir(op.item) /\ op.path = record[op.item].path
        BY <1>1 DEF RequestTypes
      <4>4. op.path = <<op.path[1]>>  BY <1>1, <4>3, ItemPaths
      <4>5. op.path[1] # p  BY <1>5, <4>2, <4>4
      <4> QED  BY <2>3, <4>5
    <3> QED  BY <1>3, <3>1, <3>2, RequestUndisturbed
  <2>5. HiddenRows'  BY <1>3, <2>4, HiddenRowsStay DEF ListingInv
  <2>6. OneItem'
    <3>1. \A b \in Actors : purge'[b] # None => purge[b] # None /\ purge'[b].item = purge[b].item
      BY <1>2, <1>3, <2>1
    <3>2. \A k \in Active' : k \in Active  BY <1>3, <3>1 DEF Active
    <3> QED  BY <1>3, <2>4, <3>2, OneItemStays DEF ListingInv
  <2>7. NothingHidden'
    <3>1. \A r \in Rows : Hidden(r)' => Hidden(r) /\ rows'[r] = rows[r] /\ rows[r] # None /\ rows[r].path[1] # p
      BY <2>3 DEF Hidden
    <3>2. op.step = "drop item" /\ IsDir(op.item) => \A r \in Rows : Hidden(r) => rows[r].path[1] # op.path[1]
      BY DEF ListingInv, NothingHidden, UnderFolder, Hidden
    <3>3. op'.step = "drop item" /\ Len(record'[op'.item].path) = 1 =>
             \A r \in Rows : Hidden(r)' => rows'[r].path[1] # op'.path[1]
      BY <1>3, <3>1, <3>2 DEF IsDir
    <3>4. ASSUME NEW b \in Actors, purge'[b] # None, purge'[b].step = "item", Len(record'[purge'[b].item].path) = 1
          PROVE  \A r \in Rows : Hidden(r)' => rows'[r].path[1] # record'[purge'[b].item].path[1]
      <4>1. CASE b = a  BY <1>2, <1>3, <2>1, <3>1, <4>1
      <4>2. CASE b # a
        <5>1. PICK q : q = record[purge[b].item].path[1]  OBVIOUS
        <5>2. purge'[b] = purge[b] /\ record' = record  BY <1>3, <2>1, <4>2
        <5>3. \A r \in UnderFolder(q) : ~Hidden(r)  BY <3>4, <5>1, <5>2 DEF ListingInv, NothingHidden, IsDir
        <5>4. \A r \in Rows : Hidden(r) => rows[r].path[1] # q  BY <5>3 DEF UnderFolder, Hidden
        <5> QED  BY <3>1, <5>1, <5>2, <5>4
      <4> QED  BY <4>1, <4>2
    <3> QED  BY <3>3, <3>4 DEF NothingHidden, IsDir, UnderFolder
  <2>8. ItemBytes'  BY <1>3 DEF ListingInv, ItemBytes
  <2>9. HiddenBytes'  BY <1>3, <2>4, HiddenBytesStay DEF ListingInv
  <2>10. Remembered'
    <3>1. ASSUME NEW k \in items' \cap binDir', bin'[k] # None PROVE Remembers(k)'
      <4>1. k \in items \cap binDir /\ k \in Items /\ k \in Active /\ k # i
        BY <1>1, <1>3, <1>4, <3>1 DEF TypeOK, Active
      <4>2. record'[k] = record[k] /\ bin'[k] = bin[k] /\ was'[k] = was[k] /\ Known(k)
        BY <1>1, <1>3, <4>1 DEF PurgeTypes
      <4>3. Remembers(k)  BY <3>1, <4>1, <4>2 DEF ListingInv, Remembered, Remembers
      <4>4. PICK q : q = record[k].path[1]  OBVIOUS
      <4>5. IsDir(k) => q # p  BY <1>1, <1>6, <4>1, <4>2, <4>4, ItemPaths
      <4>6. \A path : path[1] # p => HiddenAt(path)' = HiddenAt(path)
        <5>1. \A r \in Rows : Hidden(r)' => Hidden(r) /\ rows'[r] = rows[r]  BY <2>3 DEF Hidden
        <5>2. \A r \in Rows : Hidden(r) /\ rows[r].path[1] # p => Hidden(r)' /\ rows'[r] = rows[r]  BY <2>3 DEF Hidden
        <5>3. ASSUME NEW path, path[1] # p, NEW r \in Rows
              PROVE  (Hidden(r)' /\ rows'[r].path = path) <=> (Hidden(r) /\ rows[r].path = path)
          BY <5>1, <5>2, <5>3
        <5> QED  BY <5>3 DEF HiddenAt
      <4>7. <<q>>[1] = q /\ \A n : <<q, n>>[1] = q  OBVIOUS
      <4>8. IsDir(k) => HiddenAt(<<q>>)' = HiddenAt(<<q>>) /\ \A n \in Names : HiddenAt(<<q, n>>)' = HiddenAt(<<q, n>>)
        BY <4>5, <4>6, <4>7
      <4> QED  BY <4>2, <4>3, <4>4, <4>8, RemembersStays
    <3> QED  BY <3>1 DEF Remembered, Remembers
  <2> QED  BY <2>4, <2>5, <2>6, <2>7, <2>8, <2>9, <2>10 DEF ListingInv
<1> QED  BY <1>2, <1>7, <1>8 DEF PurgeRows

LEMMA PurgeItemOrder ==
    ASSUME RequestInv, ListingInv, NEW a \in Actors, PurgeItem(a)
    PROVE  ListingInv'
<1>1. TypeOK /\ PurgeTypes  BY DEF RequestInv
<1>2. PICK i : i = purge[a].item  OBVIOUS
<1>3. /\ purge[a] # None /\ purge[a].step = "item" /\ purge' = [purge EXCEPT ![a] = None]
      /\ items \ {i} \subseteq items' /\ items' \subseteq items
      /\ UNCHANGED <<disk, bin, binDir, rows, record, op, batch, was>>
  BY <1>2 DEF PurgeItem, Purging
<1>4. i \in Items /\ Known(i)  BY <1>1, <1>2, <1>3, TakingOf DEF PurgeTypes
<1>5. /\ FewerHidden /\ SameRecords /\ Listing' /\ Clear' /\ FolderBytes' /\ RequestRemembers'
  BY <1>3, RequestUndisturbed
<1>6. SameHidden  BY <1>3, SameRowsHidden
<1>7. \A b \in Actors : purge'[b] \in {purge[b], None}  BY <1>1, <1>3 DEF TypeOK
<1>8. HiddenRows'
  <2>1. IsDir(i) => \A r \in UnderFolder(record[i].path[1]) : ~Hidden(r)
    BY <1>2, <1>3 DEF ListingInv, NothingHidden
  <2> QED  BY <1>3, <1>4, <2>1, ItemGone DEF ListingInv
<1>9. OneItem'
  <2>1. \A k \in Active' : k \in Active  BY <1>3, <1>7 DEF Active
  <2> QED  BY <1>3, <1>5, <2>1, OneItemStays DEF ListingInv
<1>10. NothingHidden'  BY <1>3, <1>5, <1>7, NothingHiddenStays DEF ListingInv
<1>11. ItemBytes'  BY <1>3 DEF ListingInv, ItemBytes
<1>12. HiddenBytes'  BY <1>3, <1>5, HiddenBytesStay DEF ListingInv
<1>13. Remembered'  BY <1>3, <1>5, <1>6, RememberedStays DEF ListingInv
<1> QED  BY <1>5, <1>8, <1>9, <1>10, <1>11, <1>12, <1>13 DEF ListingInv

-----------------------------------------------------------------------------
(* What is listed, and what a restore brings back *)

LEMMA OrderlyInit ==
    ASSUME Init
    PROVE  ListingInv
<1>1. /\ \A r \in Rows : rows[r] = None
      /\ items = {} /\ batch = {} /\ op.step = "idle" /\ \A a \in Actors : purge[a] = None
  BY DEF Init, Idle
<1>2. \A r \in Rows : ~Live(r) /\ ~Hidden(r)  BY <1>1 DEF Live, Hidden
<1>3. Active = {}  BY <1>1 DEF Active
<1>4. Listing /\ HiddenRows /\ HiddenBytes  BY <1>2 DEF Listing, HiddenRows, HiddenBytes
<1>5. Clear /\ FolderBytes /\ RequestRemembers  BY <1>1 DEF Clear, FolderBytes, RequestRemembers
<1>6. OneItem /\ NothingHidden /\ ItemBytes /\ Remembered
  BY <1>1, <1>3 DEF OneItem, NothingHidden, ItemBytes, Remembered
<1> QED  BY <1>4, <1>5, <1>6 DEF ListingInv

LEMMA NothingLeftUndone ==
    ASSUME TypeOK, damage' = 0
    PROVE  ~Damage
<1>1. damage \in 0..MaxDamage  BY DEF TypeOK
<1> QED  BY <1>1, DriveAssumption DEF Damage

LEMMA OrderlyStep ==
    ASSUME "create dir" \notin Failing, Generations = "one", RequestInv, OrderlyInv, [Next]_vars
    PROVE  OrderlyInv'
<1> SUFFICES ASSUME damage' = 0 PROVE ListingInv'
  BY DEF OrderlyInv
<1>1. ~Damage  BY NothingLeftUndone DEF RequestInv
<1>2. UNCHANGED damage
  <2>1. CASE UserStep
    <3>1. CASE DropRow \/ DropItem  BY <1>1, <3>1 DEF DropRow, DropItem
    <3>2. CASE ~(DropRow \/ DropItem)
      BY <2>1, <3>2 DEF UserStep, CreateDir, DeleteDir, Upload, DeleteFile, Move, MoveFails, Restore, RestoreFails,
         UserPurge, MakeDir, RecordDir, RecordFile, UpdateRow, RecordItem, HideSubtree, RecordRestored, UnhideSubtree
    <3> QED  BY <3>1, <3>2
  <2>2. CASE CronList \/ CronTake \/ ApiExits \/ CronExits \/ (\E a \in Actors : PurgeStep(a)) \/ UNCHANGED vars
    BY <1>1, <2>2 DEF CronList, CronTake, ApiExits, CronExits, PurgeStep, PurgeBytes, PurgeRows, PurgeItem, vars
  <2> QED  BY <2>1, <2>2 DEF Next
<1>3. ListingInv  BY <1>2 DEF OrderlyInv
<1>4. CASE UserStep
  BY <1>2, <1>3, <1>4, DirOrder, FailsOrder, UploadOrder, RecordFileOrder, MoveOrder, UpdateRowOrder, DeleteFileOrder,
     RecordItemOrder, DropRowOrder, DeleteDirOrder, HideOrder, RestoreOrder, RecordRestoredOrder, UnhideOrder,
     DropItemOrder, ChoosingOrder
  DEF UserStep
<1>5. CASE CronList \/ CronTake \/ CronExits \/ UNCHANGED vars  BY <1>3, <1>5, ChoosingOrder
<1>6. CASE \E a \in Actors : PurgeStep(a)
  BY <1>3, <1>6, PurgeBytesOrder, PurgeRowsOrder, PurgeItemOrder DEF PurgeStep
<1>7. ~ApiExits  BY <1>1 DEF ApiExits
<1> QED  BY <1>4, <1>5, <1>6, <1>7 DEF Next

\* As long as every folder asked for is recorded, no folder is deleted while an
\* older one of its name is in the bin, and nothing was left undone, rows, hidden
\* rows, items and bytes belong together, at every step of every request and purge.
THEOREM RowsMatchBytes ==
    ASSUME "create dir" \notin Failing, Generations = "one"
    PROVE  Spec => []OrderlyInv
<1>1. Init => OrderlyInv  BY OrderlyInit DEF OrderlyInv
<1>2. RequestInv /\ OrderlyInv /\ [Next]_vars => OrderlyInv'  BY OrderlyStep
<1> QED  BY <1>1, <1>2, RequestsAreSound, PTL DEF Spec

\* Between requests every listed file has its bytes, whichever database call of a
\* deletion, a move or a restore failed halfway.
THEOREM ListedFilesHaveBytes ==
    ASSUME "create dir" \notin Failing, Generations = "one"
    PROVE  Spec => []ListedFileHasBytes
<1>1. OrderlyInv => ListedFileHasBytes
  <2> SUFFICES ASSUME OrderlyInv, op = Idle, damage = 0, NEW r \in Rows, Live(r), Len(rows[r].path) = 2
               PROVE  Bytes(rows[r].path) # None
    BY DEF ListedFileHasBytes
  <2>1. Listing /\ ~Moving(r)  BY DEF OrderlyInv, ListingInv, Moving, Idle
  <2> QED  BY <2>1 DEF Listing, OfFile
<1> QED  BY <1>1, RowsMatchBytes, PTL

LEMMA OrderlyLists ==
    ASSUME OrderlyInv
    PROVE  ListedOnce
<1> SUFFICES ASSUME damage = 0, NEW path \in Files
             PROVE  Cardinality(LiveAt(path)) <= 1
  BY DEF ListedOnce
<1>1. \A r, s \in LiveAt(path) : r = s
  <2>1. Len(path) = 2  BY FilePath
  <2> QED  BY <2>1 DEF LiveAt, OrderlyInv, ListingInv, Listing, OfFile
<1>2. CASE LiveAt(path) = {}
  <2>1. Cardinality(LiveAt(path)) = 0  BY <1>2, FS_EmptySet
  <2> QED  BY <2>1
<1>3. CASE LiveAt(path) # {}
  <2>1. PICK r \in LiveAt(path) : TRUE  BY <1>3
  <2>2. LiveAt(path) = {r}  BY <1>1, <2>1
  <2>3. Cardinality(LiveAt(path)) = 1  BY <2>2, FS_Singleton
  <2> QED  BY <2>3
<1> QED  BY <1>2, <1>3

\* A file is listed once at every step: uploads, moves and restores look at what
\* is listed, or at the bytes, before they list anything.
THEOREM FilesAreListedOnce ==
    ASSUME "create dir" \notin Failing, Generations = "one"
    PROVE  Spec => []ListedOnce
<1>1. OrderlyInv => ListedOnce  BY OrderlyLists
<1> QED  BY <1>1, RowsMatchBytes, PTL

\* An item in the bin that no purge has reached has the bytes it was made of, so a
\* restore of it finds them.
THEOREM ItemsHaveBytes ==
    ASSUME "create dir" \notin Failing, Generations = "one"
    PROVE  Spec => []ItemHasBytes
<1>1. OrderlyInv => ItemHasBytes
  <2> SUFFICES ASSUME OrderlyInv, op = Idle, damage = 0, NEW i \in items \cap binDir
               PROVE  bin[i] # None
    BY DEF ItemHasBytes
  <2>1. op.step = "idle"  BY DEF Idle
  <2> QED  BY <2>1 DEF OrderlyInv, ListingInv, ItemBytes
<1> QED  BY <1>1, RowsMatchBytes, PTL

\* A restore that ends, and that no purge has come between, lists exactly what the
\* deletion had taken away, with the same bytes: the invariant carries what was
\* listed from the deletion through the bin to the last step of the restore.
THEOREM RestoresBringBack ==
    ASSUME "create dir" \notin Failing, Generations = "one"
    PROVE  Spec => RestoreBringsBack
<1>1. ASSUME RequestInv, OrderlyInv, damage = 0, op.step = "drop item", op.item \in binDir
      PROVE  IF IsDir(op.item)
             THEN Listed(op.path[1]) = was[op.item] /\ LiveAt(<<op.path[1]>>) # {}
             ELSE was[op.item] \subseteq Listed(op.path[1])
  BY <1>1 DEF OrderlyInv, ListingInv, RequestRemembers
<1>2. RequestInv /\ OrderlyInv =>
         [LET i == op.item
              p == op.path[1]
          IN  damage = 0 /\ op.step = "drop item" /\ op' = Idle /\ i \in binDir /\ i \notin binDir'
              => IF IsDir(i) THEN Listed(p) = was[i] /\ LiveAt(<<p>>) # {}
                             ELSE was[i] \subseteq Listed(p)]_vars
  BY <1>1
<1> QED  BY <1>2, RequestsAreSound, RowsMatchBytes, PTL DEF Spec, RestoreBringsBack

=============================================================================
