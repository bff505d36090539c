--------------------------- MODULE BucketBinProofs ---------------------------
(***************************************************************************)
(* Proofs about BucketBin for any folders, names, contents and items.      *)
(***************************************************************************)
EXTENDS BucketBinInvariant, FiniteSetTheorems, TLAPS

USE DEF bytes, db, cron, past

-----------------------------------------------------------------------------
(* Keys, objects and rows *)

LEMMA KeyKinds ==
    /\ \A k \in Files : k \in Keys /\ k \notin Markers /\ k[1] \in Folders /\ Len(k) = 2 /\ k = <<k[1], k[2]>>
    /\ \A k \in Markers : k \in Keys /\ k[1] \in Folders \ {Root} /\ Len(k) = 1 /\ k = <<k[1]>>
    /\ \A p \in Folders \ {Root} : <<p>> \in Markers /\ <<p>>[1] = p
    /\ \A k \in Keys : k \in Files \/ k \in Markers
<1>1. ASSUME NEW k \in Files
      PROVE  k \in Keys /\ k \notin Markers /\ k[1] \in Folders /\ Len(k) = 2 /\ k = <<k[1], k[2]>>
  BY <1>1 DEF Files, Keys, Markers
<1>2. ASSUME NEW p \in Folders \ {Root} PROVE <<p>> \in Markers /\ <<p>>[1] = p /\ Len(<<p>>) = 1
  <2>1. <<p>> \in Keys  BY DEF Keys
  <2>2. Len(<<p>>) = 1 /\ <<p>>[1] = p  OBVIOUS
  <2> QED  BY <1>1, <2>1, <2>2 DEF Markers
<1>3. ASSUME NEW k \in Markers
      PROVE  k \in Keys /\ k[1] \in Folders \ {Root} /\ Len(k) = 1 /\ k = <<k[1]>>
  <2>1. PICK p \in Folders \ {Root} : k = <<p>>  BY <1>3 DEF Markers, Keys
  <2> QED  BY <1>2, <2>1 DEF Markers
<1> QED  BY <1>1, <1>2, <1>3 DEF Markers

LEMMA ObjectKinds ==
    /\ None \in Objects /\ Marker \in Objects /\ \A c \in Contents : c \in Objects /\ c # None /\ c # Marker
    /\ Marker # None /\ NoKeys \in [Keys -> Objects] /\ \A k \in Keys : NoKeys[k] = None
    BY BucketAssumption DEF Objects, NoKeys

LEMMA ObjectPut ==
    ASSUME TypeOK, NEW k \in Keys, NEW c \in Objects, Object(k, c)
    PROVE  bucket' \in [Keys -> Objects] /\ \A q \in Keys : bucket'[q] = IF q = k THEN c ELSE bucket[q]
    BY DEF TypeOK, Object

LEMMA CopiedType ==
    ASSUME NEW from \in [Keys -> Objects], NEW to \in [Keys -> Objects], NEW ks
    PROVE  /\ Copied(from, to, ks) \in [Keys -> Objects]
           /\ \A k \in Keys : Copied(from, to, ks)[k] = IF k \in ks THEN from[k] ELSE to[k]
    BY DEF Copied

LEMMA WithoutType ==
    ASSUME NEW b \in [Keys -> Objects], NEW ks
    PROVE  /\ Without(b, ks) \in [Keys -> Objects]
           /\ \A k \in Keys : Without(b, ks)[k] = IF k \in ks THEN None ELSE b[k]
    BY ObjectKinds DEF Without

LEMMA BinPut ==
    ASSUME TypeOK, NEW i \in Items, NEW b \in [Keys -> Objects], bin' = [bin EXCEPT ![i] = b]
    PROVE  /\ bin' \in [Items -> [Keys -> Objects]] /\ bin'[i] = b
           /\ \A k \in Items : k # i => bin'[k] = bin[k]
    BY DEF TypeOK

LEMMA RowAdded ==
    ASSUME TypeOK, NEW path \in Keys, AddRow(path)
    PROVE  /\ rows' \in [Rows -> Row \cup {None}]
           /\ \E r \in Rows : /\ rows[r] = None /\ rows'[r].path = path /\ rows'[r].hidden = 0 /\ rows'[r] # None
                              /\ \A s \in Rows : s # r => rows'[s] = rows[s]
<1>1. PICK r \in Unrecorded : rows' = [rows EXCEPT ![r] = [path |-> path, hidden |-> 0]]  BY DEF AddRow
<1>2. PICK n : n = [path |-> path, hidden |-> 0]  OBVIOUS
<1>3. r \in Rows /\ rows[r] = None  BY DEF Unrecorded
<1>4. Cardinality(Items) \in Nat  BY BucketAssumption, FS_CardinalityType
<1>5. 0 \in Times  BY <1>4 DEF Times
<1>6. n \in Row /\ n.path = path /\ n.hidden = 0  BY <1>2, <1>5 DEF Row
<1>7. n # None  BY <1>6, NoneAssumption
<1> QED  BY <1>1, <1>2, <1>3, <1>6, <1>7 DEF TypeOK

LEMMA RowTypes ==
    ASSUME TypeOK, NEW r \in Rows, rows[r] # None
    PROVE  rows[r] \in Row /\ rows[r].path \in Keys /\ rows[r].hidden \in Times
    BY DEF TypeOK, Row

-----------------------------------------------------------------------------
(* Requests *)

LEMMA Begun ==
    ASSUME NEW s \in Steps, NEW k \in Keys \cup {None}, NEW f \in Keys \cup {None}, NEW r \in Rows \cup {None},
           NEW i \in Items \cup {None}, NEW c \in Contents \cup {None}, NEW ks \in SUBSET Keys, NEW o,
           o = [Idle EXCEPT !.step = s, !.key = k, !.from = f, !.row = r, !.item = i, !.content = c, !.keys = ks]
    PROVE  /\ o \in Request
           /\ o.step = s /\ o.key = k /\ o.from = f /\ o.row = r /\ o.item = i /\ o.content = c /\ o.keys = ks
    BY DEF Idle, Request

LEMMA IdleType == Idle \in Request /\ Idle.step = "idle"
<1>1. {} \in SUBSET Keys  OBVIOUS
<1>2. Idle.step = "idle"  BY DEF Idle
<1>3. Idle \in Request  BY <1>1 DEF Idle, Request, Steps
<1> QED  BY <1>2, <1>3

LEMMA GoneTo ==
    ASSUME TypeOK, NEW s \in Steps, Goto(s)
    PROVE  /\ op' \in Request /\ op'.step = s /\ op'.key = op.key /\ op'.from = op.from /\ op'.row = op.row
           /\ op'.item = op.item /\ op'.content = op.content /\ op'.keys = op.keys
    BY DEF TypeOK, Request, Goto

LEMMA BookkeepingStays ==
    ASSUME RequestInv, UNCHANGED <<items, record, clock, purge, batch>>
    PROVE  /\ PurgeTypes' /\ Deletions'
           /\ \A i \in Items : IsKnown(i)' <=> IsKnown(i)
<1>1. Active' = Active /\ KnownItems' = KnownItems  BY DEF Active, KnownItems, IsKnown
<1>2. \A i : IsKnown(i)' <=> IsKnown(i)  BY DEF IsKnown
<1> QED  BY <1>1, <1>2 DEF RequestInv, PurgeTypes, Deletions

LEMMA MarkersStay ==
    ASSUME RequestInv,
           \A k \in Markers : bucket'[k] \in {bucket[k], Marker, None} \/ \E i \in Items : bucket'[k] = bin[i][k],
           \A i \in Items, k \in Markers : bin'[i][k] \in {bin[i][k], bucket[k], Marker, None}
    PROVE  MarkerKeys'
    BY DEF RequestInv, MarkerKeys

LEMMA RequestOver ==
    ASSUME op' = Idle
    PROVE  RequestTypes' /\ Copies'
    BY IdleType DEF RequestTypes, Copies

\* What goes wrong for good is counted.
LEMMA DamageCounted ==
    ASSUME TypeOK, Damage \/ UNCHANGED damage
    PROVE  damage' \in 0..MaxDamage
<1>1. damage \in 0..MaxDamage  BY DEF TypeOK
<1>2. damage' = damage \/ (damage < MaxDamage /\ damage' = damage + 1)  BY DEF Damage
<1> QED  BY <1>1, <1>2, BucketAssumption

-----------------------------------------------------------------------------
(* Folders and uploads *)

LEMMA CreateDirRequest ==
    ASSUME RequestInv, NEW p \in Folders, CreateDir(p)
    PROVE  RequestInv'
<1>1. TypeOK /\ kept \cap unused = {}  BY DEF RequestInv
<1>2. PICK k : k = <<p>>  OBVIOUS
<1>3. k \in Markers /\ k \in Keys  BY <1>2, KeyKinds DEF CreateDir, IsSubfolder
<1>4. /\ Ready /\ Object(k, Marker) /\ UNCHANGED <<bin, db, cron, past>>
      /\ op' = [Idle EXCEPT !.step = "ensure", !.key = k]
  BY <1>2 DEF CreateDir
<1>5. op' \in Request /\ op'.step = "ensure" /\ op'.key = k  BY <1>3, <1>4, IdleType DEF Idle, Request, Steps
<1>6. bucket' \in [Keys -> Objects] /\ \A q \in Keys : bucket'[q] = IF q = k THEN Marker ELSE bucket[q]
  BY <1>1, <1>3, <1>4, ObjectPut, ObjectKinds
<1>7. TypeOK'  BY <1>1, <1>4, <1>5, <1>6 DEF TypeOK
<1>8. PurgeTypes' /\ Deletions'  BY <1>4, BookkeepingStays
<1>9. MarkerKeys'  BY <1>4, <1>6, KeyKinds, MarkersStay
<1>10. RequestTypes' /\ Copies'  BY <1>3, <1>4, <1>5 DEF RequestTypes, Copies, Ready
<1> QED  BY <1>1, <1>4, <1>7, <1>8, <1>9, <1>10 DEF RequestInv

LEMMA EnsureRowRequest ==
    ASSUME RequestInv, EnsureRow
    PROVE  RequestInv'
<1>1. TypeOK /\ kept \cap unused = {}  BY DEF RequestInv
<1>2. PICK k : k = op.key  OBVIOUS
<1>3. k \in Markers /\ k \in Keys  BY <1>2, KeyKinds DEF RequestInv, RequestTypes, EnsureRow
<1>4. /\ op' = Idle /\ UNCHANGED <<bin, items, record, clock, purge, batch, unused, kept>>
      /\ UNCHANGED bucket \/ Object(k, None)
      /\ UNCHANGED rows \/ AddRow(k)
      /\ UNCHANGED damage \/ Damage
  BY <1>2 DEF EnsureRow, Done
<1>5. /\ bucket' \in [Keys -> Objects] /\ \A q \in Keys : bucket'[q] \in {bucket[q], None}
  BY <1>1, <1>3, <1>4, ObjectPut, ObjectKinds DEF TypeOK
<1>6. rows' \in [Rows -> Row \cup {None}]  BY <1>1, <1>3, <1>4, RowAdded DEF TypeOK
<1>7. damage' \in 0..MaxDamage  BY <1>1, <1>4, DamageCounted
<1>8. TypeOK'  BY <1>1, <1>4, <1>5, <1>6, <1>7, IdleType DEF TypeOK
<1>9. PurgeTypes' /\ Deletions'  BY <1>4, BookkeepingStays
<1>10. MarkerKeys'  BY <1>4, <1>5, KeyKinds, MarkersStay
<1> QED  BY <1>1, <1>4, <1>8, <1>9, <1>10, RequestOver DEF RequestInv

LEMMA UploadRequested ==
    ASSUME RequestInv, NEW path \in Folders \X Names, NEW c \in Contents, Upload(path, c)
    PROVE  RequestInv'
<1>1. TypeOK /\ kept \cap unused = {} /\ RequestTypes  BY DEF RequestInv
<1>2. path \in Files /\ path \in Keys /\ path = <<path[1], path[2]>> /\ path[1] \in Folders /\ path[2] \in Names
  BY KeyKinds DEF Files
<1>3. /\ Ready /\ c \in unused /\ unused' = unused \ {c} /\ UNCHANGED <<bin, db, cron, kept, damage>>
      /\ unused' \in SUBSET Contents
  BY <1>1 DEF Upload, TypeOK
<1>4. PICK r \in IF LiveAt(path) = {} THEN {None} ELSE LiveAt(path) :
          \/ /\ Known(r) /\ bucket[path] # None
             /\ \E v \in FreshName :
                   /\ Object(<<path[1], v>>, bucket[path])
                   /\ op' = [Idle EXCEPT !.step = "archive row", !.key = path, !.row = r,
                                         !.content = c, !.from = <<path[1], v>>]
          \/ /\ ~Known(r)
             /\ op' = [Idle EXCEPT !.step = "put", !.key = path, !.row = r, !.content = c]
             /\ UNCHANGED bucket
  BY DEF Upload
<1>5. r \in Rows \cup {None} /\ (r = None => LiveAt(path) = {})  BY <1>4, NoneAssumption DEF LiveAt
<1>6. PurgeTypes' /\ Deletions'  BY <1>3, BookkeepingStays
<1>7. CASE Known(r)
  <2>1. PICK v \in FreshName : /\ Object(<<path[1], v>>, bucket[path])
                               /\ op' = [Idle EXCEPT !.step = "archive row", !.key = path, !.row = r,
                                                     !.content = c, !.from = <<path[1], v>>]
    BY <1>4, <1>7
  <2>2. PICK k : k = <<path[1], v>>  OBVIOUS
  <2>3. k \in Files /\ k # path
    <3>1. v \in Versions /\ v \notin Names  BY BucketAssumption DEF FreshName
    <3> QED  BY <1>2, <2>2, <3>1 DEF Files
  <2>4. k \in Keys  BY <2>3, KeyKinds
  <2>5. op' \in Request /\ op'.step = "archive row" /\ op'.key = path /\ op'.from = k /\ op'.content = c /\ op'.row = r
    BY <1>2, <1>5, <2>1, <2>2, <2>4, IdleType DEF Idle, Request, Steps
  <2>6. /\ bucket' \in [Keys -> Objects]
        /\ \A q \in Keys : bucket'[q] = IF q = k THEN bucket[path] ELSE bucket[q]
    <3>1. bucket[path] \in Objects  BY <1>1, <1>2 DEF TypeOK
    <3> QED  BY <1>1, <2>1, <2>2, <2>4, <3>1, ObjectPut
  <2>7. TypeOK'  BY <1>1, <1>3, <2>5, <2>6 DEF TypeOK
  <2>8. MarkerKeys'  BY <1>3, <2>3, <2>6, KeyKinds, MarkersStay
  <2>9. RequestTypes'  BY <1>1, <1>2, <1>3, <1>7, <2>5 DEF RequestTypes, Ready, Known
  <2>10. Copies'  BY <1>2, <2>3, <2>4, <2>5, <2>6 DEF Copies
  <2> QED  BY <1>1, <1>3, <1>6, <2>7, <2>8, <2>9, <2>10 DEF RequestInv
<1>8. CASE ~Known(r)
  <2>1. op' = [Idle EXCEPT !.step = "put", !.key = path, !.row = None, !.content = c] /\ bucket' = bucket /\ r = None
    BY <1>4, <1>8 DEF Known
  <2>2. op' \in Request /\ op'.step = "put" /\ op'.key = path /\ op'.row = None /\ op'.content = c
    BY <1>2, <2>1, IdleType DEF Idle, Request, Steps
  <2>3. TypeOK'  BY <1>1, <1>3, <2>1, <2>2 DEF TypeOK
  <2>4. MarkerKeys'  BY <1>3, <2>1, MarkersStay
  <2>5. RequestTypes'  BY <1>1, <1>2, <1>3, <2>2 DEF RequestTypes, Ready
  <2>6. LiveAt(path)' = LiveAt(path)  BY <1>3 DEF LiveAt, Live
  <2>7. Copies'  BY <1>5, <2>1, <2>2, <2>6 DEF Copies, LiveAt, Live
  <2> QED  BY <1>1, <1>3, <1>6, <2>3, <2>4, <2>5, <2>7 DEF RequestInv
<1> QED  BY <1>7, <1>8

LEMMA ArchiveRowRequest ==
    ASSUME RequestInv, ArchiveRow
    PROVE  RequestInv'
<1>1. TypeOK /\ kept \cap unused = {} /\ RequestTypes  BY DEF RequestInv
<1>2. PICK k, f : k = op.key /\ f = op.from  OBVIOUS
<1>3. /\ op.step = "archive row" /\ k \in Files /\ f \in Files /\ f # k /\ f \in Keys /\ bucket[f] = bucket[k]
      /\ op.content \in Contents \ (kept \cup unused)
  BY <1>1, <1>2, KeyKinds DEF RequestInv, RequestTypes, Copies, ArchiveRow
<1>4. UNCHANGED <<bin, items, record, clock, purge, batch, unused, kept, damage>>  BY DEF ArchiveRow
<1>5. PurgeTypes' /\ Deletions'  BY <1>4, BookkeepingStays
<1>6. CASE AddRow(f) /\ Goto("put") /\ UNCHANGED bucket
  <2>1. /\ op' \in Request /\ op'.step = "put" /\ op'.key = k /\ op'.from = f /\ op'.row = op.row
        /\ op'.content = op.content
    BY <1>1, <1>2, <1>6, GoneTo DEF Steps
  <2>2. rows' \in [Rows -> Row \cup {None}]  BY <1>1, <1>3, <1>6, RowAdded
  <2>3. TypeOK'  BY <1>1, <1>4, <1>6, <2>1, <2>2 DEF TypeOK
  <2>4. MarkerKeys'  BY <1>4, <1>6, MarkersStay
  <2>5. RequestTypes'  BY <1>1, <1>3, <1>4, <2>1 DEF RequestTypes
  <2>6. op.row # None
    BY <1>3 DEF RequestInv, RequestTypes
  <2>7. Copies'  BY <1>3, <1>6, <2>1, <2>6 DEF Copies
  <2> QED  BY <1>1, <1>4, <1>5, <2>3, <2>4, <2>5, <2>7 DEF RequestInv
<1>7. CASE Object(f, None) /\ op' = Idle /\ UNCHANGED rows
  <2>1. bucket' \in [Keys -> Objects] /\ \A q \in Keys : bucket'[q] = IF q = f THEN None ELSE bucket[q]
    BY <1>1, <1>3, <1>7, ObjectPut, ObjectKinds
  <2>2. TypeOK'  BY <1>1, <1>4, <1>7, <2>1, IdleType DEF TypeOK
  <2>3. MarkerKeys'  BY <1>4, <2>1, KeyKinds, MarkersStay
  <2> QED  BY <1>1, <1>4, <1>5, <1>7, <2>2, <2>3, RequestOver DEF RequestInv
<1> QED  BY <1>2, <1>6, <1>7 DEF ArchiveRow, Done

LEMMA PutObjectRequest ==
    ASSUME RequestInv, PutObject
    PROVE  RequestInv'
<1>1. TypeOK /\ kept \cap unused = {} /\ RequestTypes  BY DEF RequestInv
<1>2. PICK k, c : k = op.key /\ c = op.content  OBVIOUS
<1>3. /\ op.step = "put" /\ k \in Files /\ k \in Keys /\ c \in Contents \ (kept \cup unused) /\ c \in Objects
  BY <1>1, <1>2, KeyKinds, ObjectKinds DEF RequestTypes, PutObject
<1>4. UNCHANGED <<bin, rows, items, record, clock, purge, batch, unused, kept, damage>>  BY DEF PutObject
<1>5. PurgeTypes' /\ Deletions'  BY <1>4, BookkeepingStays
<1>6. CASE Object(k, c) /\ Goto(IF op.row = None THEN "create row" ELSE "content")
  <2>1. PICK s \in {"create row", "content"} : Goto(s)  BY <1>6
  <2>2. op' \in Request /\ op'.step = s /\ op'.key = k /\ op'.content = c
    BY <1>1, <1>2, <2>1, GoneTo DEF Steps
  <2>3. bucket' \in [Keys -> Objects] /\ \A q \in Keys : bucket'[q] = IF q = k THEN c ELSE bucket[q]
    BY <1>1, <1>3, <1>6, ObjectPut
  <2>4. TypeOK'  BY <1>1, <1>4, <2>2, <2>3 DEF TypeOK
  <2>5. MarkerKeys'  BY <1>3, <1>4, <2>3, KeyKinds, MarkersStay
  <2>6. RequestTypes'  BY <1>1, <1>3, <1>4, <2>2 DEF RequestTypes
  <2>7. Copies'  BY <1>3, <2>2, <2>3 DEF Copies
  <2> QED  BY <1>1, <1>4, <1>5, <2>4, <2>5, <2>6, <2>7 DEF RequestInv
<1>7. CASE op' = Idle /\ UNCHANGED bucket
  <2>1. TypeOK'  BY <1>1, <1>4, <1>7, IdleType DEF TypeOK
  <2>2. MarkerKeys'  BY <1>4, <1>7, MarkersStay
  <2> QED  BY <1>1, <1>4, <1>5, <1>7, <2>1, <2>2, RequestOver DEF RequestInv
<1> QED  BY <1>2, <1>6, <1>7 DEF PutObject, Done

LEMMA RecordUploadRequest ==
    ASSUME RequestInv, RecordUpload
    PROVE  RequestInv'
<1>1. TypeOK /\ kept \cap unused = {} /\ RequestTypes  BY DEF RequestInv
<1>2. PICK k, c : k = op.key /\ c = op.content  OBVIOUS
<1>3. /\ k \in Files /\ k \in Keys /\ c \in Contents \ (kept \cup unused)
      /\ op' = Idle /\ UNCHANGED <<bin, items, record, clock, purge, batch, unused, damage>>
  BY <1>1, <1>2, KeyKinds DEF RequestTypes, RecordUpload, Done
<1>4. /\ kept' \in SUBSET Contents /\ kept' \cap unused' = {}
      /\ UNCHANGED bucket \/ Object(k, None)
      /\ UNCHANGED rows \/ AddRow(k)
  BY <1>1, <1>2, <1>3 DEF RecordUpload, TypeOK
<1>5. /\ bucket' \in [Keys -> Objects] /\ \A q \in Keys : bucket'[q] \in {bucket[q], None}
  BY <1>1, <1>3, <1>4, ObjectPut, ObjectKinds DEF TypeOK
<1>6. rows' \in [Rows -> Row \cup {None}]  BY <1>1, <1>3, <1>4, RowAdded DEF TypeOK
<1>7. TypeOK'  BY <1>1, <1>3, <1>4, <1>5, <1>6, IdleType DEF TypeOK
<1>8. PurgeTypes' /\ Deletions'  BY <1>3, BookkeepingStays
<1>9. MarkerKeys'  BY <1>3, <1>5, KeyKinds, MarkersStay
<1> QED  BY <1>3, <1>4, <1>7, <1>8, <1>9, RequestOver DEF RequestInv

-----------------------------------------------------------------------------
(* Moves *)

LEMMA MoveRequest ==
    ASSUME RequestInv, NEW r \in Rows, NEW p \in Folders, Move(r, p)
    PROVE  RequestInv'
<1>1. TypeOK /\ kept \cap unused = {} /\ RequestTypes  BY DEF RequestInv
<1>2. PICK src, dst : src = rows[r].path /\ dst = <<p, rows[r].path[2]>>  OBVIOUS
<1>3. /\ Ready /\ Live(r) /\ Len(src) = 2 /\ p # src[1] /\ Object(dst, bucket[src])
      /\ op' = [Idle EXCEPT !.step = "delete source", !.key = dst, !.from = src, !.row = r]
      /\ UNCHANGED <<bin, db, cron, past>>
  BY <1>2 DEF Move, IsFile
<1>4. /\ src \in Files /\ dst \in Files /\ src # dst /\ src \in Keys /\ dst \in Keys
  <2>1. src \in Keys  BY <1>1, <1>2, <1>3, RowTypes DEF Live
  <2>2. src \in Files  BY <1>3, <2>1, KeyKinds
  <2>3. dst \in Files /\ src # dst  BY <1>2, <1>3, <2>2 DEF Files
  <2> QED  BY <2>2, <2>3, KeyKinds
<1>5. op' \in Request /\ op'.step = "delete source" /\ op'.key = dst /\ op'.from = src /\ op'.row = r
  BY <1>3, <1>4, IdleType DEF Idle, Request, Steps
<1>6. bucket' \in [Keys -> Objects] /\ \A q \in Keys : bucket'[q] = IF q = dst THEN bucket[src] ELSE bucket[q]
  <2>1. bucket[src] \in Objects  BY <1>1, <1>4 DEF TypeOK
  <2> QED  BY <1>1, <1>3, <1>4, <2>1, ObjectPut
<1>7. TypeOK'  BY <1>1, <1>3, <1>5, <1>6 DEF TypeOK
<1>8. PurgeTypes' /\ Deletions'  BY <1>3, BookkeepingStays
<1>9. MarkerKeys'  BY <1>3, <1>4, <1>6, KeyKinds, MarkersStay
<1>10. RequestTypes'  BY <1>3, <1>4, <1>5 DEF RequestTypes, Ready, Live
<1>11. Copies'  BY <1>4, <1>5, <1>6 DEF Copies
<1> QED  BY <1>1, <1>3, <1>7, <1>8, <1>9, <1>10, <1>11 DEF RequestInv

LEMMA DeleteSourceRequest ==
    ASSUME RequestInv, DeleteSource
    PROVE  RequestInv'
<1>1. TypeOK /\ kept \cap unused = {} /\ RequestTypes  BY DEF RequestInv
<1>2. PICK k, f : k = op.key /\ f = op.from  OBVIOUS
<1>3. /\ op.step = "delete source" /\ k \in Files /\ f \in Files /\ k \in Keys /\ f \in Keys
      /\ op.row \in Rows /\ Live(op.row)
  BY <1>1, <1>2, KeyKinds DEF RequestInv, RequestTypes, Copies, DeleteSource
<1>4. /\ UNCHANGED <<bin, rows, items, record, clock, purge, batch, unused, kept, damage>>
      /\ (Object(f, None) /\ Goto("location")) \/ (Object(k, None) /\ op' = Idle)
  BY <1>2 DEF DeleteSource, Done
<1>5. bucket' \in [Keys -> Objects] /\ \A q \in Keys : bucket'[q] = bucket[q] \/ (q \in {k, f} /\ bucket'[q] = None)
  BY <1>1, <1>3, <1>4, ObjectPut, ObjectKinds
<1>6. PurgeTypes' /\ Deletions'  BY <1>4, BookkeepingStays
<1>7. MarkerKeys'  BY <1>4, <1>5, KeyKinds, MarkersStay
<1>8. CASE Goto("location")
  <2>1. op' \in Request /\ op'.step = "location" /\ op'.key = k /\ op'.row = op.row
    BY <1>1, <1>2, <1>8, GoneTo DEF Steps
  <2>2. TypeOK'  BY <1>1, <1>4, <1>5, <2>1 DEF TypeOK
  <2>3. RequestTypes'  BY <1>1, <1>3, <1>4, <2>1 DEF RequestTypes, Live
  <2>4. Copies'  BY <2>1 DEF Copies
  <2> QED  BY <1>1, <1>4, <1>6, <1>7, <2>2, <2>3, <2>4 DEF RequestInv
<1>9. CASE op' = Idle
  <2>1. TypeOK'  BY <1>1, <1>4, <1>5, <1>9, IdleType DEF TypeOK
  <2> QED  BY <1>1, <1>4, <1>6, <1>7, <1>9, <2>1, RequestOver DEF RequestInv
<1> QED  BY <1>4, <1>8, <1>9

LEMMA UpdateLocationRequest ==
    ASSUME RequestInv, UpdateLocation
    PROVE  RequestInv'
<1>1. TypeOK /\ kept \cap unused = {} /\ RequestTypes  BY DEF RequestInv
<1>2. PICK r, k : r = op.row /\ k = op.key  OBVIOUS
<1>3. /\ r \in Rows /\ rows[r] # None /\ k \in Keys
      /\ op' = Idle /\ UNCHANGED <<bucket, bin, items, record, clock, purge, batch, unused, kept>>
  BY <1>1, <1>2, KeyKinds DEF RequestTypes, UpdateLocation, Live, Done
<1>4. damage' \in 0..MaxDamage
  <2>1. Damage \/ UNCHANGED damage  BY DEF UpdateLocation
  <2> QED  BY <1>1, <2>1, DamageCounted
<1>5. rows' \in [Rows -> Row \cup {None}]
  <2>1. CASE rows' = [rows EXCEPT ![r].path = k]
    <3>1. rows[r] \in Row  BY <1>1, <1>3, RowTypes
    <3>2. PICK n : n = [rows[r] EXCEPT !.path = k]  OBVIOUS
    <3>3. n \in Row  BY <1>3, <3>1, <3>2 DEF Row
    <3>4. rows' = [rows EXCEPT ![r] = n]  BY <2>1, <3>2
    <3> QED  BY <1>1, <1>3, <3>3, <3>4 DEF TypeOK
  <2> QED  BY <1>1, <1>2, <2>1 DEF UpdateLocation, TypeOK
<1>6. TypeOK'  BY <1>1, <1>3, <1>4, <1>5, IdleType DEF TypeOK
<1>7. PurgeTypes' /\ Deletions'  BY <1>3, BookkeepingStays
<1>8. MarkerKeys'  BY <1>3, MarkersStay
<1> QED  BY <1>1, <1>3, <1>6, <1>7, <1>8, RequestOver DEF RequestInv

-----------------------------------------------------------------------------
(* Into the bin *)

LEMMA DeleteFileRequest ==
    ASSUME RequestInv, NEW r \in Rows, DeleteFile(r)
    PROVE  RequestInv'
<1>1. TypeOK /\ kept \cap unused = {} /\ RequestTypes  BY DEF RequestInv
<1>2. PICK k : k = rows[r].path  OBVIOUS
<1>3. PICK b : b = Copied(bucket, NoKeys, {k})  OBVIOUS
<1>4. /\ Ready /\ Live(r) /\ Len(k) = 2 /\ UNCHANGED <<bucket, db, cron, past>>
  BY <1>2 DEF DeleteFile, IsFile
<1>5. PICK i \in FreshItem :
         /\ bin' = [bin EXCEPT ![i] = b]
         /\ op' = [Idle EXCEPT !.step = "delete original", !.key = k, !.row = r, !.item = i]
  BY <1>2, <1>3 DEF DeleteFile
<1>6. k \in Files /\ k \in Keys
  <2>1. k \in Keys  BY <1>1, <1>2, <1>4, RowTypes DEF Live
  <2> QED  BY <1>4, <2>1, KeyKinds
<1>7. i \in Items /\ ~IsKnown(i)  BY <1>5 DEF FreshItem, Used, IsKnown
<1>8. b \in [Keys -> Objects] /\ \A q \in Keys : b[q] = IF q = k THEN bucket[q] ELSE None
  <2>1. bucket \in [Keys -> Objects]  BY <1>1 DEF TypeOK
  <2> QED  BY <1>3, <2>1, CopiedType, ObjectKinds
<1>9. bin' \in [Items -> [Keys -> Objects]] /\ bin'[i] = b /\ \A j \in Items : j # i => bin'[j] = bin[j]
  BY <1>1, <1>5, <1>7, <1>8, BinPut
<1>10. op' \in Request /\ op'.step = "delete original" /\ op'.key = k /\ op'.row = r /\ op'.item = i
  BY <1>5, <1>6, <1>7, IdleType DEF Idle, Request, Steps
<1>11. TypeOK'  BY <1>1, <1>4, <1>9, <1>10 DEF TypeOK
<1>12. PurgeTypes' /\ Deletions'  BY <1>4, BookkeepingStays
<1>13. MarkerKeys'
  <2>1. \A j \in Items, q \in Markers : bin'[j][q] \in {bin[j][q], bucket[q], Marker, None}
    BY <1>8, <1>9, KeyKinds
  <2> QED  BY <1>4, <2>1, MarkersStay
<1>14. RequestTypes'  BY <1>4, <1>6, <1>7, <1>10 DEF RequestTypes, Ready, IsKnown
<1>15. Copies'  BY <1>4, <1>6, <1>8, <1>9, <1>10 DEF Copies
<1> QED  BY <1>1, <1>4, <1>11, <1>12, <1>13, <1>14, <1>15 DEF RequestInv

LEMMA DeleteOriginalRequest ==
    ASSUME RequestInv, DeleteOriginal
    PROVE  RequestInv'
<1>1. TypeOK /\ kept \cap unused = {} /\ RequestTypes  BY DEF RequestInv
<1>2. PICK k, i : k = op.key /\ i = op.item  OBVIOUS
<1>3. /\ op.step = "delete original" /\ k \in Files /\ k \in Keys /\ i \in Items /\ ~IsKnown(i)
      /\ UNCHANGED <<rows, items, record, clock, purge, batch, unused, kept, damage>>
  BY <1>1, <1>2, KeyKinds DEF RequestTypes, DeleteOriginal
<1>4. PurgeTypes' /\ Deletions'  BY <1>3, BookkeepingStays
<1>5. CASE Object(k, None) /\ Goto("create item") /\ UNCHANGED bin
  <2>1. op' \in Request /\ op'.step = "create item" /\ op'.key = k /\ op'.item = i
    BY <1>1, <1>2, <1>5, GoneTo DEF Steps
  <2>2. bucket' \in [Keys -> Objects] /\ \A q \in Keys : bucket'[q] = IF q = k THEN None ELSE bucket[q]
    BY <1>1, <1>3, <1>5, ObjectPut, ObjectKinds
  <2>3. TypeOK'  BY <1>1, <1>3, <1>5, <2>1, <2>2 DEF TypeOK
  <2>4. MarkerKeys'  BY <1>5, <2>2, KeyKinds, MarkersStay
  <2>5. RequestTypes'  BY <1>1, <1>3, <2>1 DEF RequestTypes, IsKnown
  <2>6. Copies'  BY <1>3, <2>1, <2>2 DEF Copies
  <2> QED  BY <1>1, <1>3, <1>4, <2>3, <2>4, <2>5, <2>6 DEF RequestInv
<1>6. CASE bin' = [bin EXCEPT ![i] = NoKeys] /\ op' = Idle /\ UNCHANGED bucket
  <2>1. /\ bin' \in [Items -> [Keys -> Objects]] /\ bin'[i] = NoKeys
        /\ \A j \in Items : j # i => bin'[j] = bin[j]
    BY <1>1, <1>3, <1>6, ObjectKinds, BinPut
  <2>2. TypeOK'  BY <1>1, <1>3, <1>6, <2>1, IdleType DEF TypeOK
  <2>3. MarkerKeys'
    <3>1. \A j \in Items, q \in Markers : bin'[j][q] \in {bin[j][q], bucket[q], Marker, None}
      BY <2>1, KeyKinds, ObjectKinds
    <3> QED  BY <1>6, <3>1, MarkersStay
  <2> QED  BY <1>1, <1>3, <1>4, <1>6, <2>2, <2>3, RequestOver DEF RequestInv
<1> QED  BY <1>2, <1>5, <1>6 DEF DeleteOriginal, Done

\* An item that is recorded.
LEMMA ItemRecorded ==
    ASSUME RequestInv, NEW i \in Items, ~IsKnown(i), NEW path \in Keys, NEW t \in Times,
           items' = items \cup {i}, record' = [record EXCEPT ![i] = [path |-> path, created |-> t]],
           UNCHANGED <<purge, batch>>, clock' \in {clock, clock + 1}
    PROVE  /\ record' \in [Items -> Record \cup {None}] /\ items' \in SUBSET Items
           /\ record'[i].path = path
           /\ \A k \in Items : k # i => record'[k] = record[k]
           /\ \A k \in Items : IsKnown(k)' <=> IsKnown(k) \/ k = i
           /\ clock' \in Times /\ Deletions' /\ PurgeTypes'
<1> USE DEF RequestInv
<1>1. PICK n : n = [path |-> path, created |-> t]  OBVIOUS
<1>2. n \in Record /\ n.path = path  BY <1>1 DEF Record
<1>3. n # None  BY <1>2, NoneAssumption
<1>4. record' = [record EXCEPT ![i] = n]  BY <1>1
<1>5. \A k \in Items : record'[k] = IF k = i THEN n ELSE record[k]  BY <1>4 DEF TypeOK
<1>6. record' \in [Items -> Record \cup {None}]  BY <1>2, <1>4 DEF TypeOK
<1>7. \A k \in Items : IsKnown(k)' <=> IsKnown(k) \/ k = i  BY <1>3, <1>5 DEF IsKnown
<1>8. KnownItems' = KnownItems \cup {i} /\ i \notin KnownItems  BY <1>7 DEF KnownItems
<1>9. IsFiniteSet(Items) /\ IsFiniteSet(KnownItems) /\ KnownItems \cup {i} \subseteq Items
  BY BucketAssumption, FS_Subset DEF KnownItems
<1>10. Cardinality(KnownItems') = Cardinality(KnownItems) + 1  BY <1>8, <1>9, FS_AddElement
<1>11. /\ Cardinality(KnownItems') <= Cardinality(Items)
       /\ Cardinality(Items) \in Nat /\ Cardinality(KnownItems) \in Nat
  BY <1>8, <1>9, FS_Subset, FS_CardinalityType
<1>12. clock \in Nat /\ clock <= Cardinality(KnownItems)  BY <1>11 DEF Deletions, TypeOK, Times
<1>13. clock' \in Nat /\ clock' <= Cardinality(KnownItems')  BY <1>10, <1>11, <1>12
<1>14. clock' \in Times  BY <1>10, <1>11, <1>13 DEF Times
<1>15. Deletions'  BY <1>13 DEF Deletions
<1>16. PurgeTypes'
  <2>1. \A k \in Active' : k \in Items /\ (k \in Active \/ k = i)  BY DEF Active, TypeOK
  <2> QED  BY <1>7, <2>1 DEF PurgeTypes
<1> QED  BY <1>2, <1>5, <1>6, <1>7, <1>14, <1>15, <1>16 DEF TypeOK

\* Copies that go back to their keys, all of them or some.
LEMMA CopiedRecycledBack ==
    ASSUME RequestInv, NEW i \in Items, i = op.item, NEW ks \in SUBSET Keys, CopyRecycledBack(ks)
    PROVE  /\ bucket' \in [Keys -> Objects] /\ bin' \in [Items -> [Keys -> Objects]]
           /\ damage' \in 0..MaxDamage /\ MarkerKeys'
           /\ \E back \in SUBSET ks :
                 /\ \A q \in Keys : bucket'[q] = IF q \in back THEN bin[i][q] ELSE bucket[q]
                 /\ \A q \in Keys : bin'[i][q] = IF q \in back THEN None ELSE bin[i][q]
                 /\ \A j \in Items : j # i => bin'[j] = bin[j]
<1>1. TypeOK  BY DEF RequestInv
<1>2. PICK back \in SUBSET ks : /\ bucket' = Copied(bin[i], bucket, back)
                                /\ bin' = [bin EXCEPT ![i] = Without(@, back)]
  <2>1. ks \in SUBSET ks  OBVIOUS
  <2> QED  BY <2>1 DEF CopyRecycledBack, LeftInBin
<1>3. damage' \in 0..MaxDamage
  <2>1. Damage \/ UNCHANGED damage  BY DEF CopyRecycledBack, LeftInBin
  <2> QED  BY <1>1, <2>1, DamageCounted
<1>4. bucket \in [Keys -> Objects] /\ bin[i] \in [Keys -> Objects]  BY <1>1 DEF TypeOK
<1>5. bucket' \in [Keys -> Objects] /\ \A q \in Keys : bucket'[q] = IF q \in back THEN bin[i][q] ELSE bucket[q]
  BY <1>2, <1>4, CopiedType
<1>6. PICK b : b = Without(bin[i], back)  OBVIOUS
<1>7. b \in [Keys -> Objects] /\ \A q \in Keys : b[q] = IF q \in back THEN None ELSE bin[i][q]
  BY <1>4, <1>6, WithoutType
<1>8. bin' = [bin EXCEPT ![i] = b]  BY <1>2, <1>6
<1>9. bin' \in [Items -> [Keys -> Objects]] /\ bin'[i] = b /\ \A j \in Items : j # i => bin'[j] = bin[j]
  BY <1>1, <1>7, <1>8, BinPut
<1>10. MarkerKeys'
  <2>1. \A q \in Markers : bucket'[q] \in {bucket[q], Marker, None} \/ \E j \in Items : bucket'[q] = bin[j][q]
    BY <1>5, KeyKinds
  <2>2. \A j \in Items, q \in Markers : bin'[j][q] \in {bin[j][q], bucket[q], Marker, None}
    BY <1>7, <1>9, KeyKinds
  <2> QED  BY <2>1, <2>2, MarkersStay
<1> QED  BY <1>3, <1>5, <1>7, <1>9, <1>10

LEMMA RecordItemRequest ==
    ASSUME RequestInv, RecordItem
    PROVE  RequestInv'
<1>1. TypeOK /\ kept \cap unused = {} /\ RequestTypes  BY DEF RequestInv
<1>2. PICK k, i : k = op.key /\ i = op.item  OBVIOUS
<1>3. /\ op.step = "create item" /\ k \in Files /\ k \in Keys /\ i \in Items /\ ~IsKnown(i)
      /\ UNCHANGED <<rows, clock, purge, batch, unused, kept>>
  BY <1>1, <1>2, KeyKinds DEF RequestTypes, RecordItem
<1>4. CASE /\ items' = items \cup {i} /\ record' = [record EXCEPT ![i] = [path |-> k, created |-> clock]]
           /\ Goto("drop row") /\ UNCHANGED <<bytes, damage>>
  <2>1. clock \in Times  BY <1>1 DEF TypeOK
  <2>2. record' \in [Items -> Record \cup {None}] /\ items' \in SUBSET Items /\ clock' \in Times /\ Deletions' /\ PurgeTypes'
    BY <1>3, <1>4, <2>1, ItemRecorded
  <2>3. op' \in Request /\ op'.step = "drop row"  BY <1>1, <1>4, GoneTo DEF Steps
  <2>4. TypeOK'  BY <1>1, <1>3, <1>4, <2>2, <2>3 DEF TypeOK
  <2>5. MarkerKeys'  BY <1>4, MarkersStay
  <2>6. RequestTypes'  BY <1>1, <1>3, <2>3 DEF RequestTypes
  <2>7. Copies'  BY <2>3 DEF Copies
  <2> QED  BY <1>1, <1>3, <2>2, <2>4, <2>5, <2>6, <2>7 DEF RequestInv
<1>5. CASE CopyRecycledBack({k}) /\ op' = Idle /\ UNCHANGED <<items, record>>
  <2>1. {k} \in SUBSET Keys  BY <1>3
  <2>2. /\ bucket' \in [Keys -> Objects] /\ bin' \in [Items -> [Keys -> Objects]]
        /\ damage' \in 0..MaxDamage /\ MarkerKeys'
    BY <1>2, <1>3, <1>5, <2>1, CopiedRecycledBack
  <2>3. TypeOK'  BY <1>1, <1>3, <1>5, <2>2, IdleType DEF TypeOK
  <2>4. PurgeTypes' /\ Deletions'  BY <1>3, <1>5, BookkeepingStays
  <2> QED  BY <1>1, <1>3, <1>5, <2>2, <2>3, <2>4, RequestOver DEF RequestInv
<1> QED  BY <1>2, <1>4, <1>5 DEF RecordItem, Done

LEMMA DropRowRequest ==
    ASSUME RequestInv, DropRow
    PROVE  RequestInv'
<1>1. TypeOK /\ kept \cap unused = {}  BY DEF RequestInv
<1>2. op' = Idle /\ UNCHANGED <<bucket, bin, items, record, clock, purge, batch, unused, kept>>
  BY DEF DropRow, Done
<1>3. rows' \in [Rows -> Row \cup {None}]  BY <1>1 DEF DropRow, TypeOK
<1>4. damage' \in 0..MaxDamage
  <2>1. Damage \/ UNCHANGED damage  BY DEF DropRow
  <2> QED  BY <1>1, <2>1, DamageCounted
<1>5. TypeOK'  BY <1>1, <1>2, <1>3, <1>4, IdleType DEF TypeOK
<1>6. PurgeTypes' /\ Deletions'  BY <1>2, BookkeepingStays
<1>7. MarkerKeys'  BY <1>2, MarkersStay
<1> QED  BY <1>1, <1>2, <1>5, <1>6, <1>7, RequestOver DEF RequestInv

LEMMA DeleteDirRequest ==
    ASSUME RequestInv, NEW p \in Folders, DeleteDir(p)
    PROVE  RequestInv'
<1>1. TypeOK /\ kept \cap unused = {} /\ RequestTypes  BY DEF RequestInv
<1>2. PICK k, ks : k = <<p>> /\ ks = UnderPrefix(bucket, p)  OBVIOUS
<1>3. PICK b : b = Copied(bucket, NoKeys, ks)  OBVIOUS
<1>4. /\ Ready /\ IsSubfolder(p) /\ UNCHANGED <<bucket, db, cron, past>>
  BY DEF DeleteDir
<1>5. PICK i \in FreshItem :
         /\ bin' = [bin EXCEPT ![i] = b]
         /\ op' = [Idle EXCEPT !.step = "delete batch", !.key = k, !.item = i, !.keys = ks]
  BY <1>2, <1>3 DEF DeleteDir
<1>6. k \in Markers /\ k \in Keys /\ ks \in SUBSET Keys
  <2>1. k \in Markers  BY <1>2, <1>4, KeyKinds DEF IsSubfolder
  <2> QED  BY <1>2, <2>1, KeyKinds DEF UnderPrefix
<1>7. i \in Items /\ ~IsKnown(i)  BY <1>5 DEF FreshItem, Used, IsKnown
<1>8. b \in [Keys -> Objects] /\ \A q \in Keys : b[q] = IF q \in ks THEN bucket[q] ELSE None
  <2>1. bucket \in [Keys -> Objects]  BY <1>1 DEF TypeOK
  <2> QED  BY <1>3, <2>1, CopiedType, ObjectKinds
<1>9. bin' \in [Items -> [Keys -> Objects]] /\ bin'[i] = b /\ \A j \in Items : j # i => bin'[j] = bin[j]
  BY <1>1, <1>5, <1>7, <1>8, BinPut
<1>10. op' \in Request /\ op'.step = "delete batch" /\ op'.key = k /\ op'.keys = ks /\ op'.item = i
  BY <1>5, <1>6, <1>7, IdleType DEF Idle, Request, Steps
<1>11. TypeOK'  BY <1>1, <1>4, <1>9, <1>10 DEF TypeOK
<1>12. PurgeTypes' /\ Deletions'  BY <1>4, BookkeepingStays
<1>13. MarkerKeys'
  <2>1. \A j \in Items, q \in Markers : bin'[j][q] \in {bin[j][q], bucket[q], Marker, None}
    BY <1>8, <1>9, KeyKinds
  <2> QED  BY <1>4, <2>1, MarkersStay
<1>14. RequestTypes'  BY <1>4, <1>6, <1>7, <1>10 DEF RequestTypes, Ready, IsKnown
<1>15. Copies'  BY <1>4, <1>6, <1>8, <1>9, <1>10 DEF Copies
<1> QED  BY <1>1, <1>4, <1>11, <1>12, <1>13, <1>14, <1>15 DEF RequestInv

LEMMA DeleteBatchRequest ==
    ASSUME RequestInv, DeleteBatch
    PROVE  RequestInv'
<1>1. TypeOK /\ kept \cap unused = {} /\ RequestTypes  BY DEF RequestInv
<1>2. PICK k, i, ks : k = op.key /\ i = op.item /\ ks = op.keys  OBVIOUS
<1>3. /\ op.step = "delete batch" /\ k \in Markers /\ i \in Items /\ ~IsKnown(i) /\ ks \in SUBSET Keys
      /\ \A q \in ks : bin[i][q] = bucket[q]
      /\ UNCHANGED <<rows, items, record, clock, purge, batch, unused, kept>>
  <2>1. op.step = "delete batch"  BY DEF DeleteBatch
  <2>2. ks \in SUBSET Keys  BY <1>1, <1>2 DEF TypeOK, Request
  <2>3. \A q \in ks : bin[i][q] = bucket[q]  BY <1>2, <2>1 DEF RequestInv, Copies
  <2> QED  BY <1>1, <1>2, <2>1, <2>2, <2>3 DEF RequestTypes, DeleteBatch
<1>4. PurgeTypes' /\ Deletions'  BY <1>3, BookkeepingStays
<1>5. ASSUME NEW gone \in SUBSET ks, bucket' = Without(bucket, gone), Goto("hide"), UNCHANGED bin,
             Damage \/ UNCHANGED damage
      PROVE  RequestInv'
  <2>1. op' \in Request /\ op'.step = "hide" /\ op'.key = k /\ op'.item = i /\ op'.keys = ks
    BY <1>1, <1>2, <1>5, GoneTo DEF Steps
  <2>2. bucket' \in [Keys -> Objects] /\ \A q \in Keys : bucket'[q] = IF q \in gone THEN None ELSE bucket[q]
    BY <1>1, <1>5, WithoutType DEF TypeOK
  <2>3. damage' \in 0..MaxDamage  BY <1>1, <1>5, DamageCounted
  <2>4. TypeOK'  BY <1>1, <1>3, <1>5, <2>1, <2>2, <2>3 DEF TypeOK
  <2>5. MarkerKeys'  BY <1>5, <2>2, KeyKinds, MarkersStay
  <2>6. RequestTypes'  BY <1>1, <1>3, <2>1 DEF RequestTypes, IsKnown
  <2>7. Copies'  BY <1>3, <1>5, <2>1, <2>2 DEF Copies
  <2> QED  BY <1>1, <1>3, <1>4, <2>4, <2>5, <2>6, <2>7 DEF RequestInv
<1>6. CASE bucket' = Without(bucket, ks) /\ Goto("hide") /\ UNCHANGED <<bin, damage>>
  <2>1. ks \in SUBSET ks  OBVIOUS
  <2> QED  BY <1>5, <1>6, <2>1
<1>7. CASE CopyRecycledBack(ks) /\ op' = Idle
  <2>1. /\ bucket' \in [Keys -> Objects] /\ bin' \in [Items -> [Keys -> Objects]]
        /\ damage' \in 0..MaxDamage /\ MarkerKeys'
    BY <1>2, <1>3, <1>7, CopiedRecycledBack
  <2>2. TypeOK'  BY <1>1, <1>3, <1>7, <2>1, IdleType DEF TypeOK
  <2> QED  BY <1>1, <1>3, <1>4, <1>7, <2>1, <2>2, RequestOver DEF RequestInv
<1>8. CASE /\ Damage /\ Goto("hide") /\ UNCHANGED bin
           /\ \E left \in SUBSET ks : bucket' = Without(bucket, ks \ left)
  <2>1. PICK left \in SUBSET ks : bucket' = Without(bucket, ks \ left)  BY <1>8
  <2>2. ks \ left \in SUBSET ks  OBVIOUS
  <2> QED  BY <1>5, <1>8, <2>1, <2>2
<1> QED  BY <1>2, <1>6, <1>7, <1>8 DEF DeleteBatch, Done

\* Rows that are hidden, or listed again.
LEMMA RowsHidden ==
    ASSUME TypeOK, NEW S \in SUBSET Rows, NEW t \in Times,
           rows' = [r \in Rows |-> IF r \in S THEN [rows[r] EXCEPT !.hidden = t] ELSE rows[r]],
           \A r \in S : rows[r] # None
    PROVE  /\ rows' \in [Rows -> Row \cup {None}]
           /\ \A r \in Rows : rows[r] = None <=> rows'[r] = None
           /\ \A r \in Rows : rows[r] # None => rows'[r].path = rows[r].path
           /\ \A r \in S : rows'[r].hidden = t
           /\ \A r \in Rows \ S : rows'[r] = rows[r]
<1>1. ASSUME NEW r \in S
      PROVE  rows'[r] \in Row /\ rows'[r] # None /\ rows'[r].path = rows[r].path /\ rows'[r].hidden = t
  <2>1. PICK n : n = [rows[r] EXCEPT !.hidden = t]  OBVIOUS
  <2>2. rows[r] \in Row  BY <1>1, RowTypes
  <2>3. n \in Row /\ n.path = rows[r].path /\ n.hidden = t  BY <2>1, <2>2 DEF Row
  <2>4. rows'[r] = n  BY <1>1, <2>1
  <2> QED  BY <2>3, <2>4, NoneAssumption
<1>2. \A r \in Rows \ S : rows'[r] = rows[r]  OBVIOUS
<1>3. \A r \in Rows : rows'[r] \in Row \cup {None}  BY <1>1, <1>2 DEF TypeOK
<1>4. rows' \in [Rows -> Row \cup {None}]  BY <1>3
<1> QED  BY <1>1, <1>2, <1>4

\* There is an item for every deletion of a folder, and the time is their number.
LEMMA ClockGoesOn ==
    ASSUME TypeOK, Deletions, NEW i \in Items, ~IsKnown(i)
    PROVE  clock + 1 \in Times /\ clock + 1 # 0
<1>1. KnownItems \cup {i} \subseteq Items /\ i \notin KnownItems /\ IsFiniteSet(KnownItems) /\ IsFiniteSet(Items)
  BY BucketAssumption, FS_Subset DEF KnownItems
<1>2. Cardinality(KnownItems \cup {i}) = Cardinality(KnownItems) + 1  BY <1>1, FS_AddElement
<1>3. Cardinality(KnownItems \cup {i}) <= Cardinality(Items) /\ Cardinality(Items) \in Nat /\ Cardinality(KnownItems) \in Nat
  BY <1>1, FS_Subset, FS_CardinalityType
<1> QED  BY <1>2, <1>3 DEF Deletions, TypeOK, Times

LEMMA HideRequest ==
    ASSUME RequestInv, HideSubtree
    PROVE  RequestInv'
<1>1. TypeOK /\ kept \cap unused = {} /\ RequestTypes /\ Deletions  BY DEF RequestInv
<1>2. PICK i, ks, p : i = op.item /\ ks = op.keys /\ p = op.key[1]  OBVIOUS
<1>3. /\ op.step = "hide" /\ i \in Items /\ ~IsKnown(i) /\ ks \in SUBSET Keys
      /\ op' = Idle /\ UNCHANGED <<purge, batch, unused, kept>>
  <2>1. ks \in SUBSET Keys  BY <1>1, <1>2 DEF TypeOK, Request
  <2> QED  BY <1>1, <1>2, <2>1 DEF RequestTypes, HideSubtree, Done
<1>4. CASE /\ clock' = clock + 1 /\ items' = items \cup {i}
           /\ record' = [record EXCEPT ![i] = [path |-> <<p>>, created |-> clock + 1]]
           /\ rows' = [r \in Rows |-> IF Live(r) /\ rows[r].path[1] = p
                                      THEN [rows[r] EXCEPT !.hidden = clock + 1] ELSE rows[r]]
           /\ UNCHANGED <<bytes, damage>>
  <2>1. clock + 1 \in Times /\ clock + 1 # 0  BY <1>1, <1>3, ClockGoesOn
  <2>2. <<p>> \in Keys
    <3>1. op.key \in Markers  BY <1>1, <1>3 DEF RequestTypes
    <3> QED  BY <1>2, <3>1, KeyKinds
  <2>3. record' \in [Items -> Record \cup {None}] /\ items' \in SUBSET Items /\ clock' \in Times /\ Deletions' /\ PurgeTypes'
    BY <1>3, <1>4, <2>1, <2>2, ItemRecorded
  <2>4. rows' \in [Rows -> Row \cup {None}]
    <3>1. PICK S : S = {r \in Rows : Live(r) /\ rows[r].path[1] = p}  OBVIOUS
    <3>2. S \in SUBSET Rows /\ \A r \in S : rows[r] # None  BY <3>1 DEF Live
    <3>3. rows' = [r \in Rows |-> IF r \in S THEN [rows[r] EXCEPT !.hidden = clock + 1] ELSE rows[r]]
      BY <1>4, <3>1
    <3> QED  BY <1>1, <2>1, <3>2, <3>3, RowsHidden
  <2>5. TypeOK'  BY <1>1, <1>3, <1>4, <2>3, <2>4, IdleType DEF TypeOK
  <2>6. MarkerKeys'  BY <1>4, MarkersStay
  <2> QED  BY <1>1, <1>3, <2>3, <2>5, <2>6, RequestOver DEF RequestInv
<1>5. CASE CopyRecycledBack(ks) /\ UNCHANGED <<clock, items, record, rows>>
  <2>1. /\ bucket' \in [Keys -> Objects] /\ bin' \in [Items -> [Keys -> Objects]]
        /\ damage' \in 0..MaxDamage /\ MarkerKeys'
    BY <1>2, <1>3, <1>5, CopiedRecycledBack
  <2>2. TypeOK'  BY <1>1, <1>3, <1>5, <2>1, IdleType DEF TypeOK
  <2>3. PurgeTypes' /\ Deletions'  BY <1>3, <1>5, BookkeepingStays
  <2> QED  BY <1>1, <1>3, <1>5, <2>1, <2>2, <2>3, RequestOver DEF RequestInv
<1> QED  BY <1>2, <1>4, <1>5 DEF HideSubtree

-----------------------------------------------------------------------------
(* Out of the bin *)

\* An item that may be restored.
LEMMA ItemPath ==
    ASSUME RequestInv, NEW i \in items
    PROVE  /\ i \in Items /\ IsKnown(i) /\ record[i].path \in Keys
           /\ IF IsDir(i) THEN record[i].path \in Markers ELSE record[i].path \in Files
<1>1. TypeOK /\ PurgeTypes  BY DEF RequestInv
<1>2. i \in Items /\ IsKnown(i)  BY <1>1 DEF TypeOK, PurgeTypes, Active
<1>3. record[i].path \in Keys  BY <1>1, <1>2 DEF TypeOK, IsKnown, Record
<1> QED  BY <1>2, <1>3, KeyKinds DEF IsDir

LEMMA AloneCounted ==
    ASSUME TypeOK, NEW i, Alone(i)
    PROVE  damage' \in 0..MaxDamage
<1>1. Damage \/ UNCHANGED damage  BY DEF Alone
<1> QED  BY <1>1, DamageCounted

LEMMA RestoreFileRequest ==
    ASSUME RequestInv, NEW i \in Items, RestoreFile(i)
    PROVE  RequestInv'
<1>1. TypeOK /\ kept \cap unused = {} /\ RequestTypes  BY DEF RequestInv
<1>2. PICK k : k = record[i].path  OBVIOUS
<1>3. /\ Ready /\ i \in items /\ ~IsDir(i) /\ Object(k, bin[i][k]) /\ Alone(i)
      /\ op' = [Idle EXCEPT !.step = "delete recycled", !.key = k, !.item = i, !.keys = {k}]
      /\ UNCHANGED <<bin, rows, items, record, clock, purge, batch, unused, kept>>
  BY <1>2 DEF RestoreFile
<1>4. IsKnown(i) /\ k \in Files /\ k \in Keys  BY <1>2, <1>3, ItemPath
<1>5. {k} \in SUBSET Keys  BY <1>4
<1>6. op' \in Request /\ op'.step = "delete recycled" /\ op'.key = k /\ op'.item = i /\ op'.keys = {k}
  BY <1>3, <1>4, <1>5, IdleType DEF Idle, Request, Steps
<1>7. bucket' \in [Keys -> Objects] /\ \A q \in Keys : bucket'[q] = IF q = k THEN bin[i][k] ELSE bucket[q]
  <2>1. bin[i][k] \in Objects  BY <1>1, <1>4 DEF TypeOK
  <2> QED  BY <1>1, <1>3, <1>4, <2>1, ObjectPut
<1>8. damage' \in 0..MaxDamage  BY <1>1, <1>3, AloneCounted
<1>9. TypeOK'  BY <1>1, <1>3, <1>6, <1>7, <1>8 DEF TypeOK
<1>10. PurgeTypes' /\ Deletions'  BY <1>3, BookkeepingStays
<1>11. MarkerKeys'  BY <1>3, <1>4, <1>7, KeyKinds, MarkersStay
<1>12. RequestTypes'  BY <1>3, <1>4, <1>6 DEF RequestTypes, Ready, IsKnown
<1>13. Copies'  BY <1>3, <1>4, <1>6, <1>7 DEF Copies
<1> QED  BY <1>1, <1>3, <1>9, <1>10, <1>11, <1>12, <1>13 DEF RequestInv

LEMMA RestoreFolderRequest ==
    ASSUME RequestInv, NEW i \in Items, RestoreFolder(i)
    PROVE  RequestInv'
<1>1. TypeOK /\ kept \cap unused = {} /\ RequestTypes  BY DEF RequestInv
<1>2. PICK p, ks, k : p = record[i].path[1] /\ ks = UnderPrefix(bin[i], p) /\ k = <<p>>  OBVIOUS
<1>3. /\ Ready /\ i \in items /\ IsDir(i) /\ NothingThere(p) /\ Alone(i)
      /\ op' = [Idle EXCEPT !.step = "copy back", !.key = k, !.item = i, !.keys = ks]
      /\ UNCHANGED <<bucket, bin, rows, items, record, clock, purge, batch, unused, kept>>
  BY <1>2 DEF RestoreFolder
<1>4. IsKnown(i) /\ k \in Markers /\ k \in Keys
  <2>1. IsKnown(i) /\ record[i].path \in Markers  BY <1>3, ItemPath
  <2> QED  BY <1>2, <2>1, KeyKinds
<1>5. ks \in SUBSET Keys /\ \A q \in ks : q[1] = p  BY <1>2 DEF UnderPrefix
<1>6. op' \in Request /\ op'.step = "copy back" /\ op'.key = k /\ op'.item = i /\ op'.keys = ks
  BY <1>3, <1>4, <1>5, IdleType DEF Idle, Request, Steps
<1>7. damage' \in 0..MaxDamage  BY <1>1, <1>3, AloneCounted
<1>8. TypeOK'  BY <1>1, <1>3, <1>6, <1>7 DEF TypeOK
<1>9. PurgeTypes' /\ Deletions'  BY <1>3, BookkeepingStays
<1>10. MarkerKeys'  BY <1>3, MarkersStay
<1>11. RequestTypes'  BY <1>3, <1>4, <1>6 DEF RequestTypes, Ready, IsKnown
<1>12. Copies'
  <2>1. ASSUME ~Fails("list"), NEW q \in ks \cap Files PROVE bucket'[q] = None
    BY <1>3, <1>5, <2>1 DEF NothingThere, UnderPrefix
  <2> QED  BY <1>6, <2>1 DEF Copies, Fails
<1> QED  BY <1>1, <1>3, <1>8, <1>9, <1>10, <1>11, <1>12 DEF RequestInv

\* Objects that go into the bin once more.
LEMMA CopiedAgain ==
    ASSUME RequestInv, NEW i \in Items, NEW ks \in SUBSET Files,
           bin' = [bin EXCEPT ![i] = Copied(bucket, @, ks)], bucket' = bucket \/ bucket' = Without(bucket, ks)
    PROVE  /\ bucket' \in [Keys -> Objects] /\ bin' \in [Items -> [Keys -> Objects]] /\ MarkerKeys'
           /\ \A q \in Keys : bin'[i][q] = IF q \in ks THEN bucket[q] ELSE bin[i][q]
           /\ \A j \in Items : j # i => bin'[j] = bin[j]
           /\ \A q \in Keys : bucket'[q] = bucket[q] \/ (q \in ks /\ bucket'[q] = None)
<1>1. TypeOK  BY DEF RequestInv
<1>2. bucket \in [Keys -> Objects] /\ bin[i] \in [Keys -> Objects]  BY <1>1 DEF TypeOK
<1>3. PICK b : b = Copied(bucket, bin[i], ks)  OBVIOUS
<1>4. b \in [Keys -> Objects] /\ \A q \in Keys : b[q] = IF q \in ks THEN bucket[q] ELSE bin[i][q]
  BY <1>2, <1>3, CopiedType
<1>5. bin' = [bin EXCEPT ![i] = b]  BY <1>3
<1>6. bin' \in [Items -> [Keys -> Objects]] /\ bin'[i] = b /\ \A j \in Items : j # i => bin'[j] = bin[j]
  BY <1>1, <1>4, <1>5, BinPut
<1>7. bucket' \in [Keys -> Objects] /\ \A q \in Keys : bucket'[q] = bucket[q] \/ (q \in ks /\ bucket'[q] = None)
  BY <1>2, WithoutType
<1>8. MarkerKeys'
  <2>1. \A j \in Items, q \in Markers : bin'[j][q] \in {bin[j][q], bucket[q], Marker, None}
    BY <1>4, <1>6, KeyKinds
  <2>2. \A q \in Markers : bucket'[q] \in {bucket[q], Marker, None}  BY <1>7, KeyKinds
  <2> QED  BY <2>1, <2>2, MarkersStay
<1> QED  BY <1>4, <1>6, <1>7, <1>8

LEMMA CopyBackRequest ==
    ASSUME RequestInv, CopyBack
    PROVE  RequestInv'
<1>1. TypeOK /\ kept \cap unused = {} /\ RequestTypes  BY DEF RequestInv
<1>2. PICK i : i = op.item  OBVIOUS
<1>3. /\ op.step = "copy back" /\ i \in Items /\ IsKnown(i) /\ op.keys \in SUBSET Keys
      /\ UNCHANGED <<rows, items, record, clock, purge, batch, unused, kept>>
  <2>1. op.keys \in SUBSET Keys  BY <1>1 DEF TypeOK, Request
  <2> QED  BY <1>1, <1>2, <2>1 DEF RequestTypes, CopyBack
<1>4. PICK k \in NotCopied :
          \/ /\ bin[i][k] # None
             /\ Object(k, bin[i][k])
             /\ UNCHANGED <<op, bin, damage>>
          \/ /\ bin' = [bin EXCEPT ![i] = Copied(bucket, @, Restored)]
             /\ Damage /\ op' = Idle
             /\ UNCHANGED bucket
  BY <1>2 DEF CopyBack, Done
<1>5. k \in Files /\ k \in Keys  BY KeyKinds DEF NotCopied
<1>6. PurgeTypes' /\ Deletions'  BY <1>3, BookkeepingStays
<1>7. CASE Object(k, bin[i][k]) /\ UNCHANGED <<op, bin, damage>>
  <2>1. bucket' \in [Keys -> Objects] /\ \A q \in Keys : bucket'[q] = IF q = k THEN bin[i][k] ELSE bucket[q]
    <3>1. bin[i][k] \in Objects  BY <1>1, <1>3, <1>5 DEF TypeOK
    <3> QED  BY <1>1, <1>5, <1>7, <3>1, ObjectPut
  <2>2. TypeOK'  BY <1>1, <1>3, <1>7, <2>1 DEF TypeOK
  <2>3. MarkerKeys'  BY <1>5, <1>7, <2>1, KeyKinds, MarkersStay
  <2>4. RequestTypes'  BY <1>1, <1>3, <1>7 DEF RequestTypes, IsKnown
  <2>5. Copies'
    <3>1. ASSUME ~Fails("list") PROVE \A q \in op.keys \cap Files : bucket[q] = None \/ bin[i][q] \in {None, bucket[q]}
      BY <1>2, <1>3, <3>1 DEF RequestInv, Copies
    <3>2. ASSUME ~Fails("list") PROVE \A q \in op.keys \cap Files : bucket'[q] = None \/ bin[i][q] \in {None, bucket'[q]}
      BY <1>3, <2>1, <3>1, <3>2
    <3>3. op'.step = "copy back" /\ op'.item = i /\ op'.keys = op.keys /\ bin' = bin  BY <1>2, <1>3, <1>7
    <3> QED  BY <3>2, <3>3 DEF Copies, Fails
  <2> QED  BY <1>1, <1>3, <1>6, <2>2, <2>3, <2>4, <2>5 DEF RequestInv
<1>8. CASE bin' = [bin EXCEPT ![i] = Copied(bucket, @, Restored)] /\ Damage /\ op' = Idle /\ UNCHANGED bucket
  <2>1. Restored \in SUBSET Files  BY DEF Restored
  <2>2. bucket' \in [Keys -> Objects] /\ bin' \in [Items -> [Keys -> Objects]] /\ MarkerKeys'
    BY <1>3, <1>8, <2>1, CopiedAgain
  <2>3. damage' \in 0..MaxDamage  BY <1>1, <1>8, DamageCounted
  <2>4. TypeOK'  BY <1>1, <1>3, <1>8, <2>2, <2>3, IdleType DEF TypeOK
  <2> QED  BY <1>1, <1>3, <1>6, <1>8, <2>2, <2>4, RequestOver DEF RequestInv
<1> QED  BY <1>4, <1>7, <1>8

LEMMA DeleteRecycledRequest ==
    ASSUME RequestInv, DeleteRecycled
    PROVE  RequestInv'
<1>1. TypeOK /\ kept \cap unused = {} /\ RequestTypes  BY DEF RequestInv
<1>2. PICK i, ks : i = op.item /\ ks = op.keys  OBVIOUS
<1>3. PICK s : s = IF op.step = "copy back" THEN "unhide" ELSE "recreate row"  OBVIOUS
<1>4. /\ op.step \in {"delete recycled", "copy back"} /\ i \in Items /\ IsKnown(i) /\ ks \in SUBSET Keys
      /\ Goto(s) /\ UNCHANGED <<bucket, rows, items, record, clock, purge, batch, unused, kept, damage>>
  <2>1. ks \in SUBSET Keys  BY <1>1, <1>2 DEF TypeOK, Request
  <2>2. op.step \in {"delete recycled", "copy back"}  BY DEF DeleteRecycled
  <2>3. i \in Items /\ IsKnown(i)  BY <1>1, <1>2, <2>2 DEF RequestTypes
  <2> QED  BY <1>3, <2>1, <2>2, <2>3 DEF DeleteRecycled
<1>5. /\ op' \in Request /\ op'.step = s /\ op'.key = op.key /\ op'.item = i /\ op'.keys = ks
  <2>1. s \in Steps  BY <1>3 DEF Steps
  <2> QED  BY <1>1, <1>2, <1>4, <2>1, GoneTo
<1>6. /\ bin' \in [Items -> [Keys -> Objects]] /\ \A j \in Items : j # i => bin'[j] = bin[j]
      /\ \A q \in Keys : bin'[i][q] \in {bin[i][q], None}
  <2>1. CASE bin' = [bin EXCEPT ![i] = Without(@, ks)]
    <3>1. PICK b : b = Without(bin[i], ks)  OBVIOUS
    <3>2. bin[i] \in [Keys -> Objects]  BY <1>1, <1>4 DEF TypeOK
    <3>3. b \in [Keys -> Objects] /\ \A q \in Keys : b[q] = IF q \in ks THEN None ELSE bin[i][q]
      BY <3>1, <3>2, WithoutType
    <3>4. bin' = [bin EXCEPT ![i] = b]  BY <2>1, <3>1
    <3> QED  BY <1>1, <1>4, <3>3, <3>4, BinPut
  <2>2. CASE bin' = bin  BY <1>1, <2>2 DEF TypeOK
  <2> QED  BY <1>2, <2>1, <2>2 DEF DeleteRecycled
<1>7. TypeOK'  BY <1>1, <1>4, <1>5, <1>6 DEF TypeOK
<1>8. PurgeTypes' /\ Deletions'  BY <1>4, BookkeepingStays
<1>9. MarkerKeys'
  <2>1. \A j \in Items, q \in Markers : bin'[j][q] \in {bin[j][q], bucket[q], Marker, None}
    BY <1>6, KeyKinds
  <2> QED  BY <1>4, <2>1, MarkersStay
<1>10. RequestTypes'
  <2>1. op.step = "copy back" => op.key \in Markers  BY <1>1 DEF RequestTypes
  <2>2. op.step = "delete recycled" => op.key \in Files  BY <1>1 DEF RequestTypes
  <2>3. purge'["user"] = None  BY <1>1, <1>4 DEF RequestTypes
  <2> QED  BY <1>3, <1>4, <1>5, <2>1, <2>2, <2>3 DEF RequestTypes, IsKnown
<1>11. Copies'
  <2>1. CASE s = "recreate row"  BY <1>5, <2>1 DEF Copies
  <2>2. CASE s = "unhide"
    <3>1. op.step = "copy back"  BY <1>3, <2>2
    <3>2. ASSUME ~Fails("list") PROVE \A q \in ks \cap Files : bucket[q] = None \/ bin[i][q] \in {None, bucket[q]}
      BY <1>2, <3>1, <3>2 DEF RequestInv, Copies
    <3>3. ASSUME ~Fails("list") PROVE \A q \in ks \cap Files : bucket[q] = None \/ bin'[i][q] \in {None, bucket[q]}
      BY <1>4, <1>6, <3>2, <3>3
    <3> QED  BY <1>4, <1>5, <2>2, <3>3 DEF Copies, Fails
  <2> QED  BY <1>3, <2>1, <2>2
<1> QED  BY <1>1, <1>4, <1>7, <1>8, <1>9, <1>10, <1>11 DEF RequestInv

LEMMA RecreateRowRequest ==
    ASSUME RequestInv, RecreateRow
    PROVE  RequestInv'
<1>1. TypeOK /\ kept \cap unused = {} /\ RequestTypes  BY DEF RequestInv
<1>2. op.step = "recreate row" /\ UNCHANGED <<bucket, bin, items, record, clock, purge, batch, unused, kept>>
  BY DEF RecreateRow
<1>3. op.key \in Keys  BY <1>1, <1>2, KeyKinds DEF RequestTypes
<1>4. rows' \in [Rows -> Row \cup {None}]  BY <1>1, <1>3, RowAdded DEF RecreateRow, TypeOK
<1>5. damage' \in 0..MaxDamage
  <2>1. Damage \/ UNCHANGED damage  BY DEF RecreateRow
  <2> QED  BY <1>1, <2>1, DamageCounted
<1>6. PurgeTypes' /\ Deletions'  BY <1>2, BookkeepingStays
<1>7. MarkerKeys'  BY <1>2, MarkersStay
<1>8. CASE Goto("drop item")
  <2>1. op' \in Request /\ op'.step = "drop item"  BY <1>1, <1>8, GoneTo DEF Steps
  <2>2. TypeOK'  BY <1>1, <1>2, <1>4, <1>5, <2>1 DEF TypeOK
  <2>3. RequestTypes'  BY <1>1, <1>2, <2>1 DEF RequestTypes
  <2>4. Copies'  BY <2>1 DEF Copies
  <2> QED  BY <1>1, <1>2, <1>6, <1>7, <2>2, <2>3, <2>4 DEF RequestInv
<1>9. CASE op' = Idle
  <2>1. TypeOK'  BY <1>1, <1>2, <1>4, <1>5, <1>9, IdleType DEF TypeOK
  <2> QED  BY <1>1, <1>2, <1>6, <1>7, <1>9, <2>1, RequestOver DEF RequestInv
<1> QED  BY <1>8, <1>9 DEF RecreateRow, Done

LEMMA UnhideRequest ==
    ASSUME RequestInv, UnhideSubtree
    PROVE  RequestInv'
<1>1. TypeOK /\ kept \cap unused = {} /\ RequestTypes  BY DEF RequestInv
<1>2. PICK i, S : i = op.item /\ S = HiddenSince(op.key[1], record[op.item].created)  OBVIOUS
<1>3. /\ op.step = "unhide" /\ i \in Items
      /\ UNCHANGED <<items, record, clock, purge, batch, unused, kept, damage>>
  BY <1>1, <1>2 DEF RequestTypes, UnhideSubtree
<1>4. PurgeTypes' /\ Deletions'  BY <1>3, BookkeepingStays
<1>5. CASE /\ rows' = [r \in Rows |-> IF r \in S THEN [rows[r] EXCEPT !.hidden = 0] ELSE rows[r]]
           /\ Goto("drop item") /\ UNCHANGED bytes
  <2>1. op' \in Request /\ op'.step = "drop item"  BY <1>1, <1>5, GoneTo DEF Steps
  <2>2. 0 \in Times
    <3>1. Cardinality(Items) \in Nat  BY BucketAssumption, FS_CardinalityType
    <3> QED  BY <3>1 DEF Times
  <2>3. S \in SUBSET Rows /\ \A r \in S : rows[r] # None  BY <1>2 DEF HiddenSince
  <2>4. rows' \in [Rows -> Row \cup {None}]  BY <1>1, <1>5, <2>2, <2>3, RowsHidden
  <2>5. TypeOK'  BY <1>1, <1>3, <1>5, <2>1, <2>4 DEF TypeOK
  <2>6. MarkerKeys'  BY <1>5, MarkersStay
  <2>7. RequestTypes'  BY <1>1, <1>3, <2>1 DEF RequestTypes
  <2>8. Copies'  BY <2>1 DEF Copies
  <2> QED  BY <1>1, <1>3, <1>4, <2>5, <2>6, <2>7, <2>8 DEF RequestInv
<1>6. CASE CopyBackToBin(Restored) /\ op' = Idle /\ UNCHANGED rows
  <2>1. Restored \in SUBSET Files  BY DEF Restored
  <2>2. bucket' \in [Keys -> Objects] /\ bin' \in [Items -> [Keys -> Objects]] /\ MarkerKeys'
    BY <1>2, <1>3, <1>6, <2>1, CopiedAgain DEF CopyBackToBin
  <2>3. TypeOK'  BY <1>1, <1>3, <1>6, <2>2, IdleType DEF TypeOK
  <2> QED  BY <1>1, <1>3, <1>4, <1>6, <2>2, <2>3, RequestOver DEF RequestInv
<1> QED  BY <1>2, <1>5, <1>6 DEF UnhideSubtree, Done

-----------------------------------------------------------------------------
(* Purges *)

LEMMA PurgesGoOn ==
    ASSUME RequestInv, UNCHANGED <<record, clock>>, \A i \in Active' : i \in Active
    PROVE  PurgeTypes' /\ Deletions'
<1>1. \A i : IsKnown(i)' <=> IsKnown(i)  BY DEF IsKnown
<1>2. KnownItems' = KnownItems  BY <1>1 DEF KnownItems
<1> QED  BY <1>1, <1>2 DEF RequestInv, PurgeTypes, Deletions

LEMMA DropItemRequest ==
    ASSUME RequestInv, DropItem
    PROVE  RequestInv'
<1>1. TypeOK /\ kept \cap unused = {}  BY DEF RequestInv
<1>2. op' = Idle /\ items' \subseteq items /\ UNCHANGED <<bucket, bin, rows, record, clock, purge, batch, unused, kept>>
  BY DEF DropItem, Done
<1>3. damage' \in 0..MaxDamage
  <2>1. Damage \/ UNCHANGED damage  BY DEF DropItem
  <2> QED  BY <1>1, <2>1, DamageCounted
<1>4. TypeOK'  BY <1>1, <1>2, <1>3, IdleType DEF TypeOK
<1>5. PurgeTypes' /\ Deletions'
  <2>1. \A i \in Active' : i \in Active  BY <1>2 DEF Active
  <2> QED  BY <1>2, <2>1, PurgesGoOn
<1>6. MarkerKeys'  BY <1>2, MarkersStay
<1> QED  BY <1>1, <1>2, <1>4, <1>5, <1>6, RequestOver DEF RequestInv

\* A step of a purge changes nothing a request relies on.
LEMMA RequestStays ==
    ASSUME RequestInv, UNCHANGED <<bucket, op, record, unused>>, kept' \subseteq kept,
           op.step # "idle" => purge'["user"] = None,
           \A r \in Rows : Live(r) => rows'[r] = rows[r],
           \A r \in Rows : rows'[r] \in {rows[r], None},
           \A i \in Items : ~IsKnown(i) => bin'[i] = bin[i],
           \A i \in Items, k \in Keys : bin'[i][k] \in {bin[i][k], None}
    PROVE  RequestTypes' /\ Copies'
<1>1. RequestTypes /\ Copies /\ TypeOK  BY DEF RequestInv
<1>2. RequestTypes'  BY <1>1 DEF RequestTypes, IsKnown, Live
<1>3. ASSUME LiveAt(op.key) = {} PROVE LiveAt(op.key)' = {}
  <2>1. \A r \in Rows : Live(r)' => Live(r) /\ rows'[r] = rows[r]  BY DEF Live
  <2> QED  BY <1>3, <2>1 DEF LiveAt
<1>4. op.keys \in SUBSET Keys /\ op.key \in Keys \cup {None}  BY <1>1 DEF TypeOK, Request
<1>5. CASE op.step \in {"archive row", "create row", "delete source", "create item"} \/ (op.step = "put" /\ op.row # None)
  BY <1>1, <1>2, <1>5 DEF Copies
<1>10. CASE op.step = "put" /\ op.row = None
  <2>1. LiveAt(op.key)' = {}  BY <1>1, <1>3, <1>10 DEF Copies
  <2>2. op' = op  OBVIOUS
  <2> QED  BY <1>2, <1>10, <2>1, <2>2 DEF Copies
<1>6. CASE op.step \in {"delete original", "delete batch", "hide"}
  <2>1. bin'[op.item] = bin[op.item]  BY <1>1, <1>6 DEF RequestTypes
  <2> QED  BY <1>2, <1>1, <1>6, <2>1 DEF Copies
<1>7. CASE op.step = "delete recycled"
  <2>1. op.item \in Items /\ op.key \in Keys  BY <1>1, <1>7, KeyKinds DEF RequestTypes
  <2>2. bin'[op.item][op.key] \in {bin[op.item][op.key], None}  BY <2>1
  <2> QED  BY <1>1, <1>2, <1>7, <2>2 DEF Copies
<1>8. CASE op.step \in {"copy back", "unhide"}
  <2>1. op.item \in Items  BY <1>1, <1>8 DEF RequestTypes
  <2>2. ASSUME ~Fails("list"), NEW k \in op.keys \cap Files
        PROVE  bucket[k] = None \/ bin'[op.item][k] \in {None, bucket[k]}
    <3>1. bucket[k] = None \/ bin[op.item][k] \in {None, bucket[k]}  BY <1>1, <1>8, <2>2 DEF Copies
    <3> QED  BY <1>4, <2>1, <3>1
  <2> QED  BY <1>2, <1>8, <2>2 DEF Copies, Fails
<1>9. CASE op.step \notin {"archive row", "put", "create row", "delete source", "create item",
                           "delete original", "delete batch", "hide", "delete recycled", "copy back", "unhide"}
  BY <1>2, <1>9 DEF Copies
<1> QED  BY <1>2, <1>5, <1>6, <1>7, <1>8, <1>9, <1>10

\* A purge takes an item's objects, its hidden rows, and the item.
LEMMA TakingOf ==
    ASSUME TypeOK, NEW a \in Actors, purge[a] # None
    PROVE  purge[a] \in Taking /\ purge[a].item \in Items /\ purge[a].item \in Active
<1>1. purge[a] \in Taking  BY DEF TypeOK
<1>2. purge[a].item \in Items  BY <1>1 DEF Taking
<1> QED  BY <1>1, <1>2 DEF Active

LEMMA TakingOn ==
    ASSUME TypeOK, NEW a \in Actors, purge[a] # None, NEW s \in {"object", "rows", "item"},
           purge' = [purge EXCEPT ![a].step = s]
    PROVE  /\ purge' \in [Actors -> Taking \cup {None}]
           /\ purge'[a].item = purge[a].item
           /\ \A b \in Actors : b # a => purge'[b] = purge[b]
<1>1. purge[a] \in Taking  BY TakingOf
<1>2. PICK n : n = [purge[a] EXCEPT !.step = s]  OBVIOUS
<1>3. n \in Taking /\ n.item = purge[a].item  BY <1>1, <1>2 DEF Taking
<1>4. purge' = [purge EXCEPT ![a] = n]  BY <1>2 DEF TypeOK
<1> QED  BY <1>3, <1>4 DEF TypeOK

\* What a purge that goes on, or that is over, leaves to the others.
LEMMA PurgesOn ==
    ASSUME RequestInv, UNCHANGED <<record, clock, batch>>, items' \subseteq items, NEW a \in Actors, purge[a] # None,
           \/ \E s \in {"object", "rows", "item"} : purge' = [purge EXCEPT ![a].step = s]
           \/ purge' = [purge EXCEPT ![a] = None]
    PROVE  /\ purge' \in [Actors -> Taking \cup {None}]
           /\ PurgeTypes' /\ Deletions'
           /\ op.step # "idle" => purge'["user"] = None
<1>1. TypeOK /\ RequestTypes  BY DEF RequestInv
<1>2. /\ purge' \in [Actors -> Taking \cup {None}]
      /\ \A b \in Actors : b # a => purge'[b] = purge[b]
      /\ purge'[a] = None \/ purge'[a].item = purge[a].item
  <2>1. CASE \E s \in {"object", "rows", "item"} : purge' = [purge EXCEPT ![a].step = s]
    BY <1>1, <2>1, TakingOn
  <2>2. CASE purge' = [purge EXCEPT ![a] = None]  BY <1>1, <2>2 DEF TypeOK
  <2> QED  BY <2>1, <2>2
<1>3. \A i \in Active' : i \in Active  BY <1>2 DEF Active
<1>4. "user" \in Actors  BY DEF Actors
<1>5. op.step # "idle" => purge'["user"] = None  BY <1>1, <1>2, <1>4 DEF RequestTypes
<1> QED  BY <1>2, <1>3, <1>5, PurgesGoOn

LEMMA UserPurgeRequest ==
    ASSUME RequestInv, NEW i \in Items, UserPurge(i)
    PROVE  RequestInv'
<1>1. TypeOK /\ kept \cap unused = {} /\ RequestTypes  BY DEF RequestInv
<1>2. /\ op = Idle /\ i \in items
      /\ UNCHANGED <<bucket, bin, rows, items, record, clock, op, batch, unused, kept, damage>>
  BY DEF UserPurge, Ready
<1>3. PICK n : n = [item |-> i, step |-> "object"]  OBVIOUS
<1>4. n \in Taking /\ n.item = i  BY <1>3 DEF Taking
<1>5. purge' = [purge EXCEPT !["user"] = n] /\ "user" \in Actors  BY <1>3 DEF UserPurge, Actors
<1>6. purge' \in [Actors -> Taking \cup {None}] /\ purge'["user"] = n /\ \A a \in Actors : a # "user" => purge'[a] = purge[a]
  BY <1>1, <1>4, <1>5 DEF TypeOK
<1>7. TypeOK'  BY <1>1, <1>2, <1>6 DEF TypeOK
<1>8. PurgeTypes' /\ Deletions'
  <2>1. \A k \in Active' : k \in Active  BY <1>2, <1>4, <1>6 DEF Active
  <2> QED  BY <1>2, <2>1, PurgesGoOn
<1>9. MarkerKeys'  BY <1>2, MarkersStay
<1> QED  BY <1>1, <1>2, <1>7, <1>8, <1>9, RequestOver DEF RequestInv

LEMMA CronListRequest ==
    ASSUME RequestInv, CronList
    PROVE  RequestInv'
<1>1. TypeOK /\ kept \cap unused = {} /\ RequestTypes  BY DEF RequestInv
<1>2. batch' \subseteq items /\ UNCHANGED <<bucket, bin, rows, items, record, clock, op, purge, unused, kept, damage>>
  BY DEF CronList
<1>3. TypeOK'  BY <1>1, <1>2 DEF TypeOK
<1>4. PurgeTypes' /\ Deletions'
  <2>1. \A i \in Active' : i \in Active  BY <1>2 DEF Active
  <2> QED  BY <1>2, <2>1, PurgesGoOn
<1>5. MarkerKeys'  BY <1>2, MarkersStay
<1>6. RequestTypes' /\ Copies'  BY <1>1, <1>2, RequestStays DEF RequestTypes
<1> QED  BY <1>1, <1>2, <1>3, <1>4, <1>5, <1>6 DEF RequestInv

LEMMA CronTakeRequest ==
    ASSUME RequestInv, CronTake
    PROVE  RequestInv'
<1>1. TypeOK /\ kept \cap unused = {} /\ RequestTypes  BY DEF RequestInv
<1>2. UNCHANGED <<bucket, bin, rows, items, record, clock, op, unused, kept>>  BY DEF CronTake
<1>3. PICK i \in batch : /\ purge' = [purge EXCEPT !["cron"] = [item |-> i, step |-> "object"]]
                         /\ batch' = batch \ {i} /\ Meets(i)
  BY DEF CronTake
<1>4. PICK n : n = [item |-> i, step |-> "object"]  OBVIOUS
<1>5. n \in Taking /\ n.item = i  BY <1>1, <1>4 DEF Taking, TypeOK
<1>6. "cron" \in Actors /\ "user" # "cron" /\ "user" \in Actors  BY DEF Actors
<1>7. purge' \in [Actors -> Taking \cup {None}] /\ purge'["cron"] = n /\ \A a \in Actors : a # "cron" => purge'[a] = purge[a]
  BY <1>1, <1>3, <1>4, <1>5, <1>6 DEF TypeOK
<1>8. damage' \in 0..MaxDamage
  <2>1. Damage \/ UNCHANGED damage  BY <1>3 DEF Meets
  <2> QED  BY <1>1, <2>1, DamageCounted
<1>9. TypeOK'  BY <1>1, <1>2, <1>3, <1>7, <1>8 DEF TypeOK
<1>10. PurgeTypes' /\ Deletions'
  <2>1. i \in Active  BY DEF Active
  <2>2. \A k \in Items, a \in Actors : purge'[a] # None /\ purge'[a].item = k => k = i \/ (purge[a] # None /\ purge[a].item = k)
    BY <1>5, <1>7
  <2>3. \A k \in Active' : k \in Active  BY <1>2, <1>3, <2>1, <2>2 DEF Active
  <2> QED  BY <1>2, <2>3, PurgesGoOn
<1>11. MarkerKeys'  BY <1>2, MarkersStay
<1>12. RequestTypes' /\ Copies'
  <2>1. op.step # "idle" => purge'["user"] = None  BY <1>1, <1>6, <1>7 DEF RequestTypes
  <2> QED  BY <1>2, <2>1, RequestStays
<1> QED  BY <1>1, <1>2, <1>9, <1>10, <1>11, <1>12 DEF RequestInv

LEMMA PurgeObjectsRequest ==
    ASSUME RequestInv, NEW a \in Actors, PurgeObjects(a)
    PROVE  RequestInv'
<1>1. TypeOK /\ kept \cap unused = {} /\ RequestTypes  BY DEF RequestInv
<1>2. PICK i, s : i = purge[a].item /\ s = IF IsDir(i) THEN "rows" ELSE "item"  OBVIOUS
<1>3. /\ purge[a] # None /\ kept' \subseteq kept
      /\ bin' = [bin EXCEPT ![i] = NoKeys] \/ bin' = bin
      /\ purge' = [purge EXCEPT ![a].step = s] \/ purge' = [purge EXCEPT ![a] = None]
      /\ UNCHANGED <<bucket, rows, items, record, clock, op, batch, unused, damage>>
  BY <1>2 DEF PurgeObjects, Purging
<1>4. i \in Items /\ IsKnown(i)  BY <1>1, <1>2, <1>3, TakingOf DEF RequestInv, PurgeTypes
<1>5. /\ purge' \in [Actors -> Taking \cup {None}] /\ PurgeTypes' /\ Deletions'
      /\ op.step # "idle" => purge'["user"] = None
  <2>1. s \in {"object", "rows", "item"}  BY <1>2
  <2> QED  BY <1>3, <2>1, PurgesOn
<1>6. /\ bin' \in [Items -> [Keys -> Objects]]
      /\ \A j \in Items : j # i => bin'[j] = bin[j]
      /\ \A j \in Items, k \in Keys : bin'[j][k] \in {bin[j][k], None}
  <2>1. CASE bin' = [bin EXCEPT ![i] = NoKeys]  BY <1>1, <1>4, <2>1, BinPut, ObjectKinds
  <2>2. CASE bin' = bin  BY <1>1, <2>2 DEF TypeOK
  <2> QED  BY <1>3, <2>1, <2>2
<1>7. TypeOK'  BY <1>1, <1>3, <1>5, <1>6 DEF TypeOK
<1>8. MarkerKeys'  BY <1>3, <1>6, KeyKinds, MarkersStay
<1>9. RequestTypes' /\ Copies'
  <2>1. \A j \in Items : ~IsKnown(j) => bin'[j] = bin[j]  BY <1>4, <1>6
  <2> QED  BY <1>3, <1>5, <1>6, <2>1, RequestStays
<1> QED  BY <1>1, <1>3, <1>5, <1>7, <1>8, <1>9 DEF RequestInv

LEMMA PurgeRowsRequest ==
    ASSUME RequestInv, NEW a \in Actors, PurgeRows(a)
    PROVE  RequestInv'
<1>1. TypeOK /\ kept \cap unused = {} /\ RequestTypes  BY DEF RequestInv
<1>2. PICK S : S = HiddenSince(record[purge[a].item].path[1], record[purge[a].item].created)  OBVIOUS
<1>3. /\ purge[a] # None
      /\ rows' = [r \in Rows |-> IF r \in S THEN None ELSE rows[r]] \/ rows' = rows
      /\ purge' = [purge EXCEPT ![a].step = "item"] \/ purge' = [purge EXCEPT ![a] = None]
      /\ UNCHANGED <<bucket, bin, items, record, clock, op, batch, unused, kept, damage>>
  BY <1>2 DEF PurgeRows, Purging
<1>4. /\ purge' \in [Actors -> Taking \cup {None}] /\ PurgeTypes' /\ Deletions'
      /\ op.step # "idle" => purge'["user"] = None
  <2>1. "item" \in {"object", "rows", "item"}  OBVIOUS
  <2> QED  BY <1>3, <2>1, PurgesOn
<1>5. \A r \in S : ~Live(r)  BY <1>2 DEF HiddenSince, Live
<1>6. /\ rows' \in [Rows -> Row \cup {None}]
      /\ \A r \in Rows : rows'[r] \in {rows[r], None} /\ (Live(r) => rows'[r] = rows[r])
  BY <1>1, <1>3, <1>5 DEF TypeOK
<1>7. TypeOK'  BY <1>1, <1>3, <1>4, <1>6 DEF TypeOK
<1>8. MarkerKeys'  BY <1>3, MarkersStay
<1>9. RequestTypes' /\ Copies'  BY <1>3, <1>4, <1>6, RequestStays
<1> QED  BY <1>1, <1>3, <1>4, <1>7, <1>8, <1>9 DEF RequestInv

LEMMA PurgeItemRequest ==
    ASSUME RequestInv, NEW a \in Actors, PurgeItem(a)
    PROVE  RequestInv'
<1>1. TypeOK /\ kept \cap unused = {} /\ RequestTypes  BY DEF RequestInv
<1>2. /\ purge[a] # None /\ purge' = [purge EXCEPT ![a] = None] /\ items' \subseteq items
      /\ UNCHANGED <<bucket, bin, rows, record, clock, op, batch, unused, kept, damage>>
  BY DEF PurgeItem, Purging
<1>3. /\ purge' \in [Actors -> Taking \cup {None}] /\ PurgeTypes' /\ Deletions'
      /\ op.step # "idle" => purge'["user"] = None
  BY <1>2, PurgesOn
<1>4. TypeOK'  BY <1>1, <1>2, <1>3 DEF TypeOK
<1>5. MarkerKeys'  BY <1>2, MarkersStay
<1>6. RequestTypes' /\ Copies'  BY <1>2, <1>3, RequestStays
<1> QED  BY <1>1, <1>2, <1>3, <1>4, <1>5, <1>6 DEF RequestInv

LEMMA ApiExitsRequest ==
    ASSUME RequestInv, ApiExits
    PROVE  RequestInv'
<1>1. TypeOK /\ kept \cap unused = {}  BY DEF RequestInv
<1>2. /\ purge' = [purge EXCEPT !["user"] = None] /\ op' = Idle /\ Damage
      /\ UNCHANGED <<bucket, bin, rows, items, record, clock, batch, unused, kept>>
  BY DEF ApiExits, Done
<1>3. purge' \in [Actors -> Taking \cup {None}] /\ \A b \in Actors : purge'[b] \in {purge[b], None}
  BY <1>1, <1>2 DEF TypeOK
<1>4. damage' \in 0..MaxDamage  BY <1>1, <1>2, DamageCounted
<1>5. TypeOK'  BY <1>1, <1>2, <1>3, <1>4, IdleType DEF TypeOK
<1>6. PurgeTypes' /\ Deletions'
  <2>1. \A i \in Active' : i \in Active  BY <1>2, <1>3 DEF Active
  <2> QED  BY <1>2, <2>1, PurgesGoOn
<1>7. MarkerKeys'  BY <1>2, MarkersStay
<1> QED  BY <1>1, <1>2, <1>5, <1>6, <1>7, RequestOver DEF RequestInv

LEMMA StutterRequest ==
    ASSUME RequestInv, UNCHANGED vars
    PROVE  RequestInv'
<1>1. TypeOK /\ kept \cap unused = {} /\ RequestTypes  BY DEF RequestInv
<1>2. UNCHANGED <<bucket, bin, rows, items, record, clock, op, purge, batch, unused, kept, damage>>  BY DEF vars
<1>3. TypeOK'  BY <1>1, <1>2 DEF TypeOK
<1>4. PurgeTypes' /\ Deletions'  BY <1>2, BookkeepingStays
<1>5. MarkerKeys'  BY <1>2, MarkersStay
<1>6. RequestTypes' /\ Copies'  BY <1>1, <1>2, RequestStays DEF RequestTypes
<1> QED  BY <1>1, <1>2, <1>3, <1>4, <1>5, <1>6 DEF RequestInv

LEMMA RequestsInit ==
    ASSUME Init
    PROVE  RequestInv
<1>1. 0 \in Times /\ Cardinality({}) = 0
  <2>1. Cardinality(Items) \in Nat  BY BucketAssumption, FS_CardinalityType
  <2> QED  BY <2>1, FS_EmptySet DEF Times
<1>2. 0 \in 0..MaxDamage  BY BucketAssumption
<1>3. TypeOK  BY <1>1, <1>2, IdleType, ObjectKinds DEF Init, TypeOK
<1>4. Active = {} /\ KnownItems = {}  BY DEF Init, Active, KnownItems, IsKnown
<1>5. PurgeTypes /\ Deletions  BY <1>1, <1>4 DEF PurgeTypes, Deletions, Init
<1>6. MarkerKeys  BY KeyKinds, ObjectKinds DEF MarkerKeys, Init
<1>7. RequestTypes /\ Copies  BY IdleType DEF RequestTypes, Copies, Init
<1> QED  BY <1>3, <1>5, <1>6, <1>7 DEF RequestInv, Init

LEMMA RequestsStep ==
    ASSUME RequestInv, [Next]_vars
    PROVE  RequestInv'
<1>1. CASE FolderRequest \/ UploadRequest \/ FileRequest \/ BinRequest
  BY <1>1, CreateDirRequest, DeleteDirRequest, UploadRequested, DeleteFileRequest, MoveRequest,
     RestoreFileRequest, RestoreFolderRequest, UserPurgeRequest
  DEF FolderRequest, UploadRequest, FileRequest, BinRequest
<1>2. CASE UploadStep \/ MoveStep
  BY <1>2, EnsureRowRequest, ArchiveRowRequest, PutObjectRequest, RecordUploadRequest,
     DeleteSourceRequest, UpdateLocationRequest
  DEF UploadStep, MoveStep
<1>3. CASE DeleteStep
  BY <1>3, DeleteOriginalRequest, RecordItemRequest, DropRowRequest, DeleteBatchRequest, HideRequest
  DEF DeleteStep
<1>4. CASE RestoreStep
  BY <1>4, CopyBackRequest, DeleteRecycledRequest, RecreateRowRequest, UnhideRequest, DropItemRequest
  DEF RestoreStep
<1>5. CASE CronList \/ CronTake \/ ApiExits
  BY <1>5, CronListRequest, CronTakeRequest, ApiExitsRequest
<1>6. CASE \E a \in Actors : PurgeStep(a)
  BY <1>6, PurgeObjectsRequest, PurgeRowsRequest, PurgeItemRequest DEF PurgeStep
<1> QED  BY <1>1, <1>2, <1>3, <1>4, <1>5, <1>6, StutterRequest DEF Next

\* Whatever call fails, whoever exits and whichever item is purged meanwhile, every
\* request finds at each of its steps what its last step left: the copy of the object
\* it deletes, the item it records, the row it updates.
THEOREM RequestsAreSound == Spec => []RequestInv
<1>1. Init => RequestInv  BY RequestsInit
<1>2. RequestInv /\ [Next]_vars => RequestInv'  BY RequestsStep
<1> QED  BY <1>1, <1>2, PTL DEF Spec

\* The variables keep their types: a key holds an object or none, and an item is
\* recorded once for each deletion of a folder, so that the time stays in its range.
THEOREM TypeCorrect == Spec => []TypeOK
<1>1. RequestInv => TypeOK  BY DEF RequestInv
<1> QED  BY <1>1, RequestsAreSound, PTL

-----------------------------------------------------------------------------
(* Nothing is lost *)

LEMMA StaysStored ==
    ASSUME NEW c, Stored(c),
           \A k \in Keys : bucket[k] = c =>
              (\E q \in Keys : bucket'[q] = c) \/ \E j \in Items, q \in Keys : bin'[j][q] = c,
           \A i \in Items, k \in Keys : bin[i][k] = c =>
              (\E q \in Keys : bucket'[q] = c) \/ \E j \in Items, q \in Keys : bin'[j][q] = c
    PROVE  Stored(c)'
    BY DEF Stored

LEMMA SameBytes ==
    ASSUME NEW c, Stored(c), UNCHANGED <<bucket, bin>>
    PROVE  Stored(c)'
    BY DEF Stored

\* An object that is put over another one, or over none.
LEMMA PutStays ==
    ASSUME NEW c, Stored(c), bin' = bin, NEW k \in Keys,
           \A q \in Keys : q # k => bucket'[q] = bucket[q],
           \/ bucket[k] # c
           \/ \E q \in Keys : q # k /\ bucket[q] = c
           \/ \E i \in Items, q \in Keys : bin[i][q] = c
    PROVE  Stored(c)'
<1>1. ASSUME NEW q \in Keys, bucket[q] = c
      PROVE  (\E o \in Keys : bucket'[o] = c) \/ \E j \in Items, o \in Keys : bin'[j][o] = c
  <2>1. CASE q # k  BY <1>1, <2>1
  <2>2. CASE q = k  BY <1>1, <2>2
  <2> QED  BY <2>1, <2>2
<1> QED  BY <1>1, StaysStored

\* An item that changes only where it has no object.
LEMMA IntoBinStays ==
    ASSUME NEW c, Stored(c), bucket' = bucket, NEW i \in Items,
           \A j \in Items : j # i => bin'[j] = bin[j],
           \A q \in Keys : bin[i][q] = c => \E o \in Keys : bucket[o] = c
    PROVE  Stored(c)'
<1>1. ASSUME NEW j \in Items, NEW q \in Keys, bin[j][q] = c
      PROVE  (\E o \in Keys : bucket'[o] = c) \/ \E k \in Items, o \in Keys : bin'[k][o] = c
  <2>1. CASE j # i  BY <1>1, <2>1
  <2>2. CASE j = i  BY <1>1, <2>2
  <2> QED  BY <2>1, <2>2
<1> QED  BY <1>1, StaysStored

\* Copies that go back to their keys.
LEMMA BackStays ==
    ASSUME RequestInv, NEW c, c # None, Stored(c), NEW i \in Items, i = op.item,
           NEW ks \in SUBSET Keys, CopyRecycledBack(ks),
           \A q \in ks : bucket[q] \in {None, bin[i][q]}
    PROVE  Stored(c)'
<1>1. PICK back \in SUBSET ks :
         /\ \A q \in Keys : bucket'[q] = IF q \in back THEN bin[i][q] ELSE bucket[q]
         /\ \A q \in Keys : bin'[i][q] = IF q \in back THEN None ELSE bin[i][q]
         /\ \A j \in Items : j # i => bin'[j] = bin[j]
  BY CopiedRecycledBack
<1>2. ASSUME NEW q \in Keys, bucket[q] = c PROVE \E o \in Keys : bucket'[o] = c
  BY <1>1, <1>2
<1>3. ASSUME NEW j \in Items, NEW q \in Keys, bin[j][q] = c
      PROVE  (\E o \in Keys : bucket'[o] = c) \/ \E k \in Items, o \in Keys : bin'[k][o] = c
  <2>1. CASE j = i /\ q \in back  BY <1>1, <1>3, <2>1
  <2>2. CASE ~(j = i /\ q \in back)  BY <1>1, <1>3, <2>2
  <2> QED  BY <2>1, <2>2
<1> QED  BY <1>2, <1>3, StaysStored

\* Objects that go into the bin once more.
LEMMA AgainStays ==
    ASSUME RequestInv, NEW c, c # None, Stored(c), NEW i \in Items, NEW ks \in SUBSET Files,
           bin' = [bin EXCEPT ![i] = Copied(bucket, @, ks)], bucket' = bucket \/ bucket' = Without(bucket, ks),
           \A q \in ks : bin[i][q] \in {None, bucket[q]}
    PROVE  Stored(c)'
<1>1. /\ \A q \in Keys : bin'[i][q] = IF q \in ks THEN bucket[q] ELSE bin[i][q]
      /\ \A j \in Items : j # i => bin'[j] = bin[j]
      /\ \A q \in Keys : bucket'[q] = bucket[q] \/ (q \in ks /\ bucket'[q] = None)
  BY CopiedAgain
<1>2. ASSUME NEW q \in Keys, bucket[q] = c
      PROVE  (\E o \in Keys : bucket'[o] = c) \/ \E k \in Items, o \in Keys : bin'[k][o] = c
  <2>1. CASE q \in ks
    <3>1. bin'[i][q] = c  BY <1>1, <1>2, <2>1
    <3> QED  BY <3>1
  <2>2. CASE q \notin ks  BY <1>1, <1>2, <2>2
  <2> QED  BY <2>1, <2>2
<1>3. ASSUME NEW j \in Items, NEW q \in Keys, bin[j][q] = c
      PROVE  \E k \in Items, o \in Keys : bin'[k][o] = c
  BY <1>1, <1>3
<1> QED  BY <1>2, <1>3, StaysStored

LEMMA UploadKeeps ==
    ASSUME RequestInv, NEW path \in Folders \X Names, NEW d \in Contents, Upload(path, d),
           NEW c, c # None, Stored(c)
    PROVE  Stored(c)'
<1>1. bin' = bin  BY DEF Upload
<1>2. CASE bucket' = bucket  BY <1>1, <1>2, SameBytes
<1>3. CASE \E v \in FreshName : Object(<<path[1], v>>, bucket[path])
  <2>1. PICK v \in FreshName : Object(<<path[1], v>>, bucket[path])  BY <1>3
  <2>2. PICK k : k = <<path[1], v>>  OBVIOUS
  <2>3. v \in Versions /\ path[1] \in Folders /\ path \in Files /\ path \in Keys  BY KeyKinds DEF FreshName, Files
  <2>4. k \in Keys  BY <2>2, <2>3, KeyKinds DEF Files
  <2>5. bucket[k] = None  BY <2>2, <2>3 DEF FreshName
  <2>6. bucket[path] \in Objects  BY <2>3 DEF RequestInv, TypeOK
  <2>7. \A q \in Keys : q # k => bucket'[q] = bucket[q]
    <3>1. TypeOK /\ Object(k, bucket[path])  BY <2>1, <2>2 DEF RequestInv
    <3> QED  BY <2>4, <2>6, <3>1, ObjectPut
  <2> QED  BY <1>1, <2>4, <2>5, <2>7, PutStays
<1> QED  BY <1>2, <1>3 DEF Upload

LEMMA ArchiveRowKeeps ==
    ASSUME RequestInv, ArchiveRow, NEW c, c # None, Stored(c)
    PROVE  Stored(c)'
<1>1. PICK f, k : f = op.from /\ k = op.key  OBVIOUS
<1>2. f \in Keys /\ k \in Keys /\ f # k /\ bucket[f] = bucket[k] /\ bin' = bin /\ TypeOK
  BY <1>1, KeyKinds DEF RequestInv, RequestTypes, Copies, ArchiveRow
<1>3. CASE bucket' = bucket  BY <1>2, <1>3, SameBytes
<1>4. CASE Object(f, None)
  <2>1. \A q \in Keys : q # f => bucket'[q] = bucket[q]  BY <1>2, <1>4, ObjectPut, ObjectKinds
  <2> QED  BY <1>2, <2>1, PutStays
<1> QED  BY <1>1, <1>3, <1>4 DEF ArchiveRow

\* An upload overwrites what it has copied before, or an object no row tells of.
LEMMA PutObjectKeeps ==
    ASSUME RequestInv, PutObject, NEW c, c # None, Stored(c)
    PROVE  Stored(c)' \/ \E k \in Keys : bucket[k] = c /\ LiveAt(k) = {}
<1>1. PICK f, k : f = op.from /\ k = op.key  OBVIOUS
<1>2. /\ op.step = "put" /\ k \in Keys /\ op.content \in Contents /\ bin' = bin /\ TypeOK
  BY <1>1, KeyKinds DEF RequestInv, RequestTypes, PutObject
<1>3. IF op.row = None THEN LiveAt(k) = {} ELSE f \in Keys /\ f # k /\ bucket[f] = bucket[k]
  BY <1>1, <1>2, KeyKinds DEF RequestInv, Copies
<1>4. CASE bucket' = bucket  BY <1>2, <1>4, SameBytes
<1>5. CASE Object(k, op.content)
  <2>1. \A q \in Keys : q # k => bucket'[q] = bucket[q]  BY <1>2, <1>5, ObjectPut, ObjectKinds
  <2>2. CASE op.row = None /\ bucket[k] = c  BY <1>2, <1>3, <2>2
  <2>3. CASE bucket[k] # c  BY <1>2, <2>1, <2>3, PutStays
  <2>4. CASE op.row # None /\ bucket[k] = c  BY <1>2, <1>3, <2>1, <2>4, PutStays
  <2> QED  BY <2>2, <2>3, <2>4
<1> QED  BY <1>1, <1>4, <1>5 DEF PutObject

\* The object of an upload that was never answered is taken away.
LEMMA RecordUploadKeeps ==
    ASSUME RequestInv, RecordUpload, NEW c \in kept, Stored(c)
    PROVE  Stored(c)'
<1>1. PICK k : k = op.key  OBVIOUS
<1>2. k \in Keys /\ bin' = bin /\ TypeOK
  BY <1>1, KeyKinds DEF RequestInv, RequestTypes, RecordUpload
<1>3. CASE bucket' = bucket  BY <1>2, <1>3, SameBytes
<1>4. CASE op.step = "create row" /\ Object(k, None)
  <2>1. bucket[k] = op.content /\ op.content \notin kept
    BY <1>1, <1>4 DEF RequestInv, RequestTypes, Copies
  <2>2. \A q \in Keys : q # k => bucket'[q] = bucket[q]  BY <1>2, <1>4, ObjectPut, ObjectKinds
  <2> QED  BY <1>2, <2>1, <2>2, PutStays
<1> QED  BY <1>1, <1>3, <1>4 DEF RecordUpload

LEMMA MarkerPutKeeps ==
    ASSUME RequestInv, NEW c \in Contents, Stored(c), bin' = bin, NEW k \in Markers, NEW d \in {Marker, None},
           Object(k, d)
    PROVE  Stored(c)'
<1>1. k \in Keys /\ bucket[k] # c /\ d \in Objects /\ TypeOK  BY KeyKinds, ObjectKinds DEF RequestInv, MarkerKeys
<1>2. \A q \in Keys : q # k => bucket'[q] = bucket[q]  BY <1>1, ObjectPut
<1> QED  BY <1>1, <1>2, PutStays

LEMMA CreateDirKeeps ==
    ASSUME RequestInv, NEW p \in Folders, CreateDir(p), NEW c \in Contents, Stored(c)
    PROVE  Stored(c)'
<1>1. PICK k : k = <<p>>  OBVIOUS
<1>2. k \in Markers /\ Object(k, Marker) /\ bin' = bin  BY <1>1, KeyKinds DEF CreateDir, IsSubfolder
<1> QED  BY <1>2, MarkerPutKeeps

LEMMA EnsureRowKeeps ==
    ASSUME RequestInv, EnsureRow, NEW c \in Contents, Stored(c)
    PROVE  Stored(c)'
<1>1. PICK k : k = op.key  OBVIOUS
<1>2. k \in Markers /\ bin' = bin  BY <1>1 DEF EnsureRow, RequestInv, RequestTypes
<1>3. CASE bucket' = bucket  BY <1>2, <1>3, SameBytes
<1>4. CASE Object(k, None)  BY <1>2, <1>4, MarkerPutKeeps
<1> QED  BY <1>1, <1>3, <1>4 DEF EnsureRow

LEMMA MoveKeeps ==
    ASSUME RequestInv, Collisions = "none", NEW r \in Rows, NEW p \in Folders, Move(r, p), NEW c, c # None, Stored(c)
    PROVE  Stored(c)'
<1>1. PICK src, dst : src = rows[r].path /\ dst = <<p, rows[r].path[2]>>  OBVIOUS
<1>2. /\ Live(r) /\ Len(src) = 2 /\ Object(dst, bucket[src]) /\ Vacant(dst) /\ bin' = bin
  BY <1>1 DEF Move, IsFile
<1>3. src \in Keys /\ dst \in Keys
  <2>1. src \in Keys  BY <1>1, <1>2, RowTypes DEF Live, RequestInv
  <2>2. src \in Files  BY <1>2, <2>1, KeyKinds
  <2>3. dst \in Files  BY <1>1, <2>2 DEF Files
  <2> QED  BY <2>1, <2>3, KeyKinds
<1>4. bucket[dst] = None  BY <1>2 DEF Vacant
<1>5. \A q \in Keys : q # dst => bucket'[q] = bucket[q]
  <2>1. TypeOK /\ bucket[src] \in Objects  BY <1>3 DEF RequestInv, TypeOK
  <2> QED  BY <1>2, <1>3, <2>1, ObjectPut
<1> QED  BY <1>2, <1>3, <1>4, <1>5, PutStays

LEMMA DeleteSourceKeeps ==
    ASSUME RequestInv, DeleteSource, NEW c, c # None, Stored(c)
    PROVE  Stored(c)'
<1>1. PICK f, k : f = op.from /\ k = op.key  OBVIOUS
<1>2. f \in Keys /\ k \in Keys /\ f # k /\ bucket[f] = bucket[k] /\ bin' = bin /\ TypeOK
  BY <1>1, KeyKinds DEF RequestInv, RequestTypes, Copies, DeleteSource
<1>3. PICK q \in {f, k} : Object(q, None)  BY <1>1 DEF DeleteSource
<1>4. \A o \in Keys : o # q => bucket'[o] = bucket[o]  BY <1>2, <1>3, ObjectPut, ObjectKinds
<1> QED  BY <1>2, <1>3, <1>4, PutStays

LEMMA DeleteFileKeeps ==
    ASSUME RequestInv, NEW r \in Rows, DeleteFile(r), NEW c, c # None, Stored(c)
    PROVE  Stored(c)'
<1>1. PICK i \in FreshItem : bin' = [bin EXCEPT ![i] = Copied(bucket, NoKeys, {rows[r].path})]  BY DEF DeleteFile
<1>2. i \in Items /\ bin[i] = NoKeys /\ bucket' = bucket /\ TypeOK  BY DEF FreshItem, Used, DeleteFile, RequestInv
<1>3. \A j \in Items : j # i => bin'[j] = bin[j]  BY <1>1, <1>2 DEF TypeOK
<1> QED  BY <1>2, <1>3, ObjectKinds, IntoBinStays

LEMMA DeleteDirKeeps ==
    ASSUME RequestInv, NEW p \in Folders, DeleteDir(p), NEW c, c # None, Stored(c)
    PROVE  Stored(c)'
<1>1. PICK i \in FreshItem : bin' = [bin EXCEPT ![i] = Copied(bucket, NoKeys, UnderPrefix(bucket, p))]  BY DEF DeleteDir
<1>2. i \in Items /\ bin[i] = NoKeys /\ bucket' = bucket /\ TypeOK  BY DEF FreshItem, Used, DeleteDir, RequestInv
<1>3. \A j \in Items : j # i => bin'[j] = bin[j]  BY <1>1, <1>2 DEF TypeOK
<1> QED  BY <1>2, <1>3, ObjectKinds, IntoBinStays

LEMMA DeleteOriginalKeeps ==
    ASSUME RequestInv, DeleteOriginal, NEW c, c # None, Stored(c)
    PROVE  Stored(c)'
<1>1. PICK k, i : k = op.key /\ i = op.item  OBVIOUS
<1>2. op.step = "delete original" /\ k \in Keys /\ i \in Items /\ TypeOK
  BY <1>1, KeyKinds DEF RequestInv, RequestTypes, DeleteOriginal
<1>3. bin[i][k] = bucket[k] /\ \A q \in Keys : q # k => bin[i][q] = None
  BY <1>1, <1>2 DEF RequestInv, Copies
<1>4. CASE Object(k, None) /\ bin' = bin
  <2>1. \A q \in Keys : q # k => bucket'[q] = bucket[q]  BY <1>2, <1>4, ObjectPut, ObjectKinds
  <2> QED  BY <1>2, <1>3, <1>4, <2>1, PutStays
<1>5. CASE bin' = [bin EXCEPT ![i] = NoKeys] /\ bucket' = bucket
  <2>1. \A j \in Items : j # i => bin'[j] = bin[j]  BY <1>2, <1>5 DEF TypeOK
  <2>2. ASSUME NEW q \in Keys, bin[i][q] = c PROVE bucket[k] = c  BY <1>3, <2>2
  <2> QED  BY <1>2, <1>5, <2>1, <2>2, IntoBinStays
<1> QED  BY <1>1, <1>4, <1>5 DEF DeleteOriginal

LEMMA RecordItemKeeps ==
    ASSUME RequestInv, RecordItem, NEW c, c # None, Stored(c)
    PROVE  Stored(c)'
<1>1. PICK k, i : k = op.key /\ i = op.item  OBVIOUS
<1>2. op.step = "create item" /\ k \in Keys /\ i \in Items /\ bucket[k] = None
  BY <1>1, KeyKinds DEF RequestInv, RequestTypes, Copies, RecordItem
<1>3. CASE UNCHANGED <<bucket, bin>>  BY <1>3, SameBytes
<1>4. CASE CopyRecycledBack({k})
  <2>1. {k} \in SUBSET Keys  BY <1>2
  <2>2. \A q \in {k} : bucket[q] \in {None, bin[i][q]}  BY <1>2
  <2> QED  BY <1>1, <1>2, <1>4, <2>1, <2>2, BackStays
<1> QED  BY <1>1, <1>3, <1>4 DEF RecordItem

LEMMA DeleteBatchKeeps ==
    ASSUME RequestInv, DeleteBatch, NEW c, c # None, Stored(c)
    PROVE  Stored(c)'
<1>1. PICK i, ks : i = op.item /\ ks = op.keys  OBVIOUS
<1>2. op.step = "delete batch" /\ i \in Items /\ ks \in SUBSET Keys /\ TypeOK
  BY <1>1 DEF RequestInv, RequestTypes, TypeOK, Request, DeleteBatch
<1>3. \A q \in ks : bin[i][q] = bucket[q]  BY <1>1, <1>2 DEF RequestInv, Copies
<1>4. ASSUME NEW gone \in SUBSET ks, bucket' = Without(bucket, gone), bin' = bin
      PROVE  Stored(c)'
  <2>1. \A q \in Keys : bucket'[q] = IF q \in gone THEN None ELSE bucket[q]
    <3>1. bucket \in [Keys -> Objects]  BY <1>2 DEF TypeOK
    <3> QED  BY <1>4, <3>1, WithoutType
  <2>2. ASSUME NEW q \in Keys, bucket[q] = c
        PROVE  (\E o \in Keys : bucket'[o] = c) \/ \E j \in Items, o \in Keys : bin'[j][o] = c
    <3>1. CASE q \in gone  BY <1>2, <1>3, <1>4, <2>2, <3>1
    <3>2. CASE q \notin gone  BY <2>1, <2>2, <3>2
    <3> QED  BY <3>1, <3>2
  <2> QED  BY <1>4, <2>2, StaysStored
<1>5. CASE bucket' = Without(bucket, ks) /\ bin' = bin
  <2>1. ks \in SUBSET ks  OBVIOUS
  <2> QED  BY <1>4, <1>5, <2>1
<1>6. CASE CopyRecycledBack(ks)  BY <1>1, <1>2, <1>3, <1>6, BackStays
<1>7. CASE (\E left \in SUBSET ks : bucket' = Without(bucket, ks \ left)) /\ bin' = bin
  <2>1. PICK left \in SUBSET ks : bucket' = Without(bucket, ks \ left)  BY <1>7
  <2>2. ks \ left \in SUBSET ks  OBVIOUS
  <2> QED  BY <1>4, <1>7, <2>1, <2>2
<1> QED  BY <1>1, <1>5, <1>6, <1>7 DEF DeleteBatch

LEMMA HideKeeps ==
    ASSUME RequestInv, HideSubtree, NEW c, c # None, Stored(c)
    PROVE  Stored(c)'
<1>1. PICK i, ks : i = op.item /\ ks = op.keys  OBVIOUS
<1>2. op.step = "hide" /\ i \in Items /\ ks \in SUBSET Keys
  BY <1>1 DEF RequestInv, RequestTypes, TypeOK, Request, HideSubtree
<1>3. \A q \in ks : bucket[q] \in {None, bin[i][q]}  BY <1>1, <1>2 DEF RequestInv, Copies
<1>4. CASE UNCHANGED <<bucket, bin>>  BY <1>4, SameBytes
<1>5. CASE CopyRecycledBack(ks)  BY <1>1, <1>2, <1>3, <1>5, BackStays
<1> QED  BY <1>1, <1>4, <1>5 DEF HideSubtree

LEMMA RestoreFileKeeps ==
    ASSUME RequestInv, Collisions = "none", NEW i \in Items, RestoreFile(i), NEW c, c # None, Stored(c)
    PROVE  Stored(c)'
<1>1. PICK k : k = record[i].path  OBVIOUS
<1>2. /\ i \in items /\ Vacant(k) /\ Object(k, bin[i][k]) /\ bin' = bin
  BY <1>1 DEF RestoreFile
<1>3. k \in Keys  BY <1>1, <1>2, ItemPath
<1>4. bucket[k] = None  BY <1>2 DEF Vacant
<1>5. \A q \in Keys : q # k => bucket'[q] = bucket[q]
  <2>1. TypeOK /\ bin[i][k] \in Objects  BY <1>3 DEF RequestInv, TypeOK
  <2> QED  BY <1>2, <1>3, <2>1, ObjectPut
<1> QED  BY <1>2, <1>3, <1>4, <1>5, PutStays

\* What the restoring of a folder has found in the bin, or put back.
LEMMA RestoredCopies ==
    ASSUME RequestInv, ~Fails("list"), op.step \in {"copy back", "unhide"}
    PROVE  /\ op.item \in Items /\ op.keys \in SUBSET Keys
           /\ \A q \in op.keys \cap Files : bucket[q] = None \/ bin[op.item][q] \in {None, bucket[q]}
           /\ Restored \in SUBSET Files
           /\ \A q \in Restored : bin[op.item][q] \in {None, bucket[q]}
<1>1. op.item \in Items /\ op.keys \in SUBSET Keys  BY DEF RequestInv, RequestTypes, TypeOK, Request
<1>2. \A q \in op.keys \cap Files : bucket[q] = None \/ bin[op.item][q] \in {None, bucket[q]}
  BY DEF RequestInv, Copies
<1> QED  BY <1>1, <1>2 DEF Restored, NotCopied

LEMMA CopyBackKeeps ==
    ASSUME RequestInv, ~Fails("list"), CopyBack, NEW c, c # None, Stored(c)
    PROVE  Stored(c)'
<1>1. PICK i : i = op.item  OBVIOUS
<1>2. PICK k \in NotCopied :
          \/ Object(k, bin[i][k]) /\ bin' = bin
          \/ bin' = [bin EXCEPT ![i] = Copied(bucket, @, Restored)] /\ bucket' = bucket
  BY <1>1 DEF CopyBack
<1>3. op.step = "copy back" /\ TypeOK  BY DEF CopyBack, RequestInv
<1>4. k \in Keys /\ bucket[k] = None  BY KeyKinds DEF NotCopied
<1>5. i \in Items /\ Restored \in SUBSET Files /\ \A q \in Restored : bin[i][q] \in {None, bucket[q]}
  BY <1>1, <1>3, RestoredCopies
<1>6. CASE Object(k, bin[i][k]) /\ bin' = bin
  <2>1. bin[i][k] \in Objects  BY <1>3, <1>4, <1>5 DEF TypeOK
  <2>2. \A q \in Keys : q # k => bucket'[q] = bucket[q]  BY <1>3, <1>4, <1>6, <2>1, ObjectPut
  <2> QED  BY <1>4, <1>6, <2>2, PutStays
<1>7. CASE bin' = [bin EXCEPT ![i] = Copied(bucket, @, Restored)] /\ bucket' = bucket
  BY <1>5, <1>7, AgainStays
<1> QED  BY <1>2, <1>6, <1>7

LEMMA DeleteRecycledKeeps ==
    ASSUME RequestInv, ~Fails("list"), DeleteRecycled, NEW c \in Contents, Stored(c)
    PROVE  Stored(c)'
<1>1. PICK i, ks : i = op.item /\ ks = op.keys  OBVIOUS
<1>2. bucket' = bucket /\ TypeOK /\ c # None /\ c # Marker  BY ObjectKinds DEF DeleteRecycled, RequestInv
<1>3. /\ i \in Items /\ ks \in SUBSET Keys
      /\ \A q \in ks : bin[i][q] = c => bucket[q] = c
  <2>1. CASE op.step = "delete recycled"
    <3>1. i \in Items /\ op.key \in Keys  BY <1>1, <2>1, KeyKinds DEF RequestInv, RequestTypes
    <3>2. ks = {op.key} /\ bin[i][op.key] \in {None, bucket[op.key]}  BY <1>1, <2>1 DEF RequestInv, Copies
    <3> QED  BY <1>2, <3>1, <3>2
  <2>2. CASE op.step = "copy back" /\ NotCopied = {}
    <3>1. /\ i \in Items /\ ks \in SUBSET Keys
          /\ \A q \in ks \cap Files : bucket[q] = None \/ bin[i][q] \in {None, bucket[q]}
      BY <1>1, <2>2, RestoredCopies
    <3>2. \A q \in ks \cap Files : bucket[q] # None  BY <1>1, <2>2 DEF NotCopied
    <3>3. \A q \in ks \ Files : bin[i][q] \in {Marker, None}  BY <3>1 DEF RequestInv, MarkerKeys, Markers
    <3> QED  BY <1>2, <3>1, <3>2, <3>3
  <2> QED  BY <2>1, <2>2 DEF DeleteRecycled
<1>4. CASE bin' = bin  BY <1>2, <1>4, SameBytes
<1>5. CASE bin' = [bin EXCEPT ![i] = Without(@, ks)]
  <2>1. PICK b : b = Without(bin[i], ks)  OBVIOUS
  <2>2. bin[i] \in [Keys -> Objects]  BY <1>2, <1>3 DEF TypeOK
  <2>3. b \in [Keys -> Objects] /\ \A q \in Keys : b[q] = IF q \in ks THEN None ELSE bin[i][q]
    BY <2>1, <2>2, WithoutType
  <2>4. bin' = [bin EXCEPT ![i] = b]  BY <1>5, <2>1
  <2>5. bin'[i] = b /\ \A j \in Items : j # i => bin'[j] = bin[j]  BY <1>2, <1>3, <2>3, <2>4, BinPut
  <2>6. ASSUME NEW j \in Items, NEW q \in Keys, bin[j][q] = c
        PROVE  (\E o \in Keys : bucket'[o] = c) \/ \E k \in Items, o \in Keys : bin'[k][o] = c
    <3>1. CASE j = i /\ q \in ks  BY <1>2, <1>3, <2>6, <3>1
    <3>2. CASE j = i /\ q \notin ks  BY <2>3, <2>5, <2>6, <3>2
    <3>3. CASE j # i  BY <2>5, <2>6, <3>3
    <3> QED  BY <3>1, <3>2, <3>3
  <2> QED  BY <1>2, <2>6, StaysStored
<1> QED  BY <1>1, <1>4, <1>5 DEF DeleteRecycled

LEMMA UnhideKeeps ==
    ASSUME RequestInv, ~Fails("list"), UnhideSubtree, NEW c, c # None, Stored(c)
    PROVE  Stored(c)'
<1>1. PICK i : i = op.item  OBVIOUS
<1>2. i \in Items /\ Restored \in SUBSET Files /\ \A q \in Restored : bin[i][q] \in {None, bucket[q]}
  <2>1. op.step = "unhide"  BY DEF UnhideSubtree
  <2> QED  BY <1>1, <2>1, RestoredCopies
<1>3. CASE UNCHANGED <<bucket, bin>>  BY <1>3, SameBytes
<1>4. CASE CopyBackToBin(Restored)
  <2>1. bin' = [bin EXCEPT ![i] = Copied(bucket, @, Restored)] /\ bucket' = Without(bucket, Restored)
    BY <1>1, <1>4 DEF CopyBackToBin
  <2> QED  BY <1>2, <2>1, AgainStays
<1> QED  BY <1>3, <1>4 DEF UnhideSubtree

\* A purge takes the contents of its item only.
LEMMA PurgeObjectsKeeps ==
    ASSUME RequestInv, NEW a \in Actors, PurgeObjects(a), NEW c \in kept, Stored(c)
    PROVE  Stored(c)' \/ c \notin kept'
<1>1. PICK i : i = purge[a].item  OBVIOUS
<1>2. bucket' = bucket /\ TypeOK /\ i \in Items
  BY <1>1, TakingOf DEF PurgeObjects, Purging, RequestInv
<1>3. CASE bin' = bin  BY <1>2, <1>3, SameBytes
<1>4. CASE /\ bin' = [bin EXCEPT ![purge[a].item] = NoKeys]
           /\ kept' = kept \ {bin[purge[a].item][k] : k \in Keys}
  <2>1. \A j \in Items : j # i => bin'[j] = bin[j]  BY <1>1, <1>2, <1>4 DEF TypeOK
  <2>2. CASE \E q \in Keys : bin[i][q] = c  BY <1>1, <1>4, <2>2
  <2>3. CASE \A q \in Keys : bin[i][q] # c  BY <1>2, <2>1, <2>3, IntoBinStays
  <2> QED  BY <2>2, <2>3
<1> QED  BY <1>3, <1>4 DEF PurgeObjects

LEMMA OthersKeep ==
    ASSUME NEW c, Stored(c),
           \/ DropRow \/ UpdateLocation \/ RecreateRow \/ DropItem \/ CronList \/ CronTake \/ ApiExits
           \/ \E i \in Items : RestoreFolder(i) \/ UserPurge(i)
           \/ \E a \in Actors : PurgeRows(a) \/ PurgeItem(a)
           \/ UNCHANGED vars
    PROVE  Stored(c)'
<1>1. UNCHANGED <<bucket, bin>>
  BY DEF DropRow, UpdateLocation, RecreateRow, DropItem, CronList, CronTake, ApiExits, RestoreFolder, UserPurge,
         PurgeRows, PurgeItem, vars
<1> QED  BY <1>1, SameBytes

LEMMA StepKeeps ==
    ASSUME RequestInv, [Next]_vars, Collisions = "none", ~Fails("list"), NEW c \in kept, Stored(c)
    PROVE  Stored(c)' \/ c \notin kept' \/ \E k \in Keys : bucket[k] = c /\ LiveAt(k) = {}
<1>1. c \in Contents /\ c # None  BY ObjectKinds DEF RequestInv, TypeOK
<1>2. CASE FolderRequest \/ UploadRequest \/ FileRequest \/ BinRequest
  BY <1>1, <1>2, CreateDirKeeps, DeleteDirKeeps, UploadKeeps, DeleteFileKeeps, MoveKeeps, RestoreFileKeeps, OthersKeep
  DEF FolderRequest, UploadRequest, FileRequest, BinRequest
<1>3. CASE UploadStep \/ MoveStep
  BY <1>1, <1>3, EnsureRowKeeps, ArchiveRowKeeps, PutObjectKeeps, RecordUploadKeeps, DeleteSourceKeeps, OthersKeep
  DEF UploadStep, MoveStep
<1>4. CASE DeleteStep
  BY <1>1, <1>4, DeleteOriginalKeeps, RecordItemKeeps, DeleteBatchKeeps, HideKeeps, OthersKeep DEF DeleteStep
<1>5. CASE RestoreStep
  BY <1>1, <1>5, CopyBackKeeps, DeleteRecycledKeeps, UnhideKeeps, OthersKeep DEF RestoreStep
<1>6. CASE CronList \/ CronTake \/ ApiExits  BY <1>6, OthersKeep
<1>7. CASE \E a \in Actors : PurgeStep(a)  BY <1>7, PurgeObjectsKeeps, OthersKeep DEF PurgeStep
<1> QED  BY <1>2, <1>3, <1>4, <1>5, <1>6, <1>7, OthersKeep DEF Next

\* Of an upload that was answered an object is kept, in the drive or in the bin, until
\* its item is purged, whatever call of the bucket or the database fails, the listing
\* that a restore trusts excepted, and whoever exits: where nobody moves or restores a
\* file onto another, every object deleted or overwritten has a copy by then, or no
\* row tells of it.
THEOREM VersionsAreKept ==
    ASSUME Collisions = "none", "list" \notin Failing
    PROVE  Spec => NothingLost
<1>1. ~Fails("list")  BY DEF Fails
<1>2. RequestInv /\ [Next]_vars =>
        [\A c \in kept : Stored(c) => \/ Stored(c)' \/ c \notin kept'
                                      \/ \E k \in Keys : bucket[k] = c /\ LiveAt(k) = {}]_vars
  <2> SUFFICES ASSUME RequestInv, [Next]_vars, NEW c \in kept, Stored(c)
               PROVE  Stored(c)' \/ c \notin kept' \/ \E k \in Keys : bucket[k] = c /\ LiveAt(k) = {}
    OBVIOUS
  <2> QED  BY <1>1, StepKeeps
<1>3. Spec => [][Next]_vars  BY DEF Spec
<1> QED  BY <1>2, <1>3, RequestsAreSound, PTL DEF NothingLost

-----------------------------------------------------------------------------
(* What is listed, as long as nothing was left undone *)

\* A step that leaves nothing undone, where nobody writes onto an object that is there
\* and no listing fails.
Orderly == /\ RequestInv /\ ListingInv /\ damage = 0 /\ damage' = 0
           /\ Collisions = "none" /\ "list" \notin Failing

LEMMA OrderlyFacts ==
    ASSUME Orderly
    PROVE  /\ TypeOK /\ PurgeTypes /\ MarkerKeys /\ RequestTypes /\ Copies
           /\ Listing /\ Clear /\ Held /\ Restorable /\ HiddenRows /\ OneItem /\ NothingHidden /\ PurgedBytes
           /\ Marked /\ ItemKeys /\ HiddenBytes /\ Reachable
           /\ ~Damage /\ ~Fails("list")
<1>1. damage \in 0..MaxDamage  BY DEF Orderly, RequestInv, TypeOK
<1>2. ~Damage  BY <1>1 DEF Orderly, Damage
<1> QED  BY <1>2 DEF Orderly, RequestInv, ListingInv, Fails

\* A row that is listed is of a file or of a folder.
LEMMA LiveKinds ==
    ASSUME TypeOK, NEW r \in Rows, rows[r] # None
    PROVE  /\ rows[r].path \in Keys /\ rows[r].hidden \in Times
           /\ IF IsFile(r) THEN rows[r].path \in Files ELSE rows[r].path \in Markers
    BY RowTypes, KeyKinds DEF IsFile

\* A content is at the key of a file.
LEMMA ContentAtFile ==
    ASSUME MarkerKeys, NEW c \in Contents, NEW k \in Keys
    PROVE  /\ bucket[k] = c => k \in Files
           /\ \A i \in Items : bin[i][k] = c => k \in Files
    BY KeyKinds, ObjectKinds DEF MarkerKeys

\* Of a request that is over nothing is asked.
LEMMA NothingAsked ==
    ASSUME op' = Idle
    PROVE  Clear' /\ Held' /\ Restorable' /\ \A r \in Rows : ~Moving(r)'
    BY IdleType DEF Clear, Held, Restorable, Moving

LEMMA NothingMoves ==
    ASSUME op'.step \notin {"create item", "drop row", "location", "hide"}
    PROVE  \A r \in Rows : ~Moving(r)'
    BY DEF Moving

LEMMA NothingRestored ==
    ASSUME op'.step \notin {"delete recycled", "copy back", "recreate row", "unhide", "drop item", "delete batch", "hide"}
    PROVE  Restorable'
    BY DEF Restorable

\* A request that changes no item, no purge and no hidden row leaves them in order.
LEMMA BinStays ==
    ASSUME RequestInv, ListingInv, UNCHANGED <<items, record, purge, batch>>,
           \A r \in Rows : Hidden(r) \/ Hidden(r)' => rows'[r] = rows[r],
           \A i \in Items : IsKnown(i) => bin'[i] = bin[i]
    PROVE  /\ HiddenRows' /\ OneItem' /\ NothingHidden' /\ PurgedBytes' /\ ItemKeys' /\ HiddenBytes'
           /\ \A c : InItem(c) => InItem(c)'
           /\ \A c : InItem(c)' => InItem(c)
<1>1. \A r \in Rows : Hidden(r)' <=> Hidden(r)  BY DEF Hidden
<1>2. Active' = Active  BY DEF Active
<1>3. \A i \in items : i \in Items /\ IsKnown(i)  BY ItemPath
<1>4. HiddenRows'
  <2>1. ASSUME NEW r \in Rows, Hidden(r)'
        PROVE  \E i \in items' : record'[i].path = <<rows'[r].path[1]>> /\ record'[i].created = rows'[r].hidden
    BY <1>1, <2>1 DEF ListingInv, HiddenRows
  <2>2. ASSUME NEW r \in Rows, NEW s \in Rows, Hidden(r)', Hidden(s)', rows'[r].path = rows'[s].path PROVE r = s
    BY <1>1, <2>2 DEF ListingInv, HiddenRows
  <2> QED  BY <2>1, <2>2 DEF HiddenRows
<1>5. OneItem'  BY <1>2 DEF ListingInv, OneItem, IsDir
<1>6. NothingHidden'
  <2>1. ASSUME NEW a \in Actors, Purging(a, "item"), NEW r \in Rows, Hidden(r)'
        PROVE  <<rows'[r].path[1]>> # record[purge[a].item].path
    BY <1>1, <2>1 DEF ListingInv, NothingHidden
  <2> QED  BY <2>1 DEF NothingHidden, Purging
<1>7. PurgedBytes'
  <2>1. ASSUME NEW a \in Actors, purge[a] # None PROVE bin'[purge[a].item] = bin[purge[a].item]
    BY <2>1, TakingOf DEF RequestInv, PurgeTypes
  <2> QED  BY <2>1 DEF ListingInv, PurgedBytes, IsDir
<1>8. ItemKeys'  BY DEF ListingInv, ItemKeys, IsKnown, IsDir
<1>9. HiddenBytes'
  <2>1. ASSUME NEW i \in items, NEW r \in Rows, bin'[i] # NoKeys, Hidden(r)', IsFile(r)',
               record'[i].path = <<rows'[r].path[1]>>
        PROVE  bin'[i][rows'[r].path] # None
    <3>1. bin'[i] = bin[i] /\ rows'[r] = rows[r] /\ Hidden(r)  BY <1>1, <1>3, <2>1
    <3>2. IsFile(r)  BY <2>1, <3>1 DEF IsFile
    <3> QED  BY <2>1, <3>1, <3>2 DEF ListingInv, HiddenBytes
  <2> QED  BY <2>1 DEF HiddenBytes
<1>10. \A k : HiddenAt(k)' = HiddenAt(k)
  <2>1. ASSUME NEW k, NEW r \in Rows PROVE (Hidden(r)' /\ rows'[r].path = k) <=> (Hidden(r) /\ rows[r].path = k)
    BY <1>1
  <2> QED  BY <2>1 DEF HiddenAt
<1>11. ASSUME NEW c PROVE InItem(c)' <=> InItem(c)
  <2>1. InItem(c)' <=> \E i \in items, k \in Keys : bin'[i][k] = c /\ (IsDir(i)' => HiddenAt(k)' # {})
    BY DEF InItem
  <2>2. \A i \in items : bin'[i] = bin[i] /\ IsDir(i)' = IsDir(i)  BY <1>3 DEF IsDir
  <2> QED  BY <1>10, <2>1, <2>2 DEF InItem
<1> QED  BY <1>4, <1>5, <1>6, <1>7, <1>8, <1>9, <1>11

LEMMA SameRows ==
    ASSUME rows' = rows
    PROVE  /\ \A r : (Live(r)' <=> Live(r)) /\ (Hidden(r)' <=> Hidden(r)) /\ (IsFile(r)' <=> IsFile(r))
           /\ \A k : LiveAt(k)' = LiveAt(k) /\ HiddenAt(k)' = HiddenAt(k)
    BY DEF Live, Hidden, IsFile, LiveAt, HiddenAt

\* Of the objects, a listing needs those of its files.
LEMMA StillListed ==
    ASSUME ListingInv, rows' = rows,
           \A r \in Rows : Live(r) /\ IsFile(r) /\ ~Moving(r)' => bucket'[rows[r].path] # None
    PROVE  Listing'
<1>1. \A r \in Rows : Live(r)' /\ IsFile(r)' /\ ~Moving(r)' => bucket'[rows'[r].path] # None  BY SameRows
<1>2. \A r, s \in Rows : Live(r)' /\ Live(s)' /\ rows'[r].path = rows'[s].path => r = s
  BY SameRows DEF ListingInv, Listing
<1> QED  BY <1>1, <1>2 DEF Listing

LEMMA StillMarked ==
    ASSUME ListingInv, rows' = rows, record' = record, items' \subseteq items,
           \A k \in Markers : bucket[k] # None => bucket'[k] # None,
           op.step # "drop item"
    PROVE  Marked'
<1>1. ASSUME NEW r \in Rows, NEW i \in items', Live(r)', rows[r].path \in Markers, record[i].path = rows[r].path
      PROVE  bucket'[rows[r].path] # None
  BY <1>1, SameRows DEF ListingInv, Marked
<1> QED  BY <1>1 DEF Marked

\* A new row.
LEMMA RowListed ==
    ASSUME TypeOK, ListingInv, NEW path \in Keys, AddRow(path), LiveAt(path) = {},
           bucket'[path] # None \/ path \in Markers,
           \A r \in Rows : Live(r) /\ IsFile(r) /\ ~Moving(r)' => bucket'[rows[r].path] # None
    PROVE  /\ Listing'
           /\ \A r \in Rows : Hidden(r) \/ Hidden(r)' => rows'[r] = rows[r]
           /\ \A r \in Rows : Live(r) => rows'[r] = rows[r] /\ Live(r)'
           /\ \E r \in Rows : /\ rows[r] = None /\ Live(r)' /\ rows'[r].path = path
                              /\ \A s \in Rows : s # r => rows'[s] = rows[s]
           /\ \A k : LiveAt(k) \subseteq LiveAt(k)'
<1>1. PICK n \in Rows : /\ rows[n] = None /\ rows'[n].path = path /\ rows'[n].hidden = 0 /\ rows'[n] # None
                        /\ \A s \in Rows : s # n => rows'[s] = rows[s]
  BY RowAdded
<1>2. ~Live(n) /\ ~Hidden(n) /\ Live(n)' /\ ~Hidden(n)'  BY <1>1 DEF Live, Hidden
<1>3. \A r \in Rows : r # n => (Live(r)' <=> Live(r)) /\ (Hidden(r)' <=> Hidden(r)) /\ (IsFile(r)' <=> IsFile(r))
  BY <1>1 DEF Live, Hidden, IsFile
<1>4. ASSUME NEW r \in Rows, Live(r)', IsFile(r)', ~Moving(r)' PROVE bucket'[rows'[r].path] # None
  <2>1. CASE r = n
    <3>1. Len(path) = 2  BY <1>1, <1>4, <2>1 DEF IsFile
    <3> QED  BY <1>1, <2>1, <3>1, KeyKinds
  <2>2. CASE r # n  BY <1>1, <1>3, <1>4, <2>2
  <2> QED  BY <2>1, <2>2
<1>5. ASSUME NEW r \in Rows, NEW s \in Rows, Live(r)', Live(s)', rows'[r].path = rows'[s].path PROVE r = s
  <2>1. ASSUME NEW q \in Rows, q # n, Live(q)' PROVE rows'[q].path # path
    BY <1>1, <1>3, <2>1 DEF LiveAt
  <2>2. CASE r # n /\ s # n  BY <1>1, <1>3, <1>5, <2>2 DEF ListingInv, Listing
  <2> QED  BY <1>1, <1>5, <2>1, <2>2
<1>6. Listing'  BY <1>4, <1>5 DEF Listing
<1>7. \A k : LiveAt(k) \subseteq LiveAt(k)'
  <2>1. ASSUME NEW k, NEW r \in Rows, Live(r), rows[r].path = k PROVE Live(r)' /\ rows'[r].path = k
    BY <1>1, <1>2, <1>3, <2>1
  <2> QED  BY <2>1 DEF LiveAt
<1> QED  BY <1>1, <1>2, <1>3, <1>6, <1>7

\* A version stays where it can be had.
LEMMA StillReachable ==
    ASSUME Orderly, kept' = kept,
           \A c \in kept : InItem(c) => InItem(c)',
           \A c \in kept : Listed(c) => Listed(c)' \/ InItem(c)' \/ OnTheWay(c)',
           \A c \in kept : OnTheWay(c) => Listed(c)' \/ InItem(c)' \/ OnTheWay(c)'
    PROVE  Reachable'
    BY OrderlyFacts DEF Reachable

LEMMA StillLive ==
    ASSUME Orderly, \A r \in Rows : Live(r) => rows'[r] = rows[r],
           NEW c \in Contents, Listed(c), \A k \in Files : bucket[k] = c /\ LiveAt(k) # {} => bucket'[k] = c
    PROVE  Listed(c)'
<1>1. PICK r \in Rows : Live(r) /\ bucket[rows[r].path] = c  BY DEF Listed
<1>2. rows[r].path \in Files  BY <1>1, OrderlyFacts, LiveKinds, ContentAtFile DEF Live
<1>3. LiveAt(rows[r].path) # {}  BY <1>1 DEF LiveAt
<1>4. Live(r)' /\ rows'[r] = rows[r]  BY <1>1 DEF Live
<1> QED  BY <1>1, <1>2, <1>3, <1>4 DEF Listed

LEMMA CreateDirListing ==
    ASSUME Orderly, NEW p \in Folders, CreateDir(p)
    PROVE  ListingInv'
<1>1. /\ TypeOK /\ MarkerKeys /\ Listing /\ kept \subseteq Contents
  BY OrderlyFacts DEF TypeOK
<1>2. PICK k : k = <<p>>  OBVIOUS
<1>3. k \in Markers /\ k \in Keys  BY <1>2, KeyKinds DEF CreateDir, IsSubfolder
<1>4. /\ op = Idle /\ Object(k, Marker) /\ UNCHANGED <<bin, rows, items, record, clock, purge, batch, kept>>
      /\ op' = [Idle EXCEPT !.step = "ensure", !.key = k]
  BY <1>2 DEF CreateDir, Ready
<1>5. op'.step = "ensure" /\ op'.key = k /\ op.step = "idle"  BY <1>4, IdleType DEF Idle
<1>6. \A q \in Keys : bucket'[q] = IF q = k THEN Marker ELSE bucket[q]
  BY <1>1, <1>3, <1>4, ObjectPut, ObjectKinds
<1>7. HiddenRows' /\ OneItem' /\ NothingHidden' /\ PurgedBytes' /\ ItemKeys' /\ HiddenBytes' /\ \A c : InItem(c) => InItem(c)'
  BY <1>4, BinStays DEF Orderly
<1>8. Listing'
  <2>1. \A r \in Rows : Live(r) /\ IsFile(r) => bucket[rows[r].path] # None  BY <1>1, <1>5 DEF Listing, Moving
  <2> QED  BY <1>1, <1>4, <1>6, <2>1, LiveKinds, ObjectKinds, StillListed DEF Orderly, Live
<1>9. Marked'  BY <1>4, <1>5, <1>6, ObjectKinds, KeyKinds, StillMarked DEF Orderly
<1>10. Clear' /\ Restorable'  BY <1>5, NothingRestored DEF Clear
<1>11. Held'  BY <1>3, <1>5, <1>6, ObjectKinds DEF Held
<1>12. Reachable'
  <2>1. \A c \in kept : Listed(c) => Listed(c)'  BY <1>1, <1>3, <1>4, <1>6, KeyKinds, StillLive
  <2>2. \A c \in kept : ~OnTheWay(c)  BY <1>5 DEF OnTheWay
  <2> QED  BY <1>4, <1>7, <2>1, <2>2, StillReachable
<1> QED  BY <1>7, <1>8, <1>9, <1>10, <1>11, <1>12 DEF ListingInv

LEMMA EnsureRowListing ==
    ASSUME Orderly, EnsureRow
    PROVE  ListingInv'
<1>1. TypeOK /\ MarkerKeys /\ Listing /\ Marked /\ kept \subseteq Contents  BY OrderlyFacts DEF TypeOK
<1>2. PICK k : k = op.key  OBVIOUS
<1>3. op.step = "ensure" /\ k \in Markers /\ k \in Keys /\ bucket[k] # None
  BY <1>2, OrderlyFacts, KeyKinds DEF RequestTypes, Held, EnsureRow
<1>4. op' = Idle /\ UNCHANGED <<bin, items, record, clock, purge, batch, kept>>  BY DEF EnsureRow, Done
<1>5. Clear' /\ Held' /\ Restorable' /\ \A r \in Rows : ~Moving(r)'  BY <1>4, NothingAsked
<1>6. \A c \in kept : ~OnTheWay(c)  BY <1>3 DEF OnTheWay
<1>7. \A r \in Rows : Live(r) /\ IsFile(r) => bucket[rows[r].path] # None /\ rows[r].path \in Files
  BY <1>1, <1>3, LiveKinds DEF Listing, Moving, Live
<1>8. CASE rows' = rows /\ \A q \in Keys : bucket'[q] = bucket[q] \/ (q = k /\ LiveAt(k) = {})
  <2>1. HiddenRows' /\ OneItem' /\ NothingHidden' /\ PurgedBytes' /\ ItemKeys' /\ HiddenBytes' /\ \A c : InItem(c) => InItem(c)'
    BY <1>4, <1>8, BinStays DEF Orderly
  <2>2. Listing'  BY <1>3, <1>7, <1>8, KeyKinds, StillListed DEF Orderly
  <2>3. Marked'
    <3>1. ASSUME NEW r \in Rows, NEW i \in items', Live(r)', rows'[r].path \in Markers, record'[i].path = rows'[r].path
          PROVE  bucket'[rows'[r].path] # None
      <4>1. Live(r) /\ i \in items /\ bucket[rows[r].path] # None
        BY <1>1, <1>3, <1>4, <1>8, <3>1 DEF Marked, Live
      <4>2. rows[r].path \in Keys /\ r \in LiveAt(rows[r].path)  BY <1>1, <4>1, LiveKinds DEF Live, LiveAt
      <4> QED  BY <1>8, <4>1, <4>2
    <3> QED  BY <3>1 DEF Marked
  <2>4. Reachable'
    <3>1. \A c \in kept : Listed(c) => Listed(c)'  BY <1>1, <1>3, <1>8, KeyKinds, StillLive
    <3> QED  BY <1>4, <1>6, <2>1, <3>1, StillReachable
  <2> QED  BY <1>5, <2>1, <2>2, <2>3, <2>4 DEF ListingInv
<1>9. CASE AddRow(k) /\ LiveAt(k) = {} /\ bucket' = bucket
  <2>1. /\ Listing'
        /\ \A r \in Rows : Hidden(r) \/ Hidden(r)' => rows'[r] = rows[r]
        /\ \A r \in Rows : Live(r) => rows'[r] = rows[r]
        /\ \E r \in Rows : /\ rows[r] = None /\ Live(r)' /\ rows'[r].path = k
                           /\ \A s \in Rows : s # r => rows'[s] = rows[s]
    BY <1>1, <1>3, <1>7, <1>9, RowListed DEF Orderly
  <2>2. HiddenRows' /\ OneItem' /\ NothingHidden' /\ PurgedBytes' /\ ItemKeys' /\ HiddenBytes' /\ \A c : InItem(c) => InItem(c)'
    BY <1>4, <2>1, BinStays DEF Orderly
  <2>3. Marked'
    <3>1. ASSUME NEW r \in Rows, NEW i \in items', Live(r)', rows'[r].path \in Markers, record'[i].path = rows'[r].path
          PROVE  bucket'[rows'[r].path] # None
      <4>1. CASE rows'[r] = rows[r]
        <5>1. Live(r)  BY <3>1, <4>1 DEF Live
        <5> QED  BY <1>1, <1>3, <1>4, <1>9, <3>1, <4>1, <5>1 DEF Marked
      <4> QED  BY <1>3, <1>9, <2>1, <4>1
    <3> QED  BY <3>1 DEF Marked
  <2>4. Reachable'
    <3>1. \A c \in kept : Listed(c) => Listed(c)'  BY <1>1, <1>9, <2>1, StillLive
    <3> QED  BY <1>4, <1>6, <2>2, <3>1, StillReachable
  <2> QED  BY <1>5, <2>1, <2>2, <2>3, <2>4 DEF ListingInv
<1>10. Object(k, None) => \A q \in Keys : bucket'[q] = IF q = k THEN None ELSE bucket[q]
  BY <1>1, <1>3, ObjectPut, ObjectKinds
<1>11. ~Damage  BY OrderlyFacts
<1> QED  BY <1>2, <1>8, <1>9, <1>10, <1>11 DEF EnsureRow, Recorded

LEMMA UploadListing ==
    ASSUME Orderly, NEW path \in Folders \X Names, NEW c \in Contents, Upload(path, c)
    PROVE  ListingInv'
<1>1. TypeOK /\ MarkerKeys /\ Listing /\ kept \subseteq Contents  BY OrderlyFacts DEF TypeOK
<1>2. path \in Files /\ path \in Keys /\ path[1] \in Folders  BY KeyKinds DEF Files
<1>3. op = Idle /\ op.step = "idle" /\ UNCHANGED <<bin, rows, items, record, clock, purge, batch, kept>>
  BY IdleType DEF Upload, Ready
<1>4. PICK r \in IF LiveAt(path) = {} THEN {None} ELSE LiveAt(path) :
          \/ /\ Known(r) /\ bucket[path] # None
             /\ \E v \in FreshName :
                   /\ Object(<<path[1], v>>, bucket[path])
                   /\ op' = [Idle EXCEPT !.step = "archive row", !.key = path, !.row = r,
                                         !.content = c, !.from = <<path[1], v>>]
          \/ /\ ~Known(r)
             /\ op' = [Idle EXCEPT !.step = "put", !.key = path, !.row = r, !.content = c]
             /\ UNCHANGED bucket
  BY DEF Upload
<1>5. HiddenRows' /\ OneItem' /\ NothingHidden' /\ PurgedBytes' /\ ItemKeys' /\ HiddenBytes' /\ \A d : InItem(d) => InItem(d)'
  BY <1>3, BinStays DEF Orderly
<1>6. \A d \in kept : ~OnTheWay(d)  BY <1>3 DEF OnTheWay
<1>7. \A s \in Rows : Live(s) /\ IsFile(s) => bucket[rows[s].path] # None /\ rows[s].path \in Files
  BY <1>1, <1>3, LiveKinds DEF Listing, Moving, Live
<1>8. ASSUME op'.step \in {"archive row", "put"}, Clear',
             \A q \in Keys : bucket'[q] = bucket[q] \/ (bucket[q] = None /\ bucket'[q] # None)
      PROVE  ListingInv'
  <2>1. Listing'  BY <1>3, <1>7, <1>8, KeyKinds, StillListed DEF Orderly
  <2>2. Marked'  BY <1>3, <1>8, KeyKinds, StillMarked DEF Orderly
  <2>3. Held' /\ Restorable'  BY <1>8, NothingRestored DEF Held
  <2>4. Reachable'
    <3>1. \A d \in kept : Listed(d) => Listed(d)'  BY <1>1, <1>3, <1>8, KeyKinds, ObjectKinds, StillLive
    <3> QED  BY <1>3, <1>5, <1>6, <3>1, StillReachable
  <2> QED  BY <1>5, <1>8, <2>1, <2>2, <2>3, <2>4 DEF ListingInv
<1>9. CASE Known(r)
  <2>1. PICK v \in FreshName : /\ Object(<<path[1], v>>, bucket[path])
                               /\ op' = [Idle EXCEPT !.step = "archive row", !.key = path, !.row = r,
                                                     !.content = c, !.from = <<path[1], v>>]
    BY <1>4, <1>9
  <2>2. PICK k : k = <<path[1], v>>  OBVIOUS
  <2>3. k \in Keys
    <3>1. v \in Versions  BY DEF FreshName
    <3>2. k \in Files  BY <1>2, <2>2, <3>1 DEF Files
    <3> QED  BY <3>2, KeyKinds
  <2>4. bucket[k] = None /\ \A s \in Rows : rows[s] # None => rows[s].path # k
    BY <1>2, <2>2 DEF FreshName
  <2>5. op'.step = "archive row" /\ op'.key = path /\ op'.row = r /\ op'.from = k
    BY <2>1, <2>2, IdleType DEF Idle
  <2>6. \A q \in Keys : bucket'[q] = IF q = k THEN bucket[path] ELSE bucket[q]
    <3>1. bucket[path] \in Objects  BY <1>1, <1>2 DEF TypeOK
    <3> QED  BY <1>1, <2>1, <2>2, <2>3, <3>1, ObjectPut
  <2>7. bucket[path] # None  BY <1>4, <1>9
  <2>8. r \in LiveAt(path)  BY <1>4, <1>9 DEF Known
  <2>9. r \in LiveAt(path)'  BY <1>3, <2>8, SameRows
  <2>10. Clear'  BY <1>3, <2>4, <2>5, <2>9 DEF Clear, LiveAt
  <2> QED  BY <1>8, <2>4, <2>5, <2>6, <2>7, <2>10
<1>10. CASE ~Known(r)
  <2>1. op'.step = "put" /\ op'.row = None /\ bucket' = bucket  BY <1>4, <1>10, IdleType DEF Idle, Known
  <2>2. Clear'  BY <2>1 DEF Clear
  <2> QED  BY <1>8, <2>1, <2>2
<1> QED  BY <1>9, <1>10

LEMMA ArchiveRowListing ==
    ASSUME Orderly, ArchiveRow
    PROVE  ListingInv'
<1>1. TypeOK /\ MarkerKeys /\ Listing /\ Marked /\ kept \subseteq Contents  BY OrderlyFacts DEF TypeOK
<1>2. PICK k, f, n : k = op.key /\ f = op.from /\ n = op.row  OBVIOUS
<1>3. /\ op.step = "archive row" /\ k \in Files /\ f \in Files /\ f # k /\ bucket[f] = bucket[k]
      /\ k \in Keys /\ f \in Keys
      /\ n \in LiveAt(k) /\ \A r \in Rows : rows[r] # None => rows[r].path # f
  BY <1>2, OrderlyFacts, KeyKinds DEF RequestTypes, Copies, Clear, ArchiveRow
<1>4. UNCHANGED <<bin, items, record, clock, purge, batch, kept>>  BY DEF ArchiveRow
<1>5. \A c \in kept : ~OnTheWay(c)  BY <1>3 DEF OnTheWay
<1>6. \A r \in Rows : Live(r) /\ IsFile(r) => bucket[rows[r].path] # None /\ rows[r].path \in Files
  BY <1>1, <1>3, LiveKinds DEF Listing, Moving, Live
<1>7. LiveAt(f) = {}  BY <1>3 DEF LiveAt, Live
<1>8. CASE AddRow(f) /\ Goto("put") /\ UNCHANGED bucket
  <2>1. op'.step = "put" /\ op'.key = k /\ op'.from = f /\ op'.row = n
    BY <1>1, <1>2, <1>8, GoneTo DEF Steps
  <2>2. bucket[f] # None
    <3>1. n \in Rows /\ Live(n) /\ rows[n].path = k  BY <1>3 DEF LiveAt
    <3>2. IsFile(n)  BY <1>3, <3>1, KeyKinds DEF IsFile
    <3> QED  BY <1>3, <1>6, <3>1, <3>2
  <2>3. /\ Listing'
        /\ \A r \in Rows : Hidden(r) \/ Hidden(r)' => rows'[r] = rows[r]
        /\ \A r \in Rows : Live(r) => rows'[r] = rows[r]
        /\ \E r \in Rows : /\ rows[r] = None /\ Live(r)' /\ rows'[r].path = f
                           /\ \A s \in Rows : s # r => rows'[s] = rows[s]
        /\ \A q : LiveAt(q) \subseteq LiveAt(q)'
    BY <1>1, <1>3, <1>6, <1>7, <1>8, <2>2, RowListed DEF Orderly
  <2>4. HiddenRows' /\ OneItem' /\ NothingHidden' /\ PurgedBytes' /\ ItemKeys' /\ HiddenBytes' /\ \A c : InItem(c) => InItem(c)'
    BY <1>4, <2>3, BinStays DEF Orderly
  <2>5. Marked'
    <3>1. ASSUME NEW r \in Rows, NEW i \in items', Live(r)', rows'[r].path \in Markers, record'[i].path = rows'[r].path
          PROVE  bucket'[rows'[r].path] # None
      <4>1. rows'[r] = rows[r]  BY <1>3, <2>3, <3>1, KeyKinds
      <4>2. Live(r)  BY <3>1, <4>1 DEF Live
      <4> QED  BY <1>1, <1>3, <1>4, <1>8, <3>1, <4>1, <4>2 DEF Marked
    <3> QED  BY <3>1 DEF Marked
  <2>6. Clear'
    <3>1. n \in LiveAt(k)' /\ LiveAt(f)' # {}  BY <1>3, <2>3 DEF LiveAt
    <3> QED  BY <2>1, <3>1 DEF Clear
  <2>7. Held' /\ Restorable'  BY <2>1, NothingRestored DEF Held
  <2>8. Reachable'
    <3>1. \A c \in kept : Listed(c) => Listed(c)'  BY <1>1, <1>8, <2>3, StillLive
    <3> QED  BY <1>4, <1>5, <2>4, <3>1, StillReachable
  <2> QED  BY <2>3, <2>4, <2>5, <2>6, <2>7, <2>8 DEF ListingInv
<1>9. CASE Object(f, None) /\ op' = Idle /\ UNCHANGED rows
  <2>1. \A q \in Keys : bucket'[q] = IF q = f THEN None ELSE bucket[q]  BY <1>1, <1>3, <1>9, ObjectPut, ObjectKinds
  <2>2. HiddenRows' /\ OneItem' /\ NothingHidden' /\ PurgedBytes' /\ ItemKeys' /\ HiddenBytes' /\ \A c : InItem(c) => InItem(c)'
    BY <1>4, <1>9, BinStays DEF Orderly
  <2>3. Clear' /\ Held' /\ Restorable'  BY <1>9, NothingAsked
  <2>4. Listing'  BY <1>3, <1>6, <1>9, <2>1, KeyKinds, StillListed DEF Orderly, Live
  <2>5. Marked'  BY <1>3, <1>4, <1>9, <2>1, KeyKinds, StillMarked DEF Orderly
  <2>6. Reachable'
    <3>1. \A c \in kept : Listed(c) => Listed(c)'  BY <1>1, <1>7, <1>9, <2>1, KeyKinds, StillLive
    <3> QED  BY <1>4, <1>5, <2>2, <3>1, StillReachable
  <2> QED  BY <2>2, <2>3, <2>4, <2>5, <2>6 DEF ListingInv
<1> QED  BY <1>2, <1>8, <1>9 DEF ArchiveRow, Done

\* A new version over a listed file: its old one is listed under the other name.
LEMMA PutObjectListing ==
    ASSUME Orderly, PutObject
    PROVE  ListingInv'
<1>1. TypeOK /\ MarkerKeys /\ Listing /\ kept \subseteq Contents  BY OrderlyFacts DEF TypeOK
<1>2. PICK k, f, n : k = op.key /\ f = op.from /\ n = op.row  OBVIOUS
<1>3. /\ op.step = "put" /\ k \in Files /\ k \in Keys /\ op.content \in Contents /\ op.content \in Objects
      /\ op.content # None
      /\ n = None => LiveAt(k) = {}
      /\ n # None => f \in Keys /\ f # k /\ bucket[f] = bucket[k] /\ LiveAt(f) # {} /\ n \in LiveAt(k)
  <2>1. op.step = "put"  BY DEF PutObject
  <2>2. k \in Files /\ op.content \in Contents  BY <1>2, <2>1, OrderlyFacts DEF RequestTypes
  <2>3. n = None => LiveAt(k) = {}  BY <1>2, <2>1, OrderlyFacts DEF Copies
  <2>4. n # None => f \in Keys /\ f # k /\ bucket[f] = bucket[k] /\ LiveAt(f) # {} /\ n \in LiveAt(k)
    BY <1>2, <2>1, OrderlyFacts, KeyKinds DEF Copies, Clear
  <2> QED  BY <2>1, <2>2, <2>3, <2>4, KeyKinds, ObjectKinds
<1>4. UNCHANGED <<bin, rows, items, record, clock, purge, batch, kept>>  BY DEF PutObject
<1>5. HiddenRows' /\ OneItem' /\ NothingHidden' /\ PurgedBytes' /\ ItemKeys' /\ HiddenBytes' /\ \A c : InItem(c) => InItem(c)'
  BY <1>4, BinStays DEF Orderly
<1>6. \A c \in kept : ~OnTheWay(c)  BY <1>3 DEF OnTheWay
<1>7. \A r \in Rows : Live(r) /\ IsFile(r) => bucket[rows[r].path] # None /\ rows[r].path \in Files
  BY <1>1, <1>3, LiveKinds DEF Listing, Moving, Live
<1>8. CASE Object(k, op.content) /\ Goto(IF n = None THEN "create row" ELSE "content")
  <2>1. PICK s \in {"create row", "content"} : s = IF n = None THEN "create row" ELSE "content"  OBVIOUS
  <2>2. op'.step = s /\ op'.key = k /\ op'.row = n /\ op'.content = op.content
    BY <1>1, <1>2, <1>8, <2>1, GoneTo DEF Steps
  <2>3. \A q \in Keys : bucket'[q] = IF q = k THEN op.content ELSE bucket[q]
    BY <1>1, <1>3, <1>8, ObjectPut
  <2>4. Listing'  BY <1>3, <1>4, <1>7, <2>3, KeyKinds, StillListed DEF Orderly
  <2>5. Marked'  BY <1>3, <1>4, <2>3, KeyKinds, StillMarked DEF Orderly
  <2>6. Restorable'  BY <2>2, NothingRestored
  <2>7. LiveAt(k)' = LiveAt(k)  BY <1>4, SameRows
  <2>8. Clear'  BY <1>3, <2>1, <2>2, <2>7 DEF Clear
  <2>9. Held'  BY <1>3, <2>1, <2>2, <2>3 DEF Held
  <2>10. Reachable'
    <3>1. ASSUME NEW c \in kept, Listed(c) PROVE Listed(c)'
      <4>1. PICK r \in Rows : Live(r) /\ bucket[rows[r].path] = c  BY <3>1 DEF Listed
      <4>2. rows[r].path \in Keys  BY <1>1, <4>1, LiveKinds DEF Live
      <4>3. Live(r)'  BY <1>4, <4>1, SameRows
      <4>4. CASE rows[r].path # k  BY <1>4, <2>3, <4>1, <4>2, <4>3, <4>4 DEF Listed
      <4>5. CASE rows[r].path = k
        <5>1. r \in LiveAt(k)  BY <4>1, <4>5 DEF LiveAt
        <5>2. PICK m \in LiveAt(f) : TRUE  BY <1>3, <5>1
        <5>3. m \in Rows /\ Live(m)' /\ rows[m].path = f  BY <1>4, <5>2, SameRows DEF LiveAt
        <5>4. bucket'[f] = c  BY <1>3, <2>3, <4>1, <4>5, <5>1
        <5> QED  BY <1>4, <5>3, <5>4 DEF Listed
      <4> QED  BY <4>4, <4>5
    <3> QED  BY <1>4, <1>5, <1>6, <3>1, StillReachable
  <2> QED  BY <1>5, <2>4, <2>5, <2>6, <2>8, <2>9, <2>10 DEF ListingInv
<1>9. CASE op' = Idle /\ UNCHANGED bucket
  <2>1. Clear' /\ Held' /\ Restorable'  BY <1>9, NothingAsked
  <2>2. Listing'  BY <1>4, <1>7, <1>9, StillListed DEF Orderly
  <2>3. Marked'  BY <1>3, <1>4, <1>9, StillMarked DEF Orderly
  <2>4. Reachable'
    <3>1. \A c \in kept : Listed(c) => Listed(c)'  BY <1>1, <1>4, <1>9, StillLive
    <3> QED  BY <1>4, <1>5, <1>6, <3>1, StillReachable
  <2> QED  BY <1>5, <2>1, <2>2, <2>3, <2>4 DEF ListingInv
<1> QED  BY <1>2, <1>8, <1>9 DEF PutObject, Done

LEMMA RecordUploadListing ==
    ASSUME Orderly, RecordUpload
    PROVE  ListingInv'
<1>1. TypeOK /\ MarkerKeys /\ Listing /\ Marked /\ Reachable /\ kept \subseteq Contents
  BY OrderlyFacts DEF TypeOK
<1>2. PICK k, n : k = op.key /\ n = op.row  OBVIOUS
<1>3. /\ op.step \in {"content", "create row"} /\ k \in Files /\ k \in Keys /\ op.content \in Contents
      /\ bucket[k] = op.content /\ op.content # None
      /\ op.step = "content" => n \in LiveAt(k)
      /\ op.step = "create row" => LiveAt(k) = {}
  <2>1. op.step \in {"content", "create row"}  BY DEF RecordUpload
  <2>2. k \in Files /\ op.content \in Contents  BY <1>2, <2>1, OrderlyFacts DEF RequestTypes
  <2>3. bucket[k] = op.content  BY <1>2, <2>1, OrderlyFacts DEF Copies, Held
  <2>4. /\ op.step = "content" => n \in LiveAt(k)
        /\ op.step = "create row" => LiveAt(k) = {}
    BY <1>2, OrderlyFacts DEF Clear
  <2> QED  BY <2>1, <2>2, <2>3, <2>4, KeyKinds, ObjectKinds
<1>4. op' = Idle /\ UNCHANGED <<bin, items, record, clock, purge, batch>>  BY DEF RecordUpload, Done
<1>5. Clear' /\ Held' /\ Restorable' /\ \A r \in Rows : ~Moving(r)'  BY <1>4, NothingAsked
<1>6. \A c \in kept : ~OnTheWay(c)  BY <1>3 DEF OnTheWay
<1>7. \A r \in Rows : Live(r) /\ IsFile(r) => bucket[rows[r].path] # None /\ rows[r].path \in Files
  BY <1>1, <1>3, LiveKinds DEF Listing, Moving, Live
<1>8. ASSUME rows' = rows, kept' = kept \/ (op.step = "content" /\ kept' = kept \cup {op.content}),
             \A q \in Keys : bucket'[q] = bucket[q] \/ (q = k /\ LiveAt(k) = {})
      PROVE  ListingInv'
  <2>1. HiddenRows' /\ OneItem' /\ NothingHidden' /\ PurgedBytes' /\ ItemKeys' /\ HiddenBytes' /\ \A c : InItem(c) => InItem(c)'
    BY <1>4, <1>8, BinStays DEF Orderly
  <2>2. Listing'
    <3>1. \A r \in Rows : Live(r) => r \in LiveAt(rows[r].path)  BY DEF LiveAt
    <3> QED  BY <1>7, <1>8, <3>1, KeyKinds, StillListed DEF Orderly
  <2>3. Marked'
    <3>1. \A q \in Markers : bucket'[q] = bucket[q]  BY <1>3, <1>8, KeyKinds
    <3> QED  BY <1>3, <1>4, <1>8, <3>1, StillMarked DEF Orderly
  <2>4. ASSUME NEW c \in kept' PROVE Listed(c)' \/ InItem(c)'
    <3>1. ASSUME c \in kept PROVE Listed(c)' \/ InItem(c)'
      <4>1. Listed(c) => Listed(c)'  BY <1>1, <1>8, <3>1, KeyKinds, StillLive
      <4> QED  BY <1>1, <1>6, <2>1, <3>1, <4>1 DEF Reachable
    <3>2. ASSUME c = op.content, op.step = "content" PROVE Listed(c)'
      <4>1. n \in Rows /\ Live(n) /\ rows[n].path = k /\ LiveAt(k) # {}  BY <1>3, <3>2 DEF LiveAt
      <4>2. Live(n)' /\ rows'[n].path = k /\ bucket'[k] = c  BY <1>3, <1>8, <3>2, <4>1, SameRows
      <4> QED  BY <4>1, <4>2 DEF Listed
    <3> QED  BY <1>8, <2>4, <3>1, <3>2
  <2> QED  BY <1>5, <2>1, <2>2, <2>3, <2>4 DEF ListingInv, Reachable
<1>9. CASE op.step = "create row" /\ AddRow(k) /\ kept' = kept \cup {op.content} /\ bucket' = bucket
  <2>1. /\ Listing'
        /\ \A r \in Rows : Hidden(r) \/ Hidden(r)' => rows'[r] = rows[r]
        /\ \A r \in Rows : Live(r) => rows'[r] = rows[r]
        /\ \E r \in Rows : /\ rows[r] = None /\ Live(r)' /\ rows'[r].path = k
                           /\ \A s \in Rows : s # r => rows'[s] = rows[s]
    BY <1>1, <1>3, <1>7, <1>9, RowListed DEF Orderly
  <2>2. HiddenRows' /\ OneItem' /\ NothingHidden' /\ PurgedBytes' /\ ItemKeys' /\ HiddenBytes' /\ \A c : InItem(c) => InItem(c)'
    BY <1>4, <2>1, BinStays DEF Orderly
  <2>3. Marked'
    <3>1. ASSUME NEW r \in Rows, NEW i \in items', Live(r)', rows'[r].path \in Markers, record'[i].path = rows'[r].path
          PROVE  bucket'[rows'[r].path] # None
      <4>1. rows'[r] = rows[r]  BY <1>3, <2>1, <3>1, KeyKinds
      <4>2. Live(r)  BY <3>1, <4>1 DEF Live
      <4> QED  BY <1>1, <1>3, <1>4, <1>9, <3>1, <4>1, <4>2 DEF Marked
    <3> QED  BY <3>1 DEF Marked
  <2>4. ASSUME NEW c \in kept' PROVE Listed(c)' \/ InItem(c)'
    <3>1. ASSUME c \in kept PROVE Listed(c)' \/ InItem(c)'
      <4>1. Listed(c) => Listed(c)'  BY <1>1, <1>9, <2>1, <3>1, StillLive
      <4> QED  BY <1>1, <1>6, <2>2, <3>1, <4>1 DEF Reachable
    <3>2. ASSUME c = op.content PROVE Listed(c)'  BY <1>3, <1>9, <2>1, <3>2 DEF Listed
    <3> QED  BY <1>9, <2>4, <3>1, <3>2
  <2> QED  BY <1>5, <2>1, <2>2, <2>3, <2>4 DEF ListingInv, Reachable
<1>10. Object(k, None) => \A q \in Keys : bucket'[q] = IF q = k THEN None ELSE bucket[q]
  BY <1>1, <1>3, ObjectPut, ObjectKinds
<1> QED  BY <1>2, <1>3, <1>8, <1>9, <1>10 DEF RecordUpload

-----------------------------------------------------------------------------
(* Moves *)

\* No file is listed at the key of a file that is vacant.
LEMMA VacantUnlisted ==
    ASSUME Orderly, op = Idle, NEW k \in Files, Vacant(k)
    PROVE  bucket[k] = None /\ LiveAt(k) = {}
<1>1. bucket[k] = None  BY DEF Vacant, Orderly
<1>2. ASSUME NEW r \in LiveAt(k) PROVE FALSE
  <2>1. r \in Rows /\ Live(r) /\ rows[r].path = k  BY <1>2 DEF LiveAt
  <2>2. IsFile(r)  BY <2>1, KeyKinds DEF IsFile
  <2> QED  BY <1>1, <2>1, <2>2, IdleType, OrderlyFacts DEF Listing, Moving
<1> QED  BY <1>1, <1>2

LEMMA MoveListing ==
    ASSUME Orderly, NEW r \in Rows, NEW p \in Folders, Move(r, p)
    PROVE  ListingInv'
<1>1. TypeOK /\ MarkerKeys /\ Listing /\ kept \subseteq Contents  BY OrderlyFacts DEF TypeOK
<1>2. PICK src, dst : src = rows[r].path /\ dst = <<p, rows[r].path[2]>>  OBVIOUS
<1>3. /\ op = Idle /\ op.step = "idle" /\ Live(r) /\ IsFile(r) /\ p # src[1] /\ bucket[src] # None /\ Vacant(dst)
      /\ Object(dst, bucket[src])
      /\ op' = [Idle EXCEPT !.step = "delete source", !.key = dst, !.from = src, !.row = r]
      /\ UNCHANGED <<bin, rows, items, record, clock, purge, batch, kept>>
  BY <1>2, IdleType DEF Move, Ready
<1>4. src \in Files /\ dst \in Files /\ src # dst /\ src \in Keys /\ dst \in Keys
  <2>1. src \in Files  BY <1>1, <1>2, <1>3, LiveKinds DEF Live
  <2>2. dst \in Files /\ src # dst  BY <1>2, <1>3, <2>1 DEF Files
  <2> QED  BY <2>1, <2>2, KeyKinds
<1>5. op'.step = "delete source" /\ op'.key = dst /\ op'.from = src /\ op'.row = r
  BY <1>3, IdleType DEF Idle
<1>6. \A q \in Keys : bucket'[q] = IF q = dst THEN bucket[src] ELSE bucket[q]
  <2>1. bucket[src] \in Objects  BY <1>1, <1>4 DEF TypeOK
  <2> QED  BY <1>1, <1>3, <1>4, <2>1, ObjectPut
<1>7. bucket[dst] = None /\ LiveAt(dst) = {}  BY <1>3, <1>4, VacantUnlisted
<1>8. HiddenRows' /\ OneItem' /\ NothingHidden' /\ PurgedBytes' /\ ItemKeys' /\ HiddenBytes' /\ \A c : InItem(c) => InItem(c)'
  BY <1>3, BinStays DEF Orderly
<1>9. Listing'
  <2>1. \A s \in Rows : Live(s) /\ IsFile(s) => bucket[rows[s].path] # None /\ rows[s].path \in Keys
    BY <1>1, <1>3, LiveKinds DEF Listing, Moving, Live
  <2> QED  BY <1>3, <1>6, <2>1, StillListed DEF Orderly
<1>10. Marked'  BY <1>3, <1>4, <1>6, KeyKinds, StillMarked DEF Orderly
<1>11. Restorable'  BY <1>5, NothingRestored
<1>12. Clear'
  <2>1. LiveAt(dst)' = {} /\ r \in LiveAt(src)'  BY <1>2, <1>3, <1>7, SameRows DEF LiveAt
  <2> QED  BY <1>5, <2>1 DEF Clear
<1>13. Held'  BY <1>3, <1>4, <1>5, <1>6 DEF Held
<1>14. Reachable'
  <2>1. \A c \in kept : Listed(c) => Listed(c)'  BY <1>1, <1>3, <1>6, <1>7, KeyKinds, StillLive
  <2>2. \A c \in kept : ~OnTheWay(c)  BY <1>3 DEF OnTheWay
  <2> QED  BY <1>3, <1>8, <2>1, <2>2, StillReachable
<1> QED  BY <1>8, <1>9, <1>10, <1>11, <1>12, <1>13, <1>14 DEF ListingInv

LEMMA DeleteSourceListing ==
    ASSUME Orderly, DeleteSource
    PROVE  ListingInv'
<1>1. TypeOK /\ MarkerKeys /\ Listing /\ kept \subseteq Contents  BY OrderlyFacts DEF TypeOK
<1>2. PICK k, f, n : k = op.key /\ f = op.from /\ n = op.row  OBVIOUS
<1>3. /\ op.step = "delete source" /\ k \in Files /\ f \in Files /\ f # k /\ bucket[f] = bucket[k]
      /\ k \in Keys /\ f \in Keys /\ n \in LiveAt(f) /\ LiveAt(k) = {} /\ bucket[k] # None
  <2>1. op.step = "delete source"  BY DEF DeleteSource
  <2>2. k \in Files  BY <1>2, <2>1, OrderlyFacts DEF RequestTypes
  <2>3. f \in Files /\ f # k /\ bucket[f] = bucket[k]  BY <1>2, <2>1, OrderlyFacts DEF Copies
  <2>4. n \in LiveAt(f) /\ LiveAt(k) = {}  BY <1>2, <2>1, OrderlyFacts DEF Clear
  <2>5. bucket[k] # None  BY <1>2, <2>1, OrderlyFacts DEF Held
  <2> QED  BY <2>1, <2>2, <2>3, <2>4, <2>5, KeyKinds
<1>4. UNCHANGED <<bin, rows, items, record, clock, purge, batch, kept>>  BY DEF DeleteSource
<1>5. HiddenRows' /\ OneItem' /\ NothingHidden' /\ PurgedBytes' /\ ItemKeys' /\ HiddenBytes' /\ \A c : InItem(c) => InItem(c)'
  BY <1>4, BinStays DEF Orderly
<1>6. \A c \in kept : ~OnTheWay(c)  BY <1>3 DEF OnTheWay
<1>7. \A r \in Rows : Live(r) /\ IsFile(r) => bucket[rows[r].path] # None /\ rows[r].path \in Files
  BY <1>1, <1>3, LiveKinds DEF Listing, Moving, Live
<1>8. CASE Object(f, None) /\ Goto("location")
  <2>1. op'.step = "location" /\ op'.key = k /\ op'.row = n  BY <1>1, <1>2, <1>8, GoneTo DEF Steps
  <2>2. \A q \in Keys : bucket'[q] = IF q = f THEN None ELSE bucket[q]  BY <1>1, <1>3, <1>8, ObjectPut, ObjectKinds
  <2>3. n \in Rows /\ Live(n) /\ rows[n].path = f  BY <1>3 DEF LiveAt
  <2>4. \A r \in Rows : Live(r) /\ rows[r].path = f => r = n  BY <1>1, <2>3 DEF Listing
  <2>5. Listing'
    <3>1. ASSUME NEW r \in Rows, Live(r), IsFile(r), ~Moving(r)' PROVE bucket'[rows[r].path] # None
      <4>1. r # n  BY <2>1, <3>1 DEF Moving
      <4> QED  BY <1>7, <2>2, <2>4, <3>1, <4>1, KeyKinds
    <3> QED  BY <1>4, <3>1, StillListed DEF Orderly
  <2>6. Marked'  BY <1>3, <1>4, <2>2, KeyKinds, StillMarked DEF Orderly
  <2>7. Restorable'  BY <2>1, NothingRestored
  <2>8. Clear'
    <3>1. LiveAt(k)' = {}  BY <1>3, <1>4, SameRows
    <3> QED  BY <2>1, <3>1 DEF Clear
  <2>9. Held'  BY <1>3, <1>4, <2>1, <2>2, <2>3 DEF Held
  <2>10. Reachable'
    <3>1. ASSUME NEW c \in kept, Listed(c) PROVE Listed(c)' \/ OnTheWay(c)'
      <4>1. PICK r \in Rows : Live(r) /\ bucket[rows[r].path] = c  BY <3>1 DEF Listed
      <4>2. rows[r].path \in Keys /\ Live(r)'  BY <1>1, <1>4, <4>1, LiveKinds, SameRows DEF Live
      <4>3. CASE rows[r].path # f  BY <1>4, <2>2, <4>1, <4>2, <4>3 DEF Listed
      <4>4. CASE rows[r].path = f
        <5>1. bucket'[k] = c  BY <1>3, <2>2, <4>1, <4>4
        <5> QED  BY <2>1, <5>1 DEF OnTheWay
      <4> QED  BY <4>3, <4>4
    <3> QED  BY <1>4, <1>5, <1>6, <3>1, StillReachable
  <2> QED  BY <1>5, <2>5, <2>6, <2>7, <2>8, <2>9, <2>10 DEF ListingInv
<1>9. CASE Object(k, None) /\ op' = Idle
  <2>1. \A q \in Keys : bucket'[q] = IF q = k THEN None ELSE bucket[q]  BY <1>1, <1>3, <1>9, ObjectPut, ObjectKinds
  <2>2. Clear' /\ Held' /\ Restorable'  BY <1>9, NothingAsked
  <2>3. Listing'
    <3>1. \A r \in Rows : Live(r) => r \in LiveAt(rows[r].path)  BY DEF LiveAt
    <3> QED  BY <1>3, <1>4, <1>7, <2>1, <3>1, KeyKinds, StillListed DEF Orderly
  <2>4. Marked'  BY <1>3, <1>4, <2>1, KeyKinds, StillMarked DEF Orderly
  <2>5. Reachable'
    <3>1. \A c \in kept : Listed(c) => Listed(c)'  BY <1>1, <1>3, <1>4, <2>1, KeyKinds, StillLive
    <3> QED  BY <1>4, <1>5, <1>6, <3>1, StillReachable
  <2> QED  BY <1>5, <2>2, <2>3, <2>4, <2>5 DEF ListingInv
<1> QED  BY <1>2, <1>8, <1>9 DEF DeleteSource, Done

LEMMA UpdateLocationListing ==
    ASSUME Orderly, UpdateLocation
    PROVE  ListingInv'
<1>1. TypeOK /\ MarkerKeys /\ Listing /\ Marked /\ kept \subseteq Contents  BY OrderlyFacts DEF TypeOK
<1>2. PICK k, n : k = op.key /\ n = op.row  OBVIOUS
<1>3. /\ op.step = "location" /\ k \in Files /\ k \in Keys /\ n \in Rows /\ Live(n)
      /\ LiveAt(k) = {} /\ bucket[k] # None /\ bucket[rows[n].path] = None
  <2>1. op.step = "location"  BY DEF UpdateLocation
  <2>2. k \in Files /\ n \in Rows /\ Live(n)  BY <1>2, <2>1, OrderlyFacts DEF RequestTypes
  <2>3. LiveAt(k) = {}  BY <1>2, <2>1, OrderlyFacts DEF Clear
  <2>4. bucket[k] # None /\ bucket[rows[n].path] = None  BY <1>2, <2>1, OrderlyFacts DEF Held
  <2> QED  BY <2>1, <2>2, <2>3, <2>4, KeyKinds
<1>4. op' = Idle /\ UNCHANGED <<bucket, bin, items, record, clock, purge, batch, kept>>  BY DEF UpdateLocation, Done
<1>5. Clear' /\ Held' /\ Restorable'  BY <1>4, NothingAsked
<1>6. rows' = [rows EXCEPT ![n].path = k]  BY <1>2, OrderlyFacts DEF UpdateLocation
<1>7. PICK m : m = [rows[n] EXCEPT !.path = k]  OBVIOUS
<1>8. rows[n] \in Row /\ rows[n].hidden = 0  BY <1>1, <1>3, RowTypes DEF Live
<1>9. m \in Row /\ m.path = k /\ m.hidden = 0  BY <1>3, <1>7, <1>8 DEF Row
<1>10. m # None  BY <1>9, NoneAssumption
<1>11. rows'[n] = m /\ \A r \in Rows : r # n => rows'[r] = rows[r]  BY <1>1, <1>3, <1>6, <1>7 DEF TypeOK
<1>12. /\ Live(n)' /\ ~Hidden(n)' /\ ~Hidden(n)
       /\ \A r \in Rows : r # n => (Live(r)' <=> Live(r)) /\ (Hidden(r)' <=> Hidden(r)) /\ (IsFile(r)' <=> IsFile(r))
  BY <1>8, <1>9, <1>10, <1>11 DEF Live, Hidden, IsFile
<1>13. \A r \in Rows : r # n /\ Live(r) => rows[r].path # k  BY <1>3 DEF LiveAt
<1>14. HiddenRows' /\ OneItem' /\ NothingHidden' /\ PurgedBytes' /\ ItemKeys' /\ HiddenBytes' /\ \A c : InItem(c) => InItem(c)'
  BY <1>4, <1>11, <1>12, BinStays DEF Orderly
<1>15. Listing'
  <2>1. ASSUME NEW r \in Rows, Live(r)', IsFile(r)' PROVE bucket[rows'[r].path] # None
    <3>1. CASE r = n  BY <1>3, <1>9, <1>11, <3>1
    <3>2. CASE r # n
      <4>1. Live(r) /\ IsFile(r) /\ ~Moving(r) /\ rows'[r] = rows[r]
        BY <1>2, <1>3, <1>11, <1>12, <2>1, <3>2 DEF Moving
      <4> QED  BY <1>1, <4>1 DEF Listing
    <3> QED  BY <3>1, <3>2
  <2>2. ASSUME NEW r \in Rows, NEW s \in Rows, Live(r)', Live(s)', rows'[r].path = rows'[s].path PROVE r = s
    <3>1. CASE r # n /\ s # n  BY <1>1, <1>11, <1>12, <2>2, <3>1 DEF Listing
    <3> QED  BY <1>9, <1>11, <1>12, <1>13, <2>2, <3>1
  <2> QED  BY <1>4, <2>1, <2>2 DEF Listing
<1>16. Marked'
  <2>1. ASSUME NEW r \in Rows, NEW i \in items', Live(r)', rows'[r].path \in Markers, record'[i].path = rows'[r].path
        PROVE  bucket'[rows'[r].path] # None
    <3>1. r # n  BY <1>3, <1>9, <1>11, <2>1, KeyKinds
    <3> QED  BY <1>1, <1>3, <1>4, <1>11, <1>12, <2>1, <3>1 DEF Marked
  <2> QED  BY <2>1 DEF Marked
<1>17. Reachable'
  <2>1. ASSUME NEW c \in kept, Listed(c) PROVE Listed(c)'
    <3>1. PICK r \in Rows : Live(r) /\ bucket[rows[r].path] = c  BY <2>1 DEF Listed
    <3>2. r # n  BY <1>1, <1>3, <2>1, <3>1, ObjectKinds
    <3> QED  BY <1>4, <1>11, <1>12, <3>1, <3>2 DEF Listed
  <2>2. ASSUME NEW c \in kept, OnTheWay(c) PROVE Listed(c)'
    <3>1. bucket[k] = c  BY <1>2, <1>3, <2>2 DEF OnTheWay
    <3>2. bucket'[rows'[n].path] = c  BY <1>4, <1>9, <1>11, <3>1
    <3> QED  BY <1>3, <1>12, <3>2 DEF Listed
  <2> QED  BY <1>4, <1>14, <2>1, <2>2, StillReachable
<1> QED  BY <1>5, <1>14, <1>15, <1>16, <1>17 DEF ListingInv

-----------------------------------------------------------------------------
(* Into the bin *)

LEMMA DeleteFileListing ==
    ASSUME Orderly, NEW r \in Rows, DeleteFile(r)
    PROVE  ListingInv'
<1>1. TypeOK /\ MarkerKeys /\ Listing /\ kept \subseteq Contents  BY OrderlyFacts DEF TypeOK
<1>2. PICK k : k = rows[r].path  OBVIOUS
<1>3. /\ op = Idle /\ op.step = "idle" /\ Live(r) /\ bucket[k] # None
      /\ UNCHANGED <<bucket, rows, items, record, clock, purge, batch, kept>>
  BY <1>2, IdleType DEF DeleteFile, Ready
<1>4. PICK i \in FreshItem :
         /\ bin' = [bin EXCEPT ![i] = Copied(bucket, NoKeys, {k})]
         /\ op' = [Idle EXCEPT !.step = "delete original", !.key = k, !.row = r, !.item = i]
  BY <1>2 DEF DeleteFile
<1>5. i \in Items /\ ~IsKnown(i)  BY <1>4 DEF FreshItem, Used, IsKnown
<1>6. op'.step = "delete original" /\ op'.key = k /\ op'.row = r /\ op'.item = i  BY <1>4, IdleType DEF Idle
<1>7. \A j \in Items : IsKnown(j) => bin'[j] = bin[j]  BY <1>1, <1>4, <1>5 DEF TypeOK
<1>8. HiddenRows' /\ OneItem' /\ NothingHidden' /\ PurgedBytes' /\ ItemKeys' /\ HiddenBytes' /\ \A c : InItem(c) => InItem(c)'
  BY <1>3, <1>7, BinStays DEF Orderly
<1>9. Listing'  BY <1>1, <1>3, StillListed DEF Orderly, Listing, Moving
<1>10. Marked'  BY <1>3, StillMarked DEF Orderly
<1>11. Restorable'  BY <1>6, NothingRestored
<1>12. Clear'
  <2>1. r \in LiveAt(k)'  BY <1>2, <1>3, SameRows DEF LiveAt
  <2> QED  BY <1>6, <2>1 DEF Clear
<1>13. Held'  BY <1>3, <1>6 DEF Held
<1>14. Reachable'
  <2>1. \A c \in kept : Listed(c) => Listed(c)'  BY <1>1, <1>3, StillLive
  <2>2. \A c \in kept : ~OnTheWay(c)  BY <1>3 DEF OnTheWay
  <2> QED  BY <1>3, <1>8, <2>1, <2>2, StillReachable
<1> QED  BY <1>8, <1>9, <1>10, <1>11, <1>12, <1>13, <1>14 DEF ListingInv

LEMMA DeleteOriginalListing ==
    ASSUME Orderly, DeleteOriginal
    PROVE  ListingInv'
<1>1. TypeOK /\ MarkerKeys /\ Listing /\ kept \subseteq Contents  BY OrderlyFacts DEF TypeOK
<1>2. PICK k, n, i : k = op.key /\ n = op.row /\ i = op.item  OBVIOUS
<1>3. /\ op.step = "delete original" /\ k \in Files /\ k \in Keys /\ i \in Items /\ ~IsKnown(i)
      /\ bin[i][k] = bucket[k] /\ (\A q \in Keys : q # k => bin[i][q] = None)
      /\ n \in LiveAt(k) /\ bucket[k] # None
  <2>1. op.step = "delete original"  BY DEF DeleteOriginal
  <2>2. k \in Files /\ i \in Items /\ ~IsKnown(i)  BY <1>2, <2>1, OrderlyFacts DEF RequestTypes
  <2>3. bin[i][k] = bucket[k] /\ \A q \in Keys : q # k => bin[i][q] = None  BY <1>2, <2>1, OrderlyFacts DEF Copies
  <2>4. n \in LiveAt(k)  BY <1>2, <2>1, OrderlyFacts DEF Clear
  <2>5. bucket[k] # None  BY <1>2, <2>1, OrderlyFacts DEF Held
  <2> QED  BY <2>1, <2>2, <2>3, <2>4, <2>5, KeyKinds
<1>4. UNCHANGED <<rows, items, record, clock, purge, batch, kept>>  BY DEF DeleteOriginal
<1>5. \A j \in Items : IsKnown(j) => bin'[j] = bin[j]  BY <1>1, <1>2, <1>3 DEF DeleteOriginal, TypeOK
<1>6. HiddenRows' /\ OneItem' /\ NothingHidden' /\ PurgedBytes' /\ ItemKeys' /\ HiddenBytes' /\ \A c : InItem(c) => InItem(c)'
  BY <1>4, <1>5, BinStays DEF Orderly
<1>7. \A c \in kept : ~OnTheWay(c)  BY <1>3 DEF OnTheWay
<1>8. \A r \in Rows : Live(r) /\ IsFile(r) => bucket[rows[r].path] # None /\ rows[r].path \in Files
  BY <1>1, <1>3, LiveKinds DEF Listing, Moving, Live
<1>9. CASE Object(k, None) /\ Goto("create item") /\ UNCHANGED bin
  <2>1. op'.step = "create item" /\ op'.key = k /\ op'.row = n /\ op'.item = i  BY <1>1, <1>2, <1>9, GoneTo DEF Steps
  <2>2. \A q \in Keys : bucket'[q] = IF q = k THEN None ELSE bucket[q]  BY <1>1, <1>3, <1>9, ObjectPut, ObjectKinds
  <2>3. n \in Rows /\ Live(n) /\ rows[n].path = k  BY <1>3 DEF LiveAt
  <2>4. \A r \in Rows : Live(r) /\ rows[r].path = k => r = n  BY <1>1, <2>3 DEF Listing
  <2>5. Listing'
    <3>1. ASSUME NEW r \in Rows, Live(r), IsFile(r), ~Moving(r)' PROVE bucket'[rows[r].path] # None
      <4>1. r # n  BY <2>1, <3>1 DEF Moving
      <4> QED  BY <1>8, <2>2, <2>4, <3>1, <4>1, KeyKinds
    <3> QED  BY <1>4, <3>1, StillListed DEF Orderly
  <2>6. Marked'  BY <1>3, <1>4, <2>2, KeyKinds, StillMarked DEF Orderly
  <2>7. Restorable'  BY <2>1, NothingRestored
  <2>8. Clear'
    <3>1. n \in LiveAt(k)'  BY <1>3, <1>4, SameRows
    <3> QED  BY <2>1, <3>1 DEF Clear
  <2>9. Held'  BY <1>3, <1>9, <2>1 DEF Held
  <2>10. Reachable'
    <3>1. ASSUME NEW c \in kept, Listed(c) PROVE Listed(c)' \/ OnTheWay(c)'
      <4>1. PICK r \in Rows : Live(r) /\ bucket[rows[r].path] = c  BY <3>1 DEF Listed
      <4>2. rows[r].path \in Keys /\ Live(r)'  BY <1>1, <1>4, <4>1, LiveKinds, SameRows DEF Live
      <4>3. CASE rows[r].path # k  BY <1>4, <2>2, <4>1, <4>2, <4>3 DEF Listed
      <4>4. CASE rows[r].path = k
        <5>1. bin'[i][k] = c  BY <1>3, <1>9, <4>1, <4>4
        <5> QED  BY <2>1, <5>1 DEF OnTheWay
      <4> QED  BY <4>3, <4>4
    <3> QED  BY <1>4, <1>6, <1>7, <3>1, StillReachable
  <2> QED  BY <1>6, <2>5, <2>6, <2>7, <2>8, <2>9, <2>10 DEF ListingInv
<1>10. CASE op' = Idle /\ UNCHANGED bucket
  <2>1. Clear' /\ Held' /\ Restorable'  BY <1>10, NothingAsked
  <2>2. Listing'  BY <1>4, <1>8, <1>10, StillListed DEF Orderly
  <2>3. Marked'  BY <1>3, <1>4, <1>10, StillMarked DEF Orderly
  <2>4. Reachable'
    <3>1. \A c \in kept : Listed(c) => Listed(c)'  BY <1>1, <1>4, <1>10, StillLive
    <3> QED  BY <1>4, <1>6, <1>7, <3>1, StillReachable
  <2> QED  BY <1>6, <2>1, <2>2, <2>3, <2>4 DEF ListingInv
<1> QED  BY <1>2, <1>9, <1>10 DEF DeleteOriginal, Done

\* The copies are back where they were.
LEMMA CopiesBack ==
    ASSUME Orderly, NEW i \in Items, i = op.item, ~IsKnown(i), NEW ks \in SUBSET Keys, CopyRecycledBack(ks)
    PROVE  /\ \A q \in Keys : bucket'[q] = IF q \in ks THEN bin[i][q] ELSE bucket[q]
           /\ \A j \in Items : IsKnown(j) => bin'[j] = bin[j]
<1>1. TypeOK  BY OrderlyFacts
<1>2. /\ bucket' = Copied(bin[i], bucket, ks)
      /\ bin' = [bin EXCEPT ![i] = Without(@, ks)]
  BY OrderlyFacts DEF CopyRecycledBack, LeftInBin
<1>3. bucket \in [Keys -> Objects] /\ bin[i] \in [Keys -> Objects]  BY <1>1 DEF TypeOK
<1>4. \A q \in Keys : bucket'[q] = IF q \in ks THEN bin[i][q] ELSE bucket[q]  BY <1>2, <1>3, CopiedType
<1>5. \A j \in Items : IsKnown(j) => bin'[j] = bin[j]  BY <1>1, <1>2 DEF TypeOK
<1> QED  BY <1>4, <1>5

LEMMA FileIsNoDir ==
    ASSUME NEW k \in Files
    PROVE  Len(k) # 1
    BY KeyKinds

LEMMA RecordItemListing ==
    ASSUME Orderly, RecordItem
    PROVE  ListingInv'
<1>1. /\ TypeOK /\ MarkerKeys /\ Listing /\ Marked /\ OneItem /\ HiddenRows /\ NothingHidden /\ ItemKeys
      /\ HiddenBytes /\ PurgedBytes /\ PurgeTypes /\ kept \subseteq Contents
  BY OrderlyFacts DEF TypeOK
<1>2. PICK k, n, i : k = op.key /\ n = op.row /\ i = op.item  OBVIOUS
<1>3. /\ op.step = "create item" /\ k \in Files /\ k \in Keys /\ i \in Items /\ ~IsKnown(i)
      /\ bucket[k] = None /\ n \in LiveAt(k) /\ bin[i][k] # None /\ \A q \in Keys : q # k => bin[i][q] = None
  <2>1. op.step = "create item"  BY DEF RecordItem
  <2>2. k \in Files /\ i \in Items /\ ~IsKnown(i)  BY <1>2, <2>1, OrderlyFacts DEF RequestTypes
  <2>3. bucket[k] = None  BY <1>2, <2>1, OrderlyFacts DEF Copies
  <2>4. n \in LiveAt(k)  BY <1>2, <2>1, OrderlyFacts DEF Clear
  <2>5. bin[i][k] # None /\ \A q \in Keys : q # k => bin[i][q] = None  BY <1>2, <2>1, OrderlyFacts DEF Held
  <2> QED  BY <2>1, <2>2, <2>3, <2>4, <2>5, KeyKinds
<1>4. UNCHANGED <<rows, clock, purge, batch, kept>>  BY DEF RecordItem
<1>5. \A c \in kept : OnTheWay(c) => bin[i][k] = c  BY <1>2, <1>3 DEF OnTheWay
<1>6. \A r \in Rows : Live(r) /\ IsFile(r) /\ r # n => bucket[rows[r].path] # None /\ rows[r].path \in Files
  BY <1>1, <1>2, <1>3, LiveKinds DEF Listing, Moving, Live
<1>7. n \in Rows /\ Live(n) /\ rows[n].path = k /\ LiveAt(k)' = LiveAt(k)  BY <1>3, <1>4, SameRows DEF LiveAt
<1>8. CASE /\ items' = items \cup {i} /\ record' = [record EXCEPT ![i] = [path |-> k, created |-> clock]]
           /\ Goto("drop row") /\ UNCHANGED <<bytes, damage>>
  <2>1. /\ record'[i].path = k /\ \A j \in Items : j # i => record'[j] = record[j]
        /\ \A j \in Items : IsKnown(j)' <=> IsKnown(j) \/ j = i
    <3>1. clock \in Times  BY <1>1 DEF TypeOK
    <3>2. clock' \in {clock, clock + 1}  BY <1>4
    <3> QED  BY <1>3, <1>4, <1>8, <3>1, <3>2, ItemRecorded DEF Orderly
  <2>2. op'.step = "drop row" /\ op'.key = k /\ op'.row = n /\ op'.item = i  BY <1>1, <1>2, <1>8, GoneTo DEF Steps
  <2>3. Active' = Active \cup {i} /\ i \notin Active /\ Active \subseteq Items
    <3>1. Active \subseteq Items  BY <1>1, TakingOf DEF Active, TypeOK
    <3>2. i \notin Active  BY <1>1, <1>3 DEF PurgeTypes
    <3> QED  BY <1>4, <1>8, <3>1, <3>2 DEF Active
  <2>4. items \subseteq Items /\ i \notin items  BY <1>1, <2>3 DEF TypeOK, Active
  <2>5. \A j \in Items : j # i => (IsDir(j)' <=> IsDir(j))  BY <2>1 DEF IsDir
  <2>6. ~IsDir(i)'
    <3>1. Len(record'[i].path) # 1  BY <1>3, <2>1, FileIsNoDir
    <3> QED  BY <3>1 DEF IsDir
  <2>7. \A q : k # <<q>>
    <3>1. ASSUME NEW q PROVE k # <<q>>
      <4>1. Len(<<q>>) = 1 /\ Len(k) = 2  BY <1>3, KeyKinds
      <4> QED  BY <4>1
    <3> QED  BY <3>1
  <2>8. HiddenRows'  BY <1>1, <1>4, <1>8, <2>1, <2>4 DEF HiddenRows, Hidden
  <2>9. OneItem'
    <3>1. ASSUME NEW j \in Active', NEW m \in Active', record'[j].path = record'[m].path, IsDir(j)' PROVE j = m
      <4>1. j # i /\ j \in Active /\ j \in Items /\ IsDir(j)  BY <2>3, <2>5, <2>6, <3>1
      <4>2. m # i
        <5>1. ASSUME m = i PROVE FALSE
          <6>1. Len(k) = 1  BY <2>1, <3>1, <5>1 DEF IsDir
          <6> QED  BY <1>3, <6>1, FileIsNoDir
        <5> QED  BY <5>1
      <4>3. m \in Active /\ m \in Items  BY <2>3, <4>2
      <4> QED  BY <1>1, <2>1, <3>1, <4>1, <4>2, <4>3 DEF OneItem
    <3> QED  BY <3>1 DEF OneItem
  <2>10. \A a \in Actors : purge[a] # None => purge[a].item \in Items /\ purge[a].item # i
    BY <1>1, <2>3, TakingOf
  <2>11. NothingHidden'
    <3>1. ASSUME NEW a \in Actors, Purging(a, "item"), NEW r \in Rows, Hidden(r)
          PROVE  <<rows[r].path[1]>> # record'[purge[a].item].path
      BY <1>1, <2>1, <2>10, <3>1 DEF NothingHidden, Purging
    <3> QED  BY <1>4, <3>1 DEF NothingHidden, Purging, Hidden
  <2>12. PurgedBytes'
    <3>1. ASSUME NEW a \in Actors, purge[a] # None, purge[a].step = "rows" PROVE Len(record'[purge[a].item].path) = 1
      <4>1. IsDir(purge[a].item)  BY <1>1, <3>1 DEF PurgedBytes
      <4> QED  BY <2>1, <2>10, <3>1, <4>1 DEF IsDir
    <3> QED  BY <1>1, <1>4, <1>8, <3>1 DEF PurgedBytes, IsDir
  <2>13. ItemKeys'
    <3>1. ASSUME NEW j \in Items, IsKnown(j)', NEW q \in Keys, bin'[j][q] # None
          PROVE  IF IsDir(j)' THEN q[1] = record'[j].path[1] ELSE q = record'[j].path
      <4>1. CASE j = i  BY <1>3, <1>8, <2>1, <2>6, <3>1, <4>1
      <4>2. CASE j # i  BY <1>1, <1>8, <2>1, <2>5, <3>1, <4>2 DEF ItemKeys
      <4> QED  BY <4>1, <4>2
    <3> QED  BY <3>1 DEF ItemKeys
  <2>14. HiddenBytes'
    <3>1. ASSUME NEW j \in items', NEW r \in Rows, bin[j] # NoKeys, Hidden(r), IsFile(r), record'[j].path = <<rows[r].path[1]>>
          PROVE  bin[j][rows[r].path] # None
      <4>1. j # i  BY <2>1, <2>7, <3>1
      <4>2. j \in items /\ record'[j] = record[j]  BY <1>8, <2>1, <2>4, <4>1
      <4> QED  BY <1>1, <3>1, <4>2 DEF HiddenBytes
    <3> QED  BY <1>4, <1>8, <3>1 DEF HiddenBytes, Hidden, IsFile
  <2>15. Listing'
    <3>1. \A r \in Rows : ~Moving(r)' => r # n  BY <2>2 DEF Moving
    <3> QED  BY <1>4, <1>6, <1>8, <3>1, StillListed DEF Orderly
  <2>16. Marked'
    <3>1. ASSUME NEW r \in Rows, NEW j \in items', Live(r), rows[r].path \in Markers, record'[j].path = rows[r].path
          PROVE  bucket[rows[r].path] # None
      <4>1. j # i  BY <1>3, <2>1, <3>1, KeyKinds
      <4>2. j \in items /\ record'[j] = record[j]  BY <1>8, <2>1, <2>4, <4>1
      <4> QED  BY <1>1, <1>3, <3>1, <4>2 DEF Marked
    <3> QED  BY <1>4, <1>8, <3>1 DEF Marked, Live
  <2>17. Restorable'  BY <2>2, NothingRestored
  <2>18. Clear'  BY <1>3, <1>7, <2>2 DEF Clear
  <2>19. Held'  BY <1>3, <1>8, <2>2 DEF Held
  <2>20. Reachable'
    <3>1. ASSUME NEW c \in kept, InItem(c) PROVE InItem(c)'
      <4>1. PICK j \in items, q \in Keys : bin[j][q] = c /\ (IsDir(j) => HiddenAt(q) # {})  BY <3>1 DEF InItem
      <4>2. j \in items' /\ (IsDir(j)' <=> IsDir(j)) /\ HiddenAt(q)' = HiddenAt(q)  BY <1>4, <1>8, <2>4, <2>5, SameRows
      <4> QED  BY <1>8, <4>1, <4>2 DEF InItem
    <3>2. \A c \in kept : Listed(c) => Listed(c)'  BY <1>1, <1>4, <1>8, StillLive
    <3>3. ASSUME NEW c \in kept, OnTheWay(c) PROVE InItem(c)'
      <4>1. bin'[i][k] = c /\ i \in items'  BY <1>5, <1>8, <3>3
      <4> QED  BY <1>3, <2>6, <4>1 DEF InItem
    <3> QED  BY <1>4, <3>1, <3>2, <3>3, StillReachable
  <2> QED  BY <2>8, <2>9, <2>11, <2>12, <2>13, <2>14, <2>15, <2>16, <2>17, <2>18, <2>19, <2>20 DEF ListingInv
<1>9. CASE CopyRecycledBack({k}) /\ op' = Idle /\ UNCHANGED <<items, record>>
  <2>1. {k} \in SUBSET Keys  BY <1>3
  <2>2. /\ \A q \in Keys : bucket'[q] = IF q \in {k} THEN bin[i][q] ELSE bucket[q]
        /\ \A j \in Items : IsKnown(j) => bin'[j] = bin[j]
    BY <1>2, <1>3, <1>9, <2>1, CopiesBack
  <2>3. HiddenRows' /\ OneItem' /\ NothingHidden' /\ PurgedBytes' /\ ItemKeys' /\ HiddenBytes' /\ \A c : InItem(c) => InItem(c)'
    BY <1>4, <1>9, <2>2, BinStays DEF Orderly
  <2>4. Clear' /\ Held' /\ Restorable'  BY <1>9, NothingAsked
  <2>5. Listing'  BY <1>3, <1>4, <1>6, <1>7, <2>2, KeyKinds, StillListed DEF Orderly
  <2>6. Marked'  BY <1>3, <1>4, <1>9, <2>2, KeyKinds, StillMarked DEF Orderly
  <2>7. Reachable'
    <3>1. ASSUME NEW c \in kept, Listed(c) PROVE Listed(c)'
      <4>1. c # None  BY <1>1, <3>1, ObjectKinds
      <4> QED  BY <1>1, <1>3, <1>4, <2>2, <3>1, <4>1, KeyKinds, StillLive
    <3>2. ASSUME NEW c \in kept, OnTheWay(c) PROVE Listed(c)'
      <4>1. bucket'[k] = c  BY <1>3, <1>5, <2>2, <3>2
      <4> QED  BY <1>4, <1>7, <4>1, SameRows DEF Listed
    <3> QED  BY <1>4, <2>3, <3>1, <3>2, StillReachable
  <2> QED  BY <2>3, <2>4, <2>5, <2>6, <2>7 DEF ListingInv
<1> QED  BY <1>2, <1>8, <1>9 DEF RecordItem, Done

LEMMA DropRowListing ==
    ASSUME Orderly, DropRow
    PROVE  ListingInv'
<1>1. TypeOK /\ MarkerKeys /\ Listing /\ Marked /\ kept \subseteq Contents  BY OrderlyFacts DEF TypeOK
<1>2. PICK k, n : k = op.key /\ n = op.row  OBVIOUS
<1>3. op.step = "drop row" /\ n \in LiveAt(k) /\ bucket[k] = None
  <2>1. op.step = "drop row"  BY DEF DropRow
  <2> QED  BY <1>2, <2>1, OrderlyFacts DEF Clear, Held
<1>4. op' = Idle /\ UNCHANGED <<bucket, bin, items, record, clock, purge, batch, kept>>  BY DEF DropRow, Done
<1>5. Clear' /\ Held' /\ Restorable'  BY <1>4, NothingAsked
<1>6. rows' = [rows EXCEPT ![n] = None]  BY <1>2, OrderlyFacts DEF DropRow
<1>7. n \in Rows /\ Live(n) /\ rows[n].path = k  BY <1>3 DEF LiveAt
<1>8. rows'[n] = None /\ \A r \in Rows : r # n => rows'[r] = rows[r]  BY <1>1, <1>6, <1>7 DEF TypeOK
<1>9. /\ ~Live(n)' /\ ~Hidden(n)' /\ ~Hidden(n)
      /\ \A r \in Rows : r # n => (Live(r)' <=> Live(r)) /\ (Hidden(r)' <=> Hidden(r)) /\ (IsFile(r)' <=> IsFile(r))
  BY <1>7, <1>8 DEF Live, Hidden, IsFile
<1>10. HiddenRows' /\ OneItem' /\ NothingHidden' /\ PurgedBytes' /\ ItemKeys' /\ HiddenBytes' /\ \A c : InItem(c) => InItem(c)'
  BY <1>4, <1>8, <1>9, BinStays DEF Orderly
<1>11. Listing'
  <2>1. \A r \in Rows : Live(r)' => r # n /\ Live(r) /\ rows'[r] = rows[r] /\ (IsFile(r)' <=> IsFile(r)) /\ ~Moving(r)
    BY <1>2, <1>3, <1>8, <1>9 DEF Moving
  <2> QED  BY <1>1, <1>4, <2>1 DEF Listing
<1>12. Marked'
  <2>1. \A r \in Rows : Live(r)' => Live(r) /\ rows'[r] = rows[r]  BY <1>8, <1>9
  <2> QED  BY <1>1, <1>3, <1>4, <2>1 DEF Marked
<1>13. Reachable'
  <2>1. ASSUME NEW c \in kept, Listed(c) PROVE Listed(c)'
    <3>1. PICK r \in Rows : Live(r) /\ bucket[rows[r].path] = c  BY <2>1 DEF Listed
    <3>2. r # n  BY <1>1, <1>3, <1>7, <2>1, <3>1, ObjectKinds
    <3> QED  BY <1>4, <1>8, <1>9, <3>1, <3>2 DEF Listed
  <2>2. \A c \in kept : ~OnTheWay(c)  BY <1>3 DEF OnTheWay
  <2> QED  BY <1>4, <1>10, <2>1, <2>2, StillReachable
<1> QED  BY <1>5, <1>10, <1>11, <1>12, <1>13 DEF ListingInv

LEMMA DeleteDirListing ==
    ASSUME Orderly, NEW p \in Folders, DeleteDir(p)
    PROVE  ListingInv'
<1>1. TypeOK /\ MarkerKeys /\ Listing /\ PurgeTypes /\ kept \subseteq Contents  BY OrderlyFacts DEF TypeOK
<1>2. PICK k, ks : k = <<p>> /\ ks = UnderPrefix(bucket, p)  OBVIOUS
<1>3. /\ op = Idle /\ op.step = "idle" /\ OnlyGeneration(p)
      /\ UNCHANGED <<bucket, rows, items, record, clock, purge, batch, kept>>
  BY IdleType DEF DeleteDir, Ready
<1>4. PICK i \in FreshItem :
         /\ bin' = [bin EXCEPT ![i] = Copied(bucket, NoKeys, ks)]
         /\ op' = [Idle EXCEPT !.step = "delete batch", !.key = k, !.item = i, !.keys = ks]
  BY <1>2 DEF DeleteDir
<1>5. i \in Items /\ ~IsKnown(i)  BY <1>4 DEF FreshItem, Used, IsKnown
<1>6. op'.step = "delete batch" /\ op'.key = k /\ op'.keys = ks /\ op'.item = i  BY <1>4, IdleType DEF Idle
<1>7. \A j \in Items : IsKnown(j) => bin'[j] = bin[j]  BY <1>1, <1>4, <1>5 DEF TypeOK
<1>8. HiddenRows' /\ OneItem' /\ NothingHidden' /\ PurgedBytes' /\ ItemKeys' /\ HiddenBytes' /\ \A c : InItem(c) => InItem(c)'
  BY <1>3, <1>7, BinStays DEF Orderly
<1>9. Listing'  BY <1>1, <1>3, StillListed DEF Orderly, Listing, Moving
<1>10. Marked'  BY <1>3, StillMarked DEF Orderly
<1>11. Restorable'
  <2>1. ASSUME NEW j \in Active PROVE record[j].path # k
    <3>1. IsKnown(j)  BY <1>1 DEF PurgeTypes
    <3>2. j \in Items  BY <1>1, TakingOf DEF Active, TypeOK
    <3>3. ASSUME record[j].path = <<p>> PROVE FALSE
      BY <1>3, <3>1, <3>2, <3>3 DEF OnlyGeneration, Active, IsKnown
    <3> QED  BY <1>2, <3>3
  <2>2. Active' = Active  BY <1>3 DEF Active
  <2> QED  BY <1>3, <1>6, <2>1, <2>2 DEF Restorable
<1>12. Clear'  BY <1>6 DEF Clear
<1>13. Held'
  <2>1. k[1] = p  BY <1>2
  <2>2. UnderPrefix(bucket, p)' = UnderPrefix(bucket, p)  BY <1>3 DEF UnderPrefix
  <2> QED  BY <1>2, <1>3, <1>6, <2>1, <2>2 DEF Held
<1>14. Reachable'
  <2>1. \A c \in kept : Listed(c) => Listed(c)'  BY <1>1, <1>3, StillLive
  <2>2. \A c \in kept : ~OnTheWay(c)  BY <1>3 DEF OnTheWay
  <2> QED  BY <1>3, <1>8, <2>1, <2>2, StillReachable
<1> QED  BY <1>8, <1>9, <1>10, <1>11, <1>12, <1>13, <1>14 DEF ListingInv

\* A folder that is being deleted has a marker key, and no item.
LEMMA DeletedFolder ==
    ASSUME Orderly, op.step \in {"delete batch", "hide"}
    PROVE  /\ op.key \in Markers /\ op.item \in Items /\ ~IsKnown(op.item) /\ op.keys \in SUBSET Keys
           /\ op.key = <<op.key[1]>>
           /\ \A j \in Active : record[j].path # op.key
           /\ \A r \in Rows : Live(r) /\ IsFile(r) /\ (op.step = "hide" => rows[r].path[1] # op.key[1]) =>
                 bucket[rows[r].path] # None /\ rows[r].path \in Files
<1>1. op.key \in Markers /\ op.item \in Items /\ ~IsKnown(op.item)  BY OrderlyFacts DEF RequestTypes
<1>2. op.keys \in SUBSET Keys  BY OrderlyFacts DEF TypeOK, Request
<1>3. op.key = <<op.key[1]>>  BY <1>1, KeyKinds
<1>4. \A j \in Active : record[j].path # op.key  BY OrderlyFacts DEF Restorable
<1>5. ASSUME NEW r \in Rows, Live(r), IsFile(r), op.step = "hide" => rows[r].path[1] # op.key[1]
      PROVE  bucket[rows[r].path] # None /\ rows[r].path \in Files
  <2>1. ~Moving(r)  BY <1>5 DEF Moving
  <2>2. bucket[rows[r].path] # None  BY <1>5, <2>1, OrderlyFacts DEF Listing
  <2> QED  BY <1>5, <2>2, OrderlyFacts, LiveKinds DEF Live
<1> QED  BY <1>1, <1>2, <1>3, <1>4, <1>5

LEMMA DeleteBatchListing ==
    ASSUME Orderly, DeleteBatch
    PROVE  ListingInv'
<1>1. TypeOK /\ MarkerKeys /\ Listing /\ Marked /\ kept \subseteq Contents  BY OrderlyFacts DEF TypeOK
<1>2. PICK k, i, ks, p : k = op.key /\ i = op.item /\ ks = op.keys /\ p = op.key[1]  OBVIOUS
<1>3. op.step = "delete batch"  BY DEF DeleteBatch
<1>4. /\ k \in Markers /\ i \in Items /\ ~IsKnown(i) /\ ks \in SUBSET Keys /\ k = <<p>>
      /\ \A j \in Active : record[j].path # k
      /\ \A r \in Rows : Live(r) /\ IsFile(r) => bucket[rows[r].path] # None /\ rows[r].path \in Files
  BY <1>2, <1>3, DeletedFolder
<1>5. /\ ks = UnderPrefix(bucket, p)
      /\ \A q \in ks : bin[i][q] = bucket[q]
      /\ \A q \in Keys \ ks : bin[i][q] = None
  <2>1. ks = UnderPrefix(bucket, p)  BY <1>2, <1>3, OrderlyFacts DEF Held
  <2>2. \A q \in ks : bin[i][q] = bucket[q]  BY <1>2, <1>3, OrderlyFacts DEF Copies
  <2>3. \A q \in Keys \ ks : bin[i][q] = None  BY <1>2, <1>3, OrderlyFacts DEF Copies
  <2> QED  BY <2>1, <2>2, <2>3
<1>6. \A q \in Keys : q \in ks <=> q[1] = p /\ bucket[q] # None  BY <1>5 DEF UnderPrefix
<1>7. UNCHANGED <<rows, items, record, clock, purge, batch, kept>>  BY DEF DeleteBatch
<1>8. \A c \in kept : ~OnTheWay(c)  BY <1>3 DEF OnTheWay
<1>9. CASE bucket' = Without(bucket, ks) /\ Goto("hide") /\ UNCHANGED bin
  <2>1. op'.step = "hide" /\ op'.key = k /\ op'.item = i /\ op'.keys = ks  BY <1>1, <1>2, <1>9, GoneTo DEF Steps
  <2>2. \A q \in Keys : bucket'[q] = IF q \in ks THEN None ELSE bucket[q]
    <3>1. bucket \in [Keys -> Objects]  BY <1>1 DEF TypeOK
    <3> QED  BY <1>9, <3>1, WithoutType
  <2>3. HiddenRows' /\ OneItem' /\ NothingHidden' /\ PurgedBytes' /\ ItemKeys' /\ HiddenBytes' /\ \A c : InItem(c) => InItem(c)'
    BY <1>7, <1>9, BinStays DEF Orderly
  <2>4. Listing'
    <3>1. ASSUME NEW r \in Rows, Live(r), IsFile(r), ~Moving(r)' PROVE bucket'[rows[r].path] # None
      <4>1. rows[r].path[1] # p  BY <1>2, <1>7, <2>1, <3>1 DEF Moving
      <4>2. rows[r].path \in Keys /\ bucket[rows[r].path] # None  BY <1>4, <3>1, KeyKinds
      <4> QED  BY <1>6, <2>2, <4>1, <4>2
    <3> QED  BY <1>7, <3>1, StillListed DEF Orderly
  <2>5. Marked'
    <3>1. ASSUME NEW r \in Rows, NEW j \in items, Live(r), rows[r].path \in Markers, record[j].path = rows[r].path
          PROVE  bucket'[rows[r].path] # None
      <4>1. rows[r].path # k  BY <1>4, <3>1 DEF Active
      <4>2. bucket[rows[r].path] # None  BY <1>1, <1>3, <3>1 DEF Marked
      <4>3. rows[r].path[1] # p /\ rows[r].path \in Keys  BY <1>4, <3>1, <4>1, KeyKinds
      <4> QED  BY <1>6, <2>2, <4>2, <4>3
    <3> QED  BY <1>7, <3>1 DEF Marked, Live
  <2>6. Active' = Active  BY <1>7 DEF Active
  <2>7. Restorable'  BY <1>4, <1>7, <2>1, <2>6 DEF Restorable
  <2>8. Clear'  BY <2>1 DEF Clear
  <2>9. Held'
    <3>1. \A q \in Keys : q \in ks <=> q[1] = p /\ bin[i][q] # None  BY <1>5, <1>6
    <3>2. ks = {q \in Keys : q[1] = p /\ bin[i][q] # None}  BY <1>4, <3>1
    <3>3. ks = UnderPrefix(bin[i], p)  BY <3>2 DEF UnderPrefix
    <3>4. ASSUME NEW r \in Rows, Live(r), IsFile(r), rows[r].path[1] = p PROVE rows[r].path \in ks
      BY <1>4, <1>6, <3>4, KeyKinds
    <3>5. k[1] = p  BY <1>2
    <3>6. UnderPrefix(bin'[i], p) = UnderPrefix(bin[i], p)  BY <1>9
    <3> QED  BY <1>5, <1>7, <1>9, <2>1, <3>3, <3>4, <3>5, <3>6, SameRows DEF Held
  <2>10. Reachable'
    <3>1. ASSUME NEW c \in kept, Listed(c) PROVE Listed(c)' \/ OnTheWay(c)'
      <4>1. PICK r \in Rows : Live(r) /\ bucket[rows[r].path] = c  BY <3>1 DEF Listed
      <4>2. rows[r].path \in Keys /\ Live(r)' /\ r \in LiveAt(rows[r].path)'
        BY <1>1, <1>7, <4>1, LiveKinds, SameRows DEF Live, LiveAt
      <4>3. CASE rows[r].path \notin ks  BY <1>7, <2>2, <4>1, <4>2, <4>3 DEF Listed
      <4>4. CASE rows[r].path \in ks
        <5>1. PICK q : q = rows[r].path  OBVIOUS
        <5>2. q \in ks /\ bin'[i][q] = c  BY <1>5, <1>9, <4>1, <4>4, <5>1
        <5>3. LiveAt(q)' = LiveAt(q) /\ r \in LiveAt(q)  BY <1>7, <4>1, <5>1, SameRows DEF LiveAt
        <5> QED  BY <2>1, <5>2, <5>3 DEF OnTheWay
      <4> QED  BY <4>3, <4>4
    <3> QED  BY <1>7, <1>8, <2>3, <3>1, StillReachable
  <2> QED  BY <2>3, <2>4, <2>5, <2>7, <2>8, <2>9, <2>10 DEF ListingInv
<1>10. CASE CopyRecycledBack(ks) /\ op' = Idle
  <2>1. /\ \A q \in Keys : bucket'[q] = IF q \in ks THEN bin[i][q] ELSE bucket[q]
        /\ \A j \in Items : IsKnown(j) => bin'[j] = bin[j]
    BY <1>2, <1>4, <1>10, CopiesBack
  <2>2. \A q \in Keys : bucket'[q] = bucket[q]  BY <1>5, <2>1
  <2>3. HiddenRows' /\ OneItem' /\ NothingHidden' /\ PurgedBytes' /\ ItemKeys' /\ HiddenBytes' /\ \A c : InItem(c) => InItem(c)'
    BY <1>7, <2>1, BinStays DEF Orderly
  <2>4. Clear' /\ Held' /\ Restorable'  BY <1>10, NothingAsked
  <2>5. Listing'  BY <1>4, <1>7, <2>2, KeyKinds, StillListed DEF Orderly
  <2>6. Marked'  BY <1>3, <1>7, <2>2, KeyKinds, StillMarked DEF Orderly
  <2>7. Reachable'
    <3>1. \A c \in kept : Listed(c) => Listed(c)'  BY <1>1, <1>7, <2>2, KeyKinds, StillLive
    <3> QED  BY <1>7, <1>8, <2>3, <3>1, StillReachable
  <2> QED  BY <2>3, <2>4, <2>5, <2>6, <2>7 DEF ListingInv
<1>11. ~Damage  BY OrderlyFacts
<1> QED  BY <1>2, <1>9, <1>10, <1>11 DEF DeleteBatch, Done

\* The rows of a folder are hidden, and its item is recorded.
LEMMA HiddenListing ==
    ASSUME Orderly, op.step = "hide", NEW i \in Items, i = op.item, NEW p, p = op.key[1],
           clock' = clock + 1, items' = items \cup {i},
           record' = [record EXCEPT ![i] = [path |-> <<p>>, created |-> clock + 1]],
           rows' = [r \in Rows |-> IF Live(r) /\ rows[r].path[1] = p
                                   THEN [rows[r] EXCEPT !.hidden = clock + 1] ELSE rows[r]],
           op' = Idle, UNCHANGED <<bucket, bin, purge, batch, kept>>
    PROVE  ListingInv'
<1>1. /\ TypeOK /\ MarkerKeys /\ Listing /\ Marked /\ OneItem /\ HiddenRows /\ NothingHidden /\ ItemKeys
      /\ HiddenBytes /\ PurgedBytes /\ PurgeTypes /\ Reachable /\ kept \subseteq Contents
  BY OrderlyFacts DEF TypeOK
<1>2. PICK k, ks : k = op.key /\ ks = op.keys  OBVIOUS
<1>3. /\ k \in Markers /\ ~IsKnown(i) /\ ks \in SUBSET Keys /\ k = <<p>>
      /\ \A j \in Active : record[j].path # k
      /\ \A r \in Rows : Live(r) /\ IsFile(r) /\ rows[r].path[1] # p => bucket[rows[r].path] # None
  BY <1>2, DeletedFolder
<1>4. /\ ks = UnderPrefix(bin[i], p)
      /\ \A q \in Keys \ ks : bin[i][q] = None
      /\ \A r \in Rows : Live(r) /\ IsFile(r) /\ rows[r].path[1] = p => rows[r].path \in ks
      /\ \A q \in ks : bucket[q] \in {None, bin[i][q]}
  <2>1. /\ ks = UnderPrefix(bin[i], p)
        /\ \A q \in Keys \ ks : bin[i][q] = None
    BY <1>2, OrderlyFacts DEF Held
  <2>2. \A r \in Rows : Live(r) /\ IsFile(r) /\ rows[r].path[1] = p => rows[r].path \in ks
    BY <1>2, OrderlyFacts DEF Held
  <2>3. \A q \in ks : bucket[q] \in {None, bin[i][q]}  BY <1>2, OrderlyFacts DEF Copies
  <2> QED  BY <2>1, <2>2, <2>3
<1>5. \A q \in Keys : q \in ks <=> q[1] = p /\ bin[i][q] # None  BY <1>4 DEF UnderPrefix
<1>6. PICK t : t = clock + 1  OBVIOUS
<1>7. t \in Times /\ t # 0  BY <1>1, <1>3, <1>6, ClockGoesOn DEF Orderly, RequestInv
<1>8. <<p>> \in Keys  BY <1>3, KeyKinds
<1>9. PICK n : n = [path |-> <<p>>, created |-> t]  OBVIOUS
<1>10. n.path = k /\ n.created = t  BY <1>3, <1>9
<1>11. record'[i] = n /\ \A j \in Items : j # i => record'[j] = record[j]
  BY <1>1, <1>6, <1>9 DEF TypeOK
<1>12. PICK S : S = {r \in Rows : Live(r) /\ rows[r].path[1] = p}  OBVIOUS
<1>13. /\ \A r \in Rows : rows[r] = None <=> rows'[r] = None
       /\ \A r \in Rows : rows[r] # None => rows'[r].path = rows[r].path
       /\ \A r \in S : rows'[r].hidden = t
       /\ \A r \in Rows \ S : rows'[r] = rows[r]
  <2>1. S \in SUBSET Rows /\ \A r \in S : rows[r] # None  BY <1>12 DEF Live
  <2>2. rows' = [r \in Rows |-> IF r \in S THEN [rows[r] EXCEPT !.hidden = t] ELSE rows[r]]
    BY <1>6, <1>12
  <2> QED  BY <1>1, <1>7, <2>1, <2>2, RowsHidden
<1>14. \A r \in Rows : /\ r \in S <=> Live(r) /\ rows[r].path[1] = p
                       /\ Live(r)' <=> Live(r) /\ r \notin S
                       /\ Hidden(r)' <=> Hidden(r) \/ r \in S
                       /\ rows[r] # None => (IsFile(r)' <=> IsFile(r))
  <2>1. ASSUME NEW r \in Rows, r \in S PROVE Live(r) /\ ~Live(r)' /\ Hidden(r)'
    BY <1>7, <1>12, <1>13, <2>1 DEF Live, Hidden
  <2>2. ASSUME NEW r \in Rows, r \notin S PROVE (Live(r)' <=> Live(r)) /\ (Hidden(r)' <=> Hidden(r))
    BY <1>13, <2>2 DEF Live, Hidden
  <2>3. ASSUME NEW r \in Rows, rows[r] # None PROVE IsFile(r)' <=> IsFile(r)
    BY <1>13, <2>3 DEF IsFile
  <2> QED  BY <1>12, <2>1, <2>2, <2>3
<1>15. Active' = Active \cup {i} /\ i \notin Active /\ Active \subseteq Items /\ items \subseteq Active
  <2>1. Active \subseteq Items  BY <1>1, TakingOf DEF Active, TypeOK
  <2>2. i \notin Active  BY <1>1, <1>3 DEF PurgeTypes
  <2> QED  BY <2>1, <2>2 DEF Active
<1>16. ASSUME NEW r \in Rows, Hidden(r) PROVE <<rows[r].path[1]>> # k
  BY <1>1, <1>3, <1>15, <1>16 DEF HiddenRows
<1>17. HiddenRows'
  <2>1. ASSUME NEW r \in Rows, Hidden(r)'
        PROVE  \E j \in items' : record'[j].path = <<rows'[r].path[1]>> /\ record'[j].created = rows'[r].hidden
    <3>1. CASE r \in S
      <4>1. rows'[r].path = rows[r].path /\ rows[r].path[1] = p  BY <1>13, <1>14, <3>1 DEF Live
      <4>2. record'[i].path = <<rows'[r].path[1]>> /\ record'[i].created = rows'[r].hidden
        BY <1>3, <1>10, <1>11, <1>13, <3>1, <4>1
      <4> QED  BY <4>2
    <3>2. CASE r \notin S
      <4>1. Hidden(r) /\ rows'[r] = rows[r]  BY <1>13, <1>14, <2>1, <3>2
      <4>2. PICK j \in items : record[j].path = <<rows[r].path[1]>> /\ record[j].created = rows[r].hidden
        BY <1>1, <4>1 DEF HiddenRows
      <4> QED  BY <1>11, <1>15, <4>1, <4>2
    <3> QED  BY <3>1, <3>2
  <2>2. ASSUME NEW r \in Rows, NEW s \in Rows, Hidden(r)', Hidden(s)', rows'[r].path = rows'[s].path PROVE r = s
    <3>1. rows[r] # None /\ rows[s] # None  BY <1>13, <2>2 DEF Hidden
    <3>2. rows[r].path = rows[s].path  BY <1>13, <2>2, <3>1
    <3>3. CASE r \in S /\ s \in S  BY <1>1, <1>14, <3>2, <3>3 DEF Listing
    <3>4. CASE r \notin S /\ s \notin S  BY <1>1, <1>14, <2>2, <3>2, <3>4 DEF HiddenRows
    <3>5. CASE r \in S /\ s \notin S  BY <1>3, <1>14, <1>16, <2>2, <3>2, <3>5
    <3>6. CASE r \notin S /\ s \in S  BY <1>3, <1>14, <1>16, <2>2, <3>2, <3>6
    <3> QED  BY <3>3, <3>4, <3>5, <3>6
  <2> QED  BY <2>1, <2>2 DEF HiddenRows
<1>18. OneItem'
  <2>1. ASSUME NEW j \in Active', NEW m \in Active', record'[j].path = record'[m].path, IsDir(j)' PROVE j = m
    <3>1. CASE j # i /\ m # i  BY <1>1, <1>11, <1>15, <2>1, <3>1 DEF OneItem, IsDir
    <3>2. CASE j = i /\ m # i  BY <1>3, <1>10, <1>11, <1>15, <2>1, <3>2
    <3>3. CASE j # i /\ m = i  BY <1>3, <1>10, <1>11, <1>15, <2>1, <3>3
    <3> QED  BY <3>1, <3>2, <3>3
  <2> QED  BY <2>1 DEF OneItem
<1>19. \A a \in Actors : purge[a] # None => purge[a].item \in Active /\ purge[a].item \in Items /\ purge[a].item # i
  BY <1>1, <1>15, TakingOf
<1>20. NothingHidden'
  <2>1. ASSUME NEW a \in Actors, Purging(a, "item"), NEW r \in Rows, Hidden(r)'
        PROVE  <<rows'[r].path[1]>> # record'[purge[a].item].path
    <3>1. record'[purge[a].item] = record[purge[a].item] /\ record[purge[a].item].path # k
      BY <1>3, <1>11, <1>19, <2>1 DEF Purging
    <3>2. CASE r \in S
      <4>1. rows'[r].path[1] = p  BY <1>13, <1>14, <3>2 DEF Live
      <4> QED  BY <1>3, <3>1, <4>1
    <3>3. CASE r \notin S  BY <1>1, <1>13, <1>14, <2>1, <3>1, <3>3 DEF NothingHidden
    <3> QED  BY <3>2, <3>3
  <2> QED  BY <2>1 DEF NothingHidden, Purging
<1>21. PurgedBytes'
  <2>1. ASSUME NEW a \in Actors, purge[a] # None, purge[a].step = "rows" PROVE Len(record'[purge[a].item].path) = 1
    <3>1. IsDir(purge[a].item)  BY <1>1, <2>1 DEF PurgedBytes
    <3> QED  BY <1>11, <1>19, <2>1, <3>1 DEF IsDir
  <2> QED  BY <1>1, <2>1 DEF PurgedBytes, IsDir
<1>22. IsDir(i)'
  <2>1. Len(k) = 1  BY <1>3, KeyKinds
  <2> QED  BY <1>10, <1>11, <2>1 DEF IsDir
<1>23. ItemKeys'
  <2>1. ASSUME NEW j \in Items, IsKnown(j)', NEW q \in Keys, bin[j][q] # None
        PROVE  IF IsDir(j)' THEN q[1] = record'[j].path[1] ELSE q = record'[j].path
    <3>1. CASE j = i
      <4>1. q[1] = p  BY <1>5, <1>4, <2>1, <3>1
      <4>2. k[1] = p  BY <1>3
      <4>3. record'[j].path[1] = p  BY <1>10, <1>11, <3>1, <4>2
      <4> QED  BY <1>22, <3>1, <4>1, <4>3
    <3>2. CASE j # i
      <4>1. IsKnown(j) /\ record'[j] = record[j] /\ (IsDir(j)' <=> IsDir(j))  BY <1>11, <2>1, <3>2 DEF IsKnown, IsDir
      <4> QED  BY <1>1, <2>1, <4>1 DEF ItemKeys
    <3> QED  BY <3>1, <3>2
  <2> QED  BY <2>1 DEF ItemKeys
<1>24. HiddenBytes'
  <2>1. ASSUME NEW j \in items', NEW r \in Rows, bin[j] # NoKeys, Hidden(r)', IsFile(r)', record'[j].path = <<rows'[r].path[1]>>
        PROVE  bin[j][rows'[r].path] # None
    <3>1. rows[r] # None /\ rows'[r].path = rows[r].path /\ IsFile(r)  BY <1>13, <1>14, <2>1 DEF Hidden
    <3>2. rows[r].path \in Keys  BY <1>1, <3>1, LiveKinds
    <3>3. CASE r \in S
      <4>1. <<rows[r].path[1]>> = k  BY <1>3, <1>14, <3>3
      <4>2. j = i  BY <1>3, <1>11, <1>15, <2>1, <3>1, <4>1
      <4>3. rows[r].path \in ks  BY <1>4, <1>14, <3>1, <3>3
      <4> QED  BY <1>5, <3>1, <3>2, <4>2, <4>3
    <3>4. CASE r \notin S
      <4>1. Hidden(r)  BY <1>14, <2>1, <3>4
      <4>2. <<rows[r].path[1]>> # k  BY <1>16, <4>1
      <4>3. j # i  BY <1>10, <1>11, <2>1, <3>1, <4>2
      <4>4. j \in items /\ record'[j] = record[j]  BY <1>11, <1>15, <4>3
      <4> QED  BY <1>1, <2>1, <3>1, <4>1, <4>4 DEF HiddenBytes
    <3> QED  BY <3>3, <3>4
  <2> QED  BY <2>1 DEF HiddenBytes
<1>25. Clear' /\ Held' /\ Restorable'  BY NothingAsked
<1>26. Listing'
  <2>1. ASSUME NEW r \in Rows, Live(r)', IsFile(r)' PROVE bucket[rows'[r].path] # None
    <3>1. Live(r) /\ r \notin S /\ rows'[r] = rows[r] /\ rows[r] # None  BY <1>13, <1>14, <2>1 DEF Live
    <3>2. IsFile(r) /\ rows[r].path[1] # p  BY <1>14, <2>1, <3>1
    <3> QED  BY <1>3, <3>1, <3>2
  <2>2. ASSUME NEW r \in Rows, NEW s \in Rows, Live(r)', Live(s)', rows'[r].path = rows'[s].path PROVE r = s
    <3>1. Live(r) /\ Live(s) /\ rows'[r] = rows[r] /\ rows'[s] = rows[s]  BY <1>13, <1>14, <2>2
    <3> QED  BY <1>1, <2>2, <3>1 DEF Listing
  <2> QED  BY <2>1, <2>2 DEF Listing
<1>27. Marked'
  <2>1. ASSUME NEW r \in Rows, NEW j \in items', Live(r)', rows'[r].path \in Markers, record'[j].path = rows'[r].path
        PROVE  bucket[rows'[r].path] # None
    <3>1. Live(r) /\ r \notin S /\ rows'[r] = rows[r]  BY <1>13, <1>14, <2>1
    <3>2. rows[r].path # k
      <4>1. k[1] = p  BY <1>3
      <4> QED  BY <1>14, <3>1, <4>1
    <3>3. j # i  BY <1>10, <1>11, <2>1, <3>1, <3>2
    <3>4. j \in items /\ record'[j] = record[j]  BY <1>11, <1>15, <3>3
    <3> QED  BY <1>1, <2>1, <3>1, <3>4 DEF Marked
  <2> QED  BY <2>1 DEF Marked
<1>28. \A q : HiddenAt(q) \subseteq HiddenAt(q)'
  <2>1. ASSUME NEW q, NEW r \in Rows, Hidden(r), rows[r].path = q PROVE Hidden(r)' /\ rows'[r].path = q
    BY <1>13, <1>14, <2>1 DEF Hidden
  <2> QED  BY <2>1 DEF HiddenAt
<1>29. ASSUME NEW c \in kept, NEW q \in ks, bin[i][q] = c, NEW r \in Rows, Live(r), rows[r].path = q PROVE InItem(c)'
  <2>1. q[1] = p /\ q \in Keys  BY <1>3, <1>5, <1>29
  <2>2. r \in S  BY <1>14, <1>29, <2>1
  <2>3. Hidden(r)' /\ rows'[r].path = q  BY <1>13, <1>14, <1>29, <2>2 DEF Live
  <2>4. HiddenAt(q)' # {}  BY <2>3 DEF HiddenAt
  <2> QED  BY <1>29, <2>1, <2>4 DEF InItem
<1>30. Reachable'
  <2>1. ASSUME NEW c \in kept, InItem(c) PROVE InItem(c)'
    <3>1. PICK j \in items, q \in Keys : bin[j][q] = c /\ (IsDir(j) => HiddenAt(q) # {})  BY <2>1 DEF InItem
    <3>2. j # i /\ j \in Items  BY <1>15
    <3>3. IsDir(j)' <=> IsDir(j)  BY <1>11, <3>2 DEF IsDir
    <3>4. HiddenAt(q) # {} => HiddenAt(q)' # {}  BY <1>28
    <3>5. j \in items'  OBVIOUS
    <3> QED  BY <3>1, <3>3, <3>4, <3>5 DEF InItem
  <2>2. ASSUME NEW c \in kept, Listed(c) PROVE Listed(c)' \/ InItem(c)'
    <3>1. PICK r \in Rows : Live(r) /\ bucket[rows[r].path] = c  BY <2>2 DEF Listed
    <3>2. CASE r \notin S
      <4>1. Live(r)' /\ rows'[r] = rows[r]  BY <1>13, <1>14, <3>1, <3>2
      <4> QED  BY <3>1, <4>1 DEF Listed
    <3>3. CASE r \in S
      <4>1. PICK q : q = rows[r].path  OBVIOUS
      <4>2. q \in Keys /\ bucket[q] = c /\ c \in Contents  BY <1>1, <3>1, <4>1, LiveKinds DEF Live
      <4>3. q \in Files  BY <1>1, <4>2, ContentAtFile
      <4>4. IsFile(r)  BY <4>1, <4>3, KeyKinds DEF IsFile
      <4>5. q \in ks  BY <1>4, <1>14, <3>3, <4>1, <4>4
      <4>6. bin[i][q] = c  BY <1>4, <4>2, <4>5, ObjectKinds
      <4> QED  BY <1>29, <3>1, <4>1, <4>5, <4>6
    <3> QED  BY <3>2, <3>3
  <2>3. ASSUME NEW c \in kept, OnTheWay(c) PROVE InItem(c)'
    <3>1. PICK q \in ks : bin[i][q] = c /\ LiveAt(q) # {}  BY <1>2, <2>3 DEF OnTheWay
    <3>2. PICK r \in LiveAt(q) : TRUE  BY <3>1
    <3>3. r \in Rows /\ Live(r) /\ rows[r].path = q  BY <3>2 DEF LiveAt
    <3> QED  BY <1>29, <3>1, <3>3
  <2> QED  BY <2>1, <2>2, <2>3, StillReachable
<1> QED  BY <1>17, <1>18, <1>20, <1>21, <1>23, <1>24, <1>25, <1>26, <1>27, <1>30 DEF ListingInv

LEMMA HideListing ==
    ASSUME Orderly, HideSubtree
    PROVE  ListingInv'
<1>1. TypeOK /\ MarkerKeys /\ Listing /\ Marked /\ kept \subseteq Contents  BY OrderlyFacts DEF TypeOK
<1>2. PICK k, i, ks, p : k = op.key /\ i = op.item /\ ks = op.keys /\ p = op.key[1]  OBVIOUS
<1>3. op.step = "hide" /\ op' = Idle /\ UNCHANGED <<purge, batch, kept>>  BY DEF HideSubtree, Done
<1>4. /\ i \in Items /\ ~IsKnown(i) /\ ks \in SUBSET Keys /\ k \in Markers
      /\ \A r \in Rows : Live(r) /\ IsFile(r) /\ rows[r].path[1] # p =>
            bucket[rows[r].path] # None /\ rows[r].path \in Files
  BY <1>2, <1>3, DeletedFolder
<1>5. /\ \A q \in ks : q \in Keys /\ bin[i][q] # None /\ bucket[q] \in {None, bin[i][q]}
      /\ \A r \in Rows : Live(r) /\ IsFile(r) /\ rows[r].path[1] = p => rows[r].path \in ks
  <2>1. ks = UnderPrefix(bin[i], p)  BY <1>2, <1>3, OrderlyFacts DEF Held
  <2>2. \A r \in Rows : Live(r) /\ IsFile(r) /\ rows[r].path[1] = p => rows[r].path \in ks
    BY <1>2, <1>3, OrderlyFacts DEF Held
  <2>3. \A q \in ks : bucket[q] \in {None, bin[i][q]}  BY <1>2, <1>3, OrderlyFacts DEF Copies
  <2> QED  BY <2>1, <2>2, <2>3 DEF UnderPrefix
<1>6. CASE CopyRecycledBack(ks) /\ UNCHANGED <<clock, items, record, rows>>
  <2>1. /\ \A q \in Keys : bucket'[q] = IF q \in ks THEN bin[i][q] ELSE bucket[q]
        /\ \A j \in Items : IsKnown(j) => bin'[j] = bin[j]
    BY <1>2, <1>4, <1>6, CopiesBack
  <2>2. HiddenRows' /\ OneItem' /\ NothingHidden' /\ PurgedBytes' /\ ItemKeys' /\ HiddenBytes' /\ \A c : InItem(c) => InItem(c)'
    BY <1>3, <1>6, <2>1, BinStays DEF Orderly
  <2>3. Clear' /\ Held' /\ Restorable'  BY <1>3, NothingAsked
  <2>4. \A q \in Keys : bucket[q] # None => bucket'[q] = bucket[q]  BY <1>5, <2>1
  <2>5. Listing'
    <3>1. ASSUME NEW r \in Rows, Live(r), IsFile(r) PROVE bucket'[rows[r].path] # None
      <4>1. CASE rows[r].path[1] = p  BY <1>5, <2>1, <3>1, <4>1
      <4>2. CASE rows[r].path[1] # p  BY <1>4, <2>4, <3>1, <4>2, KeyKinds
      <4> QED  BY <4>1, <4>2
    <3> QED  BY <1>6, <3>1, StillListed DEF Orderly
  <2>6. Marked'  BY <1>3, <1>6, <2>4, KeyKinds, StillMarked DEF Orderly
  <2>7. Reachable'
    <3>1. ASSUME NEW c \in kept, Listed(c) PROVE Listed(c)'
      <4>1. c # None  BY <1>1, <3>1, ObjectKinds
      <4> QED  BY <1>1, <1>6, <2>4, <3>1, <4>1, KeyKinds, StillLive
    <3>2. ASSUME NEW c \in kept, OnTheWay(c) PROVE Listed(c)'
      <4>1. PICK q \in ks : bin[i][q] = c /\ LiveAt(q) # {}  BY <1>2, <1>3, <3>2 DEF OnTheWay
      <4>2. bucket'[q] = c  BY <1>5, <2>1, <4>1
      <4>3. PICK r \in LiveAt(q) : TRUE  BY <4>1
      <4>4. r \in Rows /\ Live(r) /\ rows[r].path = q  BY <4>3 DEF LiveAt
      <4> QED  BY <1>6, <4>2, <4>4, SameRows DEF Listed
    <3> QED  BY <1>3, <2>2, <3>1, <3>2, StillReachable
  <2> QED  BY <2>2, <2>3, <2>5, <2>6, <2>7 DEF ListingInv
<1>7. CASE /\ clock' = clock + 1 /\ items' = items \cup {i}
           /\ record' = [record EXCEPT ![i] = [path |-> <<p>>, created |-> clock + 1]]
           /\ rows' = [r \in Rows |-> IF Live(r) /\ rows[r].path[1] = p
                                      THEN [rows[r] EXCEPT !.hidden = clock + 1] ELSE rows[r]]
           /\ UNCHANGED <<bytes, damage>>
  BY <1>2, <1>3, <1>4, <1>7, HiddenListing
<1> QED  BY <1>2, <1>6, <1>7 DEF HideSubtree

-----------------------------------------------------------------------------
(* Out of the bin *)

\* The item of a restore is not purged meanwhile, or it counts as damage.
LEMMA RestoredAlone ==
    ASSUME Orderly, NEW i, Alone(i)
    PROVE  bin[i] # NoKeys /\ \A a \in Actors : purge[a] # None => purge[a].item # i
    BY OrderlyFacts DEF Alone, BeingPurged

LEMMA RestoreFileListing ==
    ASSUME Orderly, NEW i \in Items, RestoreFile(i)
    PROVE  ListingInv'
<1>1. TypeOK /\ MarkerKeys /\ Listing /\ kept \subseteq Contents  BY OrderlyFacts DEF TypeOK
<1>2. PICK k : k = record[i].path  OBVIOUS
<1>3. /\ op = Idle /\ op.step = "idle" /\ i \in items /\ ~IsDir(i) /\ bin[i][k] # None /\ Vacant(k)
      /\ Object(k, bin[i][k]) /\ Alone(i)
      /\ op' = [Idle EXCEPT !.step = "delete recycled", !.key = k, !.item = i, !.keys = {k}]
      /\ UNCHANGED <<bin, rows, items, record, clock, purge, batch, kept>>
  BY <1>2, IdleType DEF RestoreFile, Ready
<1>4. k \in Files /\ k \in Keys  BY <1>2, <1>3, ItemPath DEF Orderly
<1>5. op'.step = "delete recycled" /\ op'.key = k /\ op'.item = i /\ op'.keys = {k}
  BY <1>3, IdleType DEF Idle
<1>6. \A q \in Keys : bucket'[q] = IF q = k THEN bin[i][k] ELSE bucket[q]
  <2>1. bin[i][k] \in Objects  BY <1>1, <1>4 DEF TypeOK
  <2> QED  BY <1>1, <1>3, <1>4, <2>1, ObjectPut
<1>7. bucket[k] = None /\ LiveAt(k) = {}  BY <1>3, <1>4, VacantUnlisted
<1>8. HiddenRows' /\ OneItem' /\ NothingHidden' /\ PurgedBytes' /\ ItemKeys' /\ HiddenBytes' /\ \A c : InItem(c) => InItem(c)'
  BY <1>3, BinStays DEF Orderly
<1>9. Listing'
  <2>1. \A s \in Rows : Live(s) /\ IsFile(s) => bucket[rows[s].path] # None /\ rows[s].path \in Keys
    BY <1>1, <1>3, LiveKinds DEF Listing, Moving, Live
  <2> QED  BY <1>3, <1>6, <2>1, StillListed DEF Orderly
<1>10. Marked'  BY <1>3, <1>4, <1>6, KeyKinds, StillMarked DEF Orderly
<1>11. Restorable'
  <2>1. \A a \in Actors : purge[a] # None => purge[a].item # i  BY <1>3, RestoredAlone
  <2> QED  BY <1>2, <1>3, <1>5, <2>1 DEF Restorable
<1>12. Clear'
  <2>1. LiveAt(k)' = {}  BY <1>3, <1>7, SameRows
  <2> QED  BY <1>5, <2>1 DEF Clear
<1>13. Held'  BY <1>3, <1>4, <1>5, <1>6 DEF Held
<1>14. Reachable'
  <2>1. \A c \in kept : Listed(c) => Listed(c)'  BY <1>1, <1>3, <1>6, <1>7, KeyKinds, StillLive
  <2>2. \A c \in kept : ~OnTheWay(c)  BY <1>3 DEF OnTheWay
  <2> QED  BY <1>3, <1>8, <2>1, <2>2, StillReachable
<1> QED  BY <1>8, <1>9, <1>10, <1>11, <1>12, <1>13, <1>14 DEF ListingInv

LEMMA RestoreFolderListing ==
    ASSUME Orderly, NEW i \in Items, RestoreFolder(i)
    PROVE  ListingInv'
<1>1. TypeOK /\ MarkerKeys /\ Listing /\ Marked /\ kept \subseteq Contents  BY OrderlyFacts DEF TypeOK
<1>2. PICK p, ks, k : p = record[i].path[1] /\ ks = UnderPrefix(bin[i], p) /\ k = <<p>>  OBVIOUS
<1>3. /\ op = Idle /\ op.step = "idle" /\ i \in items /\ IsDir(i) /\ NothingThere(p) /\ Alone(i)
      /\ op' = [Idle EXCEPT !.step = "copy back", !.key = k, !.item = i, !.keys = ks]
      /\ UNCHANGED <<bucket, bin, rows, items, record, clock, purge, batch, kept>>
  BY <1>2, IdleType DEF RestoreFolder, Ready
<1>4. k \in Markers /\ k = record[i].path
  <2>1. record[i].path \in Markers  BY <1>3, ItemPath DEF Orderly
  <2> QED  BY <1>2, <2>1, KeyKinds
<1>5. \A q \in Keys : q[1] = p => bucket[q] = None
  BY <1>3, OrderlyFacts DEF NothingThere, UnderPrefix
<1>6. op'.step = "copy back" /\ op'.key = k /\ op'.item = i /\ op'.keys = ks  BY <1>3, IdleType DEF Idle
<1>7. HiddenRows' /\ OneItem' /\ NothingHidden' /\ PurgedBytes' /\ ItemKeys' /\ HiddenBytes' /\ \A c : InItem(c) => InItem(c)'
  BY <1>3, BinStays DEF Orderly
<1>8. Listing'  BY <1>1, <1>3, StillListed DEF Orderly, Listing, Moving
<1>9. Marked'  BY <1>3, StillMarked DEF Orderly
<1>10. Restorable'
  <2>1. \A a \in Actors : purge[a] # None => purge[a].item # i  BY <1>3, RestoredAlone
  <2> QED  BY <1>3, <1>4, <1>6, <2>1 DEF Restorable
<1>11. Clear'
  <2>1. ASSUME NEW r \in Rows, Live(r), rows[r].path[1] = p PROVE FALSE
    <3>1. rows[r].path \in Keys /\ (IF IsFile(r) THEN rows[r].path \in Files ELSE rows[r].path \in Markers)
      BY <1>1, <2>1, LiveKinds DEF Live
    <3>2. bucket[rows[r].path] = None  BY <1>5, <2>1, <3>1
    <3>3. CASE IsFile(r)  BY <1>1, <1>3, <2>1, <3>2, <3>3 DEF Listing, Moving
    <3>4. CASE ~IsFile(r)
      <4>1. rows[r].path \in Markers /\ rows[r].path = k  BY <1>2, <2>1, <3>1, <3>4, KeyKinds
      <4> QED  BY <1>1, <1>3, <1>4, <2>1, <3>2, <4>1 DEF Marked
    <3> QED  BY <3>3, <3>4
  <2>2. k[1] = p  BY <1>2
  <2>3. \A r \in Rows : Live(r)' => rows'[r].path[1] # p  BY <1>3, <2>1, SameRows
  <2> QED  BY <1>6, <2>2, <2>3 DEF Clear
<1>12. Held'
  <2>1. k[1] = p  BY <1>2
  <2>2. bin[i] # NoKeys  BY <1>3, RestoredAlone
  <2>3. bin' = bin /\ ks = UnderPrefix(bin'[i], p)  BY <1>2, <1>3
  <2> QED  BY <1>6, <2>1, <2>2, <2>3 DEF Held
<1>13. Reachable'
  <2>1. \A c \in kept : Listed(c) => Listed(c)'  BY <1>1, <1>3, StillLive
  <2>2. \A c \in kept : ~OnTheWay(c)  BY <1>3 DEF OnTheWay
  <2> QED  BY <1>3, <1>7, <2>1, <2>2, StillReachable
<1> QED  BY <1>7, <1>8, <1>9, <1>10, <1>11, <1>12, <1>13 DEF ListingInv

\* A folder that is being restored.
LEMMA RestoredFolder ==
    ASSUME Orderly, op.step \in {"copy back", "unhide"}
    PROVE  /\ op.key \in Markers /\ op.item \in Items /\ op.item \in items /\ IsKnown(op.item)
           /\ op.keys \in SUBSET Keys /\ op.key = <<op.key[1]>> /\ record[op.item].path = op.key /\ IsDir(op.item)
           /\ \A a \in Actors : purge[a] # None => purge[a].item # op.item
           /\ \A r \in Rows : Live(r) => rows[r].path[1] # op.key[1]
           /\ \A q \in Keys : bin[op.item][q] # None => q[1] = op.key[1]
           /\ \A q \in op.keys \cap Files : bucket[q] = None \/ bin[op.item][q] \in {None, bucket[q]}
           /\ \A r \in Rows : Live(r) /\ IsFile(r) => bucket[rows[r].path] # None /\ rows[r].path \in Files
<1>1. op.key \in Markers /\ op.item \in Items /\ IsKnown(op.item)  BY OrderlyFacts DEF RequestTypes
<1>2. op.keys \in SUBSET Keys  BY OrderlyFacts DEF TypeOK, Request
<1>3. op.key = <<op.key[1]>> /\ Len(op.key) = 1  BY <1>1, KeyKinds
<1>4. op.item \in items /\ record[op.item].path = op.key  BY OrderlyFacts DEF Restorable
<1>5. IsDir(op.item)  BY <1>3, <1>4 DEF IsDir
<1>6. \A a \in Actors : purge[a] # None => purge[a].item # op.item  BY OrderlyFacts DEF Restorable
<1>7. \A r \in Rows : Live(r) => rows[r].path[1] # op.key[1]  BY OrderlyFacts DEF Clear
<1>8. \A q \in Keys : bin[op.item][q] # None => q[1] = op.key[1]  BY <1>1, <1>4, <1>5, OrderlyFacts DEF ItemKeys
<1>9. \A q \in op.keys \cap Files : bucket[q] = None \/ bin[op.item][q] \in {None, bucket[q]}  BY OrderlyFacts DEF Copies
<1>10. ASSUME NEW r \in Rows, Live(r), IsFile(r) PROVE bucket[rows[r].path] # None /\ rows[r].path \in Files
  <2>1. ~Moving(r)  BY DEF Moving
  <2>2. bucket[rows[r].path] # None  BY <1>10, <2>1, OrderlyFacts DEF Listing
  <2> QED  BY <1>10, <2>2, OrderlyFacts, LiveKinds DEF Live
<1> QED  BY <1>1, <1>2, <1>3, <1>4, <1>5, <1>6, <1>7, <1>8, <1>9, <1>10

LEMMA CopyBackListing ==
    ASSUME Orderly, CopyBack
    PROVE  ListingInv'
<1>1. TypeOK /\ MarkerKeys /\ Listing /\ kept \subseteq Contents  BY OrderlyFacts DEF TypeOK
<1>2. PICK i, p : i = op.item /\ p = op.key[1]  OBVIOUS
<1>3. op.step = "copy back" /\ UNCHANGED <<rows, items, record, clock, purge, batch, kept>>  BY DEF CopyBack
<1>4. /\ i \in Items /\ i \in items /\ record[i].path = op.key
      /\ \A a \in Actors : purge[a] # None => purge[a].item # i
      /\ \A r \in Rows : Live(r) => rows[r].path[1] # p
      /\ \A r \in Rows : Live(r) /\ IsFile(r) => bucket[rows[r].path] # None /\ rows[r].path \in Files
  BY <1>2, <1>3, RestoredFolder
<1>5. PICK k \in NotCopied : Object(k, bin[i][k]) /\ bin[i][k] # None /\ UNCHANGED <<op, bin, damage>>
  BY <1>2, OrderlyFacts DEF CopyBack
<1>6. k \in Files /\ k \in Keys /\ bucket[k] = None  BY KeyKinds DEF NotCopied
<1>7. \A q \in Keys : bucket'[q] = IF q = k THEN bin[i][k] ELSE bucket[q]
  <2>1. bin[i][k] \in Objects  BY <1>1, <1>4, <1>6 DEF TypeOK
  <2> QED  BY <1>1, <1>5, <1>6, <2>1, ObjectPut
<1>8. HiddenRows' /\ OneItem' /\ NothingHidden' /\ PurgedBytes' /\ ItemKeys' /\ HiddenBytes' /\ \A c : InItem(c) => InItem(c)'
  BY <1>3, <1>5, BinStays DEF Orderly
<1>9. op'.step = "copy back" /\ op'.key = op.key /\ op'.item = i /\ op'.keys = op.keys  BY <1>2, <1>3, <1>5
<1>10. Listing'  BY <1>3, <1>4, <1>5, <1>7, KeyKinds, StillListed DEF Orderly
<1>11. Marked'  BY <1>3, <1>6, <1>7, KeyKinds, StillMarked DEF Orderly
<1>12. Restorable'  BY <1>3, <1>4, <1>9 DEF Restorable
<1>13. Clear'
  <2>1. \A r \in Rows : Live(r)' => rows'[r].path[1] # p  BY <1>3, <1>4, SameRows
  <2> QED  BY <1>2, <1>9, <2>1 DEF Clear
<1>14. Held'
  <2>1. op.keys = UnderPrefix(bin[i], p) /\ bin[i] # NoKeys  BY <1>2, <1>3, OrderlyFacts DEF Held
  <2>2. bin'[i] = bin[i] /\ op'.key[1] = p  BY <1>2, <1>5
  <2> QED  BY <1>9, <2>1, <2>2 DEF Held
<1>15. Reachable'
  <2>1. ASSUME NEW c \in kept, Listed(c) PROVE Listed(c)'
    <3>1. c # None  BY <1>1, <2>1, ObjectKinds
    <3> QED  BY <1>1, <1>3, <1>6, <1>7, <2>1, <3>1, KeyKinds, StillLive
  <2>2. \A c \in kept : ~OnTheWay(c)  BY <1>3 DEF OnTheWay
  <2> QED  BY <1>3, <1>8, <2>1, <2>2, StillReachable
<1> QED  BY <1>8, <1>10, <1>11, <1>12, <1>13, <1>14, <1>15 DEF ListingInv

\* An item that loses objects, its own invariants apart.
LEMMA BinEmptied ==
    ASSUME Orderly, NEW i \in Items, UNCHANGED <<items, record, rows, purge, batch>>,
           \A j \in Items : j # i => bin'[j] = bin[j],
           \A q \in Keys : bin'[i][q] \in {bin[i][q], None},
           \A a \in Actors : purge[a] # None => purge[a].item # i,
           IsDir(i) => bin'[i] \in {bin[i], NoKeys}
    PROVE  /\ HiddenRows' /\ OneItem' /\ NothingHidden' /\ PurgedBytes' /\ ItemKeys'
           /\ IsKnown(i) => HiddenBytes'
<1>1. /\ TypeOK /\ OneItem /\ HiddenRows /\ NothingHidden /\ ItemKeys /\ HiddenBytes /\ PurgedBytes
  BY OrderlyFacts
<1>2. Active' = Active  BY DEF Active
<1>3. HiddenRows'  BY <1>1 DEF HiddenRows, Hidden
<1>4. OneItem'  BY <1>1, <1>2 DEF OneItem, IsDir
<1>5. NothingHidden'  BY <1>1 DEF NothingHidden, Hidden, Purging
<1>6. PurgedBytes'
  <2>1. ASSUME NEW a \in Actors, purge[a] # None PROVE bin'[purge[a].item] = bin[purge[a].item]
    BY <1>1, <2>1, TakingOf
  <2> QED  BY <1>1, <2>1 DEF PurgedBytes, IsDir
<1>7. ItemKeys'
  <2>1. \A j \in Items, q \in Keys : bin'[j][q] # None => bin[j][q] # None  OBVIOUS
  <2> QED  BY <1>1, <2>1 DEF ItemKeys, IsKnown, IsDir
<1>8. ASSUME IsKnown(i) PROVE HiddenBytes'
  <2>1. ASSUME NEW j \in items, NEW r \in Rows, bin'[j] # NoKeys, Hidden(r), IsFile(r), record[j].path = <<rows[r].path[1]>>
        PROVE  bin'[j][rows[r].path] # None
    <3>1. j \in Items  BY <1>1 DEF TypeOK
    <3>2. IsDir(j)
      <4>1. Len(<<rows[r].path[1]>>) = 1  OBVIOUS
      <4> QED  BY <2>1, <4>1 DEF IsDir
    <3>3. bin'[j] = bin[j]  BY <2>1, <3>1, <3>2
    <3> QED  BY <1>1, <2>1, <3>3 DEF HiddenBytes
  <2> QED  BY <2>1 DEF HiddenBytes, Hidden, IsFile
<1> QED  BY <1>3, <1>4, <1>5, <1>6, <1>7, <1>8

\* The objects of a folder in the bin are all deleted, or none is.
LEMMA WithoutAll ==
    ASSUME TypeOK, NEW i \in Items, NEW ks, \A q \in Keys : bin[i][q] # None => q \in ks
    PROVE  Without(bin[i], ks) = NoKeys
<1>1. bin[i] \in [Keys -> Objects]  BY DEF TypeOK
<1>2. \A q \in Keys : (IF q \in ks THEN None ELSE bin[i][q]) = None  OBVIOUS
<1> QED  BY <1>2 DEF Without, NoKeys

LEMMA DeleteFolderCopies ==
    ASSUME Orderly, op.step = "copy back", DeleteRecycled
    PROVE  ListingInv'
<1>1. TypeOK /\ MarkerKeys /\ Listing /\ HiddenBytes /\ kept \subseteq Contents  BY OrderlyFacts DEF TypeOK
<1>2. PICK i, p, ks : i = op.item /\ p = op.key[1] /\ ks = op.keys  OBVIOUS
<1>3. /\ UNCHANGED <<bucket, rows, items, record, clock, purge, batch, kept>> /\ Goto("unhide") /\ NotCopied = {}
      /\ bin' = [bin EXCEPT ![i] = Without(@, ks)] \/ bin' = bin
  BY <1>2 DEF DeleteRecycled
<1>4. /\ i \in Items /\ i \in items /\ IsKnown(i) /\ IsDir(i) /\ record[i].path = op.key /\ op.key = <<p>>
      /\ op.key \in Markers
      /\ \A a \in Actors : purge[a] # None => purge[a].item # i
      /\ \A r \in Rows : Live(r) => rows[r].path[1] # p
      /\ \A q \in Keys : bin[i][q] # None => q[1] = p
      /\ \A q \in ks \cap Files : bucket[q] = None \/ bin[i][q] \in {None, bucket[q]}
      /\ \A r \in Rows : Live(r) /\ IsFile(r) => bucket[rows[r].path] # None /\ rows[r].path \in Files
  BY <1>2, RestoredFolder
<1>5. /\ bin[i] # NoKeys /\ \A q \in Keys : q \in ks <=> bin[i][q] # None
      /\ \A q \in ks : q \in Keys /\ q[1] = p
  <2>1. ks = UnderPrefix(bin[i], p) /\ bin[i] # NoKeys  BY <1>2, OrderlyFacts DEF Held
  <2> QED  BY <1>4, <2>1 DEF UnderPrefix
<1>6. \A q \in ks \cap Files : bucket[q] # None /\ bin[i][q] = bucket[q]
  <2>1. \A q \in ks \cap Files : bucket[q] # None  BY <1>2, <1>3 DEF NotCopied
  <2> QED  BY <1>4, <1>5, <2>1
<1>7. bin'[i] \in {bin[i], NoKeys} /\ \A j \in Items : j # i => bin'[j] = bin[j]
  <2>1. CASE bin' = [bin EXCEPT ![i] = Without(@, ks)]
    <3>1. Without(bin[i], ks) = NoKeys  BY <1>1, <1>4, <1>5, WithoutAll
    <3> QED  BY <1>1, <1>4, <2>1, <3>1 DEF TypeOK
  <2> QED  BY <1>3, <2>1
<1>8. \A q \in Keys : bin'[i][q] \in {bin[i][q], None}  BY <1>7, ObjectKinds
<1>9. op'.step = "unhide" /\ op'.key = op.key /\ op'.item = i /\ op'.keys = ks
  BY <1>1, <1>2, <1>3, GoneTo DEF Steps
<1>10. HiddenRows' /\ OneItem' /\ NothingHidden' /\ PurgedBytes' /\ ItemKeys' /\ HiddenBytes'
  BY <1>3, <1>4, <1>7, <1>8, BinEmptied
<1>11. Listing'  BY <1>3, <1>4, StillListed DEF Orderly
<1>12. Marked'  BY <1>3, StillMarked DEF Orderly
<1>13. Restorable'  BY <1>3, <1>4, <1>9 DEF Restorable
<1>14. Clear'
  <2>1. \A r \in Rows : Live(r)' => rows'[r].path[1] # p  BY <1>3, <1>4, SameRows
  <2> QED  BY <1>2, <1>9, <2>1 DEF Clear
<1>15. Held'
  <2>1. \A q \in Files : bin'[i][q] \in {None, bucket[q]}  BY <1>5, <1>6, <1>8, KeyKinds
  <2>2. ASSUME NEW r \in Rows, Hidden(r), IsFile(r), rows[r].path[1] = p
        PROVE  rows[r].path \in ks /\ bucket[rows[r].path] # None
    <3>1. bin[i][rows[r].path] # None
      <4>1. record[i].path = <<rows[r].path[1]>>  BY <1>4, <2>2
      <4>2. i \in items /\ bin[i] # NoKeys  BY <1>4, <1>5
      <4> QED  BY <1>1, <2>2, <4>1, <4>2 DEF HiddenBytes
    <3>2. rows[r].path \in Files /\ rows[r].path \in Keys  BY <1>1, <2>2, LiveKinds DEF Hidden
    <3> QED  BY <1>5, <1>6, <3>1, <3>2
  <2>3. \A r \in Rows : Hidden(r)' /\ IsFile(r)' /\ rows'[r].path[1] = p =>
            rows'[r].path \in ks /\ bucket'[rows'[r].path] # None
    BY <1>3, <2>2, SameRows
  <2>4. op'.key[1] = p /\ bucket' = bucket  BY <1>2, <1>3, <1>9
  <2> QED  BY <1>5, <1>9, <2>1, <2>3, <2>4 DEF Held
<1>16. Reachable'
  <2>1. ASSUME NEW c \in kept, InItem(c) PROVE InItem(c)' \/ OnTheWay(c)'
    <3>1. PICK j \in items, q \in Keys : bin[j][q] = c /\ (IsDir(j) => HiddenAt(q) # {})  BY <2>1 DEF InItem
    <3>2. CASE j # i
      <4>1. bin'[j] = bin[j] /\ HiddenAt(q)' = HiddenAt(q) /\ (IsDir(j)' <=> IsDir(j))
        BY <1>1, <1>3, <1>7, <3>2, SameRows DEF TypeOK, IsDir
      <4> QED  BY <1>3, <3>1, <4>1 DEF InItem
    <3>3. CASE j = i
      <4>1. c \in Contents /\ c # None /\ HiddenAt(q) # {}  BY <1>1, <1>4, <2>1, <3>1, <3>3, ObjectKinds
      <4>2. q \in Files /\ q \in ks  BY <1>1, <1>4, <1>5, <3>1, <3>3, <4>1, ContentAtFile
      <4>3. bucket'[q] = c /\ HiddenAt(q)' # {}  BY <1>3, <1>6, <3>1, <3>3, <4>1, <4>2, SameRows
      <4> QED  BY <1>9, <4>2, <4>3 DEF OnTheWay
    <3> QED  BY <3>2, <3>3
  <2>2. \A c \in kept : Listed(c) => Listed(c)'  BY <1>1, <1>3, StillLive
  <2>3. \A c \in kept : ~OnTheWay(c)  BY DEF OnTheWay
  <2> QED  BY <1>3, <2>1, <2>2, <2>3, OrderlyFacts DEF Reachable
<1> QED  BY <1>10, <1>11, <1>12, <1>13, <1>14, <1>15, <1>16 DEF ListingInv

\* A file that is being restored, or has been.
LEMMA RestoredFile ==
    ASSUME Orderly, op.step \in {"delete recycled", "recreate row"}
    PROVE  /\ op.key \in Files /\ op.key \in Keys /\ op.item \in Items /\ op.item \in items /\ IsKnown(op.item)
           /\ record[op.item].path = op.key /\ ~IsDir(op.item)
           /\ \A a \in Actors : purge[a] # None => purge[a].item # op.item
           /\ LiveAt(op.key) = {} /\ bucket[op.key] # None
           /\ bin[op.item][op.key] \in {None, bucket[op.key]}
           /\ \A q \in Keys : bin[op.item][q] # None => q = op.key
           /\ \A r \in Rows : Live(r) /\ IsFile(r) => bucket[rows[r].path] # None /\ rows[r].path \in Files
<1>1. op.key \in Files /\ op.key \in Keys /\ op.item \in Items /\ IsKnown(op.item)
  BY OrderlyFacts, KeyKinds DEF RequestTypes
<1>2. op.item \in items /\ record[op.item].path = op.key  BY OrderlyFacts DEF Restorable
<1>3. ~IsDir(op.item)
  <2>1. Len(record[op.item].path) # 1  BY <1>1, <1>2, FileIsNoDir
  <2> QED  BY <2>1 DEF IsDir
<1>4. \A a \in Actors : purge[a] # None => purge[a].item # op.item  BY OrderlyFacts DEF Restorable
<1>5. LiveAt(op.key) = {}  BY OrderlyFacts DEF Clear
<1>6. bucket[op.key] # None  BY OrderlyFacts DEF Held
<1>7. bin[op.item][op.key] \in {None, bucket[op.key]}
  <2>1. CASE op.step = "delete recycled"  BY <2>1, OrderlyFacts DEF Copies
  <2>2. CASE op.step = "recreate row"  BY <2>2, OrderlyFacts DEF Held
  <2> QED  BY <2>1, <2>2
<1>8. \A q \in Keys : bin[op.item][q] # None => q = op.key  BY <1>1, <1>2, <1>3, OrderlyFacts DEF ItemKeys
<1>9. ASSUME NEW r \in Rows, Live(r), IsFile(r) PROVE bucket[rows[r].path] # None /\ rows[r].path \in Files
  <2>1. ~Moving(r)  BY DEF Moving
  <2>2. bucket[rows[r].path] # None  BY <1>9, <2>1, OrderlyFacts DEF Listing
  <2> QED  BY <1>9, <2>2, OrderlyFacts, LiveKinds DEF Live
<1> QED  BY <1>1, <1>2, <1>3, <1>4, <1>5, <1>6, <1>7, <1>8, <1>9

LEMMA DeleteFileCopy ==
    ASSUME Orderly, op.step = "delete recycled", DeleteRecycled
    PROVE  ListingInv'
<1>1. TypeOK /\ MarkerKeys /\ Listing /\ kept \subseteq Contents  BY OrderlyFacts DEF TypeOK
<1>2. PICK i, k, ks : i = op.item /\ k = op.key /\ ks = op.keys  OBVIOUS
<1>3. /\ UNCHANGED <<bucket, rows, items, record, clock, purge, batch, kept>> /\ Goto("recreate row")
      /\ bin' = [bin EXCEPT ![i] = Without(@, ks)] \/ bin' = bin
  BY <1>2 DEF DeleteRecycled
<1>4. /\ k \in Files /\ k \in Keys /\ i \in Items /\ i \in items /\ IsKnown(i) /\ record[i].path = k /\ ~IsDir(i)
      /\ \A a \in Actors : purge[a] # None => purge[a].item # i
      /\ LiveAt(k) = {} /\ bucket[k] # None /\ bin[i][k] \in {None, bucket[k]}
      /\ \A q \in Keys : bin[i][q] # None => q = k
      /\ \A r \in Rows : Live(r) /\ IsFile(r) => bucket[rows[r].path] # None /\ rows[r].path \in Files
  BY <1>2, RestoredFile
<1>5. (\A q \in Keys : bin'[i][q] \in {bin[i][q], None}) /\ \A j \in Items : j # i => bin'[j] = bin[j]
  <2>1. CASE bin' = [bin EXCEPT ![i] = Without(@, ks)]
    <3>1. bin[i] \in [Keys -> Objects]  BY <1>1, <1>4 DEF TypeOK
    <3>2. \A q \in Keys : Without(bin[i], ks)[q] \in {bin[i][q], None}  BY <3>1 DEF Without
    <3>3. bin'[i] = Without(bin[i], ks) /\ \A j \in Items : j # i => bin'[j] = bin[j]
      BY <1>1, <1>4, <2>1 DEF TypeOK
    <3> QED  BY <3>2, <3>3
  <2> QED  BY <1>3, <2>1
<1>6. op'.step = "recreate row" /\ op'.key = k /\ op'.item = i  BY <1>1, <1>2, <1>3, GoneTo DEF Steps
<1>7. HiddenRows' /\ OneItem' /\ NothingHidden' /\ PurgedBytes' /\ ItemKeys' /\ HiddenBytes'
  BY <1>3, <1>4, <1>5, BinEmptied
<1>8. Listing'  BY <1>3, <1>4, StillListed DEF Orderly
<1>9. Marked'  BY <1>3, StillMarked DEF Orderly
<1>10. Restorable'  BY <1>3, <1>4, <1>6 DEF Restorable
<1>11. Clear'
  <2>1. LiveAt(k)' = {}  BY <1>3, <1>4, SameRows
  <2> QED  BY <1>6, <2>1 DEF Clear
<1>12. Held'
  <2>1. bin'[i][k] \in {None, bucket[k]}  BY <1>4, <1>5
  <2> QED  BY <1>3, <1>4, <1>6, <2>1 DEF Held
<1>13. Reachable'
  <2>1. ASSUME NEW c \in kept, InItem(c) PROVE InItem(c)' \/ OnTheWay(c)'
    <3>1. PICK j \in items, q \in Keys : bin[j][q] = c /\ (IsDir(j) => HiddenAt(q) # {})  BY <2>1 DEF InItem
    <3>2. CASE j # i
      <4>1. bin'[j] = bin[j] /\ HiddenAt(q)' = HiddenAt(q) /\ (IsDir(j)' <=> IsDir(j))
        BY <1>1, <1>3, <1>5, <3>2, SameRows DEF TypeOK, IsDir
      <4> QED  BY <1>3, <3>1, <4>1 DEF InItem
    <3>3. CASE j = i
      <4>1. c # None  BY <1>1, <2>1, ObjectKinds
      <4>2. bucket'[k] = c  BY <1>3, <1>4, <3>1, <3>3, <4>1
      <4> QED  BY <1>6, <4>2 DEF OnTheWay
    <3> QED  BY <3>2, <3>3
  <2>2. \A c \in kept : Listed(c) => Listed(c)'  BY <1>1, <1>3, StillLive
  <2>3. \A c \in kept : ~OnTheWay(c)  BY DEF OnTheWay
  <2> QED  BY <1>3, <2>1, <2>2, <2>3, OrderlyFacts DEF Reachable
<1> QED  BY <1>7, <1>8, <1>9, <1>10, <1>11, <1>12, <1>13 DEF ListingInv

LEMMA DeleteRecycledListing ==
    ASSUME Orderly, DeleteRecycled
    PROVE  ListingInv'
    BY DeleteFolderCopies, DeleteFileCopy DEF DeleteRecycled

LEMMA RecreateRowListing ==
    ASSUME Orderly, RecreateRow
    PROVE  ListingInv'
<1>1. TypeOK /\ MarkerKeys /\ Listing /\ Marked /\ kept \subseteq Contents  BY OrderlyFacts DEF TypeOK
<1>2. PICK i, k : i = op.item /\ k = op.key  OBVIOUS
<1>3. op.step = "recreate row" /\ UNCHANGED <<bucket, bin, items, record, clock, purge, batch, kept>>
  BY DEF RecreateRow
<1>4. /\ k \in Files /\ k \in Keys /\ i \in Items /\ i \in items /\ IsKnown(i) /\ record[i].path = k /\ ~IsDir(i)
      /\ \A a \in Actors : purge[a] # None => purge[a].item # i
      /\ LiveAt(k) = {} /\ bucket[k] # None /\ bin[i][k] \in {None, bucket[k]}
      /\ \A q \in Keys : bin[i][q] # None => q = k
      /\ \A r \in Rows : Live(r) /\ IsFile(r) => bucket[rows[r].path] # None /\ rows[r].path \in Files
  BY <1>2, <1>3, RestoredFile
<1>5. AddRow(k) /\ Goto("drop item")  BY <1>2, OrderlyFacts DEF RecreateRow
<1>6. op'.step = "drop item" /\ op'.key = k /\ op'.item = i  BY <1>1, <1>2, <1>5, GoneTo DEF Steps
<1>7. /\ Listing'
      /\ \A r \in Rows : Hidden(r) \/ Hidden(r)' => rows'[r] = rows[r]
      /\ \A r \in Rows : Live(r) => rows'[r] = rows[r]
      /\ \E r \in Rows : /\ rows[r] = None /\ Live(r)' /\ rows'[r].path = k
                         /\ \A s \in Rows : s # r => rows'[s] = rows[s]
  BY <1>1, <1>3, <1>4, <1>5, RowListed DEF Orderly
<1>8. HiddenRows' /\ OneItem' /\ NothingHidden' /\ PurgedBytes' /\ ItemKeys' /\ HiddenBytes' /\ \A c : InItem(c) => InItem(c)'
  BY <1>3, <1>7, BinStays DEF Orderly
<1>9. Marked'
  <2>1. ASSUME NEW r \in Rows, NEW j \in items', Live(r)', rows'[r].path \in Markers, record'[j].path = rows'[r].path
        PROVE  bucket'[rows'[r].path] # None
    <3>1. rows'[r] = rows[r]  BY <1>4, <1>7, <2>1, KeyKinds
    <3>2. Live(r)  BY <2>1, <3>1 DEF Live
    <3> QED  BY <1>1, <1>3, <2>1, <3>1, <3>2 DEF Marked
  <2> QED  BY <2>1 DEF Marked
<1>10. Restorable'  BY <1>3, <1>4, <1>6 DEF Restorable
<1>11. ~IsDir(i)'  BY <1>3, <1>4 DEF IsDir
<1>12. Clear'  BY <1>6, <1>11 DEF Clear, IsDir
<1>13. Held'
  <2>1. ASSUME NEW q \in Keys, bin'[i][q] # None PROVE bin'[i][q] = bucket'[q] /\ LiveAt(q)' # {}
    <3>1. q = k /\ bin[i][k] = bucket[k]  BY <1>3, <1>4, <2>1
    <3>2. LiveAt(k)' # {}  BY <1>7 DEF LiveAt
    <3> QED  BY <1>3, <3>1, <3>2
  <2> QED  BY <1>6, <2>1 DEF Held
<1>14. Reachable'
  <2>1. \A c \in kept : Listed(c) => Listed(c)'  BY <1>1, <1>3, <1>7, StillLive
  <2>2. ASSUME NEW c \in kept, OnTheWay(c) PROVE Listed(c)'
    <3>1. bucket[k] = c  BY <1>2, <1>3, <2>2 DEF OnTheWay
    <3>2. PICK r \in Rows : Live(r)' /\ rows'[r].path = k  BY <1>7
    <3>3. bucket'[rows'[r].path] = c  BY <1>3, <3>1, <3>2
    <3> QED  BY <3>2, <3>3 DEF Listed
  <2> QED  BY <1>3, <1>8, <2>1, <2>2, StillReachable
<1> QED  BY <1>7, <1>8, <1>9, <1>10, <1>12, <1>13, <1>14 DEF ListingInv

LEMMA SameTime ==
    ASSUME NEW t \in Times
    PROVE  t >= t /\ t \in Int
    BY BucketAssumption, FS_CardinalityType DEF Times

\* The hidden rows of the path of an item were hidden by its deletion.
LEMMA RowsOfItem ==
    ASSUME Orderly, NEW i \in Active, IsDir(i), NEW r \in Rows, Hidden(r), <<rows[r].path[1]>> = record[i].path
    PROVE  rows[r].hidden >= record[i].created
<1>1. PICK j \in items : record[j].path = <<rows[r].path[1]>> /\ record[j].created = rows[r].hidden
  BY OrderlyFacts DEF HiddenRows
<1>2. j = i  BY <1>1, OrderlyFacts DEF OneItem, Active
<1>3. rows[r].hidden \in Times  BY OrderlyFacts, LiveKinds DEF Hidden
<1> QED  BY <1>1, <1>2, <1>3, SameTime

\* The hidden rows of a folder that is being restored are those that its deletion hid.
LEMMA RestoredRows ==
    ASSUME Orderly, op.step \in {"copy back", "unhide"}, NEW r \in Rows
    PROVE  r \in HiddenSince(op.key[1], record[op.item].created) <=> Hidden(r) /\ rows[r].path[1] = op.key[1]
<1>1. IsDir(op.item) /\ record[op.item].path = op.key /\ op.key = <<op.key[1]>> /\ op.item \in Active
  BY RestoredFolder DEF Active
<1>2. ASSUME Hidden(r), rows[r].path[1] = op.key[1] PROVE rows[r].hidden >= record[op.item].created
  <2>1. <<rows[r].path[1]>> = record[op.item].path  BY <1>1, <1>2
  <2> QED  BY <1>1, <1>2, <2>1, RowsOfItem
<1>3. r \in HiddenSince(op.key[1], record[op.item].created) <=>
          Hidden(r) /\ rows[r].path[1] = op.key[1] /\ rows[r].hidden >= record[op.item].created
  BY DEF HiddenSince, Hidden
<1> QED  BY <1>2, <1>3

LEMMA ZeroTime == 0 \in Times
<1>1. Cardinality(Items) \in Nat  BY BucketAssumption, FS_CardinalityType
<1> QED  BY <1>1 DEF Times

\* The rows of a folder are listed again.
LEMMA UnhiddenListing ==
    ASSUME Orderly, op.step = "unhide",
           rows' = [r \in Rows |-> IF r \in HiddenSince(op.key[1], record[op.item].created)
                                   THEN [rows[r] EXCEPT !.hidden = 0] ELSE rows[r]],
           Goto("drop item"), UNCHANGED <<bucket, bin, items, record, clock, purge, batch, kept>>
    PROVE  ListingInv'
<1>1. /\ TypeOK /\ MarkerKeys /\ Listing /\ Marked /\ OneItem /\ HiddenRows /\ NothingHidden /\ ItemKeys
      /\ HiddenBytes /\ PurgedBytes /\ kept \subseteq Contents
  BY OrderlyFacts DEF TypeOK
<1>2. PICK i, p, ks : i = op.item /\ p = op.key[1] /\ ks = op.keys  OBVIOUS
<1>3. PICK S : S = HiddenSince(p, record[i].created)  OBVIOUS
<1>4. /\ i \in Items /\ i \in items /\ IsDir(i) /\ record[i].path = <<p>> /\ i \in Active
      /\ \A a \in Actors : purge[a] # None => purge[a].item # i
      /\ \A r \in Rows : Live(r) => rows[r].path[1] # p
      /\ \A r \in Rows : Live(r) /\ IsFile(r) => bucket[rows[r].path] # None /\ rows[r].path \in Files
  BY <1>2, RestoredFolder DEF Active
<1>5. /\ \A q \in ks : q[1] = p
      /\ \A q \in Files : bin[i][q] \in {None, bucket[q]}
      /\ \A r \in Rows : Hidden(r) /\ IsFile(r) /\ rows[r].path[1] = p =>
            rows[r].path \in ks /\ bucket[rows[r].path] # None
  BY <1>2, OrderlyFacts DEF Held
<1>6. \A r \in Rows : r \in S <=> Hidden(r) /\ rows[r].path[1] = p  BY <1>2, <1>3, RestoredRows
<1>7. /\ \A r \in Rows : rows[r] = None <=> rows'[r] = None
      /\ \A r \in Rows : rows[r] # None => rows'[r].path = rows[r].path
      /\ \A r \in S : rows'[r].hidden = 0
      /\ \A r \in Rows \ S : rows'[r] = rows[r]
  <2>1. S \in SUBSET Rows /\ \A r \in S : rows[r] # None  BY <1>3 DEF HiddenSince
  <2>2. rows' = [r \in Rows |-> IF r \in S THEN [rows[r] EXCEPT !.hidden = 0] ELSE rows[r]]
    BY <1>2, <1>3
  <2> QED  BY <1>1, <2>1, <2>2, ZeroTime, RowsHidden
<1>8. \A r \in Rows : /\ Live(r)' <=> Live(r) \/ r \in S
                      /\ Hidden(r)' <=> Hidden(r) /\ r \notin S
                      /\ Live(r) => r \notin S
                      /\ rows[r] # None => (IsFile(r)' <=> IsFile(r))
  <2>1. ASSUME NEW r \in Rows, r \in S PROVE ~Live(r) /\ Live(r)' /\ ~Hidden(r)' /\ Hidden(r)
    BY <1>6, <1>7, <2>1 DEF Live, Hidden
  <2>2. ASSUME NEW r \in Rows, r \notin S PROVE (Live(r)' <=> Live(r)) /\ (Hidden(r)' <=> Hidden(r))
    BY <1>7, <2>2 DEF Live, Hidden
  <2>3. ASSUME NEW r \in Rows, rows[r] # None PROVE IsFile(r)' <=> IsFile(r)
    BY <1>7, <2>3 DEF IsFile
  <2> QED  BY <2>1, <2>2, <2>3
<1>9. \A r \in Rows : Hidden(r)' => Hidden(r) /\ rows'[r] = rows[r] /\ rows[r].path[1] # p
  BY <1>6, <1>7, <1>8
<1>10. op'.step = "drop item" /\ op'.item = i  BY <1>1, <1>2, GoneTo DEF Steps
<1>11. \A j \in items : record[j].path = <<p>> => j = i  BY <1>1, <1>4 DEF OneItem, Active
<1>12. HiddenRows' /\ OneItem'
  <2>1. ASSUME NEW r \in Rows, Hidden(r)'
        PROVE  \E j \in items : record[j].path = <<rows'[r].path[1]>> /\ record[j].created = rows'[r].hidden
    <3>1. Hidden(r) /\ rows'[r] = rows[r]  BY <1>9, <2>1
    <3>2. PICK j \in items : record[j].path = <<rows[r].path[1]>> /\ record[j].created = rows[r].hidden
      BY <1>1, <3>1 DEF HiddenRows
    <3> QED  BY <3>1, <3>2
  <2>2. ASSUME NEW r \in Rows, NEW s \in Rows, Hidden(r)', Hidden(s)', rows'[r].path = rows'[s].path PROVE r = s
    <3>1. Hidden(r) /\ Hidden(s) /\ rows[r].path = rows[s].path  BY <1>9, <2>2
    <3> QED  BY <1>1, <3>1 DEF HiddenRows
  <2>3. Active' = Active  BY DEF Active
  <2>4. OneItem'  BY <1>1, <2>3 DEF OneItem, IsDir
  <2>5. HiddenRows'
    <3>1. ASSUME NEW r \in Rows, Hidden(r)'
          PROVE  \E j \in items' : record'[j].path = <<rows'[r].path[1]>> /\ record'[j].created = rows'[r].hidden
      BY <2>1, <3>1
    <3> QED  BY <2>2, <3>1 DEF HiddenRows
  <2> QED  BY <2>4, <2>5
<1>13. NothingHidden'
  <2>1. ASSUME NEW a \in Actors, Purging(a, "item"), NEW r \in Rows, Hidden(r)'
        PROVE  <<rows'[r].path[1]>> # record[purge[a].item].path
    BY <1>1, <1>9, <2>1 DEF NothingHidden
  <2> QED  BY <2>1 DEF NothingHidden, Purging
<1>14. PurgedBytes' /\ ItemKeys'  BY <1>1 DEF PurgedBytes, ItemKeys, IsDir, IsKnown
<1>15. HiddenBytes'
  <2>1. ASSUME NEW j \in items, NEW r \in Rows, bin[j] # NoKeys, Hidden(r)', IsFile(r)', record[j].path = <<rows'[r].path[1]>>
        PROVE  bin[j][rows'[r].path] # None
    <3>1. Hidden(r) /\ rows'[r] = rows[r]  BY <1>9, <2>1
    <3>2. IsFile(r)  BY <1>8, <2>1, <3>1 DEF Hidden
    <3> QED  BY <1>1, <2>1, <3>1, <3>2 DEF HiddenBytes
  <2> QED  BY <2>1 DEF HiddenBytes
<1>16. Listing'
  <2>1. ASSUME NEW r \in Rows, Live(r)', IsFile(r)' PROVE bucket[rows'[r].path] # None
    <3>1. rows[r] # None  BY <1>7, <2>1 DEF Live
    <3>2. IsFile(r) /\ rows'[r].path = rows[r].path  BY <1>7, <1>8, <2>1, <3>1
    <3>3. CASE r \in S  BY <1>5, <1>6, <3>2, <3>3
    <3>4. CASE r \notin S  BY <1>4, <1>8, <2>1, <3>2, <3>4
    <3> QED  BY <3>3, <3>4
  <2>2. ASSUME NEW r \in Rows, NEW s \in Rows, Live(r)', Live(s)', rows'[r].path = rows'[s].path PROVE r = s
    <3>1. rows[r] # None /\ rows[s] # None  BY <1>7, <2>2 DEF Live
    <3>2. rows[r].path = rows[s].path  BY <1>7, <2>2, <3>1
    <3>3. CASE r \in S /\ s \in S  BY <1>1, <1>6, <3>2, <3>3 DEF HiddenRows
    <3>4. CASE r \notin S /\ s \notin S  BY <1>1, <1>8, <2>2, <3>2, <3>4 DEF Listing
    <3>5. CASE r \in S /\ s \notin S  BY <1>4, <1>6, <1>8, <2>2, <3>2, <3>5
    <3>6. CASE r \notin S /\ s \in S  BY <1>4, <1>6, <1>8, <2>2, <3>2, <3>6
    <3> QED  BY <3>3, <3>4, <3>5, <3>6
  <2>3. \A r \in Rows : Live(r)' /\ IsFile(r)' /\ ~Moving(r)' => bucket'[rows'[r].path] # None  BY <2>1
  <2> QED  BY <2>2, <2>3 DEF Listing
<1>17. Marked'
  <2>1. ASSUME NEW r \in Rows, NEW j \in items, Live(r)', rows'[r].path \in Markers, record[j].path = rows'[r].path
        PROVE  bucket[rows'[r].path] # None \/ j = i
    <3>1. rows[r] # None  BY <1>7, <2>1 DEF Live
    <3>2. rows'[r].path = rows[r].path  BY <1>7, <3>1
    <3>3. CASE r \in S
      <4>1. rows[r].path = <<rows[r].path[1]>>  BY <2>1, <3>2, KeyKinds
      <4>2. rows[r].path = <<p>>  BY <1>6, <3>3, <4>1
      <4> QED  BY <1>11, <2>1, <3>2, <4>2
    <3>4. CASE r \notin S  BY <1>1, <1>8, <2>1, <3>2, <3>4 DEF Marked
    <3> QED  BY <3>3, <3>4
  <2> QED  BY <1>10, <2>1 DEF Marked
<1>18. Restorable'  BY <1>4, <1>10 DEF Restorable
<1>19. Clear'
  <2>1. ASSUME NEW r \in Rows, Hidden(r)' PROVE <<rows'[r].path[1]>> # record'[i].path
    <3>1. rows'[r].path[1] # p  BY <1>9, <2>1
    <3>2. <<rows'[r].path[1]>> # <<p>>  BY <3>1
    <3> QED  BY <1>4, <3>2
  <2> QED  BY <1>10, <2>1 DEF Clear
<1>20. Held'
  <2>1. Len(record'[i].path) = 1  BY <1>4 DEF IsDir
  <2> QED  BY <1>10, <2>1 DEF Held, IsDir
<1>21. ASSUME NEW c \in kept, NEW q \in Files, bucket[q] = c, q[1] = p, HiddenAt(q) # {} PROVE Listed(c)'
  <2>1. PICK r \in HiddenAt(q) : TRUE  BY <1>21
  <2>2. r \in Rows /\ Hidden(r) /\ rows[r].path = q  BY <2>1 DEF HiddenAt
  <2>3. Live(r)' /\ rows'[r].path = q  BY <1>6, <1>7, <1>8, <1>21, <2>2 DEF Hidden
  <2> QED  BY <1>21, <2>2, <2>3 DEF Listed
<1>22. Reachable'
  <2>1. \A c \in kept : Listed(c) => Listed(c)'
    <3>1. \A r \in Rows : Live(r) => rows'[r] = rows[r]  BY <1>7, <1>8
    <3> QED  BY <1>1, <3>1, StillLive
  <2>2. ASSUME NEW c \in kept, InItem(c) PROVE InItem(c)' \/ Listed(c)'
    <3>1. PICK j \in items, q \in Keys : bin[j][q] = c /\ (IsDir(j) => HiddenAt(q) # {})  BY <2>2 DEF InItem
    <3>2. j \in Items /\ IsKnown(j) /\ (IsDir(j) => record[j].path \in Markers)  BY ItemPath DEF Orderly
    <3>3. c \in Contents /\ c # None /\ q \in Files  BY <1>1, <3>1, <3>2, ContentAtFile, ObjectKinds
    <3>4. CASE IsDir(j) /\ q[1] = p
      <4>1. record[j].path[1] = q[1]  BY <1>1, <3>1, <3>2, <3>3, <3>4 DEF ItemKeys
      <4>2. record[j].path = <<p>>  BY <3>2, <3>4, <4>1, KeyKinds
      <4>3. bucket[q] = c  BY <1>5, <1>11, <3>1, <3>3, <4>2
      <4> QED  BY <1>21, <3>1, <3>3, <3>4, <4>3
    <3>5. CASE IsDir(j) /\ q[1] # p
      <4>1. PICK r \in HiddenAt(q) : TRUE  BY <3>1, <3>5
      <4>2. r \in Rows /\ Hidden(r) /\ rows[r].path = q  BY <4>1 DEF HiddenAt
      <4>3. Hidden(r)' /\ rows'[r].path = q  BY <1>6, <1>7, <1>8, <3>5, <4>2
      <4>4. HiddenAt(q)' # {}  BY <4>2, <4>3 DEF HiddenAt
      <4>5. bin'[j][q] = c /\ j \in items'  BY <3>1
      <4> QED  BY <4>4, <4>5 DEF InItem
    <3>6. CASE ~IsDir(j)
      <4>1. bin'[j][q] = c /\ j \in items' /\ ~IsDir(j)'  BY <3>1, <3>6 DEF IsDir
      <4> QED  BY <4>1 DEF InItem
    <3> QED  BY <3>4, <3>5, <3>6
  <2>3. ASSUME NEW c \in kept, OnTheWay(c) PROVE Listed(c)'
    <3>1. PICK q \in ks \cap Files : bucket[q] = c /\ HiddenAt(q) # {}  BY <1>2, <2>3 DEF OnTheWay
    <3> QED  BY <1>5, <1>21, <3>1
  <2>4. \A c \in kept : Listed(c) \/ InItem(c) \/ OnTheWay(c)  BY OrderlyFacts DEF Reachable
  <2> QED  BY <2>1, <2>2, <2>3, <2>4 DEF Reachable
<1> QED  BY <1>12, <1>13, <1>14, <1>15, <1>16, <1>17, <1>18, <1>19, <1>20, <1>22 DEF ListingInv

\* The restore is undone.
LEMMA BackInBinListing ==
    ASSUME Orderly, op.step = "unhide", CopyBackToBin(Restored), op' = Idle,
           UNCHANGED <<rows, items, record, clock, purge, batch, kept>>
    PROVE  ListingInv'
<1>1. /\ TypeOK /\ MarkerKeys /\ Listing /\ Marked /\ OneItem /\ HiddenRows /\ NothingHidden /\ ItemKeys
      /\ HiddenBytes /\ PurgedBytes /\ kept \subseteq Contents
  BY OrderlyFacts DEF TypeOK
<1>2. PICK i, p, ks, R : i = op.item /\ p = op.key[1] /\ ks = op.keys /\ R = Restored  OBVIOUS
<1>3. /\ i \in Items /\ i \in items /\ IsKnown(i) /\ IsDir(i) /\ record[i].path = <<p>>
      /\ \A a \in Actors : purge[a] # None => purge[a].item # i
      /\ \A r \in Rows : Live(r) => rows[r].path[1] # p
      /\ \A r \in Rows : Live(r) /\ IsFile(r) => bucket[rows[r].path] # None /\ rows[r].path \in Files
  BY <1>2, RestoredFolder
<1>4. /\ \A q \in ks : q[1] = p
      /\ \A q \in Files : bin[i][q] \in {None, bucket[q]}
      /\ \A r \in Rows : Hidden(r) /\ IsFile(r) /\ rows[r].path[1] = p =>
            rows[r].path \in ks /\ bucket[rows[r].path] # None
  BY <1>2, OrderlyFacts DEF Held
<1>5. R \in SUBSET Files /\ \A q \in Files : q \in R <=> q \in ks /\ bucket[q] # None
  BY <1>2 DEF Restored, NotCopied
<1>6. /\ \A q \in Keys : bin'[i][q] = IF q \in R THEN bucket[q] ELSE bin[i][q]
      /\ \A j \in Items : j # i => bin'[j] = bin[j]
      /\ \A q \in Keys : bucket'[q] = bucket[q] \/ (q \in R /\ bucket'[q] = None)
  <2>1. bin' = [bin EXCEPT ![i] = Copied(bucket, @, R)] /\ bucket' = Without(bucket, R)
    BY <1>2 DEF CopyBackToBin
  <2> QED  BY <1>3, <1>5, <2>1, CopiedAgain DEF Orderly
<1>7. \A q \in Keys : q[1] # p => bucket'[q] = bucket[q]  BY <1>4, <1>5, <1>6
<1>8. Active' = Active  BY DEF Active
<1>9. HiddenRows' /\ OneItem' /\ NothingHidden'
  <2>1. HiddenRows'  BY <1>1 DEF HiddenRows, Hidden
  <2>2. OneItem'  BY <1>1, <1>8 DEF OneItem, IsDir
  <2>3. NothingHidden'  BY <1>1 DEF NothingHidden, Hidden, Purging
  <2> QED  BY <2>1, <2>2, <2>3
<1>10. PurgedBytes'
  <2>1. ASSUME NEW a \in Actors, purge[a] # None PROVE bin'[purge[a].item] = bin[purge[a].item]
    BY <1>1, <1>3, <1>6, <2>1, TakingOf
  <2> QED  BY <1>1, <2>1 DEF PurgedBytes, IsDir
<1>11. ItemKeys'
  <2>1. ASSUME NEW j \in Items, IsKnown(j), NEW q \in Keys, bin'[j][q] # None
        PROVE  IF IsDir(j) THEN q[1] = record[j].path[1] ELSE q = record[j].path
    <3>1. CASE bin[j][q] # None  BY <1>1, <2>1, <3>1 DEF ItemKeys
    <3>2. CASE bin[j][q] = None
      <4>1. j = i /\ q \in R  BY <1>6, <2>1, <3>2
      <4>2. q[1] = p /\ record[i].path[1] = p  BY <1>3, <1>4, <1>5, <4>1
      <4> QED  BY <1>3, <4>1, <4>2
    <3> QED  BY <3>1, <3>2
  <2> QED  BY <2>1 DEF ItemKeys, IsKnown, IsDir
<1>12. HiddenBytes'
  <2>1. ASSUME NEW j \in items, NEW r \in Rows, bin'[j] # NoKeys, Hidden(r), IsFile(r), record[j].path = <<rows[r].path[1]>>
        PROVE  bin'[j][rows[r].path] # None
    <3>1. j \in Items  BY <1>1 DEF TypeOK
    <3>2. rows[r].path \in Files /\ rows[r].path \in Keys  BY <1>1, <2>1, LiveKinds DEF Hidden
    <3>3. CASE j = i
      <4>1. rows[r].path[1] = p  BY <1>3, <2>1, <3>3
      <4>2. rows[r].path \in R /\ bucket[rows[r].path] # None  BY <1>4, <1>5, <2>1, <3>2, <4>1
      <4> QED  BY <1>6, <3>2, <3>3, <4>2
    <3>4. CASE j # i
      <4>1. bin'[j] = bin[j]  BY <1>6, <3>1, <3>4
      <4> QED  BY <1>1, <2>1, <4>1 DEF HiddenBytes
    <3> QED  BY <3>3, <3>4
  <2> QED  BY <2>1 DEF HiddenBytes, Hidden, IsFile
<1>13. Clear' /\ Held' /\ Restorable'  BY NothingAsked
<1>14. Listing'  BY <1>3, <1>7, KeyKinds, StillListed DEF Orderly
<1>15. Marked'
  <2>1. \A k \in Markers : bucket'[k] = bucket[k]  BY <1>5, <1>6, KeyKinds
  <2> QED  BY <2>1, StillMarked DEF Orderly
<1>16. ASSUME NEW c \in kept, NEW q \in Files, bin'[i][q] = c, HiddenAt(q) # {} PROVE InItem(c)'
  <2>1. HiddenAt(q)' # {} /\ q \in Keys /\ i \in items'  BY <1>3, <1>16, SameRows, KeyKinds
  <2> QED  BY <1>16, <2>1 DEF InItem
<1>17. Reachable'
  <2>1. ASSUME NEW c \in kept, Listed(c) PROVE Listed(c)'
    <3>1. ASSUME NEW k \in Files, bucket[k] = c, LiveAt(k) # {} PROVE bucket'[k] = c
      <4>1. PICK r \in LiveAt(k) : TRUE  BY <3>1
      <4>2. k[1] # p  BY <1>3, <4>1 DEF LiveAt
      <4> QED  BY <1>7, <3>1, <4>2, KeyKinds
    <3> QED  BY <1>1, <2>1, <3>1, StillLive
  <2>2. ASSUME NEW c \in kept, InItem(c) PROVE InItem(c)'
    <3>1. PICK j \in items, q \in Keys : bin[j][q] = c /\ (IsDir(j) => HiddenAt(q) # {})  BY <2>2 DEF InItem
    <3>2. j \in Items /\ c \in Contents /\ c # None  BY <1>1, ObjectKinds DEF TypeOK
    <3>3. q \in Files  BY <1>1, <3>1, <3>2, ContentAtFile
    <3>4. CASE j = i
      <4>1. bin'[i][q] = c  BY <1>4, <1>6, <3>1, <3>2, <3>3, <3>4
      <4> QED  BY <1>3, <1>16, <3>1, <3>3, <3>4, <4>1
    <3>5. CASE j # i
      <4>1. bin'[j] = bin[j] /\ HiddenAt(q)' = HiddenAt(q) /\ (IsDir(j)' <=> IsDir(j)) /\ j \in items'
        BY <1>6, <3>2, <3>5, SameRows DEF IsDir
      <4> QED  BY <3>1, <4>1 DEF InItem
    <3> QED  BY <3>4, <3>5
  <2>3. ASSUME NEW c \in kept, OnTheWay(c) PROVE InItem(c)'
    <3>1. PICK q \in ks \cap Files : bucket[q] = c /\ HiddenAt(q) # {}  BY <1>2, <2>3 DEF OnTheWay
    <3>2. c # None  BY <1>1, ObjectKinds
    <3>3. bin'[i][q] = c  BY <1>5, <1>6, <3>1, <3>2, KeyKinds
    <3> QED  BY <1>16, <3>1, <3>3
  <2> QED  BY <2>1, <2>2, <2>3, StillReachable
<1> QED  BY <1>9, <1>10, <1>11, <1>12, <1>13, <1>14, <1>15, <1>17 DEF ListingInv

LEMMA UnhideListing ==
    ASSUME Orderly, UnhideSubtree
    PROVE  ListingInv'
<1>1. op.step = "unhide" /\ UNCHANGED <<items, record, clock, purge, batch, kept>>  BY DEF UnhideSubtree
<1>2. CASE /\ rows' = [r \in Rows |-> IF r \in HiddenSince(op.key[1], record[op.item].created)
                                      THEN [rows[r] EXCEPT !.hidden = 0] ELSE rows[r]]
           /\ Goto("drop item") /\ UNCHANGED bytes
  BY <1>1, <1>2, UnhiddenListing
<1>3. CASE CopyBackToBin(Restored) /\ Done /\ UNCHANGED rows
  BY <1>1, <1>3, BackInBinListing DEF Done
<1> QED  BY <1>2, <1>3 DEF UnhideSubtree

LEMMA DropItemListing ==
    ASSUME Orderly, DropItem
    PROVE  ListingInv'
<1>1. /\ TypeOK /\ MarkerKeys /\ Listing /\ Marked /\ OneItem /\ HiddenRows /\ NothingHidden /\ ItemKeys
      /\ HiddenBytes /\ PurgedBytes /\ kept \subseteq Contents
  BY OrderlyFacts DEF TypeOK
<1>2. PICK i : i = op.item  OBVIOUS
<1>3. /\ op.step = "drop item" /\ op' = Idle /\ items' = items \ {i}
      /\ UNCHANGED <<bucket, bin, rows, record, clock, purge, batch, kept>>
  BY <1>2, OrderlyFacts DEF DropItem, Done
<1>4. IsDir(i) => \A r \in Rows : Hidden(r) => <<rows[r].path[1]>> # record[i].path
  BY <1>2, <1>3, OrderlyFacts DEF Clear
<1>5. ~IsDir(i) => \A q \in Keys : bin[i][q] # None => bin[i][q] = bucket[q] /\ LiveAt(q) # {}
  BY <1>2, <1>3, OrderlyFacts DEF Held
<1>6. \A r \in Rows : ~Moving(r) /\ ~Moving(r)'  BY <1>3, NothingAsked DEF Moving
<1>7. HiddenRows'
  <2>1. ASSUME NEW r \in Rows, Hidden(r)
        PROVE  \E j \in items' : record[j].path = <<rows[r].path[1]>> /\ record[j].created = rows[r].hidden
    <3>1. PICK j \in items : record[j].path = <<rows[r].path[1]>> /\ record[j].created = rows[r].hidden
      BY <1>1, <2>1 DEF HiddenRows
    <3>2. IsDir(j)
      <4>1. Len(<<rows[r].path[1]>>) = 1  OBVIOUS
      <4> QED  BY <3>1, <4>1 DEF IsDir
    <3>3. j # i  BY <1>4, <2>1, <3>1, <3>2
    <3> QED  BY <1>3, <3>1, <3>3
  <2>2. \A r, s \in Rows : Hidden(r) /\ Hidden(s) /\ rows[r].path = rows[s].path => r = s  BY <1>1 DEF HiddenRows
  <2> QED  BY <1>3, <2>1, <2>2 DEF HiddenRows, Hidden
<1>8. OneItem'
  <2>1. Active' \subseteq Active  BY <1>3 DEF Active
  <2> QED  BY <1>1, <1>3, <2>1 DEF OneItem, IsDir
<1>9. NothingHidden' /\ PurgedBytes' /\ ItemKeys'
  BY <1>1, <1>3 DEF NothingHidden, PurgedBytes, ItemKeys, Hidden, Purging, IsDir, IsKnown
<1>10. HiddenBytes'  BY <1>1, <1>3 DEF HiddenBytes, Hidden, IsFile
<1>11. Listing'  BY <1>1, <1>3, <1>6, StillListed DEF Orderly, Listing
<1>12. Marked'
  <2>1. ASSUME NEW r \in Rows, NEW j \in items', Live(r), rows[r].path \in Markers, record[j].path = rows[r].path
        PROVE  bucket[rows[r].path] # None
    <3>1. j \in items /\ j # i  BY <1>3
    <3> QED  BY <1>1, <1>2, <2>1, <3>1 DEF Marked
  <2> QED  BY <1>3, <2>1 DEF Marked, Live
<1>13. Clear' /\ Held' /\ Restorable'  BY <1>3, NothingAsked
<1>14. Reachable'
  <2>1. \A c \in kept : Listed(c) => Listed(c)'  BY <1>1, <1>3, StillLive
  <2>2. ASSUME NEW c \in kept, InItem(c) PROVE InItem(c)' \/ Listed(c)'
    <3>1. PICK j \in items, q \in Keys : bin[j][q] = c /\ (IsDir(j) => HiddenAt(q) # {})  BY <2>2 DEF InItem
    <3>2. j \in Items /\ IsKnown(j) /\ (IsDir(j) => record[j].path \in Markers)  BY ItemPath DEF Orderly
    <3>3. CASE j # i
      <4>1. j \in items' /\ bin'[j][q] = c /\ HiddenAt(q)' = HiddenAt(q) /\ (IsDir(j)' <=> IsDir(j))
        BY <1>3, <3>1, <3>3, SameRows DEF IsDir
      <4> QED  BY <3>1, <4>1 DEF InItem
    <3>4. CASE j = i /\ IsDir(i)
      <4>1. PICK r \in HiddenAt(q) : TRUE  BY <3>1, <3>4
      <4>2. r \in Rows /\ Hidden(r) /\ rows[r].path = q  BY <4>1 DEF HiddenAt
      <4>3. c # None  BY <1>1, ObjectKinds
      <4>4. q[1] = record[i].path[1]  BY <1>1, <3>1, <3>2, <3>4, <4>3 DEF ItemKeys
      <4>5. record[i].path = <<record[i].path[1]>>  BY <3>2, <3>4, KeyKinds
      <4> QED  BY <1>4, <3>4, <4>2, <4>4, <4>5
    <3>5. CASE j = i /\ ~IsDir(i)
      <4>1. c # None  BY <1>1, ObjectKinds
      <4>2. bucket[q] = c /\ LiveAt(q) # {}  BY <1>5, <3>1, <3>5, <4>1
      <4>3. PICK r \in LiveAt(q) : TRUE  BY <4>2
      <4>4. r \in Rows /\ Live(r)' /\ rows'[r].path = q  BY <1>3, <4>3 DEF LiveAt, Live
      <4>5. bucket'[rows'[r].path] = c  BY <1>3, <4>2, <4>4
      <4> QED  BY <4>4, <4>5 DEF Listed
    <3> QED  BY <3>3, <3>4, <3>5
  <2>3. \A c \in kept : ~OnTheWay(c)  BY <1>3 DEF OnTheWay
  <2>4. \A c \in kept : Listed(c) \/ InItem(c) \/ OnTheWay(c)  BY OrderlyFacts DEF Reachable
  <2> QED  BY <1>3, <2>1, <2>2, <2>3, <2>4 DEF Reachable
<1> QED  BY <1>7, <1>8, <1>9, <1>10, <1>11, <1>12, <1>13, <1>14 DEF ListingInv

-----------------------------------------------------------------------------
(* Purges *)

\* The purge of an item takes nothing a request is about.
LEMMA OthersTaken ==
    ASSUME Orderly, UNCHANGED <<bucket, op, record>>, items' \subseteq items,
           \A r \in Rows : Live(r) => rows'[r] = rows[r],
           \A r \in Rows : rows'[r] \in {rows[r], None},
           op.step \in {"create item", "delete batch", "hide", "copy back", "unhide", "recreate row", "drop item"} =>
              bin'[op.item] = bin[op.item]
    PROVE  /\ Clear' /\ Held' /\ Listing' /\ Marked'
           /\ \A c : Listed(c) => Listed(c)'
           /\ \A k : LiveAt(k)' = LiveAt(k)
<1>1. Clear /\ Held /\ Listing /\ Marked  BY OrderlyFacts
<1>2. \A r \in Rows : /\ Live(r)' <=> Live(r)
                      /\ Hidden(r)' => Hidden(r) /\ rows'[r] = rows[r]
                      /\ Live(r) => (IsFile(r)' <=> IsFile(r)) /\ (Moving(r)' <=> Moving(r))
                      /\ Hidden(r)' => (IsFile(r)' <=> IsFile(r))
                      /\ rows'[r] # None => rows'[r] = rows[r]
  <2>1. ASSUME NEW r \in Rows PROVE (Live(r)' <=> Live(r)) /\ (Hidden(r)' => Hidden(r) /\ rows'[r] = rows[r])
    BY <2>1 DEF Live, Hidden
  <2>2. ASSUME NEW r \in Rows, rows'[r] = rows[r] PROVE (IsFile(r)' <=> IsFile(r)) /\ (Moving(r)' <=> Moving(r))
    BY <2>2 DEF IsFile, Moving
  <2> QED  BY <2>1, <2>2
<1>3. \A k : LiveAt(k)' = LiveAt(k)
  <2>1. ASSUME NEW k, NEW r \in Rows PROVE (Live(r)' /\ rows'[r].path = k) <=> (Live(r) /\ rows[r].path = k)
    BY <1>2
  <2> QED  BY <2>1 DEF LiveAt
<1>4. Listing'
  <2>1. ASSUME NEW r \in Rows, Live(r)', IsFile(r)', ~Moving(r)' PROVE bucket'[rows'[r].path] # None
    BY <1>1, <1>2, <2>1 DEF Listing
  <2>2. ASSUME NEW r \in Rows, NEW s \in Rows, Live(r)', Live(s)', rows'[r].path = rows'[s].path PROVE r = s
    BY <1>1, <1>2, <2>2 DEF Listing
  <2> QED  BY <2>1, <2>2 DEF Listing
<1>5. Marked'
  <2>1. ASSUME NEW r \in Rows, NEW i \in items', Live(r)', rows'[r].path \in Markers, record[i].path = rows'[r].path
        PROVE  bucket[rows'[r].path] # None \/ (op.step = "drop item" /\ op.item = i)
    BY <1>1, <1>2, <2>1 DEF Marked
  <2> QED  BY <2>1 DEF Marked
<1>6. Clear'
  <2>1. ASSUME op.step = "archive row"
        PROVE  op.row \in LiveAt(op.key)' /\ \A r \in Rows : rows'[r] # None => rows'[r].path # op.from
    BY <1>1, <1>2, <1>3, <2>1 DEF Clear
  <2>2. op.step \in {"copy back", "unhide"} => \A r \in Rows : Live(r)' => rows'[r].path[1] # op.key[1]
    BY <1>1, <1>2 DEF Clear
  <2>3. (op.step = "drop item" /\ IsDir(op.item)) => \A r \in Rows : Hidden(r)' => <<rows'[r].path[1]>> # record[op.item].path
    BY <1>1, <1>2 DEF Clear
  <2>4. op' = op /\ record' = record /\ bucket' = bucket  OBVIOUS
  <2>5. IsDir(op.item)' <=> IsDir(op.item)  BY <2>4 DEF IsDir
  <2>6. /\ (op.step = "put" /\ op.row # None) => op.row \in LiveAt(op.key)' /\ LiveAt(op.from)' # {}
        /\ op.step = "content" => op.row \in LiveAt(op.key)'
        /\ op.step = "delete source" => op.row \in LiveAt(op.from)'
        /\ op.step \in {"delete original", "create item", "drop row"} => op.row \in LiveAt(op.key)'
        /\ op.step \in {"create row", "delete source", "location", "delete recycled", "recreate row"} =>
              LiveAt(op.key)' = {}
    BY <1>1, <1>3 DEF Clear
  <2> QED  BY <2>1, <2>2, <2>3, <2>4, <2>5, <2>6 DEF Clear
<1>7. Held'
  <2>1. CASE op.step \in {"ensure", "delete source", "delete original", "delete recycled", "content", "drop row"}
    BY <1>1, <2>1 DEF Held
  <2>2. CASE op.step = "location"
    <3>1. op.row \in Rows /\ Live(op.row)  BY <2>2, OrderlyFacts DEF RequestTypes
    <3>2. rows'[op.row] = rows[op.row]  BY <3>1
    <3> QED  BY <1>1, <2>2, <3>2 DEF Held
  <2>3. CASE op.step \in {"create item", "delete batch", "copy back"}
    <3>1. bin'[op.item] = bin[op.item]  BY <2>3
    <3> QED  BY <1>1, <2>3, <3>1 DEF Held
  <2>4. CASE op.step = "hide"
    <3>1. bin'[op.item] = bin[op.item]  BY <2>4
    <3>2. \A r \in Rows : Live(r)' /\ IsFile(r)' /\ rows'[r].path[1] = op.key[1] => rows'[r].path \in op.keys
      BY <1>1, <1>2, <2>4 DEF Held
    <3> QED  BY <1>1, <2>4, <3>1, <3>2 DEF Held
  <2>5. CASE op.step = "unhide"
    <3>1. bin'[op.item] = bin[op.item]  BY <2>5
    <3>2. \A r \in Rows : Hidden(r)' /\ IsFile(r)' /\ rows'[r].path[1] = op.key[1] =>
              rows'[r].path \in op.keys /\ bucket[rows'[r].path] # None
      BY <1>1, <1>2, <2>5 DEF Held
    <3> QED  BY <1>1, <2>5, <3>1, <3>2 DEF Held
  <2>6. CASE op.step = "recreate row"
    <3>1. bin'[op.item] = bin[op.item]  BY <2>6
    <3> QED  BY <1>1, <2>6, <3>1 DEF Held
  <2>7. CASE op.step = "drop item"
    <3>1. bin'[op.item] = bin[op.item]  BY <2>7
    <3>2. (IsDir(op.item)' <=> IsDir(op.item)) /\ op' = op  BY DEF IsDir
    <3> QED  BY <1>1, <1>3, <2>7, <3>1, <3>2 DEF Held
  <2>8. CASE op.step \notin {"ensure", "delete source", "delete original", "delete recycled", "content", "drop row",
                             "location", "create item", "delete batch", "copy back", "hide", "unhide",
                             "recreate row", "drop item"}
    BY <2>8 DEF Held
  <2> QED  BY <2>1, <2>2, <2>3, <2>4, <2>5, <2>6, <2>7, <2>8
<1>8. ASSUME NEW c, Listed(c) PROVE Listed(c)'
  <2>1. PICK r \in Rows : Live(r) /\ bucket[rows[r].path] = c  BY <1>8 DEF Listed
  <2>2. Live(r)' /\ bucket'[rows'[r].path] = c  BY <1>2, <2>1
  <2> QED  BY <2>2 DEF Listed
<1> QED  BY <1>3, <1>4, <1>5, <1>6, <1>7, <1>8

\* Who purges what changes.
LEMMA PurgesChange ==
    ASSUME Orderly, UNCHANGED <<bucket, bin, rows, items, record, op, kept>>,
           \A i \in Active' : i \in Active,
           \A a \in Actors : \/ purge'[a] \in {purge[a], None}
                             \/ purge'[a] # None /\ purge'[a].step = "object",
           op.step \in {"delete recycled", "copy back", "recreate row", "unhide", "drop item"} =>
              \A a \in Actors : purge'[a] # None => purge'[a].item # op.item
    PROVE  ListingInv'
<1>1. /\ TypeOK /\ OneItem /\ HiddenRows /\ NothingHidden /\ ItemKeys /\ HiddenBytes /\ PurgedBytes
      /\ Restorable /\ Reachable
  BY OrderlyFacts
<1>2. Clear' /\ Held' /\ Listing' /\ Marked' /\ \A c : Listed(c) => Listed(c)'  BY OthersTaken
<1>3. HiddenRows'  BY <1>1 DEF HiddenRows, Hidden
<1>4. OneItem'  BY <1>1 DEF OneItem, IsDir
<1>5. NothingHidden'
  <2>1. ASSUME NEW a \in Actors, purge'[a] # None, purge'[a].step = "item", NEW r \in Rows, Hidden(r)
        PROVE  <<rows[r].path[1]>> # record[purge'[a].item].path
    <3>1. purge'[a] = purge[a]  BY <2>1
    <3> QED  BY <1>1, <2>1, <3>1 DEF NothingHidden, Purging
  <2> QED  BY <2>1 DEF NothingHidden, Hidden, Purging
<1>6. PurgedBytes'
  <2>1. ASSUME NEW a \in Actors, purge'[a] # None, purge'[a].step # "object"
        PROVE  /\ bin[purge'[a].item] = NoKeys
               /\ purge'[a].step = "rows" => Len(record[purge'[a].item].path) = 1
    <3>1. purge'[a] = purge[a]  BY <2>1
    <3> QED  BY <1>1, <2>1, <3>1 DEF PurgedBytes, IsDir
  <2> QED  BY <2>1 DEF PurgedBytes, IsDir
<1>7. ItemKeys' /\ HiddenBytes'  BY <1>1 DEF ItemKeys, HiddenBytes, IsKnown, IsDir, Hidden, IsFile
<1>8. Restorable'  BY <1>1 DEF Restorable
<1>9. Reachable'
  <2>1. \A c \in kept : InItem(c) => InItem(c)'
    <3>1. \A k : HiddenAt(k)' = HiddenAt(k)  BY SameRows
    <3> QED  BY <3>1 DEF InItem, IsDir
  <2>2. \A c \in kept : OnTheWay(c) => OnTheWay(c)'
    <3>1. \A k : LiveAt(k)' = LiveAt(k) /\ HiddenAt(k)' = HiddenAt(k)  BY SameRows
    <3> QED  BY <3>1 DEF OnTheWay
  <2> QED  BY <1>1, <1>2, <2>1, <2>2 DEF Reachable
<1> QED  BY <1>2, <1>3, <1>4, <1>5, <1>6, <1>7, <1>8, <1>9 DEF ListingInv

LEMMA UserPurgeListing ==
    ASSUME Orderly, NEW i \in Items, UserPurge(i)
    PROVE  ListingInv'
<1>1. TypeOK /\ op.step = "idle" /\ i \in items  BY IdleType, OrderlyFacts DEF UserPurge, Ready
<1>2. PICK n : n = [item |-> i, step |-> "object"]  OBVIOUS
<1>3. n.item = i /\ n.step = "object" /\ n # None
  <2>1. n \in Taking  BY <1>2 DEF Taking
  <2> QED  BY <1>2, <2>1, NoneAssumption
<1>4. \A a \in Actors : purge'[a] = purge[a] \/ purge'[a] = n
  <2>1. purge' = [purge EXCEPT !["user"] = n]  BY <1>2 DEF UserPurge
  <2> QED  BY <1>1, <2>1 DEF TypeOK
<1>5. \A j \in Active' : j \in Active  BY <1>1, <1>3, <1>4 DEF Active, UserPurge
<1> QED  BY <1>1, <1>3, <1>4, <1>5, PurgesChange DEF UserPurge

LEMMA CronListListing ==
    ASSUME Orderly, CronList
    PROVE  ListingInv'
<1>1. \A j \in Active' : j \in Active  BY DEF Active, CronList
<1>2. purge' = purge /\ Restorable  BY OrderlyFacts DEF CronList
<1> QED  BY <1>1, <1>2, PurgesChange DEF CronList, Restorable

LEMMA CronTakeListing ==
    ASSUME Orderly, CronTake
    PROVE  ListingInv'
<1>1. TypeOK /\ Restorable  BY OrderlyFacts
<1>2. PICK i \in batch : /\ purge' = [purge EXCEPT !["cron"] = [item |-> i, step |-> "object"]]
                         /\ batch' = batch \ {i} /\ Meets(i)
  BY DEF CronTake
<1>3. i \in Items /\ op.item # i  BY <1>1, <1>2, OrderlyFacts DEF Meets, TypeOK
<1>4. PICK n : n = [item |-> i, step |-> "object"]  OBVIOUS
<1>5. n.item = i /\ n.step = "object" /\ n # None
  <2>1. n \in Taking  BY <1>3, <1>4 DEF Taking
  <2> QED  BY <1>4, <2>1, NoneAssumption
<1>6. \A a \in Actors : purge'[a] = purge[a] \/ purge'[a] = n
  <2>1. purge' = [purge EXCEPT !["cron"] = n]  BY <1>2, <1>4
  <2> QED  BY <1>1, <2>1 DEF TypeOK
<1>7. UNCHANGED <<bucket, bin, rows, items, record, op, kept>>  BY DEF CronTake
<1>8. \A j \in Active' : j \in Active  BY <1>2, <1>5, <1>6, <1>7 DEF Active
<1>9. op.step \in {"delete recycled", "copy back", "recreate row", "unhide", "drop item"} =>
          \A a \in Actors : purge'[a] # None => purge'[a].item # op.item
  BY <1>1, <1>3, <1>5, <1>6 DEF Restorable
<1> QED  BY <1>5, <1>6, <1>7, <1>8, <1>9, PurgesChange

\* A purge is given up.
LEMMA PurgeOverListing ==
    ASSUME Orderly, NEW a \in Actors, purge' = [purge EXCEPT ![a] = None],
           UNCHANGED <<bucket, bin, rows, items, record, op, batch, kept>>
    PROVE  ListingInv'
<1>1. TypeOK /\ Restorable  BY OrderlyFacts
<1>2. \A b \in Actors : purge'[b] \in {purge[b], None}  BY <1>1 DEF TypeOK
<1>3. \A j \in Active' : j \in Active  BY <1>2 DEF Active
<1>4. op.step \in {"delete recycled", "copy back", "recreate row", "unhide", "drop item"} =>
          \A b \in Actors : purge'[b] # None => purge'[b].item # op.item
  BY <1>1, <1>2 DEF Restorable
<1> QED  BY <1>2, <1>3, <1>4, PurgesChange

\* A purge goes on.
LEMMA PurgeGoesOn ==
    ASSUME Orderly, NEW a \in Actors, purge[a] # None, NEW s \in {"object", "rows", "item"},
           purge' = [purge EXCEPT ![a].step = s]
    PROVE  /\ purge'[a] # None /\ purge'[a].step = s /\ purge'[a].item = purge[a].item
           /\ purge[a].item \in Items /\ purge[a].item \in Active /\ IsKnown(purge[a].item)
           /\ \A b \in Actors : b # a => purge'[b] = purge[b]
           /\ \A b \in Actors : (purge'[b] # None <=> purge[b] # None) /\ (purge[b] # None => purge'[b].item = purge[b].item)
           /\ (items' = items /\ batch' = batch) => Active' = Active
           /\ op.step \in {"create item", "delete batch", "hide", "copy back", "unhide", "recreate row", "drop item",
                           "delete recycled"} => op.item # purge[a].item /\ op.item \in Items
<1>1. TypeOK /\ Restorable /\ PurgeTypes /\ RequestTypes  BY OrderlyFacts
<1>2. purge[a] \in Taking /\ purge[a].item \in Items /\ purge[a].item \in Active  BY <1>1, TakingOf
<1>3. IsKnown(purge[a].item)  BY <1>1, <1>2 DEF PurgeTypes
<1>4. PICK n : n = [purge[a] EXCEPT !.step = s]  OBVIOUS
<1>5. n \in Taking /\ n.item = purge[a].item /\ n.step = s  BY <1>2, <1>4 DEF Taking
<1>6. purge' = [purge EXCEPT ![a] = n]  BY <1>1, <1>4 DEF TypeOK
<1>7. purge'[a] = n /\ \A b \in Actors : b # a => purge'[b] = purge[b]  BY <1>1, <1>6 DEF TypeOK
<1>8. n # None  BY <1>5, NoneAssumption
<1>9. \A b \in Actors : (purge'[b] # None <=> purge[b] # None) /\ (purge[b] # None => purge'[b].item = purge[b].item)
  BY <1>5, <1>7, <1>8
<1>10. (items' = items /\ batch' = batch) => Active' = Active
  <2>1. \A i \in Items : (\E b \in Actors : purge'[b] # None /\ purge'[b].item = i)
                     <=> (\E b \in Actors : purge[b] # None /\ purge[b].item = i)
    BY <1>9
  <2> QED  BY <2>1 DEF Active
<1>11. ASSUME op.step \in {"create item", "delete batch", "hide"} PROVE op.item # purge[a].item /\ op.item \in Items
  BY <1>1, <1>3, <1>11 DEF RequestTypes
<1>12. ASSUME op.step \in {"copy back", "unhide", "recreate row", "drop item", "delete recycled"}
       PROVE  op.item # purge[a].item /\ op.item \in Items
  <2>1. op.item \in items /\ op.item # purge[a].item  BY <1>1, <1>12 DEF Restorable
  <2> QED  BY <1>1, <2>1 DEF TypeOK
<1> QED  BY <1>2, <1>3, <1>5, <1>7, <1>8, <1>9, <1>10, <1>11, <1>12

\* The objects of an item are gone.
LEMMA ObjectsPurged ==
    ASSUME Orderly, NEW a \in Actors, Purging(a, "object"), NEW i, i = purge[a].item,
           bin' = [bin EXCEPT ![i] = NoKeys], kept' = kept \ {bin[i][k] : k \in Keys},
           purge' = [purge EXCEPT ![a].step = IF IsDir(i) THEN "rows" ELSE "item"],
           UNCHANGED <<bucket, rows, items, record, op, batch>>
    PROVE  ListingInv'
<1>1. /\ TypeOK /\ OneItem /\ HiddenRows /\ NothingHidden /\ ItemKeys /\ HiddenBytes /\ PurgedBytes
      /\ Restorable /\ Reachable
  BY OrderlyFacts
<1>2. PICK s \in {"object", "rows", "item"} : s = IF IsDir(i) THEN "rows" ELSE "item"  OBVIOUS
<1>3. /\ purge'[a] # None /\ purge'[a].step = s /\ purge'[a].item = i /\ i \in Items
      /\ \A b \in Actors : b # a => purge'[b] = purge[b]
      /\ \A b \in Actors : (purge'[b] # None <=> purge[b] # None) /\ (purge[b] # None => purge'[b].item = purge[b].item)
      /\ Active' = Active
      /\ op.step \in {"create item", "delete batch", "hide", "copy back", "unhide", "recreate row", "drop item",
                      "delete recycled"} => op.item # i /\ op.item \in Items
  BY <1>2, PurgeGoesOn DEF Purging
<1>4. bin'[i] = NoKeys /\ \A j \in Items : j # i => bin'[j] = bin[j]  BY <1>1, <1>3 DEF TypeOK
<1>5. /\ Clear' /\ Held' /\ Listing' /\ Marked' /\ \A c : Listed(c) => Listed(c)'
  BY <1>3, <1>4, OthersTaken
<1>6. HiddenRows' /\ OneItem'
  <2>1. HiddenRows'  BY <1>1 DEF HiddenRows, Hidden
  <2> QED  BY <1>1, <1>3, <2>1 DEF OneItem, IsDir
<1>7. NothingHidden'
  <2>1. ASSUME NEW b \in Actors, purge'[b] # None, purge'[b].step = "item", NEW r \in Rows, Hidden(r)
        PROVE  <<rows[r].path[1]>> # record[purge'[b].item].path
    <3>1. CASE b = a
      <4>1. ~IsDir(i)  BY <1>2, <1>3, <2>1, <3>1
      <4>2. Len(record[i].path) # 1  BY <4>1 DEF IsDir
      <4>3. Len(<<rows[r].path[1]>>) = 1  OBVIOUS
      <4>4. record[i].path # <<rows[r].path[1]>>  BY <4>2, <4>3
      <4> QED  BY <1>3, <3>1, <4>4
    <3>2. CASE b # a
      <4>1. purge'[b] = purge[b]  BY <1>3, <3>2
      <4> QED  BY <1>1, <2>1, <4>1 DEF NothingHidden, Purging
    <3> QED  BY <3>1, <3>2
  <2> QED  BY <2>1 DEF NothingHidden, Hidden, Purging
<1>8. PurgedBytes'
  <2>1. ASSUME NEW b \in Actors, purge'[b] # None, purge'[b].step # "object"
        PROVE  /\ bin'[purge'[b].item] = NoKeys
               /\ purge'[b].step = "rows" => Len(record[purge'[b].item].path) = 1
    <3>1. CASE b = a  BY <1>2, <1>3, <1>4, <2>1, <3>1 DEF IsDir
    <3>2. CASE b # a
      <4>1. purge'[b] = purge[b] /\ purge[b].item \in Items  BY <1>1, <1>3, <2>1, <3>2, TakingOf
      <4>2. bin[purge[b].item] = NoKeys /\ (purge[b].step = "rows" => Len(record[purge[b].item].path) = 1)
        BY <1>1, <2>1, <4>1 DEF PurgedBytes, IsDir
      <4> QED  BY <1>4, <4>1, <4>2
    <3> QED  BY <3>1, <3>2
  <2> QED  BY <2>1 DEF PurgedBytes, IsDir
<1>9. ItemKeys'
  <2>1. \A j \in Items, q \in Keys : bin'[j][q] # None => bin[j][q] # None  BY <1>4, ObjectKinds
  <2> QED  BY <1>1, <2>1 DEF ItemKeys, IsKnown, IsDir
<1>10. HiddenBytes'
  <2>1. \A j \in items : bin'[j] # NoKeys => bin'[j] = bin[j]  BY <1>1, <1>4 DEF TypeOK
  <2> QED  BY <1>1, <2>1 DEF HiddenBytes, Hidden, IsFile
<1>11. Restorable'  BY <1>1, <1>3 DEF Restorable
<1>12. Reachable'
  <2>1. \A k : LiveAt(k)' = LiveAt(k) /\ HiddenAt(k)' = HiddenAt(k)  BY SameRows
  <2>2. ASSUME NEW c \in kept', InItem(c) PROVE InItem(c)'
    <3>1. PICK j \in items, q \in Keys : bin[j][q] = c /\ (IsDir(j) => HiddenAt(q) # {})  BY <2>2 DEF InItem
    <3>2. j \in Items /\ j # i  BY <1>1, <3>1 DEF TypeOK
    <3>3. bin'[j][q] = c /\ j \in items' /\ (IsDir(j)' <=> IsDir(j))  BY <1>4, <3>1, <3>2 DEF IsDir
    <3> QED  BY <2>1, <3>1, <3>3 DEF InItem
  <2>3. ASSUME NEW c \in kept', OnTheWay(c) PROVE OnTheWay(c)'
    <3>1. CASE op.step \in {"create item", "hide"}
      <4>1. bin'[op.item] = bin[op.item]  BY <1>3, <1>4, <3>1
      <4> QED  BY <2>1, <2>3, <3>1, <4>1 DEF OnTheWay
    <3>2. CASE op.step \notin {"create item", "hide"}  BY <2>1, <2>3, <3>2 DEF OnTheWay
    <3> QED  BY <3>1, <3>2
  <2>4. \A c \in kept' : Listed(c) \/ InItem(c) \/ OnTheWay(c)  BY <1>1 DEF Reachable
  <2> QED  BY <1>5, <2>2, <2>3, <2>4 DEF Reachable
<1> QED  BY <1>5, <1>6, <1>7, <1>8, <1>9, <1>10, <1>11, <1>12 DEF ListingInv

LEMMA PurgeObjectsListing ==
    ASSUME Orderly, NEW a \in Actors, PurgeObjects(a)
    PROVE  ListingInv'
<1>1. Purging(a, "object") /\ UNCHANGED <<bucket, rows, items, record, op, batch>>  BY DEF PurgeObjects
<1>2. CASE /\ bin' = [bin EXCEPT ![purge[a].item] = NoKeys]
           /\ kept' = kept \ {bin[purge[a].item][k] : k \in Keys}
           /\ purge' = [purge EXCEPT ![a].step = IF IsDir(purge[a].item) THEN "rows" ELSE "item"]
  BY <1>1, <1>2, ObjectsPurged
<1>3. CASE purge' = [purge EXCEPT ![a] = None] /\ UNCHANGED <<bin, kept>>
  BY <1>1, <1>3, PurgeOverListing
<1> QED  BY <1>2, <1>3 DEF PurgeObjects

\* The hidden rows of an item are gone.
LEMMA RowsPurged ==
    ASSUME Orderly, NEW a \in Actors, Purging(a, "rows"), NEW i, i = purge[a].item,
           rows' = [r \in Rows |-> IF r \in HiddenSince(record[i].path[1], record[i].created) THEN None ELSE rows[r]],
           purge' = [purge EXCEPT ![a].step = "item"],
           UNCHANGED <<bucket, bin, items, record, op, batch, kept>>
    PROVE  ListingInv'
<1>1. /\ TypeOK /\ MarkerKeys /\ OneItem /\ HiddenRows /\ NothingHidden /\ ItemKeys /\ HiddenBytes /\ PurgedBytes
      /\ Restorable /\ Reachable /\ kept \subseteq Contents
  BY OrderlyFacts DEF TypeOK
<1>2. PICK p : p = record[i].path[1]  OBVIOUS
<1>3. /\ purge'[a] # None /\ purge'[a].step = "item" /\ purge'[a].item = i
      /\ i \in Items /\ i \in Active /\ IsKnown(i)
      /\ \A b \in Actors : b # a => purge'[b] = purge[b]
      /\ \A b \in Actors : (purge'[b] # None <=> purge[b] # None) /\ (purge[b] # None => purge'[b].item = purge[b].item)
      /\ Active' = Active
      /\ op.step \in {"copy back", "unhide", "recreate row", "drop item", "delete recycled"} => op.item # i
  <2>1. "item" \in {"object", "rows", "item"}  OBVIOUS
  <2> QED  BY <2>1, PurgeGoesOn DEF Purging
<1>4. IsDir(i) /\ bin[i] = NoKeys  BY <1>1 DEF PurgedBytes, Purging
<1>5. record[i].path = <<p>>
  <2>1. record[i].path \in Keys  BY <1>1, <1>3 DEF TypeOK, IsKnown, Record
  <2>2. record[i].path \in Markers  BY <1>4, <2>1, KeyKinds, FileIsNoDir DEF IsDir
  <2> QED  BY <1>2, <2>2, KeyKinds
<1>6. PICK S : S = HiddenSince(p, record[i].created)  OBVIOUS
<1>7. ASSUME NEW r \in Rows PROVE r \in S <=> Hidden(r) /\ rows[r].path[1] = p
  <2>1. ASSUME Hidden(r), rows[r].path[1] = p PROVE rows[r].hidden >= record[i].created
    <3>1. <<rows[r].path[1]>> = record[i].path  BY <1>5, <2>1
    <3> QED  BY <1>3, <1>4, <2>1, <3>1, RowsOfItem
  <2>2. r \in S <=> Hidden(r) /\ rows[r].path[1] = p /\ rows[r].hidden >= record[i].created
    BY <1>6 DEF HiddenSince, Hidden
  <2> QED  BY <2>1, <2>2
<1>8. \A r \in Rows : rows'[r] = IF r \in S THEN None ELSE rows[r]  BY <1>2, <1>6
<1>9. \A r \in Rows : /\ Live(r) => rows'[r] = rows[r]
                      /\ rows'[r] \in {rows[r], None}
                      /\ Hidden(r)' <=> Hidden(r) /\ rows[r].path[1] # p
                      /\ Hidden(r)' => rows'[r] = rows[r] /\ (IsFile(r)' <=> IsFile(r))
  <2>1. ASSUME NEW r \in Rows, r \in S PROVE ~Live(r) /\ rows'[r] = None /\ ~Hidden(r)' /\ rows[r].path[1] = p
    BY <1>7, <1>8, <2>1 DEF Live, Hidden
  <2>2. ASSUME NEW r \in Rows, r \notin S
        PROVE  rows'[r] = rows[r] /\ (Hidden(r)' <=> Hidden(r)) /\ (IsFile(r)' <=> IsFile(r))
               /\ (Hidden(r) => rows[r].path[1] # p)
    BY <1>7, <1>8, <2>2 DEF Hidden, IsFile
  <2> QED  BY <2>1, <2>2
<1>10. Clear' /\ Held' /\ Listing' /\ Marked' /\ (\A c : Listed(c) => Listed(c)') /\ \A k : LiveAt(k)' = LiveAt(k)
  BY <1>9, OthersTaken
<1>11. HiddenRows'
  <2>1. ASSUME NEW r \in Rows, Hidden(r)'
        PROVE  \E j \in items' : record'[j].path = <<rows'[r].path[1]>> /\ record'[j].created = rows'[r].hidden
    <3>1. Hidden(r) /\ rows'[r] = rows[r]  BY <1>9, <2>1
    <3>2. PICK j \in items : record[j].path = <<rows[r].path[1]>> /\ record[j].created = rows[r].hidden
      BY <1>1, <3>1 DEF HiddenRows
    <3> QED  BY <3>1, <3>2
  <2>2. ASSUME NEW r \in Rows, NEW s \in Rows, Hidden(r)', Hidden(s)', rows'[r].path = rows'[s].path PROVE r = s
    BY <1>1, <1>9, <2>2 DEF HiddenRows
  <2> QED  BY <2>1, <2>2 DEF HiddenRows
<1>12. OneItem'  BY <1>1, <1>3 DEF OneItem, IsDir
<1>13. NothingHidden'
  <2>1. ASSUME NEW b \in Actors, purge'[b] # None, purge'[b].step = "item", NEW r \in Rows, Hidden(r)'
        PROVE  <<rows'[r].path[1]>> # record[purge'[b].item].path
    <3>1. Hidden(r) /\ rows'[r] = rows[r] /\ rows[r].path[1] # p  BY <1>9, <2>1
    <3>2. CASE b = a
      <4>1. <<rows[r].path[1]>> # <<p>>  BY <3>1
      <4> QED  BY <1>3, <1>5, <3>1, <3>2, <4>1
    <3>3. CASE b # a
      <4>1. purge'[b] = purge[b]  BY <1>3, <3>3
      <4> QED  BY <1>1, <2>1, <3>1, <4>1 DEF NothingHidden, Purging
    <3> QED  BY <3>2, <3>3
  <2> QED  BY <2>1 DEF NothingHidden, Purging
<1>14. PurgedBytes'
  <2>1. ASSUME NEW b \in Actors, purge'[b] # None, purge'[b].step # "object"
        PROVE  /\ bin[purge'[b].item] = NoKeys
               /\ purge'[b].step = "rows" => Len(record[purge'[b].item].path) = 1
    <3>1. CASE b = a  BY <1>3, <1>4, <3>1
    <3>2. CASE b # a
      <4>1. purge'[b] = purge[b]  BY <1>3, <3>2
      <4> QED  BY <1>1, <2>1, <4>1 DEF PurgedBytes, IsDir
    <3> QED  BY <3>1, <3>2
  <2> QED  BY <2>1 DEF PurgedBytes, IsDir
<1>15. ItemKeys'  BY <1>1 DEF ItemKeys, IsKnown, IsDir
<1>16. HiddenBytes'
  <2>1. ASSUME NEW j \in items, NEW r \in Rows, bin[j] # NoKeys, Hidden(r)', IsFile(r)', record[j].path = <<rows'[r].path[1]>>
        PROVE  bin[j][rows'[r].path] # None
    BY <1>1, <1>9, <2>1 DEF HiddenBytes
  <2> QED  BY <2>1 DEF HiddenBytes
<1>17. Restorable'  BY <1>1, <1>3 DEF Restorable
<1>18. ASSUME NEW q, q[1] # p, HiddenAt(q) # {} PROVE HiddenAt(q)' # {}
  <2>1. PICK r \in HiddenAt(q) : TRUE  BY <1>18
  <2>2. r \in Rows /\ Hidden(r) /\ rows[r].path = q  BY <2>1 DEF HiddenAt
  <2>3. Hidden(r)' /\ rows'[r].path = q  BY <1>9, <1>18, <2>2
  <2> QED  BY <2>2, <2>3 DEF HiddenAt
<1>19. \A j \in Active : record[j].path = <<p>> => j = i  BY <1>1, <1>3, <1>4, <1>5 DEF OneItem
<1>20. Reachable'
  <2>1. ASSUME NEW c \in kept, InItem(c) PROVE InItem(c)'
    <3>1. PICK j \in items, q \in Keys : bin[j][q] = c /\ (IsDir(j) => HiddenAt(q) # {})  BY <2>1 DEF InItem
    <3>2. j \in Items /\ j \in Active /\ IsKnown(j) /\ (IsDir(j) => record[j].path \in Markers)
      BY ItemPath DEF Active, Orderly
    <3>3. c # None  BY <1>1, ObjectKinds
    <3>4. IsDir(j) => q[1] # p
      <4>1. SUFFICES ASSUME IsDir(j), q[1] = p PROVE FALSE  OBVIOUS
      <4>2. record[j].path[1] = p  BY <1>1, <3>1, <3>2, <3>3, <4>1 DEF ItemKeys
      <4>3. record[j].path = <<p>>  BY <3>2, <4>1, <4>2, KeyKinds
      <4> QED  BY <1>4, <1>19, <3>1, <3>2, <3>3, <4>3, ObjectKinds
    <3>5. IsDir(j) => HiddenAt(q)' # {}  BY <1>18, <3>1, <3>4
    <3>6. j \in items' /\ bin'[j][q] = c /\ (IsDir(j)' <=> IsDir(j))  BY <3>1 DEF IsDir
    <3> QED  BY <3>5, <3>6 DEF InItem
  <2>2. ASSUME NEW c \in kept, OnTheWay(c) PROVE OnTheWay(c)'
    <3>1. CASE op.step = "unhide"
      <4>1. PICK q \in op.keys \cap Files : bucket[q] = c /\ HiddenAt(q) # {}  BY <2>2, <3>1 DEF OnTheWay
      <4>2. q[1] = op.key[1]  BY <3>1, <4>1, OrderlyFacts DEF Held
      <4>3. op.item \in Active /\ record[op.item].path = <<op.key[1]>>  BY <3>1, RestoredFolder DEF Active
      <4>4. op.key[1] # p  BY <1>3, <1>19, <3>1, <4>3
      <4>5. HiddenAt(q)' # {}  BY <1>18, <4>1, <4>2, <4>4
      <4> QED  BY <3>1, <4>1, <4>5 DEF OnTheWay
    <3>2. CASE op.step # "unhide"  BY <1>10, <2>2, <3>2 DEF OnTheWay
    <3> QED  BY <3>1, <3>2
  <2> QED  BY <1>1, <1>10, <2>1, <2>2 DEF Reachable
<1> QED  BY <1>10, <1>11, <1>12, <1>13, <1>14, <1>15, <1>16, <1>17, <1>20 DEF ListingInv

LEMMA PurgeRowsListing ==
    ASSUME Orderly, NEW a \in Actors, PurgeRows(a)
    PROVE  ListingInv'
<1>1. Purging(a, "rows") /\ UNCHANGED <<bucket, bin, items, record, op, batch, kept>>  BY DEF PurgeRows
<1>2. CASE /\ rows' = [r \in Rows |-> IF r \in HiddenSince(record[purge[a].item].path[1], record[purge[a].item].created)
                                      THEN None ELSE rows[r]]
           /\ purge' = [purge EXCEPT ![a].step = "item"]
  BY <1>1, <1>2, RowsPurged
<1>3. CASE purge' = [purge EXCEPT ![a] = None] /\ UNCHANGED rows
  BY <1>1, <1>3, PurgeOverListing
<1> QED  BY <1>2, <1>3 DEF PurgeRows

\* The item is gone.
LEMMA ItemPurged ==
    ASSUME Orderly, NEW a \in Actors, Purging(a, "item"), NEW i, i = purge[a].item, items' = items \ {i},
           purge' = [purge EXCEPT ![a] = None],
           UNCHANGED <<bucket, bin, rows, record, op, batch, kept>>
    PROVE  ListingInv'
<1>1. /\ TypeOK /\ OneItem /\ HiddenRows /\ NothingHidden /\ ItemKeys /\ HiddenBytes /\ PurgedBytes
      /\ Restorable /\ Reachable /\ kept \subseteq Contents
  BY OrderlyFacts DEF TypeOK
<1>2. /\ bin[i] = NoKeys
      /\ \A r \in Rows : Hidden(r) => <<rows[r].path[1]>> # record[i].path
  BY <1>1 DEF PurgedBytes, NothingHidden, Purging
<1>3. \A b \in Actors : purge'[b] # None => purge'[b] = purge[b]  BY <1>1 DEF TypeOK
<1>4. op.step \in {"copy back", "unhide", "recreate row", "drop item", "delete recycled"} => op.item # i
  BY <1>1 DEF Restorable, Purging
<1>5. Clear' /\ Held' /\ Listing' /\ Marked' /\ \A c : Listed(c) => Listed(c)'  BY OthersTaken
<1>6. HiddenRows'
  <2>1. ASSUME NEW r \in Rows, Hidden(r)
        PROVE  \E j \in items' : record[j].path = <<rows[r].path[1]>> /\ record[j].created = rows[r].hidden
    <3>1. PICK j \in items : record[j].path = <<rows[r].path[1]>> /\ record[j].created = rows[r].hidden
      BY <1>1, <2>1 DEF HiddenRows
    <3>2. j # i  BY <1>2, <2>1, <3>1
    <3> QED  BY <3>1, <3>2
  <2>2. \A r, s \in Rows : Hidden(r) /\ Hidden(s) /\ rows[r].path = rows[s].path => r = s  BY <1>1 DEF HiddenRows
  <2> QED  BY <2>1, <2>2 DEF HiddenRows, Hidden
<1>7. \A j \in Active' : j \in Active  BY <1>3 DEF Active
<1>8. OneItem'  BY <1>1, <1>7 DEF OneItem, IsDir
<1>9. NothingHidden' /\ PurgedBytes'
  <2>1. NothingHidden'  BY <1>1, <1>3 DEF NothingHidden, Hidden, Purging
  <2>2. PurgedBytes'  BY <1>1, <1>3 DEF PurgedBytes, IsDir
  <2> QED  BY <2>1, <2>2
<1>10. ItemKeys' /\ HiddenBytes'  BY <1>1 DEF ItemKeys, HiddenBytes, IsKnown, IsDir, Hidden, IsFile
<1>11. Restorable'  BY <1>1, <1>3, <1>4, <1>7 DEF Restorable
<1>12. Reachable'
  <2>1. \A k : LiveAt(k)' = LiveAt(k) /\ HiddenAt(k)' = HiddenAt(k)  BY SameRows
  <2>2. ASSUME NEW c \in kept, InItem(c) PROVE InItem(c)'
    <3>1. PICK j \in items, q \in Keys : bin[j][q] = c /\ (IsDir(j) => HiddenAt(q) # {})  BY <2>2 DEF InItem
    <3>2. j # i  BY <1>1, <1>2, <3>1, ObjectKinds
    <3>3. bin'[j][q] = c /\ j \in items' /\ (IsDir(j)' <=> IsDir(j))  BY <3>1, <3>2 DEF IsDir
    <3> QED  BY <2>1, <3>1, <3>3 DEF InItem
  <2>3. \A c \in kept : OnTheWay(c) => OnTheWay(c)'  BY <2>1 DEF OnTheWay
  <2> QED  BY <1>1, <1>5, <2>2, <2>3 DEF Reachable
<1> QED  BY <1>5, <1>6, <1>8, <1>9, <1>10, <1>11, <1>12 DEF ListingInv

LEMMA PurgeItemListing ==
    ASSUME Orderly, NEW a \in Actors, PurgeItem(a)
    PROVE  ListingInv'
<1>1. Purging(a, "item") /\ purge' = [purge EXCEPT ![a] = None]
      /\ UNCHANGED <<bucket, bin, rows, record, op, batch, kept>>
  BY DEF PurgeItem
<1>2. CASE items' = items \ {purge[a].item}  BY <1>1, <1>2, ItemPurged
<1>3. CASE items' = items  BY <1>1, <1>3, PurgeOverListing
<1> QED  BY <1>2, <1>3 DEF PurgeItem

LEMMA DamageStays ==
    ASSUME [Next]_vars
    PROVE  Damage \/ UNCHANGED damage
<1>1. CASE FolderRequest \/ UploadRequest \/ FileRequest \/ BinRequest
  <2>1. \A i \in Items : RestoreFile(i) \/ RestoreFolder(i) => Damage \/ UNCHANGED damage
    BY DEF RestoreFile, RestoreFolder, Alone
  <2>2. \A i \in Items : UserPurge(i) => UNCHANGED damage  BY DEF UserPurge
  <2>3. \A p \in Folders : CreateDir(p) \/ DeleteDir(p) => UNCHANGED damage  BY DEF CreateDir, DeleteDir
  <2>4. \A path \in Folders \X Names, c \in Contents : Upload(path, c) => UNCHANGED damage  BY DEF Upload
  <2>5. \A r \in Rows, p \in Folders : Move(r, p) => UNCHANGED damage  BY DEF Move
  <2>6. \A r \in Rows : DeleteFile(r) => UNCHANGED damage  BY DEF DeleteFile
  <2> QED  BY <1>1, <2>1, <2>2, <2>3, <2>4, <2>5, <2>6 DEF FolderRequest, UploadRequest, FileRequest, BinRequest
<1>2. CASE UploadStep \/ MoveStep
  BY <1>2 DEF UploadStep, MoveStep, EnsureRow, ArchiveRow, PutObject, RecordUpload, DeleteSource, UpdateLocation
<1>3. CASE DeleteStep
  <2>1. \A ks : CopyRecycledBack(ks) => Damage \/ UNCHANGED damage  BY DEF CopyRecycledBack, LeftInBin
  <2> QED  BY <1>3, <2>1 DEF DeleteStep, DeleteOriginal, RecordItem, DropRow, DeleteBatch, HideSubtree
<1>4. CASE RestoreStep
  BY <1>4 DEF RestoreStep, CopyBack, DeleteRecycled, RecreateRow, UnhideSubtree, DropItem
<1>5. CASE CronList \/ CronTake \/ ApiExits  BY <1>5 DEF CronList, CronTake, Meets, ApiExits
<1>6. CASE \E a \in Actors : PurgeStep(a)  BY <1>6 DEF PurgeStep, PurgeObjects, PurgeRows, PurgeItem
<1> QED  BY <1>1, <1>2, <1>3, <1>4, <1>5, <1>6 DEF Next, vars

LEMMA DamageIsForGood ==
    ASSUME TypeOK, [Next]_vars, damage' = 0
    PROVE  damage = 0
<1>1. damage \in 0..MaxDamage  BY DEF TypeOK
<1>2. damage' = damage \/ damage' = damage + 1  BY DamageStays DEF Damage
<1> QED  BY <1>1, <1>2, BucketAssumption

LEMMA StutterListing ==
    ASSUME Orderly, UNCHANGED vars
    PROVE  ListingInv'
<1>1. UNCHANGED <<bucket, bin, rows, items, record, clock, op, purge, batch, unused, kept, damage>>  BY DEF vars
<1>2. Active' = Active  BY <1>1 DEF Active
<1> QED  BY <1>1, <1>2, OrderlyFacts, PurgesChange DEF Restorable

LEMMA ListingsInit ==
    ASSUME Init
    PROVE  ListingInv
<1>1. RequestInv /\ op.step = "idle"  BY RequestsInit, IdleType DEF Init
<1>2. Active = {}  BY DEF Init, Active
<1>3. \A r \in Rows : ~Live(r) /\ ~Hidden(r)  BY DEF Init, Live, Hidden
<1>4. Listing /\ HiddenRows /\ Marked /\ HiddenBytes  BY <1>3 DEF Listing, HiddenRows, Marked, HiddenBytes
<1>5. Clear /\ Held /\ Restorable  BY <1>1 DEF Clear, Held, Restorable
<1>6. OneItem  BY <1>2 DEF OneItem
<1>7. NothingHidden /\ PurgedBytes /\ ItemKeys  BY DEF NothingHidden, PurgedBytes, ItemKeys, Purging, IsKnown, Init
<1>8. Reachable  BY DEF Reachable, Init
<1> QED  BY <1>4, <1>5, <1>6, <1>7, <1>8 DEF ListingInv

LEMMA ListingsStep ==
    ASSUME RequestInv, OrderlyInv, [Next]_vars, Collisions = "none", "list" \notin Failing
    PROVE  OrderlyInv'
<1> SUFFICES ASSUME damage' = 0 PROVE ListingInv'  BY DEF OrderlyInv
<1>1. damage = 0  BY DamageIsForGood DEF RequestInv
<1>2. Orderly  BY <1>1 DEF Orderly, OrderlyInv
<1>3. CASE FolderRequest \/ UploadRequest \/ FileRequest \/ BinRequest
  BY <1>2, <1>3, CreateDirListing, DeleteDirListing, UploadListing, DeleteFileListing, MoveListing,
     RestoreFileListing, RestoreFolderListing, UserPurgeListing
  DEF FolderRequest, UploadRequest, FileRequest, BinRequest
<1>4. CASE UploadStep \/ MoveStep
  BY <1>2, <1>4, EnsureRowListing, ArchiveRowListing, PutObjectListing, RecordUploadListing,
     DeleteSourceListing, UpdateLocationListing
  DEF UploadStep, MoveStep
<1>5. CASE DeleteStep
  BY <1>2, <1>5, DeleteOriginalListing, RecordItemListing, DropRowListing, DeleteBatchListing, HideListing
  DEF DeleteStep
<1>6. CASE RestoreStep
  BY <1>2, <1>6, CopyBackListing, DeleteRecycledListing, RecreateRowListing, UnhideListing, DropItemListing
  DEF RestoreStep
<1>7. CASE CronList \/ CronTake \/ ApiExits
  <2>1. ~ApiExits  BY <1>2, OrderlyFacts DEF ApiExits
  <2> QED  BY <1>2, <1>7, <2>1, CronListListing, CronTakeListing
<1>8. CASE \E a \in Actors : PurgeStep(a)
  BY <1>2, <1>8, PurgeObjectsListing, PurgeRowsListing, PurgeItemListing DEF PurgeStep
<1> QED  BY <1>2, <1>3, <1>4, <1>5, <1>6, <1>7, <1>8, StutterListing DEF Next

\* As long as nothing was left undone, rows, objects and items go together, at every
\* step of every request: where nobody moves or restores a file onto another and no
\* listing of the bucket fails, whatever other call does, and whatever is purged
\* meanwhile, what has been done so far is undone, or done to the end.
THEOREM ListingsAreSound ==
    ASSUME Collisions = "none", "list" \notin Failing
    PROVE  Spec => []OrderlyInv
<1>1. Init => OrderlyInv  BY ListingsInit DEF OrderlyInv
<1>2. RequestInv /\ OrderlyInv /\ [Next]_vars => OrderlyInv'  BY ListingsStep
<1> QED  BY <1>1, <1>2, RequestsAreSound, PTL DEF Spec

LEMMA ReadyFacts ==
    ASSUME RequestInv, OrderlyInv, Ready, damage = 0
    PROVE  TypeOK /\ MarkerKeys /\ Listing /\ HiddenRows /\ OneItem /\ ItemKeys /\ Reachable /\ op.step = "idle"
    BY IdleType DEF RequestInv, OrderlyInv, ListingInv, Ready

\* Between requests every file that is listed has its object.
THEOREM ListedFilesHaveObjects ==
    ASSUME Collisions = "none", "list" \notin Failing
    PROVE  Spec => []ListedHasObject
<1>1. RequestInv /\ OrderlyInv => ListedHasObject  BY ReadyFacts DEF ListedHasObject, Listing, Moving
<1> QED  BY <1>1, RequestsAreSound, ListingsAreSound, PTL

\* Between requests a path is listed once.
THEOREM PathsAreListedOnce ==
    ASSUME Collisions = "none", "list" \notin Failing
    PROVE  Spec => []ListedOnce
<1>1. ASSUME RequestInv, OrderlyInv, Ready, damage = 0, NEW r \in Rows, Live(r) PROVE LiveAt(rows[r].path) = {r}
  <2>1. \A s \in Rows : Live(s) /\ rows[s].path = rows[r].path => s = r  BY <1>1, ReadyFacts DEF Listing
  <2> QED  BY <1>1, <2>1 DEF LiveAt
<1>2. RequestInv /\ OrderlyInv => ListedOnce  BY <1>1 DEF ListedOnce
<1> QED  BY <1>2, RequestsAreSound, ListingsAreSound, PTL

\* Between requests every version whose upload was answered can be had until it is
\* purged: listed, or in an item of the bin whose restore lists it again.
THEOREM VersionsAreReachable ==
    ASSUME Collisions = "none", "list" \notin Failing
    PROVE  Spec => []EveryVersionReachable
<1>1. ASSUME RequestInv, OrderlyInv, Ready, damage = 0, NEW c \in kept
      PROVE  \/ \E r \in Rows : Live(r) /\ bucket[rows[r].path] = c
             \/ \E i \in items, k \in Keys :
                   /\ bin[i][k] = c
                   /\ IsDir(i) => \E r \in HiddenSince(k[1], record[i].created) : rows[r].path = k
  <2>1. /\ TypeOK /\ MarkerKeys /\ HiddenRows /\ OneItem /\ ItemKeys
        /\ ~OnTheWay(c) /\ (Listed(c) \/ InItem(c) \/ OnTheWay(c))
    BY <1>1, ReadyFacts DEF Reachable, OnTheWay
  <2>2. CASE Listed(c)  BY <2>2 DEF Listed
  <2>3. CASE InItem(c)
    <3>1. PICK i \in items, k \in Keys : bin[i][k] = c /\ (IsDir(i) => HiddenAt(k) # {})  BY <2>3 DEF InItem
    <3>2. i \in Items /\ IsKnown(i) /\ (IsDir(i) => record[i].path \in Markers)  BY <1>1, ItemPath
    <3>3. ASSUME IsDir(i) PROVE \E r \in HiddenSince(k[1], record[i].created) : rows[r].path = k
      <4>1. PICK r \in HiddenAt(k) : TRUE  BY <3>1, <3>3
      <4>2. r \in Rows /\ Hidden(r) /\ rows[r].path = k  BY <4>1 DEF HiddenAt
      <4>3. c # None  BY <2>1, ObjectKinds DEF TypeOK
      <4>4. record[i].path[1] = k[1]  BY <2>1, <3>1, <3>2, <3>3, <4>3 DEF ItemKeys
      <4>5. record[i].path = <<k[1]>>  BY <3>2, <3>3, <4>4, KeyKinds
      <4>6. PICK j \in items : record[j].path = <<rows[r].path[1]>> /\ record[j].created = rows[r].hidden
        BY <2>1, <4>2 DEF HiddenRows
      <4>7. j = i  BY <2>1, <3>3, <4>2, <4>5, <4>6 DEF OneItem, Active
      <4>8. rows[r].hidden \in Times  BY <2>1, <4>2, LiveKinds DEF Hidden
      <4>9. rows[r].hidden >= record[i].created  BY <4>6, <4>7, <4>8, SameTime
      <4>10. r \in HiddenSince(k[1], record[i].created)  BY <4>2, <4>9 DEF HiddenSince, Hidden
      <4> QED  BY <4>2, <4>10
    <3> QED  BY <3>1, <3>3
  <2> QED  BY <2>1, <2>2, <2>3
<1>2. RequestInv /\ OrderlyInv => EveryVersionReachable  BY <1>1 DEF EveryVersionReachable
<1> QED  BY <1>2, RequestsAreSound, ListingsAreSound, PTL

=============================================================================
