-------------------------- MODULE ThumbnailsProofs --------------------------
(***************************************************************************)
(* Proofs about Thumbnails for any files, extensions, batch size and       *)
(* number of failures: types whatever overlaps, and the picture a file     *)
(* shows when names are not used twice at a time.                          *)
(***************************************************************************)
EXTENDS ThumbnailsInvariant, FiniteSetTheorems, TLAPS

-----------------------------------------------------------------------------
(* Batches *)

\* The rows of a batch in some order, each once.
LEMMA SomeOrder ==
    ASSUME NEW S \in SUBSET Rows
    PROVE  /\ SetToSeq(S) \in [1..Cardinality(S) -> S]
           /\ \A m, n \in 1..Cardinality(S) : SetToSeq(S)[m] = SetToSeq(S)[n] => m = n
<1>1. IsFiniteSet(S)  BY FS_Subset, ThumbnailAssumption
<1>2. ExistsBijection(1..Cardinality(S), S)  BY <1>1, FS_CardinalityType
<1>3. \E f \in [1..Cardinality(S) -> S] : IsInjective(f)
  <2>1. PICK f : f \in Bijection(1..Cardinality(S), S)  BY <1>2 DEF ExistsBijection
  <2>2. f \in [1..Cardinality(S) -> S] /\ \A a, b \in 1..Cardinality(S) : f[a] = f[b] => a = b
    BY <2>1 DEF Bijection, Injection, IsInjective
  <2>3. IsInjective(f)  BY <2>2 DEF IsInjective
  <2> QED  BY <2>2, <2>3
<1>4. SetToSeq(S) \in [1..Cardinality(S) -> S] /\ IsInjective(SetToSeq(S))
  BY <1>3 DEF SetToSeq
<1> QED  BY <1>4 DEF IsInjective

\* The first of a batch, and those after it.
LEMMA FirstAndRest ==
    ASSUME NEW b \in Seq(Entry), b # <<>>
    PROVE  /\ Len(b) \in Nat \ {0} /\ 1 \in DOMAIN b /\ Head(b) = b[1] /\ Head(b) \in Entry
           /\ Head(b).id \in Rows /\ Head(b).path \in Paths
           /\ Tail(b) \in Seq(Entry) /\ Len(Tail(b)) = Len(b) - 1
           /\ \A n \in DOMAIN Tail(b) : n \in Nat /\ n + 1 \in DOMAIN b /\ n + 1 # 1 /\ Tail(b)[n] = b[n + 1]
<1>1. Len(b) \in Nat \ {0} /\ 1 \in DOMAIN b /\ Head(b) = b[1]  OBVIOUS
<1>2. b[1] \in Entry  BY <1>1
<1>3. Tail(b) \in Seq(Entry) /\ Len(Tail(b)) = Len(b) - 1  BY <1>1
<1>4. \A n \in DOMAIN Tail(b) : n \in Nat /\ n + 1 \in DOMAIN b /\ n + 1 # 1 /\ Tail(b)[n] = b[n + 1]
  BY <1>1, <1>3
<1> QED  BY <1>1, <1>2, <1>3, <1>4 DEF Entry

LEMMA FollowingJob ==
    ASSUME NEW b \in Seq(Entry), b # <<>>, Len(b) <= Limit
    PROVE  /\ Following(b) \in Job /\ Following(b).batch = Tail(b) /\ Len(Tail(b)) <= Limit
           /\ Following(b).step \in {"rest", "read"}
           /\ Following(b).step # "rest" => Tail(b) # <<>>
<1>1. /\ Len(b) \in Nat \ {0} /\ Tail(b) \in Seq(Entry) /\ Len(Tail(b)) = Len(b) - 1
  BY FirstAndRest
<1>2. Limit \in Nat  BY ThumbnailAssumption
<1>3. Following(b) = [step |-> IF Len(b) = 1 THEN "rest" ELSE "read", data |-> None, batch |-> Tail(b)]
  BY DEF Following
<1>4. Following(b) \in Job  BY <1>1, <1>3 DEF Job
<1>5. Len(b) # 1 => Tail(b) # <<>>
  <2>1. Len(b) # 1 => Len(Tail(b)) # 0  BY <1>1
  <2>2. Len(<<>>) = 0  OBVIOUS
  <2> QED  BY <2>1, <2>2
<1> QED  BY <1>1, <1>2, <1>3, <1>4, <1>5

\* What a run of the job starts with: up to Limit rows without a thumbnail.
LEMMA NewBatch ==
    ASSUME TypeInv, NEW batch \in SUBSET Rows, \A r \in batch : NeedsThumb(r), batch # {},
           Cardinality(batch) <= Limit,
           NEW b, b = (LET s == SetToSeq(batch)
                       IN  [n \in DOMAIN s |-> [id |-> s[n], path |-> rows[s[n]].path]])
    PROVE  /\ b \in Seq(Entry) /\ b # <<>> /\ Len(b) <= Limit
           /\ \A n \in DOMAIN b : b[n].id \in batch /\ b[n].path = rows[b[n].id].path
           /\ \A m, n \in DOMAIN b : b[m].id = b[n].id => m = n
<1> DEFINE s == SetToSeq(batch)
           c == Cardinality(batch)
<1>1. s \in [1..c -> batch] /\ \A m, n \in 1..c : s[m] = s[n] => m = n  BY SomeOrder
<1>2. c \in Nat /\ c # 0
  <2>1. IsFiniteSet(batch)  BY FS_Subset, ThumbnailAssumption
  <2> QED  BY <2>1, FS_EmptySet, FS_CardinalityType
<1> HIDE DEF s, c
<1>3. b = [n \in 1..c |-> [id |-> s[n], path |-> rows[s[n]].path]]  BY <1>1 DEF s
<1>4. \A r \in batch : r \in Rows /\ rows[r].path \in Paths
  BY DEF NeedsThumb, TypeInv, Recorded, Row
<1>5. \A n \in 1..c : b[n] = [id |-> s[n], path |-> rows[s[n]].path] /\ b[n] \in Entry
  BY <1>1, <1>3, <1>4 DEF Entry
<1>6. b \in [1..c -> Entry]  BY <1>3, <1>5
<1>7. b \in Seq(Entry) /\ Len(b) = c  BY <1>2, <1>6
<1>8. b # <<>>  BY <1>2, <1>7
<1>9. Len(b) <= Limit  BY <1>7 DEF c
<1>10. DOMAIN b = 1..c  BY <1>6
<1>11. \A n \in DOMAIN b : b[n].id = s[n] /\ b[n].path = rows[s[n]].path  BY <1>5, <1>10
<1>12. \A n \in DOMAIN b : s[n] \in batch  BY <1>1, <1>10
<1>13. \A m, n \in DOMAIN b : b[m].id = b[n].id => m = n  BY <1>1, <1>10, <1>11
<1> QED  BY <1>7, <1>8, <1>9, <1>11, <1>12, <1>13

LEMMA TickBatch ==
    ASSUME TypeInv, Tick
    PROVE  /\ \E batch \in SUBSET Rows : \E b :
                 /\ \A r \in batch : NeedsThumb(r)
                 /\ job' = [step |-> "read", data |-> None, batch |-> b]
                 /\ b \in Seq(Entry) /\ b # <<>> /\ Len(b) <= Limit
                 /\ \A n \in DOMAIN b : b[n].id \in batch /\ b[n].path = rows[b[n].id].path
                 /\ \A m, n \in DOMAIN b : b[m].id = b[n].id => m = n
           /\ UNCHANGED <<rows, objects, thumbs, items, write, latest, failures, moves>>
<1> DEFINE all == {r \in Rows : NeedsThumb(r)}
<1>1. PICK batch \in SUBSET all :
          /\ Cardinality(batch) = BatchSize(all)
          /\ job' = [step |-> "read", data |-> None,
                     batch |-> LET s == SetToSeq(batch)
                               IN  [n \in DOMAIN s |-> [id |-> s[n], path |-> rows[s[n]].path]]]
  BY DEF Tick
<1>2. IsFiniteSet(all) /\ IsFiniteSet(batch)  BY FS_Subset, ThumbnailAssumption
<1>3. Cardinality(all) \in Nat /\ Cardinality(all) # 0
  BY <1>2, FS_EmptySet, FS_CardinalityType DEF Tick
<1>4. Cardinality(batch) # 0 /\ Cardinality(batch) <= Limit
  BY <1>1, <1>3, ThumbnailAssumption DEF BatchSize
<1>5. batch # {}  BY <1>4, FS_EmptySet
<1>6. batch \in SUBSET Rows /\ \A r \in batch : NeedsThumb(r)  OBVIOUS
<1>7. PICK b : b = (LET s == SetToSeq(batch)
                    IN  [n \in DOMAIN s |-> [id |-> s[n], path |-> rows[s[n]].path]])
  OBVIOUS
<1>8. /\ b \in Seq(Entry) /\ b # <<>> /\ Len(b) <= Limit
      /\ \A n \in DOMAIN b : b[n].id \in batch /\ b[n].path = rows[b[n].id].path
      /\ \A m, n \in DOMAIN b : b[m].id = b[n].id => m = n
  BY <1>4, <1>5, <1>6, <1>7, NewBatch
<1>9. job' = [step |-> "read", data |-> None, batch |-> b]  BY <1>1, <1>7
<1>10. UNCHANGED <<rows, objects, thumbs, items, write, latest, failures, moves>>  BY DEF Tick
<1> QED  BY <1>6, <1>8, <1>9, <1>10

-----------------------------------------------------------------------------
(* Types, and where the objects are *)

\* What a picture is recorded under, by file name.
LEMMA PlaceOf ==
    ASSUME NEW p \in Paths
    PROVE  ThumbOf(p) \in Places /\ ThumbOf(p) # None
    BY NoneAssumption DEF ThumbOf, Places

LEMMA RowFields ==
    ASSUME TypeInv, NEW r \in Rows, Recorded(r)
    PROVE  /\ rows[r] \in Row /\ rows[r].path \in Paths /\ rows[r].thumb \in Places \cup {None}
           /\ rows[r].status \in {"pending", "ready"}
    BY DEF TypeInv, Recorded, Row

LEMMA ItemFields ==
    ASSUME TypeInv, NEW i \in Items, Deleted(i)
    PROVE  /\ items[i] \in Item /\ items[i].path \in Paths /\ items[i].thumb \in Places \cup {None}
           /\ items[i].content \in Contents
    BY DEF TypeInv, Deleted, Item

LEMMA WriteFields ==
    ASSUME TypeInv, write # None
    PROVE  /\ write \in Writing /\ write.row \in Rows /\ write.content \in Contents
           /\ Recorded(write.row)
    BY DEF TypeInv, Writing

LEMMA RowMade ==
    ASSUME NEW p \in Paths, NEW status \in {"pending", "ready"}, NEW t \in Places \cup {None},
           NEW row, row = [path |-> p, status |-> status, thumb |-> t]
    PROVE  row \in Row /\ row # None
    BY NoneAssumption DEF Row

LEMMA RowChanged ==
    ASSUME NEW row \in Row
    PROVE  /\ \A p \in Paths : [row EXCEPT !.path = p] \in Row
           /\ \A s \in {"pending", "ready"} : [row EXCEPT !.status = s] \in Row
           /\ \A t \in Places \cup {None} : [row EXCEPT !.thumb = t] \in Row
           /\ Updated(row) \in Row
    BY DEF Row, Updated

\* Objects stay where the rows say when no row comes, goes or moves.
LEMMA StillStored ==
    ASSUME Stored, TypeInv, rows' \in [Rows -> Row \cup {None}],
           \A r \in Rows : /\ Recorded(r) <=> Recorded(r)'
                           /\ Recorded(r) => rows'[r].path = rows[r].path,
           \A p \in Paths : objects[p] # None <=> objects'[p] # None
    PROVE  Stored'
<1>1. \A p \in Paths : RowsAt(p)' = RowsAt(p)  BY DEF RowsAt
<1>2. \A p \in Paths : (RowsAt(p) # {}) <=> (RowsAt(p)' # {})  BY <1>1
<1>3. \A p \in Paths : (objects[p] # None <=> RowsAt(p) # {})'  BY <1>2 DEF Stored
<1>4. \A r, s \in Rows : Recorded(r)' /\ Recorded(s)' /\ rows'[r].path = rows'[s].path => r = s
  BY DEF Stored
<1> QED  BY <1>3, <1>4 DEF Stored

LEMMA StoredAt ==
    ASSUME Stored, TypeInv, NEW r \in Rows, Recorded(r)
    PROVE  objects[rows[r].path] \in Contents
<1>1. rows[r].path \in Paths  BY RowFields
<1>2. r \in RowsAt(rows[r].path)  BY DEF RowsAt
<1>3. objects[rows[r].path] # None  BY <1>1, <1>2 DEF Stored
<1> QED  BY <1>1, <1>3 DEF TypeInv

LEMMA TypesInit ==
    ASSUME Init
    PROVE  TypeInv /\ Stored
<1>1. TypeInv
  <2>1. job \in Job /\ Len(job.batch) <= Limit /\ job.step = "rest"
    BY ThumbnailAssumption DEF Init, Resting, Job
  <2> QED  BY <2>1, ThumbnailAssumption DEF Init, TypeInv, Working
<1>2. Stored  BY DEF Init, Stored, RowsAt, Recorded
<1> QED  BY <1>1, <1>2

LEMMA UploadTypes ==
    ASSUME TypeInv, Stored, NEW p \in Paths, NEW c \in Contents, Upload(p, c)
    PROVE  TypeInv' /\ Stored'
<1>1. PICK r \in FreshRows : rows' = [rows EXCEPT ![r] = [path |-> p, status |-> "ready", thumb |-> None]]
  BY DEF Upload
<1>2. r \in Rows /\ ~Recorded(r)  BY DEF FreshRows
<1>3. PICK row : row = [path |-> p, status |-> "ready", thumb |-> None]  OBVIOUS
<1>4. row \in Row /\ row # None  BY <1>3, RowMade
<1>5. row.path = p  BY <1>3
<1>6. rows' = [rows EXCEPT ![r] = row]  BY <1>1, <1>3
<1>7. objects' = [objects EXCEPT ![p] = c] /\ c # None  BY NoneAssumption DEF Upload
<1>8. TypeInv'
  <2>1. rows' \in [Rows -> Row \cup {None}] /\ objects' \in [Paths -> Contents \cup {None}]
    BY <1>2, <1>4, <1>6, <1>7 DEF TypeInv
  <2>2. latest' \in 0..MaxContents  BY ThumbnailAssumption DEF Upload, Contents
  <2> QED  BY <2>1, <2>2 DEF TypeInv, Upload, Working
<1>9. Stored'
  <2>1. \A s \in Rows : Recorded(s)' <=> Recorded(s) \/ s = r
    BY <1>2, <1>4, <1>6 DEF TypeInv, Recorded
  <2>2. \A s \in Rows : rows'[s] = IF s = r THEN row ELSE rows[s]  BY <1>2, <1>6 DEF TypeInv
  <2>3. RowsAt(p) = {}  BY DEF Upload
  <2>4. \A q \in Paths : RowsAt(q)' = IF q = p THEN {r} ELSE RowsAt(q)
    BY <1>2, <1>5, <2>1, <2>2, <2>3 DEF RowsAt
  <2>5. \A q \in Paths : objects'[q] = IF q = p THEN c ELSE objects[q]  BY <1>7 DEF TypeInv
  <2>6. \A q \in Paths : (objects[q] # None <=> RowsAt(q) # {})'
    BY <1>7, <2>4, <2>5 DEF Stored
  <2>7. \A s, t \in Rows : Recorded(s)' /\ Recorded(t)' /\ rows'[s].path = rows'[t].path => s = t
    BY <1>2, <1>5, <2>1, <2>2, <2>3 DEF Stored, RowsAt
  <2> QED  BY <2>6, <2>7 DEF Stored
<1> QED  BY <1>8, <1>9

LEMMA ReplaceTypes ==
    ASSUME TypeInv, Stored, NEW r \in Rows, NEW c \in Contents, NEW status \in {"ready", "pending"},
           Replace(r, c, status)
    PROVE  TypeInv' /\ Stored'
<1>1. rows' = [rows EXCEPT ![r].status = status] /\ Recorded(r)  BY DEF Replace
<1>2. rows[r] \in Row  BY <1>1, RowFields
<1>3. PICK row : row = [rows[r] EXCEPT !.status = status]  OBVIOUS
<1>4. row \in Row /\ row # None /\ row.path = rows[r].path  BY <1>2, <1>3, RowChanged, NoneAssumption DEF Row
<1>5. rows' = [rows EXCEPT ![r] = row]  BY <1>1, <1>3 DEF TypeInv
<1>6. rows' \in [Rows -> Row \cup {None}]  BY <1>4, <1>5 DEF TypeInv
<1>7. \A s \in Rows : /\ Recorded(s) <=> Recorded(s)'
                      /\ Recorded(s) => rows'[s].path = rows[s].path
  BY <1>1, <1>4, <1>5 DEF TypeInv, Recorded
<1>8. write' \in Writing /\ write'.row = r /\ latest' \in 0..MaxContents
  BY ThumbnailAssumption DEF Replace, Writing, Contents
<1>9. TypeInv'  BY <1>1, <1>6, <1>7, <1>8 DEF TypeInv, Replace, Working
<1>10. Stored'  BY <1>6, <1>7, StillStored DEF Replace
<1> QED  BY <1>9, <1>10

LEMMA PutTypes ==
    ASSUME TypeInv, Stored, PutBytes
    PROVE  TypeInv' /\ Stored'
<1>1. write # None /\ write \in Writing /\ write.row \in Rows /\ write.content \in Contents /\ Recorded(write.row)
  BY WriteFields DEF PutBytes
<1>2. rows[write.row].path \in Paths  BY <1>1, RowFields
<1>3. objects' = [objects EXCEPT ![rows[write.row].path] = write.content]  BY DEF PutBytes
<1>4. objects' \in [Paths -> Contents \cup {None}]  BY <1>1, <1>2, <1>3 DEF TypeInv
<1>5. write' \in Writing /\ write'.row = write.row /\ write' # None
  BY <1>1, NoneAssumption DEF PutBytes, Writing
<1>6. TypeInv'  BY <1>1, <1>4, <1>5 DEF TypeInv, PutBytes, Recorded, Working
<1>7. objects[rows[write.row].path] # None /\ write.content # None
  BY <1>1, StoredAt, NoneAssumption
<1>8. \A p \in Paths : objects[p] # None <=> objects'[p] # None
  BY <1>2, <1>3, <1>7 DEF TypeInv
<1>9. rows' = rows  BY DEF PutBytes
<1>10. Stored'  BY <1>8, <1>9, <1>6, StillStored DEF Recorded, TypeInv
<1> QED  BY <1>6, <1>10

LEMMA SettleTypes ==
    ASSUME TypeInv, Stored, Settle
    PROVE  TypeInv' /\ Stored'
<1>1. write # None /\ write.row \in Rows /\ Recorded(write.row)
  BY WriteFields DEF Settle
<1>2. rows[write.row] \in Row  BY <1>1, RowFields
<1>3. rows' = [rows EXCEPT ![write.row] = Updated(rows[write.row])]  BY <1>1 DEF Settle, TypeInv
<1>4. Updated(rows[write.row]) \in Row /\ Updated(rows[write.row]) # None
  BY <1>2, RowChanged, NoneAssumption
<1>5. Updated(rows[write.row]).path = rows[write.row].path  BY <1>2 DEF Updated, Row
<1>6. rows' \in [Rows -> Row \cup {None}]  BY <1>3, <1>4 DEF TypeInv
<1>7. \A s \in Rows : /\ Recorded(s) <=> Recorded(s)'
                      /\ Recorded(s) => rows'[s].path = rows[s].path
  BY <1>1, <1>3, <1>4, <1>5 DEF TypeInv, Recorded
<1>8. TypeInv'  BY <1>6 DEF TypeInv, Settle, Working
<1>9. Stored'  BY <1>6, <1>7, StillStored DEF Settle
<1> QED  BY <1>8, <1>9

LEMMA MoveTypes ==
    ASSUME TypeInv, Stored, NEW r \in Rows, NEW p \in Paths, Move(r, p)
    PROVE  TypeInv' /\ Stored'
<1>1. Recorded(r) /\ rows' = [rows EXCEPT ![r].path = p] /\ RowsAt(p) = {} /\ moves < MaxMoves /\ moves' = moves + 1
  BY DEF Move
<1>2. rows[r] \in Row /\ rows[r].path \in Paths  BY <1>1, RowFields
<1>3. PICK row : row = [rows[r] EXCEPT !.path = p]  OBVIOUS
<1>4. row \in Row /\ row # None /\ row.path = p  BY <1>2, <1>3, RowChanged, NoneAssumption DEF Row
<1>5. rows' = [rows EXCEPT ![r] = row]  BY <1>1, <1>3 DEF TypeInv
<1>6. PICK old : old = rows[r].path  OBVIOUS
<1>7. PICK c : c = objects[old]  OBVIOUS
<1>8. c \in Contents /\ c # None  BY <1>1, <1>6, <1>7, StoredAt, NoneAssumption
<1>9. r \in RowsAt(old) /\ old # p /\ old \in Paths  BY <1>1, <1>2, <1>6 DEF RowsAt
<1>10. objects' = [objects EXCEPT ![p] = c, ![old] = None]  BY <1>6, <1>7 DEF Move
<1>11. \A q \in Paths : objects'[q] = IF q = p THEN c ELSE IF q = old THEN None ELSE objects[q]
  BY <1>9, <1>10 DEF TypeInv
<1>12. \A s \in Rows : rows'[s] = IF s = r THEN row ELSE rows[s]  BY <1>5 DEF TypeInv
<1>13. \A s \in Rows : Recorded(s)' <=> Recorded(s)  BY <1>1, <1>4, <1>12 DEF Recorded
<1>14. TypeInv'
  <2>1. rows' \in [Rows -> Row \cup {None}]  BY <1>4, <1>5 DEF TypeInv
  <2>2. objects' \in [Paths -> Contents \cup {None}]  BY <1>8, <1>10 DEF TypeInv
  <2>3. moves' \in 0..MaxMoves  BY <1>1, ThumbnailAssumption DEF TypeInv
  <2>4. write = None  BY DEF Move
  <2> QED  BY <2>1, <2>2, <2>3, <2>4 DEF TypeInv, Move, Working
<1>15. Stored'
  <2>1. RowsAt(p)' = {r}  BY <1>1, <1>4, <1>12, <1>13 DEF RowsAt
  <2>2. RowsAt(old)' = {}  BY <1>1, <1>4, <1>6, <1>9, <1>12, <1>13 DEF RowsAt, Stored
  <2>3. \A q \in Paths : q # p /\ q # old => RowsAt(q)' = RowsAt(q)
    BY <1>4, <1>6, <1>12, <1>13 DEF RowsAt
  <2>4. \A q \in Paths : (objects[q] # None <=> RowsAt(q) # {})'
    BY <1>8, <1>11, <2>1, <2>2, <2>3 DEF Stored
  <2>5. \A s, t \in Rows : Recorded(s)' /\ Recorded(t)' /\ rows'[s].path = rows'[t].path => s = t
    BY <1>1, <1>4, <1>12, <1>13 DEF RowsAt, Stored
  <2> QED  BY <2>4, <2>5 DEF Stored
<1> QED  BY <1>14, <1>15

LEMMA DeleteTypes ==
    ASSUME TypeInv, Stored, NEW r \in Rows, Delete(r)
    PROVE  TypeInv' /\ Stored'
<1>1. Recorded(r) /\ rows' = [rows EXCEPT ![r] = None] /\ write = None  BY DEF Delete
<1>2. PICK i \in Items : items' = [items EXCEPT ![i] = [path |-> rows[r].path, thumb |-> rows[r].thumb,
                                                        content |-> objects[rows[r].path]]]
  BY DEF Delete
<1>3. rows[r].path \in Paths /\ rows[r].thumb \in Places \cup {None} /\ objects[rows[r].path] \in Contents
  BY <1>1, RowFields, StoredAt
<1>4. PICK item : item = [path |-> rows[r].path, thumb |-> rows[r].thumb, content |-> objects[rows[r].path]]
  OBVIOUS
<1>5. item \in Item  BY <1>3, <1>4 DEF Item
<1>6. PICK old : old = rows[r].path  OBVIOUS
<1>7. objects' = [objects EXCEPT ![old] = None] /\ old \in Paths  BY <1>3, <1>6 DEF Delete
<1>8. TypeInv'
  <2>1. rows' \in [Rows -> Row \cup {None}]  BY <1>1 DEF TypeInv
  <2>2. objects' \in [Paths -> Contents \cup {None}]  BY <1>7 DEF TypeInv
  <2>3. items' \in [Items -> Item \cup {None}]  BY <1>2, <1>4, <1>5 DEF TypeInv
  <2> QED  BY <1>1, <2>1, <2>2, <2>3 DEF TypeInv, Delete, Working
<1>9. Stored'
  <2>1. \A s \in Rows : rows'[s] = IF s = r THEN None ELSE rows[s]  BY <1>1 DEF TypeInv
  <2>2. \A s \in Rows : Recorded(s)' <=> Recorded(s) /\ s # r  BY <2>1 DEF Recorded
  <2>3. RowsAt(old)' = {}  BY <1>1, <1>6, <2>1, <2>2 DEF RowsAt, Stored
  <2>4. \A q \in Paths : q # old => RowsAt(q)' = RowsAt(q)  BY <1>6, <2>1, <2>2 DEF RowsAt
  <2>5. \A q \in Paths : objects'[q] = IF q = old THEN None ELSE objects[q]  BY <1>7 DEF TypeInv
  <2>6. \A q \in Paths : (objects[q] # None <=> RowsAt(q) # {})'
    BY <2>3, <2>4, <2>5 DEF Stored
  <2>7. \A s, t \in Rows : Recorded(s)' /\ Recorded(t)' /\ rows'[s].path = rows'[t].path => s = t
    BY <2>1, <2>2 DEF Stored
  <2> QED  BY <2>6, <2>7 DEF Stored
<1> QED  BY <1>8, <1>9

LEMMA RestoreTypes ==
    ASSUME TypeInv, Stored, NEW i \in Items, Restore(i)
    PROVE  TypeInv' /\ Stored'
<1>1. PICK p, c : p = items[i].path /\ c = items[i].content  OBVIOUS
<1>2. p \in Paths /\ c \in Contents /\ c # None /\ RowsAt(p) = {} /\ write = None
  BY <1>1, ItemFields, NoneAssumption DEF Restore, Deleted
<1>3. PICK r \in FreshRows : rows' = [rows EXCEPT ![r] = [path |-> p, status |-> "ready", thumb |-> None]]
  BY <1>1 DEF Restore
<1>4. r \in Rows /\ ~Recorded(r)  BY DEF FreshRows
<1>5. PICK row : row = [path |-> p, status |-> "ready", thumb |-> None]  OBVIOUS
<1>6. row \in Row /\ row # None /\ row.path = p  BY <1>2, <1>5, RowMade
<1>7. rows' = [rows EXCEPT ![r] = row]  BY <1>3, <1>5
<1>8. objects' = [objects EXCEPT ![p] = c]  BY <1>1 DEF Restore
<1>9. TypeInv'
  <2>1. rows' \in [Rows -> Row \cup {None}] /\ objects' \in [Paths -> Contents \cup {None}]
    BY <1>2, <1>4, <1>6, <1>7, <1>8 DEF TypeInv
  <2>2. items' \in [Items -> Item \cup {None}]  BY DEF Restore, TypeInv
  <2>3. moves' \in 0..MaxMoves  BY ThumbnailAssumption DEF TypeInv, Restore
  <2> QED  BY <1>2, <2>1, <2>2, <2>3 DEF TypeInv, Restore, Working
<1>10. Stored'
  <2>1. \A s \in Rows : Recorded(s)' <=> Recorded(s) \/ s = r
    BY <1>4, <1>6, <1>7 DEF TypeInv, Recorded
  <2>2. \A s \in Rows : rows'[s] = IF s = r THEN row ELSE rows[s]  BY <1>4, <1>7 DEF TypeInv
  <2>4. \A q \in Paths : RowsAt(q)' = IF q = p THEN {r} ELSE RowsAt(q)
    BY <1>2, <1>4, <1>6, <2>1, <2>2 DEF RowsAt
  <2>5. \A q \in Paths : objects'[q] = IF q = p THEN c ELSE objects[q]  BY <1>8 DEF TypeInv
  <2>6. \A q \in Paths : (objects[q] # None <=> RowsAt(q) # {})'
    BY <1>2, <2>4, <2>5 DEF Stored
  <2>7. \A s, t \in Rows : Recorded(s)' /\ Recorded(t)' /\ rows'[s].path = rows'[t].path => s = t
    BY <1>2, <1>4, <1>6, <2>1, <2>2 DEF Stored, RowsAt
  <2> QED  BY <2>6, <2>7 DEF Stored
<1> QED  BY <1>9, <1>10

LEMMA PurgeTypes ==
    ASSUME TypeInv, Stored, NEW i \in Items, Purge(i)
    PROVE  TypeInv' /\ Stored'
<1>1. items[i].thumb \in Places \cup {None}  BY ItemFields DEF Purge, Deleted
<1>2. thumbs' \in [Places -> Contents \cup {None}]  BY <1>1 DEF Purge, TypeInv
<1>3. items' \in [Items -> Item \cup {None}]  BY DEF Purge, TypeInv
<1>4. TypeInv'  BY <1>2, <1>3 DEF Purge, TypeInv, Working, Recorded
<1>5. Stored'  BY DEF Purge, Stored, RowsAt, Recorded
<1> QED  BY <1>4, <1>5

LEMMA TickTypes ==
    ASSUME TypeInv, Stored, Tick
    PROVE  TypeInv' /\ Stored'
<1>1. PICK b : /\ job' = [step |-> "read", data |-> None, batch |-> b]
               /\ b \in Seq(Entry) /\ b # <<>> /\ Len(b) <= Limit
  BY TickBatch
<1>2. UNCHANGED <<rows, objects, thumbs, items, write, latest, failures, moves>>  BY TickBatch
<1>3. job' \in Job /\ job'.step = "read" /\ job'.batch = b  BY <1>1 DEF Job
<1>4. TypeInv'  BY <1>1, <1>2, <1>3 DEF TypeInv, Working, Recorded
<1>5. Stored'  BY <1>2 DEF Stored, RowsAt, Recorded
<1> QED  BY <1>4, <1>5

LEMMA SkippedTypes ==
    ASSUME TypeInv, job.step # "rest", job' = Following(job.batch)
    PROVE  /\ job' \in Job /\ Len(job'.batch) <= Limit
           /\ job'.step # "rest" => job'.batch # <<>>
           /\ ~Working'
<1>1. job.batch \in Seq(Entry) /\ job.batch # <<>> /\ Len(job.batch) <= Limit  BY DEF TypeInv, Job
<1> QED  BY <1>1, FollowingJob DEF Working

LEMMA FailsCounted ==
    ASSUME TypeInv, Fails \/ UNCHANGED failures
    PROVE  failures' \in 0..MaxFailures
    BY ThumbnailAssumption DEF Fails, TypeInv

LEMMA ReadTypes ==
    ASSUME TypeInv, Stored, ReadSource
    PROVE  TypeInv' /\ Stored'
<1>1. failures' \in 0..MaxFailures  BY FailsCounted DEF ReadSource
<1>2. /\ job' \in Job /\ Len(job'.batch) <= Limit /\ (job'.step # "rest" => job'.batch # <<>>)
      /\ Working' => job'.data \in Contents
  <2>1. CASE CanRead /\ job' = [job EXCEPT !.step = "write", !.data = objects[Source]]
    <3>1. job \in Job /\ job.batch \in Seq(Entry) /\ job.batch # <<>> /\ Len(job.batch) <= Limit
      BY DEF TypeInv, Job, ReadSource
    <3>2. Source \in Paths  BY <3>1, FirstAndRest DEF Source
    <3>3. objects[Source] \in Contents  BY <2>1, <3>2 DEF CanRead, TypeInv
    <3> QED  BY <2>1, <3>1, <3>3 DEF Job
  <2>2. CASE job' = Skipped(job.batch)
    BY <2>2, SkippedTypes DEF Skipped, ReadSource
  <2> QED  BY <2>1, <2>2 DEF ReadSource
<1>3. UNCHANGED <<rows, objects, thumbs, items, write, latest, moves>>  BY DEF ReadSource
<1>4. TypeInv'  BY <1>1, <1>2, <1>3 DEF TypeInv, Recorded
<1>5. Stored'  BY <1>3 DEF Stored, RowsAt, Recorded
<1> QED  BY <1>4, <1>5

LEMMA WriteTypes ==
    ASSUME TypeInv, Stored, WriteThumb
    PROVE  TypeInv' /\ Stored'
<1>1. failures' \in 0..MaxFailures  BY FailsCounted DEF WriteThumb
<1>2. UNCHANGED <<rows, objects, items, write, latest, moves>>  BY DEF WriteThumb
<1>3. job \in Job /\ job.batch \in Seq(Entry) /\ job.batch # <<>> /\ Len(job.batch) <= Limit /\ job.data \in Contents
  BY DEF TypeInv, Job, WriteThumb, Working
<1>4. /\ job' \in Job /\ Len(job'.batch) <= Limit /\ (job'.step # "rest" => job'.batch # <<>>)
      /\ Working' => job'.data \in Contents
      /\ thumbs' \in [Places -> Contents \cup {None}]
  <2>1. CASE thumbs' = [thumbs EXCEPT ![ThumbOf(Source)] = job.data] /\ job' = [job EXCEPT !.step = "record"]
    <3>1. thumbs' \in [Places -> Contents \cup {None}]  BY <1>3, <2>1 DEF TypeInv
    <3> QED  BY <1>3, <2>1, <3>1 DEF Job
  <2>2. CASE job' = Skipped(job.batch) /\ UNCHANGED thumbs
    BY <2>2, SkippedTypes DEF Skipped, WriteThumb, TypeInv
  <2> QED  BY <2>1, <2>2 DEF WriteThumb
<1>5. TypeInv'  BY <1>1, <1>2, <1>4 DEF TypeInv, Recorded
<1>6. Stored'  BY <1>2 DEF Stored, RowsAt, Recorded
<1> QED  BY <1>5, <1>6

\* What recording the picture leaves of the rows.
LEMMA RowsRecorded ==
    ASSUME TypeInv, job.step = "record",
           rows' = [r \in Rows |-> IF r = Head(job.batch).id /\ Recorded(r)
                                   THEN [rows[r] EXCEPT !.thumb = ThumbOf(Source)] ELSE rows[r]]
    PROVE  /\ rows' \in [Rows -> Row \cup {None}]
           /\ \A r \in Rows : /\ Recorded(r) <=> Recorded(r)'
                              /\ Recorded(r) => rows'[r].path = rows[r].path
           /\ \A r \in Rows : r # Head(job.batch).id \/ ~Recorded(r) => rows'[r] = rows[r]
           /\ \A r \in Rows : r = Head(job.batch).id /\ Recorded(r) => rows'[r].thumb = ThumbOf(Source)
<1>1. job.batch \in Seq(Entry) /\ job.batch # <<>>  BY DEF TypeInv, Job
<1>2. ThumbOf(Source) \in Places  BY <1>1, FirstAndRest, PlaceOf DEF Source
<1>3. \A r \in Rows : Recorded(r) =>
        LET n == [rows[r] EXCEPT !.thumb = ThumbOf(Source)]
        IN  n \in Row /\ n # None /\ n.path = rows[r].path /\ n.thumb = ThumbOf(Source)
  <2> SUFFICES ASSUME NEW r \in Rows, Recorded(r)
               PROVE  LET n == [rows[r] EXCEPT !.thumb = ThumbOf(Source)]
                      IN  n \in Row /\ n # None /\ n.path = rows[r].path /\ n.thumb = ThumbOf(Source)
    OBVIOUS
  <2>1. rows[r] \in Row  BY RowFields
  <2>2. [rows[r] EXCEPT !.thumb = ThumbOf(Source)] \in Row  BY <1>2, <2>1, RowChanged
  <2> QED  BY <1>2, <2>1, <2>2, NoneAssumption DEF Row
<1>4. \A r \in Rows : rows[r] \in Row \cup {None}  BY DEF TypeInv
<1>5. \A r \in Rows : rows'[r] = IF r = Head(job.batch).id /\ Recorded(r)
                                 THEN [rows[r] EXCEPT !.thumb = ThumbOf(Source)] ELSE rows[r]
  OBVIOUS
<1>6. \A r \in Rows : rows'[r] \in Row \cup {None}  BY <1>3, <1>4, <1>5
<1>7. rows' \in [Rows -> Row \cup {None}]  BY <1>6
<1> QED  BY <1>3, <1>5, <1>7 DEF Recorded

LEMMA RecordTypes ==
    ASSUME TypeInv, Stored, RecordThumb
    PROVE  TypeInv' /\ Stored'
<1>1. failures' \in 0..MaxFailures  BY FailsCounted DEF RecordThumb
<1>2. UNCHANGED <<objects, thumbs, items, write, latest, moves>>  BY DEF RecordThumb
<1>3. /\ job' \in Job /\ Len(job'.batch) <= Limit /\ (job'.step # "rest" => job'.batch # <<>>) /\ ~Working'
  BY SkippedTypes DEF RecordThumb
<1>4. /\ rows' \in [Rows -> Row \cup {None}]
      /\ \A r \in Rows : /\ Recorded(r) <=> Recorded(r)'
                         /\ Recorded(r) => rows'[r].path = rows[r].path
  <2>1. CASE rows' = [r \in Rows |-> IF r = Head(job.batch).id /\ Recorded(r)
                                     THEN [rows[r] EXCEPT !.thumb = ThumbOf(Source)] ELSE rows[r]]
    BY <2>1, RowsRecorded DEF RecordThumb
  <2>2. CASE UNCHANGED rows
    BY <2>2 DEF TypeInv, Recorded
  <2> QED  BY <2>1, <2>2 DEF RecordThumb
<1>5. write # None => write.row \in Rows /\ Recorded(write.row)  BY WriteFields
<1>6. TypeInv'  BY <1>1, <1>2, <1>3, <1>4, <1>5 DEF TypeInv
<1>7. Stored'  BY <1>2, <1>4, StillStored
<1> QED  BY <1>6, <1>7

LEMMA TypesStep ==
    ASSUME TypeInv, Stored, [Next]_vars
    PROVE  TypeInv' /\ Stored'
<1>1. ASSUME NEW p \in Paths, NEW c \in Contents, Upload(p, c)
      PROVE  TypeInv' /\ Stored'
  BY <1>1, UploadTypes
<1>2. ASSUME NEW r \in Rows, NEW c \in Contents, NEW status \in {"ready", "pending"}, Replace(r, c, status)
      PROVE  TypeInv' /\ Stored'
  BY <1>2, ReplaceTypes
<1>3. ASSUME NEW r \in Rows, Delete(r)
      PROVE  TypeInv' /\ Stored'
  BY <1>3, DeleteTypes
<1>4. ASSUME NEW r \in Rows, NEW p \in Paths, Move(r, p)
      PROVE  TypeInv' /\ Stored'
  BY <1>4, MoveTypes
<1>5. ASSUME NEW i \in Items, Restore(i)
      PROVE  TypeInv' /\ Stored'
  BY <1>5, RestoreTypes
<1>6. ASSUME NEW i \in Items, Purge(i)
      PROVE  TypeInv' /\ Stored'
  BY <1>6, PurgeTypes
<1>7. CASE PutBytes        BY <1>7, PutTypes
<1>8. CASE Settle          BY <1>8, SettleTypes
<1>9. CASE Tick            BY <1>9, TickTypes
<1>10. CASE ReadSource     BY <1>10, ReadTypes
<1>11. CASE WriteThumb     BY <1>11, WriteTypes
<1>12. CASE RecordThumb    BY <1>12, RecordTypes
<1>13. CASE UNCHANGED vars
  BY <1>13 DEF vars, TypeInv, Working, Recorded, Stored, RowsAt
<1> QED
  BY <1>1, <1>2, <1>3, <1>4, <1>5, <1>6, <1>7, <1>8, <1>9, <1>10, <1>11, <1>12, <1>13
  DEF Next, Users, MakeThumbnails

\* The values of every variable stay what the tables, the store and the job hold,
\* whatever overlaps: a batch never exceeds its limit.
THEOREM TypeCorrect == Spec => []TypeOK
<1>1. Init => TypeInv /\ Stored  BY TypesInit
<1>2. TypeInv /\ Stored /\ [Next]_vars => (TypeInv /\ Stored)'  BY TypesStep
<1>3. TypeInv => TypeOK
  <2> SUFFICES ASSUME TypeInv PROVE TypeOK  OBVIOUS
  <2>1. job \in Job  BY DEF TypeInv
  <2>2. job.step \in {"rest", "read", "write", "record"} /\ job.data \in Contents \cup {None} /\ job.batch \in Seq(Entry)
    BY <2>1 DEF Job
  <2> QED  BY <2>2 DEF TypeInv, TypeOK, Entry
<1> QED  BY <1>1, <1>2, <1>3, PTL DEF Spec

\* A stored object belongs to exactly one row, whatever overlaps.
THEOREM ObjectsBelongToRows == Spec => []Stored
<1>1. Init => TypeInv /\ Stored  BY TypesInit
<1>2. TypeInv /\ Stored /\ [Next]_vars => (TypeInv /\ Stored)'  BY TypesStep
<1> QED  BY <1>1, <1>2, PTL DEF Spec

-----------------------------------------------------------------------------
(* Pictures, when names are not used twice at a time *)

LEMMA BatchEntries ==
    ASSUME TypeInv
    PROVE  /\ job.batch \in Seq(Entry)
           /\ \A n \in DOMAIN job.batch :
                 /\ job.batch[n].id \in Rows /\ job.batch[n].path \in Paths
                 /\ ThumbOf(job.batch[n].path) \in Places /\ ThumbOf(job.batch[n].path) # None
<1>1. job.batch \in Seq(Entry)  BY DEF TypeInv, Job
<1>2. \A n \in DOMAIN job.batch : job.batch[n] \in Entry  BY <1>1
<1>3. \A n \in DOMAIN job.batch : job.batch[n].id \in Rows /\ job.batch[n].path \in Paths
  BY <1>2 DEF Entry
<1> QED  BY <1>1, <1>3, PlaceOf

\* When one row changes and its pictures are no other file's, pictures stay apart.
LEMMA StillOwn ==
    ASSUME OwnPictures, NEW r \in Rows, NEW row,
           \A s \in Rows : rows'[s] = IF s = r THEN row ELSE rows[s],
           \A s \in Rows : Recorded(s) /\ s # r => Names(row) \cap Names(rows[s]) = {},
           \A i \in Items : Deleted(i) => Names(row) \cap Names(items[i]) = {},
           items' = items
    PROVE  OwnPictures'
<1>1. \A s \in Rows : s # r /\ Recorded(s)' => Recorded(s)  BY DEF Recorded
<1>2. \A i \in Items : Deleted(i)' <=> Deleted(i)  BY DEF Deleted
<1>3. \A s, t \in Rows : Recorded(s)' /\ Recorded(t)' /\ s # t => Names(rows'[s]) \cap Names(rows'[t]) = {}
  BY <1>1 DEF OwnPictures
<1>4. \A i, k \in Items : Deleted(i)' /\ Deleted(k)' /\ i # k => Names(items'[i]) \cap Names(items'[k]) = {}
  BY <1>2 DEF OwnPictures
<1>5. \A s \in Rows, i \in Items : Recorded(s)' /\ Deleted(i)' => Names(rows'[s]) \cap Names(items'[i]) = {}
  BY <1>1, <1>2 DEF OwnPictures
<1> QED  BY <1>3, <1>4, <1>5 DEF OwnPictures, Names

\* And the pictures of the batch stay nobody's, if the row that changed has none of them.
LEMMA EntryStillNobodys ==
    ASSUME NEW e \in Entry, Nobodys(e), NEW r \in Rows, NEW row,
           \A s \in Rows : rows'[s] = IF s = r THEN row ELSE rows[s],
           row # None => Recorded(r) \/ e.id # r,
           row # None => /\ row.thumb # ThumbOf(e.path)
                         /\ (r # e.id /\ Recorded(e.id)) => ThumbOf(e.path) \notin Names(row),
           items' = items
    PROVE  Nobodys(e)'
<1>1. \A s \in Rows : s # r /\ Recorded(s)' => Recorded(s)  BY DEF Recorded
<1>2. Recorded(r)' => row # None  BY DEF Recorded
<1>3. \A i \in Items : Deleted(i)' <=> Deleted(i)  BY DEF Deleted
<1>4. e.id \in Rows  BY DEF Entry
<1>5. Recorded(e.id)' => Recorded(e.id)  BY <1>1, <1>2, <1>4
<1>6. \A s \in Rows : Recorded(s)' => rows'[s].thumb # ThumbOf(e.path)  BY <1>1, <1>2 DEF Nobodys
<1>7. \A i \in Items : Deleted(i)' => items'[i].thumb # ThumbOf(e.path)  BY <1>3 DEF Nobodys
<1>8. \A s \in Rows : Recorded(e.id)' /\ Recorded(s)' /\ s # e.id => ThumbOf(e.path) \notin Names(rows'[s])
  BY <1>1, <1>2, <1>5 DEF Nobodys
<1>9. \A i \in Items : Recorded(e.id)' /\ Deleted(i)' => ThumbOf(e.path) \notin Names(items'[i])
  BY <1>3, <1>5 DEF Nobodys
<1> QED  BY <1>6, <1>7, <1>8, <1>9 DEF Nobodys, Names

\* The batch as it is, or with the first file done.
LEMMA BatchGoesOn ==
    ASSUME TypeInv, BatchPictures,
           \A e \in Entry : (\E n \in DOMAIN job.batch : e = job.batch[n]) => Nobodys(e)',
           \/ job'.batch = job.batch
           \/ job.step # "rest" /\ job'.batch = Tail(job.batch)
    PROVE  BatchPictures'
<1>1. job.batch \in Seq(Entry) /\ (job.step # "rest" => job.batch # <<>>)  BY DEF TypeInv, Job
<1>2. PICK b, d : b = job.batch /\ d = job'.batch  OBVIOUS
<1>3. b \in Seq(Entry) /\ \A n \in DOMAIN b : b[n] \in Entry  BY <1>1, <1>2
<1>4. \A m \in DOMAIN d : \E n \in DOMAIN b : d[m] = b[n]
  <2>1. CASE d = b  BY <2>1
  <2>2. CASE b # <<>> /\ d = Tail(b)  BY <1>3, <2>2, FirstAndRest
  <2> QED  BY <1>1, <1>2, <2>1, <2>2
<1>5. \A m, n \in DOMAIN d : m # n => ThumbOf(d[m].path) # ThumbOf(d[n].path)
  <2>1. \A m, n \in DOMAIN b : m # n => ThumbOf(b[m].path) # ThumbOf(b[n].path)
    BY <1>2 DEF BatchPictures
  <2>2. CASE d = b  BY <2>1, <2>2
  <2>3. CASE b # <<>> /\ d = Tail(b)
    <3>1. \A n \in DOMAIN d : n \in Nat /\ n + 1 \in DOMAIN b /\ d[n] = b[n + 1]
      BY <1>3, <2>3, FirstAndRest
    <3> QED  BY <2>1, <3>1
  <2> QED  BY <1>1, <1>2, <2>2, <2>3
<1>6. \A n \in DOMAIN d : \E e \in Entry : e = d[n] /\ Nobodys(e)'
  BY <1>2, <1>3, <1>4
<1>7. (\A n \in DOMAIN job.batch : Nobodys(job.batch[n]))'
  BY <1>2, <1>6 DEF Nobodys
<1> QED  BY <1>2, <1>5, <1>7 DEF BatchPictures

LEMMA StillNobodys ==
    ASSUME TypeInv, BatchPictures, NEW r \in Rows, NEW row,
           \A s \in Rows : rows'[s] = IF s = r THEN row ELSE rows[s],
           \A n \in DOMAIN job.batch :
              row # None => /\ Recorded(r) \/ job.batch[n].id # r
                            /\ row.thumb # ThumbOf(job.batch[n].path)
                            /\ (r # job.batch[n].id /\ Recorded(job.batch[n].id)) =>
                                  ThumbOf(job.batch[n].path) \notin Names(row),
           items' = items, job'.batch = job.batch
    PROVE  BatchPictures'
<1>1. ASSUME NEW e \in Entry, NEW n \in DOMAIN job.batch, e = job.batch[n]
      PROVE  Nobodys(e)'
  <2>1. Nobodys(e)  BY <1>1 DEF BatchPictures
  <2>2. /\ row # None => Recorded(r) \/ e.id # r
        /\ row # None => /\ row.thumb # ThumbOf(e.path)
                         /\ (r # e.id /\ Recorded(e.id)) => ThumbOf(e.path) \notin Names(row)
    BY <1>1
  <2> QED  BY <2>1, <2>2, EntryStillNobodys
<1> QED  BY <1>1, BatchGoesOn

\* The file the job is at.
LEMMA JobAt ==
    ASSUME TypeInv, Working
    PROVE  /\ job.batch \in Seq(Entry) /\ job.batch # <<>> /\ 1 \in DOMAIN job.batch
           /\ Head(job.batch) = job.batch[1] /\ Source = job.batch[1].path
           /\ Head(job.batch).id \in Rows /\ Source \in Paths
           /\ ThumbOf(Source) \in Places /\ ThumbOf(Source) # None
           /\ job.data \in Contents
<1>1. job.batch \in Seq(Entry) /\ job.batch # <<>>  BY DEF TypeInv, Job, Working
<1> QED  BY <1>1, FirstAndRest, PlaceOf DEF Source, TypeInv

\* What the names of a file are.
LEMMA NamesOf ==
    ASSUME NEW f, NEW x
    PROVE  x \in Names(f) <=> x = ThumbOf(f.path) \/ (x = f.thumb /\ x # None)
    BY DEF Names

\* A new name is no file's, and not in the batch.
LEMMA NewNameApart ==
    ASSUME Overlaps = "none", NEW p \in Paths, NewName(p)
    PROVE  /\ \A r \in Rows : Recorded(r) => ThumbOf(p) \notin Names(rows[r])
           /\ \A i \in Items : Deleted(i) => ThumbOf(p) \notin Names(items[i])
           /\ \A n \in DOMAIN job.batch : ThumbOf(job.batch[n].path) # ThumbOf(p)
    BY DEF NewName, Deleted, Names

LEMMA PicturesInit ==
    ASSUME Init
    PROVE  PictureInv
<1>1. Stored  BY TypesInit
<1>2. \A r \in Rows : ~Recorded(r)  BY DEF Init, Recorded
<1>3. \A i \in Items : ~Deleted(i)  BY DEF Init, Deleted
<1>4. job.step = "rest" /\ job.batch = <<>>  BY DEF Init, Resting
<1>5. DOMAIN job.batch = {}  BY <1>4
<1>6. OwnPictures /\ ThumbShowsFile  BY <1>2, <1>3 DEF OwnPictures, ThumbShowsFile
<1>7. BatchPictures  BY <1>5 DEF BatchPictures
<1>8. JobReads  BY <1>4 DEF JobReads, Working
<1> QED  BY <1>1, <1>6, <1>7, <1>8 DEF PictureInv

LEMMA UploadPictures ==
    ASSUME Overlaps = "none", TypeInv, PictureInv, NEW p \in Paths, NEW c \in Contents, Upload(p, c)
    PROVE  OwnPictures' /\ BatchPictures' /\ JobReads' /\ ThumbShowsFile'
<1>1. PICK r \in FreshRows : rows' = [rows EXCEPT ![r] = [path |-> p, status |-> "ready", thumb |-> None]]
  BY DEF Upload
<1>2. r \in Rows /\ ~Recorded(r) /\ \A n \in DOMAIN job.batch : job.batch[n].id # r  BY DEF FreshRows
<1>3. PICK row : row = [path |-> p, status |-> "ready", thumb |-> None]  OBVIOUS
<1>4. row.path = p /\ row.thumb = None /\ row # None  BY <1>3, NoneAssumption, RowMade
<1>5. \A s \in Rows : rows'[s] = IF s = r THEN row ELSE rows[s]  BY <1>1, <1>2, <1>3 DEF TypeInv
<1>6. \A x : x \in Names(row) <=> x = ThumbOf(p)  BY <1>4 DEF Names
<1>7. UNCHANGED <<items, job, thumbs>> /\ write = None /\ write' = None /\ NewName(p) /\ RowsAt(p) = {}
  BY DEF Upload
<1>8. OwnPictures'
  <2>1. \A s \in Rows : Recorded(s) /\ s # r => Names(row) \cap Names(rows[s]) = {}
    BY <1>6, <1>7, NewNameApart
  <2>2. \A i \in Items : Deleted(i) => Names(row) \cap Names(items[i]) = {}
    BY <1>6, <1>7, NewNameApart
  <2> QED  BY <1>2, <1>5, <1>7, <2>1, <2>2, StillOwn DEF PictureInv
<1>9. BatchPictures'
  <2>1. \A n \in DOMAIN job.batch :
           /\ job.batch[n].id # r
           /\ row.thumb # ThumbOf(job.batch[n].path)
           /\ ThumbOf(job.batch[n].path) \notin Names(row)
    BY <1>2, <1>4, <1>6, <1>7, BatchEntries, NewNameApart
  <2> QED  BY <1>2, <1>5, <1>7, <2>1, StillNobodys DEF PictureInv
<1>10. \A s \in Rows : s # r /\ Recorded(s)' =>
           Recorded(s) /\ rows'[s] = rows[s] /\ objects'[rows[s].path] = objects[rows[s].path]
  <2>1. \A s \in Rows : Recorded(s) => rows[s].path # p /\ rows[s].path \in Paths
    BY <1>7, RowFields DEF RowsAt
  <2>2. objects' = [objects EXCEPT ![p] = c]  BY DEF Upload
  <2> QED  BY <1>5, <2>1, <2>2 DEF TypeInv, Recorded
<1>11. JobReads'
  <2>1. ASSUME Working PROVE Head(job.batch).id \in Rows /\ Head(job.batch).id # r
    BY <1>2, <2>1, JobAt
  <2> QED  BY <1>7, <1>10, <2>1 DEF PictureInv, JobReads, Working, Recorded, Replaced, Source
<1>12. ThumbShowsFile'
  <2>1. \A s \in Rows : Recorded(s)' /\ rows'[s].thumb # None => s # r  BY <1>4, <1>5
  <2> QED  BY <1>7, <1>10, <2>1 DEF PictureInv, ThumbShowsFile, Recorded
<1> QED  BY <1>8, <1>9, <1>11, <1>12

LEMMA ReplacePictures ==
    ASSUME Overlaps = "none", TypeInv, PictureInv, NEW r \in Rows, NEW c \in Contents,
           NEW status \in {"ready", "pending"}, Replace(r, c, status)
    PROVE  OwnPictures' /\ BatchPictures' /\ JobReads' /\ ThumbShowsFile'
<1>1. rows' = [rows EXCEPT ![r].status = status] /\ Recorded(r)  BY DEF Replace
<1>2. rows[r] \in Row  BY <1>1, RowFields
<1>3. PICK row : row = [rows[r] EXCEPT !.status = status]  OBVIOUS
<1>4. row # None /\ row.path = rows[r].path /\ row.thumb = rows[r].thumb
  BY <1>2, <1>3, RowChanged, NoneAssumption DEF Row
<1>5. \A s \in Rows : rows'[s] = IF s = r THEN row ELSE rows[s]  BY <1>1, <1>3 DEF TypeInv
<1>6. Names(row) = Names(rows[r])  BY <1>4 DEF Names
<1>7. UNCHANGED <<items, job, thumbs, objects>> /\ write = None  BY DEF Replace
<1>8. OwnPictures'
  <2>1. \A s \in Rows : Recorded(s) /\ s # r => Names(row) \cap Names(rows[s]) = {}
    BY <1>1, <1>6 DEF PictureInv, OwnPictures
  <2>2. \A i \in Items : Deleted(i) => Names(row) \cap Names(items[i]) = {}
    BY <1>1, <1>6 DEF PictureInv, OwnPictures
  <2> QED  BY <1>5, <1>7, <2>1, <2>2, StillOwn DEF PictureInv
<1>9. BatchPictures'
  <2>1. \A n \in DOMAIN job.batch :
           /\ row.thumb # ThumbOf(job.batch[n].path)
           /\ (r # job.batch[n].id /\ Recorded(job.batch[n].id)) => ThumbOf(job.batch[n].path) \notin Names(row)
    BY <1>1, <1>4, <1>6 DEF PictureInv, BatchPictures, Nobodys
  <2> QED  BY <1>1, <1>5, <1>7, <2>1, StillNobodys DEF PictureInv
<1>10. \A s \in Rows : Recorded(s)' =>
           Recorded(s) /\ rows'[s].path = rows[s].path /\ rows'[s].thumb = rows[s].thumb
  BY <1>1, <1>4, <1>5 DEF Recorded
<1>11. JobReads'
  <2>1. Working => Head(job.batch).id \in Rows  BY JobAt
  <2> QED  BY <1>7, <1>10, <2>1 DEF PictureInv, JobReads, Working, Recorded, Replaced, Source
<1>12. ThumbShowsFile'  BY <1>7, <1>10 DEF PictureInv, ThumbShowsFile, Recorded
<1> QED  BY <1>8, <1>9, <1>11, <1>12

LEMMA PutPictures ==
    ASSUME Overlaps = "none", TypeInv, PictureInv, PutBytes
    PROVE  OwnPictures' /\ BatchPictures' /\ JobReads' /\ ThumbShowsFile'
<1>1. UNCHANGED <<rows, items, job, thumbs>>  BY DEF PutBytes
<1>2. OwnPictures'  BY <1>1 DEF PictureInv, OwnPictures, Recorded, Deleted
<1>3. BatchPictures'  BY <1>1 DEF PictureInv, BatchPictures, Nobodys, Recorded, Deleted
<1>4. write # None /\ write.row \in Rows /\ Recorded(write.row) /\ rows[write.row].path \in Paths
  BY WriteFields, RowFields DEF PutBytes
<1>5. write' # None /\ write'.row = write.row
  BY WriteFields, NoneAssumption DEF PutBytes, Writing
<1>6. objects' = [objects EXCEPT ![rows[write.row].path] = write.content]  BY DEF PutBytes
<1>7. \A s \in Rows : Recorded(s) /\ s # write.row => objects'[rows[s].path] = objects[rows[s].path]
  <2>1. \A s \in Rows : Recorded(s) /\ s # write.row => rows[s].path # rows[write.row].path
    BY <1>4 DEF PictureInv, Stored
  <2> QED  BY <1>6, <2>1, RowFields DEF TypeInv
<1>8. JobReads'
  <2>1. Working => Head(job.batch).id \in Rows  BY JobAt
  <2> QED  BY <1>1, <1>4, <1>5, <1>7, <2>1 DEF PictureInv, JobReads, Working, Recorded, Replaced, Source
<1>9. ThumbShowsFile'  BY <1>1, <1>4, <1>5, <1>7 DEF PictureInv, ThumbShowsFile, Recorded
<1> QED  BY <1>2, <1>3, <1>8, <1>9

LEMMA SettlePictures ==
    ASSUME Overlaps = "none", TypeInv, PictureInv, Settle
    PROVE  OwnPictures' /\ BatchPictures' /\ JobReads' /\ ThumbShowsFile'
<1>1. PICK r : r = write.row  OBVIOUS
<1>2. write # None /\ r \in Rows /\ Recorded(r) /\ rows[r] \in Row /\ write' = None
  BY <1>1, WriteFields, RowFields DEF Settle
<1>3. PICK row : row = Updated(rows[r])  OBVIOUS
<1>4. \A s \in Rows : rows'[s] = IF s = r THEN row ELSE rows[s]
  BY <1>1, <1>2, <1>3 DEF Settle, TypeInv
<1>5. row # None /\ row.path = rows[r].path /\ row.thumb = None
  <2>1. row = [rows[r] EXCEPT !.status = "ready", !.thumb = None]  BY <1>3 DEF Updated
  <2>2. row \in Row  BY <1>2, <1>3, RowChanged
  <2> QED  BY <1>2, <2>1, <2>2, NoneAssumption DEF Row
<1>6. \A x \in Names(row) : x \in Names(rows[r])  BY <1>5 DEF Names
<1>7. UNCHANGED <<items, job, thumbs, objects>>  BY DEF Settle
<1>8. OwnPictures'
  <2>1. \A s \in Rows : Recorded(s) /\ s # r => Names(row) \cap Names(rows[s]) = {}
    BY <1>2, <1>6 DEF PictureInv, OwnPictures
  <2>2. \A i \in Items : Deleted(i) => Names(row) \cap Names(items[i]) = {}
    BY <1>2, <1>6 DEF PictureInv, OwnPictures
  <2> QED  BY <1>2, <1>4, <1>7, <2>1, <2>2, StillOwn DEF PictureInv
<1>9. BatchPictures'
  <2>1. \A n \in DOMAIN job.batch :
           /\ row.thumb # ThumbOf(job.batch[n].path)
           /\ (r # job.batch[n].id /\ Recorded(job.batch[n].id)) => ThumbOf(job.batch[n].path) \notin Names(row)
    BY <1>2, <1>5, <1>6, BatchEntries DEF PictureInv, BatchPictures, Nobodys
  <2> QED  BY <1>2, <1>4, <1>7, <2>1, StillNobodys DEF PictureInv
<1>10. JobReads'
  <2>1. ASSUME Working PROVE Head(job.batch).id \in Rows /\ Head(job.batch).id # r
    BY <1>1, <2>1, JobAt DEF Settle, Apart
  <2>2. \A s \in Rows : s # r => rows'[s] = rows[s] /\ ~Replaced(s)  BY <1>1, <1>4 DEF Replaced
  <2> QED  BY <1>7, <2>1, <2>2 DEF PictureInv, JobReads, Working, Recorded, Source
<1>11. ThumbShowsFile'
  <2>1. \A s \in Rows : s # r => rows'[s] = rows[s] /\ write.row # s  BY <1>1, <1>4
  <2>2. rows'[r].thumb = None  BY <1>2, <1>4, <1>5
  <2> QED  BY <1>7, <2>1, <2>2 DEF PictureInv, ThumbShowsFile, Recorded
<1> QED  BY <1>8, <1>9, <1>10, <1>11

LEMMA MovePictures ==
    ASSUME Overlaps = "none", TypeInv, PictureInv, NEW r \in Rows, NEW p \in Paths, Move(r, p)
    PROVE  OwnPictures' /\ BatchPictures' /\ JobReads' /\ ThumbShowsFile'
<1>1. /\ Recorded(r) /\ rows' = [rows EXCEPT ![r].path = p] /\ RowsAt(p) = {} /\ NewName(p)
      /\ write = None /\ UNCHANGED <<thumbs, items, write, job>>
  BY DEF Move
<1>2. rows[r] \in Row /\ rows[r].path \in Paths  BY <1>1, RowFields
<1>3. PICK row : row = [rows[r] EXCEPT !.path = p]  OBVIOUS
<1>4. row # None /\ row.path = p /\ row.thumb = rows[r].thumb
  BY <1>2, <1>3, RowChanged, NoneAssumption DEF Row
<1>5. \A s \in Rows : rows'[s] = IF s = r THEN row ELSE rows[s]  BY <1>1, <1>3 DEF TypeInv
<1>6. \A x \in Names(row) : x = ThumbOf(p) \/ x \in Names(rows[r])  BY <1>4 DEF Names
<1>7. OwnPictures'
  <2>1. \A s \in Rows : Recorded(s) /\ s # r => Names(row) \cap Names(rows[s]) = {}
    BY <1>1, <1>6, NewNameApart DEF PictureInv, OwnPictures
  <2>2. \A i \in Items : Deleted(i) => Names(row) \cap Names(items[i]) = {}
    BY <1>1, <1>6, NewNameApart DEF PictureInv, OwnPictures
  <2> QED  BY <1>1, <1>5, <2>1, <2>2, StillOwn DEF PictureInv
<1>8. BatchPictures'
  <2>1. \A n \in DOMAIN job.batch :
           /\ row.thumb # ThumbOf(job.batch[n].path)
           /\ (r # job.batch[n].id /\ Recorded(job.batch[n].id)) => ThumbOf(job.batch[n].path) \notin Names(rows[r])
    BY <1>1, <1>4 DEF PictureInv, BatchPictures, Nobodys
  <2>2. \A n \in DOMAIN job.batch : ThumbOf(job.batch[n].path) # ThumbOf(p)  BY <1>1, NewNameApart
  <2> QED  BY <1>1, <1>5, <1>6, <2>1, <2>2, StillNobodys DEF PictureInv
<1>9. PICK old : old = rows[r].path  OBVIOUS
<1>10. old # p /\ old \in Paths  BY <1>1, <1>2, <1>9 DEF RowsAt
<1>11. objects' = [objects EXCEPT ![p] = objects[old], ![old] = None]  BY <1>9 DEF Move
<1>12. \A s \in Rows : Recorded(s)' =>
           /\ Recorded(s) /\ rows'[s].thumb = rows[s].thumb
           /\ objects'[rows'[s].path] = objects[rows[s].path]
  <2> SUFFICES ASSUME NEW s \in Rows, Recorded(s)'
               PROVE  /\ Recorded(s) /\ rows'[s].thumb = rows[s].thumb
                      /\ objects'[rows'[s].path] = objects[rows[s].path]
    OBVIOUS
  <2>1. CASE s = r
    BY <1>1, <1>4, <1>5, <1>9, <1>10, <1>11, <2>1 DEF TypeInv
  <2>2. CASE s # r
    <3>1. Recorded(s) /\ rows'[s] = rows[s]  BY <1>5, <2>2 DEF Recorded
    <3>2. rows[s].path \in Paths /\ rows[s].path # p /\ rows[s].path # old
      BY <1>1, <1>9, <2>2, <3>1, RowFields DEF RowsAt, PictureInv, Stored
    <3> QED  BY <1>10, <1>11, <3>1, <3>2 DEF TypeInv
  <2> QED  BY <2>1, <2>2
<1>13. JobReads'
  <2>1. Working => Head(job.batch).id \in Rows  BY JobAt
  <2> QED  BY <1>1, <1>12, <2>1 DEF PictureInv, JobReads, Working, Recorded, Replaced, Source
<1>14. ThumbShowsFile'  BY <1>1, <1>12 DEF PictureInv, ThumbShowsFile, Recorded
<1> QED  BY <1>7, <1>8, <1>13, <1>14

LEMMA DeletePictures ==
    ASSUME Overlaps = "none", TypeInv, PictureInv, NEW r \in Rows, Delete(r)
    PROVE  OwnPictures' /\ BatchPictures' /\ JobReads' /\ ThumbShowsFile'
<1>1. /\ Recorded(r) /\ rows' = [rows EXCEPT ![r] = None] /\ write = None
      /\ UNCHANGED <<thumbs, write, job>>
  BY DEF Delete
<1>2. PICK i \in Items :
         /\ items[i] = None
         /\ items' = [items EXCEPT ![i] = [path |-> rows[r].path, thumb |-> rows[r].thumb,
                                           content |-> objects[rows[r].path]]]
  BY DEF Delete
<1>3. PICK item : item = [path |-> rows[r].path, thumb |-> rows[r].thumb, content |-> objects[rows[r].path]]
  OBVIOUS
<1>4. item.path = rows[r].path /\ item.thumb = rows[r].thumb /\ Names(item) = Names(rows[r])
  BY <1>3 DEF Names
<1>5. \A k \in Items : items'[k] = IF k = i THEN item ELSE items[k]  BY <1>2, <1>3 DEF TypeInv
<1>6. \A s \in Rows : rows'[s] = IF s = r THEN None ELSE rows[s]  BY <1>1 DEF TypeInv
<1>7. \A s \in Rows : Recorded(s)' => s # r /\ Recorded(s) /\ rows'[s] = rows[s]  BY <1>6 DEF Recorded
<1>8. \A k \in Items : Deleted(k)' /\ k # i => Deleted(k) /\ items'[k] = items[k]  BY <1>5 DEF Deleted
<1>9. OwnPictures'
  <2>1. \A s, t \in Rows : Recorded(s)' /\ Recorded(t)' /\ s # t => Names(rows'[s]) \cap Names(rows'[t]) = {}
    BY <1>7 DEF PictureInv, OwnPictures
  <2>2. \A k, l \in Items : Deleted(k)' /\ Deleted(l)' /\ k # l => Names(items'[k]) \cap Names(items'[l]) = {}
    BY <1>1, <1>4, <1>5, <1>8 DEF PictureInv, OwnPictures
  <2>3. \A s \in Rows, k \in Items : Recorded(s)' /\ Deleted(k)' => Names(rows'[s]) \cap Names(items'[k]) = {}
    BY <1>1, <1>4, <1>5, <1>7, <1>8 DEF PictureInv, OwnPictures
  <2> QED  BY <2>1, <2>2, <2>3 DEF OwnPictures, Names
<1>10. BatchPictures'
  <2>1. ASSUME NEW e \in Entry, Nobodys(e)
        PROVE  Nobodys(e)'
    <3>1. \A s \in Rows : Recorded(s)' => rows'[s].thumb # ThumbOf(e.path)  BY <1>7, <2>1 DEF Nobodys
    <3>2. \A k \in Items : Deleted(k)' => items'[k].thumb # ThumbOf(e.path)
      BY <1>1, <1>4, <1>5, <1>8, <2>1 DEF Nobodys
    <3>3. e.id \in Rows  BY DEF Entry
    <3>4. Recorded(e.id)' => Recorded(e.id) /\ e.id # r  BY <1>7, <3>3
    <3>5. \A s \in Rows : Recorded(e.id)' /\ Recorded(s)' /\ s # e.id => ThumbOf(e.path) \notin Names(rows'[s])
      BY <1>7, <2>1, <3>4 DEF Nobodys
    <3>6. \A k \in Items : Recorded(e.id)' /\ Deleted(k)' => ThumbOf(e.path) \notin Names(items'[k])
      BY <1>1, <1>4, <1>5, <1>8, <2>1, <3>4 DEF Nobodys
    <3> QED  BY <3>1, <3>2, <3>5, <3>6 DEF Nobodys, Names
  <2>2. \A e \in Entry : (\E n \in DOMAIN job.batch : e = job.batch[n]) => Nobodys(e)'
    BY <2>1 DEF PictureInv, BatchPictures
  <2> QED  BY <1>1, <2>2, BatchGoesOn DEF PictureInv
<1>11. \A s \in Rows : Recorded(s)' => objects'[rows[s].path] = objects[rows[s].path]
  <2>1. \A s \in Rows : Recorded(s)' => rows[s].path # rows[r].path /\ rows[s].path \in Paths
    BY <1>1, <1>7, RowFields DEF PictureInv, Stored
  <2>2. objects' = [objects EXCEPT ![rows[r].path] = None]  BY DEF Delete
  <2>3. rows[r].path \in Paths  BY <1>1, RowFields
  <2> QED  BY <2>1, <2>2, <2>3 DEF TypeInv
<1>12. JobReads'
  <2>1. Working => Head(job.batch).id \in Rows  BY JobAt
  <2> QED  BY <1>1, <1>7, <1>11, <2>1 DEF PictureInv, JobReads, Working, Recorded, Replaced, Source
<1>13. ThumbShowsFile'  BY <1>1, <1>7, <1>11 DEF PictureInv, ThumbShowsFile, Recorded
<1> QED  BY <1>9, <1>10, <1>12, <1>13

LEMMA RestorePictures ==
    ASSUME Overlaps = "none", TypeInv, PictureInv, NEW i \in Items, Restore(i)
    PROVE  OwnPictures' /\ BatchPictures' /\ JobReads' /\ ThumbShowsFile'
<1>1. PICK p, c : p = items[i].path /\ c = items[i].content  OBVIOUS
<1>2. /\ p \in Paths /\ RowsAt(p) = {} /\ write = None /\ Deleted(i)
      /\ UNCHANGED <<thumbs, write, job>>
  BY <1>1, ItemFields DEF Restore, Deleted
<1>3. PICK r \in FreshRows : rows' = [rows EXCEPT ![r] = [path |-> p, status |-> "ready", thumb |-> None]]
  BY <1>1 DEF Restore
<1>4. r \in Rows /\ ~Recorded(r) /\ \A n \in DOMAIN job.batch : job.batch[n].id # r  BY DEF FreshRows
<1>5. PICK row : row = [path |-> p, status |-> "ready", thumb |-> None]  OBVIOUS
<1>6. row.path = p /\ row.thumb = None /\ row # None  BY <1>2, <1>5, RowMade
<1>7. \A s \in Rows : rows'[s] = IF s = r THEN row ELSE rows[s]  BY <1>3, <1>4, <1>5 DEF TypeInv
<1>8. \A x \in Names(row) : x \in Names(items[i])  BY <1>1, <1>6 DEF Names
<1>9. \A k \in Items : items'[k] = IF k = i THEN None ELSE items[k]  BY DEF Restore, TypeInv
<1>10. \A k \in Items : Deleted(k)' => k # i /\ Deleted(k) /\ items'[k] = items[k]  BY <1>9 DEF Deleted
<1>11. \A s \in Rows : Recorded(s)' /\ s # r => Recorded(s) /\ rows'[s] = rows[s]  BY <1>7 DEF Recorded
<1>12. OwnPictures'
  <2>1. \A s, t \in Rows : Recorded(s)' /\ Recorded(t)' /\ s # t => Names(rows'[s]) \cap Names(rows'[t]) = {}
    BY <1>2, <1>7, <1>8, <1>11 DEF PictureInv, OwnPictures
  <2>2. \A k, l \in Items : Deleted(k)' /\ Deleted(l)' /\ k # l => Names(items'[k]) \cap Names(items'[l]) = {}
    BY <1>10 DEF PictureInv, OwnPictures
  <2>3. \A s \in Rows, k \in Items : Recorded(s)' /\ Deleted(k)' => Names(rows'[s]) \cap Names(items'[k]) = {}
    BY <1>2, <1>7, <1>8, <1>10, <1>11 DEF PictureInv, OwnPictures
  <2> QED  BY <2>1, <2>2, <2>3 DEF OwnPictures, Names
<1>13. BatchPictures'
  <2>1. ASSUME NEW e \in Entry, Nobodys(e), e.id # r
        PROVE  Nobodys(e)'
    <3>1. \A s \in Rows : Recorded(s)' => rows'[s].thumb # ThumbOf(e.path)
      <4>1. ThumbOf(e.path) # None  BY PlaceOf DEF Entry
      <4> QED  BY <1>6, <1>7, <1>11, <2>1, <4>1 DEF Nobodys
    <3>2. \A k \in Items : Deleted(k)' => items'[k].thumb # ThumbOf(e.path)  BY <1>10, <2>1 DEF Nobodys
    <3>3. e.id \in Rows  BY DEF Entry
    <3>4. Recorded(e.id)' => Recorded(e.id)  BY <1>11, <2>1, <3>3
    <3>5. \A s \in Rows : Recorded(e.id)' /\ Recorded(s)' /\ s # e.id => ThumbOf(e.path) \notin Names(rows'[s])
      BY <1>2, <1>7, <1>8, <1>11, <2>1, <3>4 DEF Nobodys
    <3>6. \A k \in Items : Recorded(e.id)' /\ Deleted(k)' => ThumbOf(e.path) \notin Names(items'[k])
      BY <1>10, <2>1, <3>4 DEF Nobodys
    <3> QED  BY <3>1, <3>2, <3>5, <3>6 DEF Nobodys, Names
  <2>2. \A e \in Entry : (\E n \in DOMAIN job.batch : e = job.batch[n]) => Nobodys(e)'
    BY <1>4, <2>1 DEF PictureInv, BatchPictures
  <2> QED  BY <1>2, <2>2, BatchGoesOn DEF PictureInv
<1>14. \A s \in Rows : Recorded(s)' /\ s # r => objects'[rows[s].path] = objects[rows[s].path]
  <2>1. \A s \in Rows : Recorded(s) => rows[s].path # p /\ rows[s].path \in Paths
    BY <1>2, RowFields DEF RowsAt
  <2>2. objects' = [objects EXCEPT ![p] = c]  BY <1>1 DEF Restore
  <2> QED  BY <1>11, <2>1, <2>2 DEF TypeInv
<1>15. JobReads'
  <2>1. ASSUME Working PROVE Head(job.batch).id \in Rows /\ Head(job.batch).id # r
    BY <1>4, <2>1, JobAt
  <2> QED  BY <1>2, <1>11, <1>14, <2>1 DEF PictureInv, JobReads, Working, Recorded, Replaced, Source
<1>16. ThumbShowsFile'
  <2>1. \A s \in Rows : Recorded(s)' /\ rows'[s].thumb # None => s # r  BY <1>6, <1>7
  <2> QED  BY <1>2, <1>11, <1>14, <2>1 DEF PictureInv, ThumbShowsFile, Recorded
<1> QED  BY <1>12, <1>13, <1>15, <1>16

LEMMA PurgePictures ==
    ASSUME Overlaps = "none", TypeInv, PictureInv, NEW i \in Items, Purge(i)
    PROVE  OwnPictures' /\ BatchPictures' /\ JobReads' /\ ThumbShowsFile'
<1>1. Deleted(i) /\ UNCHANGED <<rows, objects, write, job>>  BY DEF Purge, Deleted
<1>2. \A k \in Items : items'[k] = IF k = i THEN None ELSE items[k]  BY DEF Purge, TypeInv
<1>3. \A k \in Items : Deleted(k)' => Deleted(k) /\ items'[k] = items[k]  BY <1>2 DEF Deleted
<1>4. OwnPictures'
  <2>1. \A k, l \in Items : Deleted(k)' /\ Deleted(l)' /\ k # l => Names(items'[k]) \cap Names(items'[l]) = {}
    BY <1>3 DEF PictureInv, OwnPictures
  <2>2. \A s \in Rows, k \in Items : Recorded(s) /\ Deleted(k)' => Names(rows[s]) \cap Names(items'[k]) = {}
    BY <1>3 DEF PictureInv, OwnPictures
  <2> QED  BY <1>1, <2>1, <2>2 DEF PictureInv, OwnPictures, Recorded, Names
<1>5. BatchPictures'
  <2>1. ASSUME NEW e \in Entry, Nobodys(e)
        PROVE  Nobodys(e)'
    BY <1>1, <1>3, <2>1 DEF Nobodys, Recorded, Names
  <2>2. \A e \in Entry : (\E n \in DOMAIN job.batch : e = job.batch[n]) => Nobodys(e)'
    BY <2>1 DEF PictureInv, BatchPictures
  <2> QED  BY <1>1, <2>2, BatchGoesOn DEF PictureInv
<1>6. \A t \in Places : t # items[i].thumb => thumbs'[t] = thumbs[t]
  BY DEF Purge, TypeInv
<1>7. JobReads'
  <2>1. ASSUME job.step = "record" PROVE thumbs'[ThumbOf(Source)] = job.data
    <3>1. Working  BY <2>1 DEF Working
    <3>2. items[i].thumb # ThumbOf(Source)
      BY <1>1, <3>1, JobAt DEF PictureInv, BatchPictures, Nobodys
    <3> QED  BY <1>6, <2>1, <3>1, <3>2, JobAt DEF PictureInv, JobReads
  <2> QED  BY <1>1, <2>1 DEF PictureInv, JobReads, Working, Recorded, Replaced, Source
<1>8. ThumbShowsFile'
  <2>1. \A r \in Rows : Recorded(r) /\ rows[r].thumb # None => thumbs'[rows[r].thumb] = thumbs[rows[r].thumb]
    <3> SUFFICES ASSUME NEW r \in Rows, Recorded(r), rows[r].thumb # None
                 PROVE  thumbs'[rows[r].thumb] = thumbs[rows[r].thumb]
      OBVIOUS
    <3>1. rows[r].thumb \in Places  BY RowFields
    <3>2. rows[r].thumb \in Names(rows[r])  BY DEF Names
    <3>3. rows[r].thumb \notin Names(items[i])  BY <1>1, <3>2 DEF PictureInv, OwnPictures
    <3>4. rows[r].thumb # items[i].thumb  BY <3>3 DEF Names
    <3> QED  BY <1>6, <3>1, <3>4
  <2> QED  BY <1>1, <2>1 DEF PictureInv, ThumbShowsFile, Recorded
<1> QED  BY <1>4, <1>5, <1>7, <1>8

LEMMA TickPictures ==
    ASSUME Overlaps = "none", TypeInv, PictureInv, Tick
    PROVE  OwnPictures' /\ BatchPictures' /\ JobReads' /\ ThumbShowsFile'
<1>1. PICK batch \in SUBSET Rows : \E b :
         /\ \A r \in batch : NeedsThumb(r)
         /\ job' = [step |-> "read", data |-> None, batch |-> b]
         /\ b \in Seq(Entry) /\ b # <<>> /\ Len(b) <= Limit
         /\ \A n \in DOMAIN b : b[n].id \in batch /\ b[n].path = rows[b[n].id].path
         /\ \A m, n \in DOMAIN b : b[m].id = b[n].id => m = n
  BY TickBatch
<1>2. PICK b :
         /\ \A r \in batch : NeedsThumb(r)
         /\ job' = [step |-> "read", data |-> None, batch |-> b]
         /\ b \in Seq(Entry) /\ b # <<>> /\ Len(b) <= Limit
         /\ \A n \in DOMAIN b : b[n].id \in batch /\ b[n].path = rows[b[n].id].path
         /\ \A m, n \in DOMAIN b : b[m].id = b[n].id => m = n
  BY <1>1
<1>3. UNCHANGED <<rows, objects, thumbs, items, write>>  BY TickBatch
<1>4. job'.step = "read" /\ job'.batch = b  BY <1>2
<1>5. \A r \in batch : r \in Rows /\ Recorded(r) /\ rows[r].thumb = None /\ ThumbOf(rows[r].path) # None
                       /\ ThumbOf(rows[r].path) \in Names(rows[r])
  <2> SUFFICES ASSUME NEW r \in batch
               PROVE  r \in Rows /\ Recorded(r) /\ rows[r].thumb = None /\ ThumbOf(rows[r].path) # None
                      /\ ThumbOf(rows[r].path) \in Names(rows[r])
    OBVIOUS
  <2>1. r \in Rows /\ Recorded(r) /\ rows[r].thumb = None  BY <1>2 DEF NeedsThumb
  <2>2. rows[r].path \in Paths  BY <2>1, RowFields
  <2> QED  BY <2>1, <2>2, PlaceOf DEF Names
<1>6. OwnPictures'  BY <1>3 DEF PictureInv, OwnPictures, Recorded, Deleted
<1>7. BatchPictures'
  <2>1. \A m, n \in DOMAIN b : m # n => ThumbOf(b[m].path) # ThumbOf(b[n].path)
    <3> SUFFICES ASSUME NEW m \in DOMAIN b, NEW n \in DOMAIN b, m # n
                 PROVE  ThumbOf(b[m].path) # ThumbOf(b[n].path)
      OBVIOUS
    <3>1. PICK r, s : r = b[m].id /\ s = b[n].id  OBVIOUS
    <3>2. r \in batch /\ s \in batch /\ r # s /\ b[m].path = rows[r].path /\ b[n].path = rows[s].path
      BY <1>2, <3>1
    <3>3. Names(rows[r]) \cap Names(rows[s]) = {}  BY <1>5, <3>2 DEF PictureInv, OwnPictures
    <3> QED  BY <1>5, <3>2, <3>3
  <2>2. ASSUME NEW e \in Entry, e.id \in batch, e.path = rows[e.id].path
        PROVE  Nobodys(e)
    <3>1. PICK r : r = e.id  OBVIOUS
    <3>2. r \in batch /\ r \in Rows /\ Recorded(r) /\ rows[r].thumb = None /\ ThumbOf(e.path) # None
          /\ ThumbOf(e.path) \in Names(rows[r])
      BY <1>5, <2>2, <3>1
    <3>3. \A s \in Rows : Recorded(s) /\ s # r => ThumbOf(e.path) \notin Names(rows[s])
      BY <3>2 DEF PictureInv, OwnPictures
    <3>4. \A i \in Items : Deleted(i) => ThumbOf(e.path) \notin Names(items[i])
      BY <3>2 DEF PictureInv, OwnPictures
    <3>5. \A s \in Rows : Recorded(s) => rows[s].thumb # ThumbOf(e.path)  BY <3>2, <3>3 DEF Names
    <3>6. \A i \in Items : Deleted(i) => items[i].thumb # ThumbOf(e.path)  BY <3>2, <3>4 DEF Names
    <3> QED  BY <3>1, <3>3, <3>4, <3>5, <3>6 DEF Nobodys
  <2>3. \A n \in DOMAIN b : b[n] \in Entry  BY <1>2
  <2>4. \A n \in DOMAIN b : Nobodys(b[n])  BY <1>2, <2>2, <2>3
  <2> QED  BY <1>3, <1>4, <2>1, <2>4 DEF BatchPictures, Nobodys, Recorded, Deleted
<1>8. JobReads'  BY <1>4 DEF JobReads, Working
<1>9. ThumbShowsFile'  BY <1>3 DEF PictureInv, ThumbShowsFile, Recorded
<1> QED  BY <1>6, <1>7, <1>8, <1>9

\* What going on to the next file leaves: nothing that was not there.
LEMMA SkippedPictures ==
    ASSUME TypeInv, PictureInv, job.step # "rest", job' = Following(job.batch),
           UNCHANGED <<rows, items, write, objects, thumbs>>
    PROVE  OwnPictures' /\ BatchPictures' /\ JobReads' /\ ThumbShowsFile'
<1>1. job.batch \in Seq(Entry) /\ job.batch # <<>> /\ Len(job.batch) <= Limit  BY DEF TypeInv, Job
<1>2. job'.batch = Tail(job.batch) /\ job'.step \in {"rest", "read"}  BY <1>1, FollowingJob
<1>3. OwnPictures'  BY DEF PictureInv, OwnPictures, Recorded, Deleted
<1>4. BatchPictures'
  <2>1. \A e \in Entry : (\E n \in DOMAIN job.batch : e = job.batch[n]) => Nobodys(e)'
    BY DEF PictureInv, BatchPictures, Nobodys, Recorded, Deleted
  <2> QED  BY <1>2, <2>1, BatchGoesOn DEF PictureInv
<1>5. JobReads'  BY <1>2 DEF JobReads, Working
<1>6. ThumbShowsFile'  BY DEF PictureInv, ThumbShowsFile, Recorded
<1> QED  BY <1>3, <1>4, <1>5, <1>6

\* The object the job reads is the file's it makes the picture for: a file moved
\* or deleted since the batch was taken left none there.
LEMMA ReadsItsFile ==
    ASSUME TypeInv, PictureInv, job.step = "read", objects[Source] # None, Recorded(Head(job.batch).id)
    PROVE  rows[Head(job.batch).id].path = Source
<1>1. job.batch \in Seq(Entry) /\ job.batch # <<>>  BY DEF TypeInv, Job
<1>2. PICK e : e = Head(job.batch)  OBVIOUS
<1>3. e = job.batch[1] /\ 1 \in DOMAIN job.batch /\ e \in Entry /\ e.id \in Rows /\ e.path \in Paths /\ Source = e.path
  BY <1>1, <1>2, FirstAndRest DEF Source
<1>4. PICK s \in Rows : Recorded(s) /\ rows[s].path = e.path
  BY <1>3 DEF PictureInv, Stored, RowsAt
<1>5. ThumbOf(e.path) \in Names(rows[s])  BY <1>4 DEF Names
<1>6. Nobodys(e)  BY <1>3 DEF PictureInv, BatchPictures
<1>7. s = e.id  BY <1>2, <1>4, <1>5, <1>6 DEF Nobodys
<1> QED  BY <1>2, <1>3, <1>4, <1>7

LEMMA ReadPictures ==
    ASSUME Overlaps = "none", TypeInv, PictureInv, ReadSource
    PROVE  OwnPictures' /\ BatchPictures' /\ JobReads' /\ ThumbShowsFile'
<1>1. UNCHANGED <<rows, objects, thumbs, items, write>>  BY DEF ReadSource
<1>2. CASE CanRead /\ job' = [job EXCEPT !.step = "write", !.data = objects[Source]]
  <2>1. job'.step = "write" /\ job'.batch = job.batch /\ job'.data = objects[Source]
    BY <1>2 DEF TypeInv, Job
  <2>2. OwnPictures'  BY <1>1 DEF PictureInv, OwnPictures, Recorded, Deleted
  <2>3. BatchPictures'  BY <1>1, <2>1 DEF PictureInv, BatchPictures, Nobodys, Recorded, Deleted
  <2>4. Recorded(Head(job.batch).id) => rows[Head(job.batch).id].path = Source
    BY <1>2, ReadsItsFile DEF ReadSource, CanRead
  <2>5. JobReads'  BY <1>1, <2>1, <2>4 DEF JobReads, Working, Recorded, Replaced
  <2>6. ThumbShowsFile'  BY <1>1 DEF PictureInv, ThumbShowsFile, Recorded
  <2> QED  BY <2>2, <2>3, <2>5, <2>6
<1>3. CASE job' = Skipped(job.batch)
  BY <1>1, <1>3, SkippedPictures DEF ReadSource, Skipped
<1> QED  BY <1>2, <1>3 DEF ReadSource

LEMMA WritePictures ==
    ASSUME Overlaps = "none", TypeInv, PictureInv, WriteThumb
    PROVE  OwnPictures' /\ BatchPictures' /\ JobReads' /\ ThumbShowsFile'
<1>1. UNCHANGED <<rows, objects, items, write>>  BY DEF WriteThumb
<1>2. CASE thumbs' = [thumbs EXCEPT ![ThumbOf(Source)] = job.data] /\ job' = [job EXCEPT !.step = "record"]
  <2>1. job'.step = "record" /\ job'.batch = job.batch /\ job'.data = job.data
    BY <1>2 DEF TypeInv, Job
  <2>2. Working  BY DEF WriteThumb, Working
  <2>3. PICK t : t = ThumbOf(Source)  OBVIOUS
  <2>4. t \in Places /\ \A u \in Places : thumbs'[u] = IF u = t THEN job.data ELSE thumbs[u]
    BY <1>2, <2>2, <2>3, JobAt DEF TypeInv
  <2>5. OwnPictures'  BY <1>1 DEF PictureInv, OwnPictures, Recorded, Deleted
  <2>6. BatchPictures'  BY <1>1, <2>1 DEF PictureInv, BatchPictures, Nobodys, Recorded, Deleted
  <2>7. JobReads'
    <3>1. thumbs'[t] = job.data  BY <2>4
    <3>2. Recorded(Head(job.batch).id) /\ ~Replaced(Head(job.batch).id) =>
             job.data = objects[rows[Head(job.batch).id].path]
      BY <2>2 DEF PictureInv, JobReads
    <3> QED  BY <1>1, <2>1, <2>3, <3>1, <3>2 DEF JobReads, Working, Recorded, Replaced, Source, ThumbOf
  <2>8. ThumbShowsFile'
    <3>1. \A r \in Rows : Recorded(r) /\ rows[r].thumb # None =>
             rows[r].thumb \in Places /\ rows[r].thumb # t
      BY <2>2, <2>3, RowFields, JobAt DEF PictureInv, BatchPictures, Nobodys
    <3> QED  BY <1>1, <2>4, <3>1 DEF PictureInv, ThumbShowsFile, Recorded
  <2> QED  BY <2>5, <2>6, <2>7, <2>8
<1>3. CASE job' = Skipped(job.batch) /\ UNCHANGED thumbs
  BY <1>1, <1>3, SkippedPictures DEF WriteThumb, Skipped
<1> QED  BY <1>2, <1>3 DEF WriteThumb

\* The rest of the batch has other pictures than the first.
LEMMA RestHasOthers ==
    ASSUME TypeInv, PictureInv, job.step # "rest", NEW n \in DOMAIN Tail(job.batch)
    PROVE  /\ Tail(job.batch)[n] \in Entry /\ Nobodys(Tail(job.batch)[n])
           /\ ThumbOf(Tail(job.batch)[n].path) # ThumbOf(Source)
<1>1. job.batch \in Seq(Entry) /\ job.batch # <<>>  BY DEF TypeInv, Job
<1>2. PICK b : b = job.batch  OBVIOUS
<1>3. /\ 1 \in DOMAIN b /\ Source = b[1].path
      /\ n + 1 \in DOMAIN b /\ n + 1 # 1 /\ Tail(b)[n] = b[n + 1]
  BY <1>1, <1>2, FirstAndRest DEF Source
<1>4. b[n + 1] \in Entry  BY <1>1, <1>2, <1>3
<1>5. Nobodys(b[n + 1]) /\ ThumbOf(b[n + 1].path) # ThumbOf(b[1].path)
  BY <1>2, <1>3 DEF PictureInv, BatchPictures
<1> QED  BY <1>2, <1>3, <1>4, <1>5

LEMMA RecordPictures ==
    ASSUME Overlaps = "none", TypeInv, PictureInv, RecordThumb
    PROVE  OwnPictures' /\ BatchPictures' /\ JobReads' /\ ThumbShowsFile'
<1>1. UNCHANGED <<objects, thumbs, items, write>> /\ job' = Following(job.batch) /\ job.step = "record"
  BY DEF RecordThumb
<1>2. CASE rows' = [r \in Rows |-> IF r = Head(job.batch).id /\ Recorded(r)
                                   THEN [rows[r] EXCEPT !.thumb = ThumbOf(Source)] ELSE rows[r]]
  <2>1. PICK h, t : h = Head(job.batch).id /\ t = ThumbOf(Source)  OBVIOUS
  <2>2. /\ h \in Rows /\ t \in Places /\ t # None /\ Working
        /\ Head(job.batch) = job.batch[1] /\ Source = job.batch[1].path /\ 1 \in DOMAIN job.batch
    BY <1>1, <2>1, JobAt DEF Working
  <2>3. /\ \A r \in Rows : /\ Recorded(r) <=> Recorded(r)'
                           /\ Recorded(r) => rows'[r].path = rows[r].path
        /\ \A r \in Rows : r # h \/ ~Recorded(r) => rows'[r] = rows[r]
        /\ \A r \in Rows : r = h /\ Recorded(r) => rows'[r].thumb = t
    BY <1>1, <1>2, <2>1, RowsRecorded
  <2>4. CASE ~Recorded(h)
    <3>1. \A r \in Rows : rows'[r] = rows[r]  BY <2>3, <2>4
    <3>2. rows' = rows
      <4>1. rows \in [Rows -> Row \cup {None}] /\ rows' \in [Rows -> Row \cup {None}]
        BY <1>1, <1>2, RowsRecorded DEF TypeInv
      <4> QED  BY <3>1, <4>1
    <3> QED  BY <1>1, <3>2, SkippedPictures
  <2>5. CASE Recorded(h)
    <3>1. PICK row : row = rows'[h]  OBVIOUS
    <3>2. row # None /\ row.path = rows[h].path /\ row.thumb = t  BY <2>2, <2>3, <2>5, <3>1 DEF Recorded
    <3>3. \A s \in Rows : rows'[s] = IF s = h THEN row ELSE rows[s]  BY <2>3, <3>1
    <3>4. \A x \in Names(row) : x = t \/ x \in Names(rows[h])  BY <3>2 DEF Names
    <3>5. Nobodys(job.batch[1])  BY <2>2 DEF PictureInv, BatchPictures
    <3>6. /\ \A s \in Rows : Recorded(s) /\ s # h => t \notin Names(rows[s])
          /\ \A i \in Items : Deleted(i) => t \notin Names(items[i])
      BY <2>1, <2>2, <2>5, <3>5 DEF Nobodys
    <3>7. OwnPictures'
      <4>1. \A s \in Rows : Recorded(s) /\ s # h => Names(row) \cap Names(rows[s]) = {}
        BY <2>2, <2>5, <3>4, <3>6 DEF PictureInv, OwnPictures
      <4>2. \A i \in Items : Deleted(i) => Names(row) \cap Names(items[i]) = {}
        BY <2>2, <2>5, <3>4, <3>6 DEF PictureInv, OwnPictures
      <4> QED  BY <1>1, <2>2, <3>3, <4>1, <4>2, StillOwn DEF PictureInv
    <3>8. BatchPictures'
      <4>1. PICK d : d = Tail(job.batch)  OBVIOUS
      <4>2. job'.batch = d
        <5>1. job.batch \in Seq(Entry) /\ job.batch # <<>> /\ Len(job.batch) <= Limit
          BY <1>1 DEF TypeInv, Job
        <5> QED  BY <1>1, <4>1, <5>1, FollowingJob
      <4>3. ASSUME NEW e \in Entry, Nobodys(e), ThumbOf(e.path) # t
            PROVE  Nobodys(e)'
        <5>1. row.thumb # ThumbOf(e.path)  BY <3>2, <4>3
        <5>2. h # e.id /\ Recorded(e.id) => ThumbOf(e.path) \notin Names(row)
          BY <2>2, <2>5, <3>4, <4>3 DEF Nobodys
        <5> QED  BY <1>1, <2>2, <2>5, <3>3, <4>3, <5>1, <5>2, EntryStillNobodys
      <4>4. \A n \in DOMAIN d : d[n] \in Entry /\ Nobodys(d[n]) /\ ThumbOf(d[n].path) # t
        BY <1>1, <2>1, <4>1, RestHasOthers
      <4>5. \A n \in DOMAIN d : \E e \in Entry : e = d[n] /\ Nobodys(e)'  BY <4>3, <4>4
      <4>6. (\A n \in DOMAIN job.batch : Nobodys(job.batch[n]))'  BY <4>2, <4>5 DEF Nobodys
      <4>7. \A m, n \in DOMAIN d : m # n => ThumbOf(d[m].path) # ThumbOf(d[n].path)
        <5>1. PICK b : b = job.batch  OBVIOUS
        <5>2. \A n \in DOMAIN d : n \in Nat /\ n + 1 \in DOMAIN b /\ d[n] = b[n + 1]
          BY <2>2, <4>1, <5>1, FirstAndRest, JobAt
        <5>3. \A m, n \in DOMAIN b : m # n => ThumbOf(b[m].path) # ThumbOf(b[n].path)
          BY <5>1 DEF PictureInv, BatchPictures
        <5> QED  BY <5>2, <5>3
      <4> QED  BY <4>2, <4>6, <4>7 DEF BatchPictures
    <3>9. ~Working'
      <4>1. job.batch \in Seq(Entry) /\ job.batch # <<>> /\ Len(job.batch) <= Limit
        BY <1>1 DEF TypeInv, Job
      <4>2. job'.step \in {"rest", "read"}  BY <1>1, <4>1, FollowingJob
      <4> QED  BY <4>2 DEF Working
    <3>10. JobReads'  BY <3>9 DEF JobReads, Working
    <3>11. thumbs[t] = job.data /\ (~Replaced(h) => job.data = objects[rows[h].path])
      BY <1>1, <2>1, <2>2, <2>5 DEF PictureInv, JobReads
    <3>12. ThumbShowsFile'
      <4>1. \A s \in Rows : s # h /\ Recorded(s)' => Recorded(s) /\ rows'[s] = rows[s]  BY <2>3
      <4> QED  BY <1>1, <2>2, <3>1, <3>2, <3>11, <4>1 DEF PictureInv, ThumbShowsFile, Replaced, Recorded
    <3> QED  BY <3>7, <3>8, <3>10, <3>12
  <2> QED  BY <2>4, <2>5
<1>3. CASE UNCHANGED rows
  BY <1>1, <1>3, SkippedPictures
<1> QED  BY <1>2, <1>3 DEF RecordThumb

LEMMA PicturesStep ==
    ASSUME Overlaps = "none", TypeInv, PictureInv, [Next]_vars
    PROVE  PictureInv'
<1> DEFINE Goal == OwnPictures' /\ BatchPictures' /\ JobReads' /\ ThumbShowsFile'
<1>0. SUFFICES Goal  BY TypesStep DEF PictureInv
<1>1. ASSUME NEW p \in Paths, NEW c \in Contents, Upload(p, c)
      PROVE  Goal
  BY <1>1, UploadPictures
<1>2. ASSUME NEW r \in Rows, NEW c \in Contents, NEW status \in {"ready", "pending"}, Replace(r, c, status)
      PROVE  Goal
  BY <1>2, ReplacePictures
<1>3. ASSUME NEW r \in Rows, Delete(r)
      PROVE  Goal
  BY <1>3, DeletePictures
<1>4. ASSUME NEW r \in Rows, NEW p \in Paths, Move(r, p)
      PROVE  Goal
  BY <1>4, MovePictures
<1>5. ASSUME NEW i \in Items, Restore(i)
      PROVE  Goal
  BY <1>5, RestorePictures
<1>6. ASSUME NEW i \in Items, Purge(i)
      PROVE  Goal
  BY <1>6, PurgePictures
<1>7. CASE PutBytes        BY <1>7, PutPictures
<1>8. CASE Settle          BY <1>8, SettlePictures
<1>9. CASE Tick            BY <1>9, TickPictures
<1>10. CASE ReadSource     BY <1>10, ReadPictures
<1>11. CASE WriteThumb     BY <1>11, WritePictures
<1>12. CASE RecordThumb    BY <1>12, RecordPictures
<1>13. CASE UNCHANGED vars
  <2>1. UNCHANGED <<rows, objects, thumbs, items, write, job>>  BY <1>13 DEF vars
  <2>2. OwnPictures'  BY <2>1 DEF PictureInv, OwnPictures, Recorded, Deleted
  <2>3. BatchPictures'  BY <2>1 DEF PictureInv, BatchPictures, Nobodys, Recorded, Deleted
  <2>4. JobReads'  BY <2>1 DEF PictureInv, JobReads, Working, Recorded, Replaced, Source
  <2>5. ThumbShowsFile'  BY <2>1 DEF PictureInv, ThumbShowsFile, Recorded
  <2> QED  BY <2>2, <2>3, <2>4, <2>5
<1> HIDE DEF Goal
<1> QED
  BY <1>1, <1>2, <1>3, <1>4, <1>5, <1>6, <1>7, <1>8, <1>9, <1>10, <1>11, <1>12, <1>13
  DEF Next, Users, MakeThumbnails

\* When names are not used twice at a time, each picture's path is one file's, and
\* what the job holds is of the file it is at.
THEOREM PicturesStayApart ==
    ASSUME Overlaps = "none"
    PROVE  Spec => []PictureInv
<1>1. Init => TypeInv /\ PictureInv  BY TypesInit, PicturesInit
<1>2. TypeInv /\ PictureInv /\ [Next]_vars => (TypeInv /\ PictureInv)'
  BY TypesStep, PicturesStep DEF PictureInv
<1> QED  BY <1>1, <1>2, PTL DEF Spec

\* A file shows a picture of the contents it has, for any files, moves, failures
\* and purges, when names are not used twice at a time.
THEOREM PicturesAreTheirs ==
    ASSUME Overlaps = "none"
    PROVE  Spec => []ThumbShowsFile
<1>1. PictureInv => ThumbShowsFile  BY DEF PictureInv
<1> QED  BY <1>1, PicturesStayApart, PTL

=============================================================================
