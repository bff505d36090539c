---------------------------- MODULE ListingProofs ----------------------------
(***************************************************************************)
(* Proofs about Paging and DriveListing: each page is its slice of the     *)
(* directories followed by the files and the slices tile, for every number *)
(* of entries and every page size; and the directory rows stay the tree of *)
(* the folders, for any paths, ids and requests, as long as concurrent     *)
(* requests share recorded folders only.                                   *)
(***************************************************************************)
EXTENDS ListingInvariant, SequenceTheorems, FiniteSetTheorems, TLAPS

-----------------------------------------------------------------------------
(* Pages *)

\* PageBounds: a limit between one and the maximum.
LEMMA LimitBounds ==
    ASSUME NEW page \in Int, NEW size \in Int
    PROVE  /\ PageBounds(page, size).limit \in Nat \ {0}
           /\ PageBounds(page, size).limit <= MaxPageSize
    BY PagingAssumption DEF PageBounds

\* The first page starts at zero and each page where the one before it ends,
\* whatever page and size the request asks for.
THEOREM PagesTile ==
    ASSUME NEW page \in Nat \ {0}, NEW size \in Int
    PROVE  /\ PageBounds(1, size).offset = 0
           /\ PageBounds(page + 1, size).limit = PageBounds(page, size).limit
           /\ PageBounds(page + 1, size).offset = PageBounds(page, size).offset + PageBounds(page, size).limit
<1> DEFINE s == PageBounds(page, size).limit
<1>1. s \in Nat  BY LimitBounds
<1>2. /\ PageBounds(page, size).offset = (page - 1) * s
      /\ PageBounds(page + 1, size).offset = page * s
      /\ PageBounds(page + 1, size).limit = s
      /\ PageBounds(1, size).offset = 0 * s
  BY DEF PageBounds
<1>3. page * s = (page - 1) * s + s
  <2> HIDE DEF s
  <2>1. \A n \in Nat : (n + 1) * s = n * s + s  BY <1>1
  <2>2. page - 1 \in Nat /\ (page - 1) + 1 = page  OBVIOUS
  <2> QED  BY <2>1, <2>2
<1>4. 0 * s = 0  BY <1>1
<1> QED  BY <1>2, <1>3, <1>4

\* The two queries of a page return exactly the entries whose place in the combined
\* listing lies in the page: directory i is at place i, file n after all directories.
THEOREM WindowIsItsSlice ==
    ASSUME NEW totalDirs \in Nat, NEW limit \in Nat \ {0}, NEW offset \in Nat
    PROVE  LET w == PageWindow(totalDirs, limit, offset)
           IN  /\ \A i \in Nat : i < totalDirs =>
                     (Covers(w.dirLimit, w.dirOffset, i) <=> i \in offset..(offset + limit - 1))
               /\ \A n \in Nat :
                     Covers(w.fileLimit, w.fileOffset, n) <=> totalDirs + n \in offset..(offset + limit - 1)
<1> DEFINE w == PageWindow(totalDirs, limit, offset)
<1>1. CASE offset >= totalDirs
  <2>1. w = [dirLimit |-> 0, dirOffset |-> 0, fileLimit |-> limit, fileOffset |-> offset - totalDirs]
    BY <1>1 DEF PageWindow
  <2> QED  BY <1>1, <2>1 DEF Covers
<1>2. CASE offset < totalDirs /\ totalDirs - offset > limit
  <2>1. w = [dirLimit |-> limit, dirOffset |-> offset, fileLimit |-> 0, fileOffset |-> 0]
    BY <1>2 DEF PageWindow
  <2> QED  BY <1>2, <2>1 DEF Covers
<1>3. CASE offset < totalDirs /\ totalDirs - offset <= limit
  <2>1. w = [dirLimit |-> limit, dirOffset |-> offset, fileOffset |-> 0,
             fileLimit |-> limit - (totalDirs - offset)]
    BY <1>3 DEF PageWindow
  <2> QED  BY <1>3, <2>1 DEF Covers
<1> QED  BY <1>1, <1>2, <1>3

-----------------------------------------------------------------------------
(* Paths *)

LEMMA UptoProperties ==
    ASSUME NEW p \in Seq(STRING), NEW n \in 0..Len(p)
    PROVE  /\ Upto(p, n) \in Seq(STRING) /\ Len(Upto(p, n)) = n
           /\ \A i \in 1..n : Upto(p, n)[i] = p[i]
           /\ \A k \in 0..n : Upto(Upto(p, n), k) = Upto(p, k)
<1>1. Upto(p, n) \in Seq(STRING) /\ Len(Upto(p, n)) = n /\ \A i \in 1..n : Upto(p, n)[i] = p[i]
  BY SubSeqProperties DEF Upto
<1>2. ASSUME NEW k \in 0..n PROVE Upto(Upto(p, n), k) = Upto(p, k)
  <2> DEFINE a == Upto(Upto(p, n), k)
             b == Upto(p, k)
  <2>1. k \in 0..Len(Upto(p, n)) /\ k \in 0..Len(p)  BY <1>1
  <2>2. a \in Seq(STRING) /\ Len(a) = k /\ \A i \in 1..k : a[i] = Upto(p, n)[i]
    BY <1>1, <2>1, SubSeqProperties DEF Upto
  <2>3. b \in Seq(STRING) /\ Len(b) = k /\ \A i \in 1..k : b[i] = p[i]
    BY <2>1, SubSeqProperties DEF Upto
  <2>4. \A i \in 1..k : a[i] = b[i]  BY <1>1, <2>2, <2>3
  <2> HIDE DEF a, b
  <2>5. a = b  BY <2>2, <2>3, <2>4, SeqEqual
  <2> QED  BY <2>5 DEF a, b
<1> QED  BY <1>1, <1>2

\* Sequences of one length that agree in all but the last place, and in the last.
LEMMA FrontAndLast ==
    ASSUME NEW s \in Seq(STRING), NEW t \in Seq(STRING), s # <<>>, t # <<>>,
           Front(s) = Front(t), Last(s) = Last(t)
    PROVE  s = t
<1>1. Len(s) \in Nat \ {0} /\ Len(t) \in Nat \ {0}  BY LenProperties, EmptySeq
<1>2. /\ Front(s) = Upto(s, Len(s) - 1) /\ Len(s) - 1 \in 0..Len(s)
      /\ Front(t) = Upto(t, Len(t) - 1) /\ Len(t) - 1 \in 0..Len(t)
  BY <1>1 DEF Front, Upto
<1>3. Len(s) - 1 = Len(t) - 1
  <2>1. Len(Upto(s, Len(s) - 1)) = Len(s) - 1  BY <1>2, UptoProperties
  <2>2. Len(Upto(t, Len(t) - 1)) = Len(t) - 1  BY <1>2, UptoProperties
  <2>3. Upto(s, Len(s) - 1) = Upto(t, Len(t) - 1)  BY <1>2
  <2> QED  BY <2>1, <2>2, <2>3
<1>4. Len(s) = Len(t)  BY <1>1, <1>3
<1>5. ASSUME NEW i \in 1..Len(s) PROVE s[i] = t[i]
  <2>1. CASE i = Len(s)  BY <1>4, <2>1 DEF Last
  <2>2. CASE i \in 1..(Len(s) - 1)
    <3>1. Upto(s, Len(s) - 1)[i] = s[i] /\ Upto(t, Len(t) - 1)[i] = t[i]
      BY <1>2, <1>3, <2>2, UptoProperties
    <3> QED  BY <1>2, <3>1
  <2> QED  BY <1>1, <2>1, <2>2
<1> QED  BY <1>4, <1>5, SeqEqual

\* The next level of a path.
LEMMA NextLevel ==
    ASSUME NEW p \in Seq(STRING), NEW n \in 0..Len(p), n < Len(p)
    PROVE  /\ Append(Upto(p, n), p[n + 1]) = Upto(p, n + 1)
           /\ Upto(p, n + 1) # <<>> /\ Len(Upto(p, n + 1)) = n + 1
           /\ Front(Upto(p, n + 1)) = Upto(p, n) /\ Last(Upto(p, n + 1)) = p[n + 1]
<1> DEFINE a == Append(Upto(p, n), p[n + 1])
           b == Upto(p, n + 1)
<1>1. Len(p) \in Nat /\ n \in Nat /\ n + 1 \in 0..Len(p) /\ n + 1 \in 1..Len(p)  BY LenProperties
<1>2. p[n + 1] \in STRING  BY <1>1, ElementOfSeq
<1>3. Upto(p, n) \in Seq(STRING) /\ Len(Upto(p, n)) = n /\ \A i \in 1..n : Upto(p, n)[i] = p[i]
  BY UptoProperties
<1>4. b \in Seq(STRING) /\ Len(b) = n + 1 /\ \A i \in 1..(n + 1) : b[i] = p[i]
  BY <1>1, UptoProperties
<1>5. /\ a \in Seq(STRING) /\ Len(a) = n + 1 /\ a[n + 1] = p[n + 1]
      /\ \A i \in 1..n : a[i] = Upto(p, n)[i]
  BY <1>2, <1>3, AppendProperties
<1>6. \A i \in 1..(n + 1) : a[i] = b[i]
  <2> TAKE i \in 1..(n + 1)
  <2>1. i \in 1..n \/ i = n + 1  BY <1>1
  <2> QED  BY <1>3, <1>4, <1>5, <2>1
<1>7. Front(b) = Upto(p, n)
  <2>1. Len(b) - 1 = n /\ n \in 0..(n + 1)  BY <1>1, <1>4
  <2> QED  BY <1>1, <2>1, UptoProperties DEF Front, Upto
<1>8. Last(b) = p[n + 1]  BY <1>1, <1>4 DEF Last
<1>9. b # <<>>
  BY <1>1, <1>4
<1> HIDE DEF a, b
<1>10. a = b  BY <1>4, <1>5, <1>6, SeqEqual
<1> QED  BY <1>4, <1>7, <1>8, <1>9, <1>10 DEF a, b

LEMMA Levels ==
    ASSUME NEW n \in Nat, NEW l \in Nat
    PROVE  /\ \A k \in 0..l : k \in Nat
           /\ n < l => n \in 0..l /\ n + 1 \in 1..l
           /\ n + 1 \in 1..l => n + 1 \in 0..l /\ n + 1 <= l /\ n < l
           /\ n + 1 \in 1..l /\ n + 1 # l => n + 1 < l
    OBVIOUS

LEMMA PrefixIsUpto ==
    ASSUME NEW q \in Seq(STRING), NEW p \in Seq(STRING)
    PROVE  IsPrefix(q, p) <=> Len(q) <= Len(p) /\ q = Upto(p, Len(q))
    BY SubSeqFull DEF IsPrefix, Upto

LEMMA PathProperties ==
    ASSUME NEW p \in Paths
    PROVE  /\ p \in Seq(STRING) /\ Len(p) \in Nat \ {0}
           /\ \A n \in 1..Len(p) : Upto(p, n) \in Paths
    BY ListingAssumption, LenProperties, EmptySeq DEF Upto

LEMMA PathLength ==
    ASSUME NEW q \in Paths \cup {<<>>}
    PROVE  Len(q) \in Nat
<1>1. CASE q \in Paths  BY <1>1, PathProperties
<1>2. CASE q = <<>>
  <2>1. <<>> \in Seq(STRING)  BY EmptySeq
  <2> QED  BY <1>2, <2>1, EmptySeq
<1> QED  BY <1>1, <1>2

LEMMA PlaceOf ==
    ASSUME NEW d
    PROVE  Place(d).id = d.id /\ Place(d).path = d.path
    BY DEF Place

\* Among rows that are a tree, those with the next name under the place reached are
\* those at the next level of the path.
LEMMA NextRow ==
    ASSUME NEW S \in SUBSET Row, Tree(S), OneId(S), NEW p \in Paths, NEW at,
           Reached(at, S, p), Len(at.path) < Len(p), NEW d \in S
    PROVE  Last(d.path) = p[Len(at.path) + 1] /\ d.parent = at.id <=> d.path = Upto(p, Len(at.path) + 1)
<1> DEFINE n == Len(at.path)
<1>0. p \in Seq(STRING) /\ Len(p) \in Nat  BY PathProperties
<1>1. d.path \in Paths /\ d.path \in Seq(STRING) /\ d.path # <<>> /\ Len(d.path) \in Nat \ {0}
  BY PathProperties, ListingAssumption DEF Row
<1>2. CASE at = Root
  <2>1. n = 0 /\ at.id = None /\ at.path = <<>>  BY <1>2 DEF Root
  <2>2. /\ Upto(p, 1) # <<>> /\ Len(Upto(p, 1)) = 1 /\ Front(Upto(p, 1)) = Upto(p, 0)
        /\ Last(Upto(p, 1)) = p[1] /\ Upto(p, 1) \in Seq(STRING)
    <3>1. 0 \in 0..Len(p) /\ 1 \in 0..Len(p) /\ 0 < Len(p) /\ 0 + 1 = 1  BY <1>0, <2>1
    <3>2. Upto(p, 1) \in Seq(STRING)  BY <1>0, <3>1, UptoProperties
    <3>3. /\ Upto(p, 0 + 1) # <<>> /\ Len(Upto(p, 0 + 1)) = 0 + 1 /\ Front(Upto(p, 0 + 1)) = Upto(p, 0)
          /\ Last(Upto(p, 0 + 1)) = p[0 + 1]
      BY <1>0, <3>1, NextLevel
    <3> QED  BY <3>1, <3>2, <3>3
  <2>3. ASSUME Last(d.path) = p[1], d.parent = None PROVE d.path = Upto(p, 1)
    <3>1. Len(d.path) = 1
      <4>1. \A e \in S : e.id # None  BY ListingAssumption DEF Row
      <4> QED  BY <2>3, <4>1 DEF Tree
    <3>2. d.path[1] = p[1] /\ Upto(p, 1)[1] = p[1]  BY <2>2, <2>3, <3>1 DEF Last
    <3>3. \A i \in 1..1 : d.path[i] = Upto(p, 1)[i]  BY <3>2
    <3> QED  BY <1>1, <2>2, <3>1, <3>3, SeqEqual
  <2>4. ASSUME d.path = Upto(p, 1) PROVE Last(d.path) = p[1] /\ d.parent = None
    BY <2>2, <2>4 DEF Tree
  <2> QED  BY <2>1, <2>3, <2>4
<1>3. CASE \E r \in S : at = Place(r)
  <2>1. PICK r \in S : at = Place(r)  BY <1>3
  <2>2. at.id = r.id /\ at.path = r.path /\ r.id \in Ids /\ r.path \in Paths  BY <2>1, PlaceOf DEF Row
  <2>3. n \in Nat \ {0} /\ n \in 0..Len(p) /\ n < Len(p)  BY <1>0, <2>2, PathProperties
  <2>4. r.path = Upto(p, n)  BY <2>2 DEF Reached
  <2> HIDE DEF n
  <2>5. /\ Upto(p, n + 1) # <<>> /\ Len(Upto(p, n + 1)) = n + 1 /\ Front(Upto(p, n + 1)) = Upto(p, n)
        /\ Last(Upto(p, n + 1)) = p[n + 1]
    BY <1>0, <2>3, NextLevel
  <2>6. Upto(p, n + 1) \in Seq(STRING)
    <3>1. n + 1 \in 0..Len(p)  BY <1>0, <2>3
    <3> QED  BY <1>0, <3>1, UptoProperties
  <2>7. ASSUME Last(d.path) = p[n + 1], d.parent = r.id PROVE d.path = Upto(p, n + 1)
    <3>1. d.parent # None  BY <2>2, <2>7, ListingAssumption
    <3>2. PICK e \in S : e.id = d.parent /\ e.path = Front(d.path)  BY <3>1 DEF Tree
    <3>3. e = r  BY <2>7, <3>2 DEF OneId
    <3>4. Front(d.path) = Front(Upto(p, n + 1))  BY <2>4, <2>5, <3>2, <3>3
    <3> QED  BY <1>1, <2>5, <2>6, <2>7, <3>4, FrontAndLast
  <2>8. ASSUME d.path = Upto(p, n + 1) PROVE Last(d.path) = p[n + 1] /\ d.parent = r.id
    <3>1. Len(d.path) # 1
      <4>1. n + 1 # 1  BY <2>3
      <4> QED  BY <2>5, <2>8, <4>1
    <3>2. PICK e \in S : e.id = d.parent /\ e.path = Front(d.path)  BY <3>1 DEF Tree
    <3>3. e = r  BY <2>4, <2>5, <2>8, <3>2 DEF Tree
    <3> QED  BY <2>5, <2>8, <3>2, <3>3
  <2> QED  BY <2>2, <2>7, <2>8 DEF n
<1> QED  BY <1>2, <1>3 DEF Reached

\* Two trees over the same rows, with nothing in common beyond them, are one.
LEMMA TreesJoin ==
    ASSUME NEW D, NEW A, NEW B, Tree(D \cup A), Tree(D \cup B),
           \A a \in A, b \in B : a.path # b.path
    PROVE  Tree(D \cup A \cup B)
<1>1. \A d, e \in D \cup A \cup B : d.path = e.path => d = e
  BY DEF Tree
<1>2. ASSUME NEW d \in D \cup A \cup B
      PROVE  IF Len(d.path) = 1 THEN d.parent = None
             ELSE \E e \in D \cup A \cup B : e.id = d.parent /\ e.path = Front(d.path)
  <2>1. d \in D \cup A \/ d \in D \cup B  OBVIOUS
  <2> QED  BY <2>1 DEF Tree
<1> QED  BY <1>1, <1>2 DEF Tree

\* A tree without the rows under a path.
LEMMA TreeWithout ==
    ASSUME NEW S \in SUBSET Row, Tree(S), NEW p \in Paths
    PROVE  Tree({d \in S : ~IsPrefix(p, d.path)})
<1> DEFINE R == {d \in S : ~IsPrefix(p, d.path)}
<1>1. \A d, e \in R : d.path = e.path => d = e  BY DEF Tree
<1>2. ASSUME NEW d \in R
      PROVE  IF Len(d.path) = 1 THEN d.parent = None ELSE \E e \in R : e.id = d.parent /\ e.path = Front(d.path)
  <2>1. CASE Len(d.path) = 1  BY <2>1 DEF Tree
  <2>2. CASE Len(d.path) # 1
    <3>1. PICK e \in S : e.id = d.parent /\ e.path = Front(d.path)  BY <2>2 DEF Tree
    <3>2. d.path \in Paths /\ e.path \in Paths  BY DEF Row
    <3>3. /\ d.path \in Seq(STRING) /\ e.path \in Seq(STRING) /\ p \in Seq(STRING)
          /\ Len(d.path) \in Nat \ {0} /\ Len(e.path) \in Nat /\ Len(p) \in Nat
      BY <3>2, PathProperties
    <3>4. e.path = Upto(d.path, Len(d.path) - 1)  BY <3>1 DEF Front, Upto
    <3>5. Len(d.path) - 1 \in 0..Len(d.path)  BY <3>3
    <3>6. /\ Len(e.path) = Len(d.path) - 1
          /\ \A k \in 0..(Len(d.path) - 1) : Upto(e.path, k) = Upto(d.path, k)
      <4>1. /\ Len(Upto(d.path, Len(d.path) - 1)) = Len(d.path) - 1
            /\ \A k \in 0..(Len(d.path) - 1) : Upto(Upto(d.path, Len(d.path) - 1), k) = Upto(d.path, k)
        BY <3>3, <3>5, UptoProperties
      <4> QED  BY <3>4, <4>1
    <3>7. ~IsPrefix(p, e.path)
      <4> SUFFICES ASSUME IsPrefix(p, e.path) PROVE IsPrefix(p, d.path)
        OBVIOUS
      <4>1. Len(p) <= Len(e.path) /\ p = Upto(e.path, Len(p))  BY <3>3, PrefixIsUpto
      <4>2. Len(p) \in 0..(Len(d.path) - 1) /\ Len(p) <= Len(d.path)  BY <3>3, <3>6, <4>1
      <4>3. p = Upto(d.path, Len(p))  BY <3>6, <4>1, <4>2
      <4> QED  BY <3>3, <4>2, <4>3, PrefixIsUpto
    <3> QED  BY <2>2, <3>1, <3>7
  <2> QED  BY <2>1, <2>2
<1> QED  BY <1>1, <1>2 DEF Tree

-----------------------------------------------------------------------------
(* The steps of a request *)

LEMMA ReachSets ==
    ASSUME making \in [Creators -> Maker], NEW c \in Creators, NEW d \in Row, NEW own \in SUBSET Row,
           Reach(c, d, own)
    PROVE  /\ making' \in [Creators -> Maker] /\ \A e \in Creators \ {c} : making'[e] = making[e]
           /\ making'[c].at = Place(d) /\ making'[c].own = own
           /\ making'[c].path = making[c].path
           /\ making'[c].step = IF Len(d.path) = Len(making[c].path) THEN "commit" ELSE "look up"
<1> DEFINE step == IF Len(d.path) = Len(making[c].path) THEN "commit" ELSE "look up"
           m == [making[c] EXCEPT !.at = Place(d), !.own = own, !.step = step]
<1>1. making[c] \in Maker  OBVIOUS
<1>2. Place(d) \in [id : Ids \cup {None}, path : Paths \cup {<<>>}]  BY DEF Row, Place
<1>3. step \in {"idle", "look up", "create", "commit"}  OBVIOUS
<1>4. making' = [making EXCEPT ![c] = m]  BY DEF Reach, Place
<1> HIDE DEF step
<1>5. m \in Maker  BY <1>1, <1>2, <1>3 DEF Maker
<1>6. /\ m.at = Place(d) /\ m.own = own
      /\ m.path = making[c].path /\ m.step = step
  BY <1>1 DEF Maker
<1>7. making' \in [Creators -> Maker] /\ making'[c] = m /\ \A e \in Creators \ {c} : making'[e] = making[e]
  <2> HIDE DEF m
  <2> QED  BY <1>4, <1>5
<1> QED  BY <1>6, <1>7 DEF step

\* A step that changes request c alone keeps the invariant if what it makes of c does.
LEMMA OneMaker ==
    ASSUME TreeInv, NEW c \in Creators, dirs' = dirs, making' \in [Creators -> Maker],
           \A e \in Creators \ {c} : making'[e] = making[e],
           MakerInv(making'[c], dirs), OneId(All'),
           \/ making'[c].step = "idle"
           \/ making[c].step # "idle" /\ making'[c].path = making[c].path
    PROVE  TreeInv'
<1>1. \A e \in Creators : MakerInv(making'[e], dirs)  BY DEF TreeInv
<1>2. SharedRecorded(making', dirs)
  <2> SUFFICES ASSUME NEW a \in Creators, NEW b \in Creators, a # b,
                      making'[a].step # "idle", making'[b].step # "idle",
                      NEW q \in Paths, IsPrefix(q, making'[a].path), IsPrefix(q, making'[b].path)
               PROVE  \E d \in dirs : d.path = q
    BY DEF SharedRecorded
  <2>1. making[a].step # "idle" /\ making'[a].path = making[a].path  OBVIOUS
  <2>2. making[b].step # "idle" /\ making'[b].path = making[b].path  OBVIOUS
  <2> QED  BY <2>1, <2>2 DEF TreeInv, SharedRecorded
<1> QED  BY <1>1, <1>2 DEF TreeInv, OneId, All

LEMMA FewerIds ==
    ASSUME NEW A, NEW B, A \subseteq B, OneId(B)
    PROVE  OneId(A)
    BY DEF OneId

\* What is known of a request under way.
LEMMA UnderWay ==
    ASSUME TreeInv, NEW c \in Creators
    PROVE  /\ making[c] \in Maker /\ Seen(c) \in SUBSET Row /\ Tree(Seen(c)) /\ OneId(Seen(c))
           /\ making[c].own \in SUBSET Row /\ making[c].own \subseteq All /\ dirs \subseteq All
           /\ making[c].step # "idle" => Making(making[c], dirs)
           /\ making[c].step = "idle" => making[c].own = {}
<1>1. making[c] \in Maker /\ MakerInv(making[c], dirs) /\ dirs \subseteq Row  BY DEF TreeInv
<1>2. making[c].own \in SUBSET Row  BY <1>1 DEF Maker
<1>3. making[c].own \subseteq All /\ dirs \subseteq All  BY DEF All
<1>4. OneId(Seen(c))  BY <1>3, FewerIds DEF TreeInv, Seen
<1> QED  BY <1>1, <1>2, <1>3, <1>4 DEF MakerInv, Seen

\* How far a request has got, and the next level of its path.
LEMMA LevelReached ==
    ASSUME TreeInv, NEW c \in Creators, making[c].step \in {"look up", "create"}
    PROVE  /\ making[c].path \in Paths /\ making[c].path \in Seq(STRING)
           /\ Reached(making[c].at, Seen(c), making[c].path)
           /\ Len(making[c].at.path) \in 0..Len(making[c].path)
           /\ Len(making[c].at.path) < Len(making[c].path)
           /\ Len(making[c].at.path) + 1 \in 1..Len(making[c].path)
           /\ making[c].at.path = Upto(making[c].path, Len(making[c].at.path))
           /\ Upto(making[c].path, Len(making[c].at.path) + 1) \in Paths
<1>1. making[c] \in Maker /\ Making(making[c], dirs)  BY UnderWay
<1>2. making[c].path \in Paths /\ Reached(making[c].at, Seen(c), making[c].path)
  BY <1>1 DEF Making, Seen
<1>3. making[c].path \in Seq(STRING) /\ Len(making[c].path) \in Nat  BY <1>2, PathProperties
<1>4. making[c].at.path \in Paths \cup {<<>>}  BY <1>1 DEF Maker
<1>5. Len(making[c].at.path) \in Nat  BY <1>4, PathLength
<1>6. Len(making[c].at.path) < Len(making[c].path)  BY <1>1 DEF Making
<1>7. Len(making[c].at.path) \in 0..Len(making[c].path) /\ Len(making[c].at.path) + 1 \in 1..Len(making[c].path)
  BY <1>3, <1>5, <1>6, Levels
<1>8. making[c].at.path = Upto(making[c].path, Len(making[c].at.path))  BY <1>2 DEF Reached
<1>9. Upto(making[c].path, Len(making[c].at.path) + 1) \in Paths  BY <1>2, <1>7, PathProperties
<1> QED  BY <1>2, <1>3, <1>6, <1>7, <1>8, <1>9

\* A request that reaches a row at the next level of its path.
LEMMA ReachKeeps ==
    ASSUME TreeInv, NEW c \in Creators, making[c].step \in {"look up", "create"},
           NEW d \in Row, NEW own \in SUBSET Row, Reach(c, d, own),
           making[c].own \subseteq own, own \subseteq making[c].own \cup {d}, d \in dirs \cup own,
           d.path = Upto(making[c].path, Len(making[c].at.path) + 1),
           Tree(dirs \cup own), OnPath(own, making[c].path, dirs), OneId(All \cup own),
           dirs' = dirs
    PROVE  TreeInv'
<1> DEFINE p == making[c].path
           n == Len(making[c].at.path)
<1>1. /\ p \in Paths /\ p \in Seq(STRING) /\ n + 1 \in 1..Len(p) /\ n \in Nat /\ Len(p) \in Nat
  <2>1. p \in Paths /\ p \in Seq(STRING) /\ n + 1 \in 1..Len(p) /\ n \in 0..Len(p)  BY LevelReached
  <2>2. Len(p) \in Nat  BY <2>1, PathProperties
  <2>3. n \in Nat
    <3> HIDE DEF n, p
    <3> QED  BY <2>1, <2>2, Levels
  <2> QED  BY <2>1, <2>2, <2>3
<1>0. d.path = Upto(p, n + 1)  OBVIOUS
<1> HIDE DEF p, n
<1>2. /\ making' \in [Creators -> Maker] /\ \A e \in Creators \ {c} : making'[e] = making[e]
      /\ making'[c].at = Place(d) /\ making'[c].own = own
      /\ making'[c].path = p
      /\ making'[c].step = IF Len(d.path) = Len(p) THEN "commit" ELSE "look up"
  BY ReachSets DEF TreeInv, p
<1>3. Len(d.path) = n + 1
  <2>1. n + 1 \in 0..Len(p)  BY <1>1, Levels
  <2> QED  BY <1>0, <1>1, <2>1, UptoProperties
<1>4. Reached(making'[c].at, dirs \cup own, p)
  <2>1. making'[c].at.path = d.path
    <3>1. making'[c].at = Place(d)  BY <1>2
    <3> QED  BY <3>1, PlaceOf
  <2>2. Len(d.path) <= Len(p) /\ d.path = Upto(p, Len(d.path))  BY <1>0, <1>1, <1>3, Levels
  <2> QED  BY <1>2, <2>1, <2>2 DEF Reached
<1>5. making'[c].step \in {"look up", "commit"} /\ (making'[c].step = "look up" => Len(making'[c].at.path) < Len(p))
  <2>1. making'[c].at = Place(d)  BY <1>2
  <2>2. making'[c].at.path = d.path  BY <2>1, PlaceOf
  <2>3. making'[c].step \in {"look up", "commit"} /\ (making'[c].step = "look up" => n + 1 # Len(p))
    BY <1>2, <1>3
  <2> QED  BY <1>1, <1>3, <2>2, <2>3, Levels
<1>6. Making(making'[c], dirs)  BY <1>1, <1>2, <1>4, <1>5 DEF Making, p
<1>7. MakerInv(making'[c], dirs)  BY <1>2, <1>5, <1>6 DEF MakerInv
<1>8. OneId(All')
  <2>1. All' \subseteq All \cup own
    <3>1. \A e \in Creators : making'[e].own \subseteq making[e].own \cup own  BY <1>2
    <3> QED  BY <3>1 DEF All
  <2> QED  BY <2>1, FewerIds
<1> QED  BY <1>2, <1>7, <1>8, OneMaker DEF p

\* Steps that leave rows and requests alone.
LEMMA OthersKeep ==
    ASSUME TreeInv, UNCHANGED <<dirs, making>>
    PROVE  TreeInv'
    BY DEF TreeInv, All, OneId

LEMMA RollBackKeeps ==
    ASSUME TreeInv, NEW c \in Creators, dirs' = dirs, making' = [making EXCEPT ![c] = Quiet]
    PROVE  TreeInv'
<1>1. Quiet \in Maker  BY DEF Quiet, Maker, Root
<1>2. Quiet.step = "idle" /\ Quiet.own = {}  BY DEF Quiet
<1>3. making \in [Creators -> Maker] /\ Tree(dirs) /\ OneId(All)  BY DEF TreeInv
<1>4. making' \in [Creators -> Maker] /\ making'[c] = Quiet /\ \A e \in Creators \ {c} : making'[e] = making[e]
  BY <1>1, <1>3
<1>5. MakerInv(making'[c], dirs)
  <2>1. dirs \cup making'[c].own = dirs  BY <1>2, <1>4
  <2> QED  BY <1>2, <1>3, <1>4, <2>1 DEF MakerInv
<1>6. OneId(All')
  <2>1. \A e \in Creators : making'[e].own \subseteq making[e].own  BY <1>2, <1>4
  <2>2. All' \subseteq All  BY <2>1 DEF All
  <2> QED  BY <1>3, <2>2, FewerIds
<1> QED  BY <1>2, <1>4, <1>5, <1>6, OneMaker

LEMMA MakeFolderKeeps ==
    ASSUME TreeInv, Overlaps = "none", NEW c \in Creators, NEW p \in Paths, MakeFolder(c, p)
    PROVE  TreeInv'
<1> DEFINE m == [Quiet EXCEPT !.step = "look up", !.path = p]
<1>1. Quiet \in Maker /\ Quiet.at = Root /\ Quiet.own = {}  BY DEF Quiet, Maker, Root
<1>2. m \in Maker  BY <1>1 DEF Maker
<1>3. m.step = "look up" /\ m.path = p /\ m.at = Root /\ m.own = {}  BY <1>1 DEF Maker
<1>4. making \in [Creators -> Maker] /\ dirs' = dirs /\ making' = [making EXCEPT ![c] = m] /\ making[c] = Quiet
  BY DEF TreeInv, MakeFolder
<1> HIDE DEF m
<1>5. making' \in [Creators -> Maker] /\ making'[c] = m /\ \A e \in Creators \ {c} : making'[e] = making[e]
  BY <1>2, <1>4
<1>6. making[c].own = {} /\ making[c].step = "idle"  BY <1>4 DEF Quiet
<1>7. Making(m, dirs)
  <2>1. /\ p \in Seq(STRING) /\ Len(p) \in Nat \ {0}
        /\ <<>> = Upto(p, 0) /\ Len(<<>>) = 0
    <3>1. p \in Seq(STRING) /\ Len(p) \in Nat \ {0}  BY PathProperties
    <3>2. 0 \in 0..Len(p)  BY <3>1
    <3>3. Upto(p, 0) \in Seq(STRING) /\ Len(Upto(p, 0)) = 0  BY <3>1, <3>2, UptoProperties
    <3> QED  BY <3>1, <3>3, EmptySeq
  <2>2. Root.path = <<>>  BY DEF Root
  <2>3. Len(Root.path) = 0 /\ Root.path = Upto(p, Len(Root.path)) /\ Len(Root.path) < Len(p)
    BY <2>1, <2>2
  <2>4. Reached(Root, dirs \cup {}, p)  BY <2>1, <2>3 DEF Reached
  <2>5. OnPath({}, p, dirs)  BY DEF OnPath
  <2> QED  BY <1>3, <2>3, <2>4, <2>5 DEF Making
<1>8. MakerInv(m, dirs)
  <2>1. dirs \cup m.own = dirs  BY <1>3
  <2> QED  BY <1>3, <1>7, <2>1 DEF MakerInv, TreeInv
<1>9. \A e \in Creators : MakerInv(making'[e], dirs)  BY <1>5, <1>8 DEF TreeInv
<1>10. OneId(All')
  <2>1. \A e \in Creators : making'[e].own = making[e].own  BY <1>3, <1>5, <1>6
  <2>2. All' = All  BY <1>4, <2>1 DEF All
  <2> QED  BY <2>2 DEF TreeInv
<1>11. SharedRecorded(making', dirs)
  <2>1. ASSUME NEW e \in Creators \ {c}, making[e].step # "idle", NEW q \in Paths,
               IsPrefix(q, p), IsPrefix(q, making[e].path)
        PROVE  \E d \in dirs : d.path = q
    <3>1. e \in Active  BY <2>1 DEF Active
    <3>2. \A x \in Active, r \in Paths :
             IsPrefix(r, p) /\ IsPrefix(r, making[x].path) => \E d \in dirs : d.path = r
      BY DEF MakeFolder, MayMake
    <3> QED  BY <2>1, <3>1, <3>2
  <2>2. SharedRecorded(making, dirs)  BY DEF TreeInv
  <2> SUFFICES ASSUME NEW a \in Creators, NEW b \in Creators, a # b,
                      making'[a].step # "idle", making'[b].step # "idle",
                      NEW q \in Paths, IsPrefix(q, making'[a].path), IsPrefix(q, making'[b].path)
               PROVE  \E d \in dirs : d.path = q
    BY DEF SharedRecorded
  <2>3. CASE a = c  BY <1>3, <1>5, <2>1, <2>3
  <2>4. CASE b = c  BY <1>3, <1>5, <2>1, <2>4
  <2>5. CASE a # c /\ b # c  BY <1>5, <2>2, <2>5 DEF SharedRecorded
  <2> QED  BY <2>3, <2>4, <2>5
<1> QED
  <2>1. dirs \subseteq Row /\ Tree(dirs)  BY DEF TreeInv
  <2> QED  BY <1>4, <1>5, <1>9, <1>10, <1>11, <2>1 DEF TreeInv, OneId, All

LEMMA LookUpKeeps ==
    ASSUME TreeInv, NEW c \in Creators, LookUp(c)
    PROVE  TreeInv'
<1> DEFINE p == making[c].path
           n == Len(making[c].at.path)
<1>1. making[c].step = "look up" /\ dirs' = dirs  BY DEF LookUp
<1>2. p \in Paths /\ Reached(making[c].at, Seen(c), p) /\ n < Len(p)  BY <1>1, LevelReached
<1>3. /\ making[c] \in Maker /\ Seen(c) \in SUBSET Row /\ Tree(Seen(c)) /\ OneId(Seen(c))
      /\ Making(making[c], dirs) /\ making[c].own \in SUBSET Row /\ making[c].own \subseteq All
  BY <1>1, UnderWay
<1>4. \A d \in Seen(c) : d \in Existing(c) <=> d.path = Upto(p, n + 1)
  <2> TAKE d \in Seen(c)
  <2>1. d \in Existing(c) <=> Last(d.path) = p[n + 1] /\ d.parent = making[c].at.id
    BY DEF Existing, Segment
  <2>2. Last(d.path) = p[n + 1] /\ d.parent = making[c].at.id <=> d.path = Upto(p, n + 1)
    BY <1>2, <1>3, NextRow
  <2> QED  BY <2>1, <2>2
<1>5. CASE Existing(c) = {}
  <2> DEFINE m == [making[c] EXCEPT !.step = "create"]
  <2>1. making' = [making EXCEPT ![c] = m] /\ making \in [Creators -> Maker]  BY <1>5 DEF LookUp, TreeInv
  <2>2. /\ m \in Maker /\ m.step = "create" /\ m.path = p /\ m.at = making[c].at /\ m.own = making[c].own
    BY <1>3 DEF Maker
  <2> HIDE DEF m
  <2>3. making' \in [Creators -> Maker] /\ making'[c] = m /\ \A e \in Creators \ {c} : making'[e] = making[e]
    BY <2>1, <2>2
  <2>4. \A d \in dirs \cup m.own : d.path # Upto(m.path, Len(m.at.path) + 1)
    BY <1>4, <1>5, <2>2 DEF Seen
  <2>5. Making(m, dirs)
    <3>1. /\ m.path \in Paths /\ Reached(m.at, dirs \cup m.own, m.path) /\ OnPath(m.own, m.path, dirs)
          /\ Len(m.at.path) < Len(m.path)
      BY <1>2, <1>3, <2>2 DEF Making
    <3> QED  BY <2>4, <3>1 DEF Making
  <2>6. MakerInv(m, dirs)  BY <1>3, <2>2, <2>5 DEF MakerInv, Seen
  <2>7. OneId(All')
    <3>1. \A e \in Creators : making'[e].own = making[e].own  BY <2>2, <2>3
    <3>2. All' = All  BY <1>1, <3>1 DEF All
    <3> QED  BY <3>2 DEF TreeInv
  <2> QED  BY <1>1, <2>2, <2>3, <2>6, <2>7, OneMaker
<1>6. CASE Existing(c) # {}
  <2>1. PICK d \in Existing(c) : Reach(c, d, making[c].own)  BY <1>6 DEF LookUp
  <2>2. d \in Seen(c) /\ d.path = Upto(p, n + 1)  BY <1>4, <2>1 DEF Existing
  <2>3. d \in Row /\ d \in dirs \cup making[c].own  BY <1>3, <2>2 DEF Seen
  <2>4. Tree(dirs \cup making[c].own) /\ OnPath(making[c].own, p, dirs)
    BY <1>3 DEF Seen, Making
  <2>5. OneId(All \cup making[c].own)
    <3>1. All \cup making[c].own = All  BY <1>3
    <3> QED  BY <3>1 DEF TreeInv
  <2> QED  BY <1>1, <1>3, <2>1, <2>2, <2>3, <2>4, <2>5, ReachKeeps
<1> QED  BY <1>5, <1>6

LEMMA CreateRowKeeps ==
    ASSUME TreeInv, NEW c \in Creators, CreateRow(c)
    PROVE  TreeInv'
<1> DEFINE p   == making[c].path
           at  == making[c].at
           n   == Len(making[c].at.path)
           id  == CHOOSE i \in Ids : i \notin UsedIds
           d   == [id |-> id, path |-> Append(at.path, Segment(c)), parent |-> at.id]
           own == making[c].own \cup {d}
<1>1. making[c].step = "create" /\ dirs' = dirs /\ Reach(c, d, own)  BY DEF CreateRow
<1>2. /\ p \in Paths /\ p \in Seq(STRING) /\ Reached(at, Seen(c), p) /\ n \in 0..Len(p) /\ n < Len(p)
      /\ at.path = Upto(p, n) /\ Upto(p, n + 1) \in Paths
  BY <1>1, LevelReached
<1>3. /\ making[c] \in Maker /\ Seen(c) \in SUBSET Row /\ Tree(Seen(c)) /\ OneId(Seen(c))
      /\ Making(making[c], dirs) /\ making[c].own \in SUBSET Row /\ making[c].own \subseteq All
  BY <1>1, UnderWay
<1>4. id \in Ids /\ id \notin UsedIds
  <2>1. \E i \in Ids : i \notin UsedIds  BY DEF CreateRow
  <2> QED  BY <2>1
<1>5. /\ Append(at.path, Segment(c)) = Upto(p, n + 1) /\ Len(Upto(p, n + 1)) = n + 1
      /\ Front(Upto(p, n + 1)) = at.path
  BY <1>2, NextLevel DEF Segment
<1> HIDE DEF id, d, own
<1>6. d.id = id /\ d.path = Upto(p, n + 1) /\ d.parent = at.id  BY <1>5 DEF d
<1>7. d \in Row
  <2>1. at.id \in Ids \cup {None}  BY <1>3 DEF Maker
  <2>2. d = [id |-> id, path |-> Upto(p, n + 1), parent |-> at.id]  BY <1>5 DEF d
  <2> QED  BY <1>2, <1>4, <2>1, <2>2 DEF Row
<1>8. \A e \in Seen(c) : e.path # Upto(p, n + 1)  BY <1>1, <1>3 DEF Making, Seen
<1>9. Tree(Seen(c) \cup {d})
  <2>1. \A e, f \in Seen(c) \cup {d} : e.path = f.path => e = f  BY <1>3, <1>6, <1>8 DEF Tree
  <2>2. \A f \in Seen(c) : IF Len(f.path) = 1 THEN f.parent = None
                           ELSE \E e \in Seen(c) \cup {d} : e.id = f.parent /\ e.path = Front(f.path)
    BY <1>3 DEF Tree
  <2>3. IF Len(d.path) = 1 THEN d.parent = None
        ELSE \E e \in Seen(c) \cup {d} : e.id = d.parent /\ e.path = Front(d.path)
    <3>1. CASE at = Root
      <4>1. at.path = <<>> /\ at.id = None  BY <3>1 DEF Root
      <4>2. n = 0
        <5>1. <<>> \in Seq(STRING)  BY EmptySeq
        <5> QED  BY <4>1, <5>1, EmptySeq
      <4> QED  BY <1>5, <1>6, <4>1, <4>2
    <3>2. CASE \E r \in Seen(c) : at = Place(r)
      <4>1. PICK r \in Seen(c) : at = Place(r)  BY <3>2
      <4>2. at.id = r.id /\ at.path = r.path  BY <4>1, PlaceOf
      <4>3. r.path \in Paths  BY <1>3 DEF Row
      <4>4. n \in Nat \ {0}  BY <4>2, <4>3, PathProperties
      <4>5. Len(d.path) # 1
        <5>1. n + 1 # 1
          <6> HIDE DEF n
          <6> QED  BY <4>4
        <5> QED  BY <1>5, <1>6, <5>1
      <4> QED  BY <1>5, <1>6, <4>2, <4>5
    <3> QED  BY <1>2, <3>1, <3>2 DEF Reached
  <2> QED  BY <2>1, <2>2, <2>3 DEF Tree
<1>10. own \in SUBSET Row /\ making[c].own \subseteq own /\ own \subseteq making[c].own \cup {d} /\ d \in dirs \cup own
  BY <1>3, <1>7 DEF own
<1>11. Tree(dirs \cup own)
  <2>1. dirs \cup own = Seen(c) \cup {d}  BY DEF Seen, own
  <2> QED  BY <1>9, <2>1
<1>12. OnPath(own, p, dirs)
  <2>1. OnPath(making[c].own, p, dirs)  BY <1>3 DEF Making
  <2>2. Len(d.path) <= Len(p) /\ d.path = Upto(p, Len(d.path))
    <3>1. Len(p) \in Nat /\ n \in Nat
      <4>1. Len(p) \in Nat  BY <1>2, PathProperties
      <4> HIDE DEF n, p
      <4> QED  BY <1>2, <4>1, Levels
    <3>2. n + 1 <= Len(p)  BY <1>2, <3>1, Levels
    <3> QED  BY <1>5, <1>6, <3>2
  <2>3. \A e \in dirs : e.path # d.path  BY <1>6, <1>8 DEF Seen
  <2> QED  BY <2>1, <2>2, <2>3 DEF OnPath, own
<1>13. OneId(All \cup own)
  <2>1. \A e \in All : e.id # d.id
    <3>1. \A e \in All : \E x \in Creators : e \in Seen(x)  BY DEF All, Seen
    <3>2. \A e \in All : e.id \in UsedIds  BY <3>1 DEF UsedIds
    <3> QED  BY <1>4, <1>6, <3>2
  <2>2. All \cup own = All \cup {d}  BY <1>3 DEF own
  <2>3. OneId(All)  BY DEF TreeInv
  <2> QED  BY <2>1, <2>2, <2>3 DEF OneId
<1>14. making[c].step \in {"look up", "create"}  BY <1>1
<1> QED  BY <1>1, <1>6, <1>7, <1>10, <1>11, <1>12, <1>13, <1>14, ReachKeeps

LEMMA CommitKeeps ==
    ASSUME TreeInv, NEW c \in Creators, Commit(c)
    PROVE  TreeInv'
<1> DEFINE new == making[c].own
<1>1. dirs' = dirs \cup new /\ making' = [making EXCEPT ![c] = Quiet] /\ making[c].step = "commit"
  BY DEF Commit, Seen
<1>2. /\ making[c] \in Maker /\ Tree(dirs \cup new) /\ dirs \cup new \subseteq Row
      /\ Making(making[c], dirs)
  BY <1>1, UnderWay DEF Seen
<1>3. Quiet \in Maker /\ Quiet.step = "idle" /\ Quiet.own = {}  BY DEF Quiet, Maker, Root
<1>4. making' \in [Creators -> Maker] /\ making'[c] = Quiet /\ \A e \in Creators \ {c} : making'[e] = making[e]
  BY <1>1, <1>3 DEF TreeInv
<1>5. All' \subseteq All
  <2>1. \A e \in Creators : making'[e].own \subseteq making[e].own  BY <1>3, <1>4
  <2>2. new \subseteq All /\ dirs \subseteq All  BY UnderWay
  <2> QED  BY <1>1, <2>1, <2>2 DEF All
<1>6. \* Another request's path has no level among the new rows.
      ASSUME NEW e \in Creators \ {c}, making[e].step # "idle", NEW a \in new,
             IsPrefix(a.path, making[e].path)
      PROVE  FALSE
  <2>1. a.path \in Paths /\ making[c].path \in Paths  BY <1>2 DEF Row, Making
  <2>2. OnPath(new, making[c].path, dirs)  BY <1>2 DEF Making
  <2>3. Len(a.path) <= Len(making[c].path) /\ a.path = Upto(making[c].path, Len(a.path))
    BY <2>2 DEF OnPath
  <2>4. a.path \in Seq(STRING) /\ making[c].path \in Seq(STRING)  BY <2>1, PathProperties
  <2>5. IsPrefix(a.path, making[c].path)  BY <2>3, <2>4, PrefixIsUpto
  <2>6. PICK d \in dirs : d.path = a.path
    <3>1. making[c].step # "idle"  BY <1>1
    <3> QED  BY <1>6, <2>1, <2>5, <3>1 DEF TreeInv, SharedRecorded
  <2> QED  BY <2>2, <2>6 DEF OnPath
<1>7. ASSUME NEW e \in Creators \ {c} PROVE MakerInv(making[e], dirs \cup new)
  <2> DEFINE m == making[e]
  <2>1. Tree(dirs \cup m.own)  BY DEF TreeInv, MakerInv
  <2>2. CASE m.step = "idle"
    <3>1. m.own = {}  BY <2>2, UnderWay
    <3>2. dirs \cup new \cup m.own = dirs \cup new  BY <3>1
    <3> QED  BY <1>2, <2>2, <3>1, <3>2 DEF MakerInv
  <2>3. CASE m.step # "idle"
    <3>1. Making(m, dirs) /\ m.own \in SUBSET Row  BY <2>3, UnderWay
    <3>2. m.path \in Paths /\ m.path \in Seq(STRING)  BY <3>1, PathProperties DEF Making
    <3>3. \A b \in m.own : b.path \in Seq(STRING) /\ IsPrefix(b.path, m.path)
      <4> TAKE b \in m.own
      <4>1. b.path \in Paths  BY <3>1 DEF Row
      <4>2. b.path \in Seq(STRING)  BY <4>1, PathProperties
      <4>3. Len(b.path) <= Len(m.path) /\ b.path = Upto(m.path, Len(b.path))  BY <3>1 DEF Making, OnPath
      <4> QED  BY <3>2, <4>2, <4>3, PrefixIsUpto
    <3>4. \A a \in new, b \in m.own : a.path # b.path  BY <1>6, <2>3, <3>3
    <3>5. Tree(dirs \cup new \cup m.own)  BY <1>2, <2>1, <3>4, TreesJoin
    <3>6. Reached(m.at, (dirs \cup new) \cup m.own, m.path)  BY <3>1 DEF Making, Reached
    <3>7. OnPath(m.own, m.path, dirs \cup new)  BY <3>1, <3>4 DEF Making, OnPath
    <3>8. ASSUME m.step = "create"
          PROVE  \A d \in (dirs \cup new) \cup m.own : d.path # Upto(m.path, Len(m.at.path) + 1)
      <4>1. \A d \in dirs \cup m.own : d.path # Upto(m.path, Len(m.at.path) + 1)
        BY <3>1, <3>8 DEF Making
      <4>2. ASSUME NEW a \in new, a.path = Upto(m.path, Len(m.at.path) + 1) PROVE FALSE
        <5> DEFINE k == Len(m.at.path) + 1
        <5>1. k \in 1..Len(m.path) /\ Upto(m.path, k) \in Paths  BY <3>8, LevelReached
        <5>2. Len(m.path) \in Nat /\ Upto(m.path, k) \in Seq(STRING)  BY <3>2, <5>1, PathProperties
        <5> HIDE DEF k
        <5>3. k \in 0..Len(m.path) /\ k <= Len(m.path)
          <6> HIDE DEF m
          <6> QED  BY <5>1, <5>2
        <5>4. Len(Upto(m.path, k)) = k  BY <3>2, <5>3, UptoProperties
        <5>5. IsPrefix(Upto(m.path, k), m.path)  BY <3>2, <5>2, <5>3, <5>4, PrefixIsUpto
        <5> QED  BY <1>6, <2>3, <4>2, <5>5 DEF k
      <4> QED  BY <4>1, <4>2
    <3>9. Making(m, dirs \cup new)  BY <3>1, <3>6, <3>7, <3>8 DEF Making
    <3> QED  BY <2>3, <3>5, <3>9 DEF MakerInv
  <2> QED  BY <2>2, <2>3
<1>8. MakerInv(Quiet, dirs \cup new)
  <2>1. dirs \cup new \cup Quiet.own = dirs \cup new  BY <1>3
  <2> QED  BY <1>2, <1>3, <2>1 DEF MakerInv
<1>9. SharedRecorded(making', dirs \cup new)
  <2> SUFFICES ASSUME NEW a \in Creators, NEW b \in Creators, a # b,
                      making'[a].step # "idle", making'[b].step # "idle",
                      NEW q \in Paths, IsPrefix(q, making'[a].path), IsPrefix(q, making'[b].path)
               PROVE  \E d \in dirs \cup new : d.path = q
    BY DEF SharedRecorded
  <2>1. a # c /\ b # c  BY <1>3, <1>4
  <2>2. making'[a] = making[a] /\ making'[b] = making[b]  BY <1>4, <2>1
  <2> QED  BY <2>2 DEF TreeInv, SharedRecorded
<1>10. OneId(All')  BY <1>5, FewerIds DEF TreeInv
<1>11. \A e \in Creators : MakerInv(making'[e], dirs')  BY <1>1, <1>4, <1>7, <1>8
<1> HIDE DEF new
<1> QED  BY <1>1, <1>2, <1>4, <1>9, <1>10, <1>11 DEF TreeInv, OneId, All

\* A folder is removed when no request is under way.
LEMMA RemoveFolderKeeps ==
    ASSUME TreeInv, Overlaps = "none", NEW p \in Paths, RemoveFolder(p)
    PROVE  TreeInv'
<1>1. dirs' = {d \in dirs : ~IsPrefix(p, d.path)} /\ making' = making /\ dirs' \subseteq dirs
  BY DEF RemoveFolder
<1>2. \A c \in Creators : making[c].step = "idle" /\ making[c].own = {}
  <2> TAKE c \in Creators
  <2>1. making[c].step = "idle"  BY DEF RemoveFolder, Undisturbed, Active
  <2> QED  BY <2>1, UnderWay
<1>3. Tree(dirs')  BY <1>1, TreeWithout DEF TreeInv
<1>4. \A c \in Creators : MakerInv(making[c], dirs')
  <2> TAKE c \in Creators
  <2>1. dirs' \cup making[c].own = dirs'  BY <1>2
  <2> QED  BY <1>2, <1>3, <2>1 DEF MakerInv
<1>5. OneId(All')
  <2>1. All' \subseteq All  BY <1>1 DEF All
  <2> QED  BY <2>1, FewerIds DEF TreeInv
<1>6. SharedRecorded(making, dirs')  BY <1>2 DEF SharedRecorded
<1> QED  BY <1>1, <1>3, <1>4, <1>5, <1>6 DEF TreeInv, OneId, All

LEMMA TreeStep ==
    ASSUME TreeInv, Overlaps = "none", [Next]_vars
    PROVE  TreeInv'
<1>1. ASSUME NEW c \in Creators, Make(c) PROVE TreeInv'
  <2>1. ASSUME NEW p \in Paths, MakeFolder(c, p) PROVE TreeInv'  BY <2>1, MakeFolderKeeps
  <2>2. CASE LookUp(c)  BY <2>2, LookUpKeeps
  <2>3. CASE CreateRow(c)  BY <2>3, CreateRowKeeps
  <2>4. CASE Commit(c)  BY <2>4, CommitKeeps
  <2>5. CASE RollBack(c)
    <3>1. dirs' = dirs /\ making' = [making EXCEPT ![c] = Quiet]  BY <2>5 DEF RollBack
    <3> QED  BY <3>1, RollBackKeeps
  <2> QED  BY <1>1, <2>1, <2>2, <2>3, <2>4, <2>5 DEF Make
<1>2. ASSUME NEW f \in Names, Upload(f) \/ Delete(f) PROVE TreeInv'
  BY <1>2, OthersKeep DEF Upload, Delete
<1>3. ASSUME NEW p \in Paths, RemoveFolder(p) PROVE TreeInv'  BY <1>3, RemoveFolderKeeps
<1>4. CASE Read
  <2>1. UNCHANGED <<dirs, making>>
    BY <1>4 DEF Read, Open, CountDirs, CountFiles, ReadDirs, ReadFiles, Close, Go
  <2> QED  BY <2>1, OthersKeep
<1>5. CASE UNCHANGED vars  BY <1>5, OthersKeep DEF vars
<1> QED  BY <1>1, <1>2, <1>3, <1>4, <1>5 DEF Next

LEMMA TreeInit == Init => TreeInv
<1> SUFFICES ASSUME Init PROVE TreeInv
  OBVIOUS
<1>1. Quiet \in Maker /\ Quiet.step = "idle" /\ Quiet.own = {}  BY DEF Quiet, Maker, Root
<1>2. dirs = {} /\ making = [c \in Creators |-> Quiet]  BY DEF Init
<1>3. making \in [Creators -> Maker] /\ \A c \in Creators : making[c] = Quiet  BY <1>1, <1>2
<1>4. All = {}  BY <1>1, <1>2, <1>3 DEF All
<1>5. Tree({}) /\ OneId({})  BY DEF Tree, OneId
<1>6. \A c \in Creators : MakerInv(making[c], dirs)  BY <1>1, <1>2, <1>3, <1>5 DEF MakerInv
<1>7. SharedRecorded(making, dirs)  BY <1>1, <1>3 DEF SharedRecorded
<1> QED  BY <1>2, <1>3, <1>4, <1>5, <1>6, <1>7 DEF TreeInv

\* The directory rows are the folders' tree at all times (EnsureDirectoryMetadata and
\* HideFolderSubtree), for any paths, ids and number of requests, when concurrent
\* requests share recorded levels only and nothing is removed under them.
THEOREM RowsAreATree ==
    ASSUME Overlaps = "none"
    PROVE  Spec => []FolderTree
<1>1. TreeInv => FolderTree  BY DEF TreeInv, Tree, FolderTree
<1>2. TreeInv /\ [Next]_vars => TreeInv'  BY TreeStep
<1> QED  BY <1>1, <1>2, TreeInit, PTL DEF Spec

-----------------------------------------------------------------------------
(* Ranks and slices *)

\* An entry's rank is below the number of entries.
LEMMA RankBound ==
    ASSUME NEW S, IsFiniteSet(S), NEW key \in [S -> Int], NEW x \in S
    PROVE  Rank(key, x) \in Nat /\ Rank(key, x) < Cardinality(S)
<1> DEFINE B == {y \in S : key[y] < key[x]}
<1>1. Rank(key, x) = Cardinality(B)  BY DEF Rank
<1>2. B \in SUBSET S /\ x \notin B  OBVIOUS
<1> HIDE DEF B
<1>3. IsFiniteSet(B) /\ Cardinality(B) <= Cardinality(S) /\ (Cardinality(S) = Cardinality(B) => S = B)
  BY <1>2, FS_Subset
<1>4. Cardinality(B) \in Nat /\ Cardinality(S) \in Nat  BY <1>3, FS_CardinalityType
<1>5. Cardinality(S) # Cardinality(B)  BY <1>2, <1>3
<1> QED  BY <1>1, <1>3, <1>4, <1>5

\* Entries that come in between only raise it.
LEMMA RankGrows ==
    ASSUME NEW S, NEW T, S \subseteq T, IsFiniteSet(T), NEW key \in [S -> Int], NEW more \in [T -> Int],
           \A y \in S : more[y] = key[y], NEW x \in S
    PROVE  Rank(key, x) \in Nat /\ Rank(more, x) \in Nat /\ Rank(key, x) <= Rank(more, x)
<1> DEFINE A == {y \in S : key[y] < key[x]}
           B == {y \in T : more[y] < more[x]}
<1>1. Rank(key, x) = Cardinality(A) /\ Rank(more, x) = Cardinality(B)  BY DEF Rank
<1>2. A \in SUBSET B /\ B \in SUBSET T  OBVIOUS
<1> HIDE DEF A, B
<1>3. IsFiniteSet(B)  BY <1>2, FS_Subset
<1>4. IsFiniteSet(A) /\ Cardinality(A) <= Cardinality(B)  BY <1>2, <1>3, FS_Subset
<1> QED  BY <1>1, <1>3, <1>4, FS_CardinalityType

\* A list of the set S without repetitions holds all of it.
LEMMA ListsAll ==
    ASSUME NEW S, IsFiniteSet(S), NEW rows \in SetToSeqs(S), NEW x \in S
    PROVE  \E n \in 1..Cardinality(S) : rows[n] = x
<1> DEFINE N == Cardinality(S)
<1>1. N \in Nat /\ IsFiniteSet(1..N) /\ Cardinality(1..N) = N
  <2>1. N \in Nat  BY FS_CardinalityType
  <2> HIDE DEF N
  <2> QED  BY <2>1, FS_Interval
<1>2. rows \in [1..N -> S] /\ \A i, j \in 1..N : i # j => rows[i] # rows[j]  BY DEF SetToSeqs
<1> HIDE DEF N
<1>3. rows \in Injection(1..N, S)  BY <1>2 DEF Injection, IsInjective
<1>4. Cardinality(S) = N  BY DEF N
<1>5. rows \in Surjection(1..N, S)  BY <1>1, <1>3, <1>4, FS_Injection
<1> QED  BY <1>4, <1>5 DEF Surjection

\* In a list sorted by distinct keys every entry is at its rank.
LEMMA SortedByRank ==
    ASSUME NEW S, IsFiniteSet(S), NEW key \in [S -> Int], \A y, z \in S : key[y] = key[z] => y = z,
           NEW rows \in SetToSeqs(S), \A m, n \in 1..Len(rows) : m < n => key[rows[m]] <= key[rows[n]],
           NEW n \in 1..Cardinality(S)
    PROVE  rows[n] \in S /\ Rank(key, rows[n]) = n - 1
<1> DEFINE N == Cardinality(S)
           B == {y \in S : key[y] < key[rows[n]]}
<1>1. N \in Nat /\ n \in 1..N  BY FS_CardinalityType
<1>2. rows \in [1..N -> S] /\ \A i, j \in 1..N : i # j => rows[i] # rows[j]  BY DEF SetToSeqs
<1>3. Len(rows) = N  BY <1>1, <1>2
<1>4. rows[n] \in S /\ Rank(key, rows[n]) = Cardinality(B)  BY <1>2 DEF Rank
<1>5. \A i \in 1..N : rows[i] \in B <=> i < n
  <2> TAKE i \in 1..N
  <2>1. rows[i] \in S /\ key[rows[i]] \in Int /\ key[rows[n]] \in Int  BY <1>2, <1>4
  <2>2. ASSUME i < n PROVE rows[i] \in B
    <3>1. key[rows[i]] <= key[rows[n]]  BY <1>3, <2>2
    <3>2. key[rows[i]] # key[rows[n]]  BY <1>2, <1>4, <2>1, <2>2
    <3> QED  BY <2>1, <3>1, <3>2
  <2>3. ASSUME rows[i] \in B PROVE i < n
    <3>1. ~(n < i)  BY <1>3, <2>1, <2>3
    <3>2. i # n  BY <2>1, <2>3
    <3> QED  BY <1>1, <3>1, <3>2
  <2> QED  BY <2>2, <2>3
<1>6. Cardinality(B) = n - 1
  <2> DEFINE f == [i \in 1..(n - 1) |-> rows[i]]
  <2>1. n - 1 \in Nat /\ \A i \in 1..(n - 1) : i \in 1..N /\ i < n  BY <1>1
  <2>2. f \in [1..(n - 1) -> B]  BY <1>5, <2>1
  <2>3. \A i, j \in 1..(n - 1) : f[i] = f[j] => i = j  BY <1>2, <2>1
  <2>4. \A y \in B : \E i \in 1..(n - 1) : f[i] = y
    <3> TAKE y \in B
    <3>1. PICK i \in 1..N : rows[i] = y  BY ListsAll
    <3>2. i \in 1..(n - 1)  BY <1>1, <1>5, <3>1
    <3> QED  BY <3>1, <3>2
  <2> HIDE DEF f, B
  <2>5. f \in Bijection(1..(n - 1), B)  BY <2>2, <2>3, <2>4 DEF Bijection, Injection, Surjection, IsInjective
  <2>6. ExistsBijection(1..(n - 1), B)  BY <2>5 DEF ExistsBijection
  <2> QED  BY <2>1, <2>6, FS_CountingElements
<1> QED  BY <1>4, <1>6

\* ORDER BY distinct keys, LIMIT and OFFSET return the entries of the ranks asked for.
LEMMA SliceHolds ==
    ASSUME NEW S, IsFiniteSet(S), NEW key \in [S -> Int], \A y, z \in S : key[y] = key[z] => y = z,
           NEW limit, NEW offset, NEW slice \in Slices(key, limit, offset),
           NEW x \in S, Covers(limit, offset, Rank(key, x))
    PROVE  x \in slice
<1>1. DOMAIN key = S  OBVIOUS
<1>2. PICK rows \in {s \in SetToSeqs(S) : \A m, n \in 1..Len(s) : m < n => key[s[m]] <= key[s[n]]} :
             slice = {rows[n] : n \in {m \in 1..Len(rows) : Covers(limit, offset, m - 1)}}
  BY <1>1 DEF Slices
<1>3. PICK n \in 1..Cardinality(S) : rows[n] = x  BY <1>2, ListsAll
<1>4. Rank(key, x) = n - 1  BY <1>2, <1>3, SortedByRank
<1>5. Len(rows) = Cardinality(S)
  <2>1. Cardinality(S) \in Nat  BY FS_CardinalityType
  <2>2. rows \in [1..Cardinality(S) -> S]  BY <1>2 DEF SetToSeqs
  <2> QED  BY <2>1, <2>2
<1> QED  BY <1>2, <1>3, <1>4, <1>5

LEMMA SliceIsOf ==
    ASSUME NEW S, IsFiniteSet(S), NEW key \in [S -> Int],
           NEW limit, NEW offset, NEW slice \in Slices(key, limit, offset)
    PROVE  slice \subseteq S
<1>1. DOMAIN key = S  OBVIOUS
<1>2. PICK rows \in SetToSeqs(S) : slice = {rows[n] : n \in {m \in 1..Len(rows) : Covers(limit, offset, m - 1)}}
  BY <1>1 DEF Slices
<1>3. Cardinality(S) \in Nat /\ rows \in [1..Cardinality(S) -> S]  BY FS_CardinalityType DEF SetToSeqs
<1> QED  BY <1>2, <1>3

-----------------------------------------------------------------------------
(* The reader *)

LEMMA PageNumbers ==
    ASSUME NEW page \in Nat \ {0}
    PROVE  /\ PageBounds(page, PageSize).limit \in Nat \ {0}
           /\ PageBounds(page, PageSize).offset \in Nat
<1> DEFINE s == PageBounds(page, PageSize).limit
<1>1. s \in Nat \ {0}  BY LimitBounds, ListingAssumption
<1>2. PageBounds(page, PageSize).offset = (page - 1) * s  BY DEF PageBounds
<1>3. page - 1 \in Nat  OBVIOUS
<1> HIDE DEF s
<1>4. \A n \in Nat : n * s \in Nat  BY <1>1
<1> QED  BY <1>1, <1>2, <1>3, <1>4 DEF s

\* The folders and the files of a listing, with keys that tell them apart.
LEMMA Listed ==
    ASSUME TreeInv, ReaderInv, DistinctKeys
    PROVE  /\ IsFiniteSet(RootDirs) /\ Cardinality(RootDirs) \in Nat
           /\ DirKey \in [RootDirs -> Int] /\ \A d, e \in RootDirs : DirKey[d] = DirKey[e] => d = e
           /\ IsFiniteSet(files) /\ Cardinality(files) \in Nat
           /\ FileKey \in [files -> Int] /\ \A f, g \in files : FileKey[f] = FileKey[g] => f = g
           /\ \A d \in RootDirs : Rank(DirKey, d) \in Nat /\ Rank(DirKey, d) < Cardinality(RootDirs)
           /\ \A f \in files : Rank(FileKey, f) \in Nat /\ Rank(FileKey, f) < Cardinality(files)
<1>1. RootDirs \in SUBSET dirs /\ dirs \subseteq Row  BY DEF RootDirs, TreeInv
<1>2. IsFiniteSet(dirs) /\ IsFiniteSet(files) /\ files \subseteq Names  BY DEF ReaderInv
<1>3. IsFiniteSet(RootDirs)  BY <1>1, <1>2, FS_Subset
<1>4. \A d \in RootDirs : d.path \in TopPaths /\ SortKey[d.path] \in Int
  BY <1>1, ListingAssumption DEF RootDirs, Row, TopPaths
<1>5. \A f \in files : SortKey[f] \in Int  BY <1>2, ListingAssumption
<1>6. DirKey \in [RootDirs -> Int] /\ \A d \in RootDirs : DirKey[d] = SortKey[d.path]  BY <1>4 DEF DirKey
<1>7. FileKey \in [files -> Int] /\ \A f \in files : FileKey[f] = SortKey[f]  BY <1>5 DEF FileKey
<1>8. \A d, e \in RootDirs : DirKey[d] = DirKey[e] => d = e
  <2> SUFFICES ASSUME NEW d \in RootDirs, NEW e \in RootDirs, DirKey[d] = DirKey[e] PROVE d = e
    OBVIOUS
  <2>1. d.path = e.path  BY <1>4, <1>6 DEF DistinctKeys
  <2> QED  BY <1>1, <2>1 DEF TreeInv, Tree
<1>9. \A f, g \in files : FileKey[f] = FileKey[g] => f = g  BY <1>2, <1>7 DEF DistinctKeys
<1>10. Cardinality(RootDirs) \in Nat /\ Cardinality(files) \in Nat  BY <1>2, <1>3, FS_CardinalityType
<1>11. \A d \in RootDirs : Rank(DirKey, d) \in Nat /\ Rank(DirKey, d) < Cardinality(RootDirs)
  BY <1>3, <1>6, RankBound
<1>12. \A f \in files : Rank(FileKey, f) \in Nat /\ Rank(FileKey, f) < Cardinality(files)
  BY <1>2, <1>7, RankBound
<1> QED  BY <1>2, <1>3, <1>6, <1>7, <1>8, <1>9, <1>10, <1>11, <1>12

\* What was there all along is in the root, as a folder or as a file.
LEMMA SteadyIsListed ==
    ASSUME TreeInv, ReaderInv, reader.step # "rest", NEW x \in reader.steady
    PROVE  x \in files \/ \E d \in RootDirs : d.path = x
<1>1. x \in Entries  BY DEF ReaderInv
<1>2. ASSUME NEW d \in dirs, d.parent = None, d.path = x PROVE d \in RootDirs
  <2>1. ASSUME Len(d.path) # 1 PROVE FALSE
    <3>1. PICK e \in dirs : e.id = d.parent  BY <2>1 DEF TreeInv, Tree
    <3> QED  BY <1>2, <3>1, ListingAssumption DEF TreeInv, Row
  <2> QED  BY <2>1 DEF RootDirs
<1> QED  BY <1>1, <1>2 DEF Entries

LEMMA ReaderInit == Init => ReaderInv
<1> SUFFICES ASSUME Init PROVE ReaderInv
  OBVIOUS
<1>1. dirs = {} /\ files = {} /\ reader = Resting /\ making = [c \in Creators |-> Quiet]  BY DEF Init
<1>2. IsFiniteSet({})  BY FS_EmptySet
<1>3. reader.step = "rest" /\ reader \in Readers  BY <1>1 DEF Resting, Readers, ReaderSteps
<1>4. \A c \in Creators : making[c].own = {}  BY <1>1 DEF Quiet
<1> QED  BY <1>1, <1>2, <1>3, <1>4 DEF ReaderInv, Readers, Counted, Covered, NothingSkipped, Reading, LastPage

\* A reader at rest relies on nothing.
LEMMA AtRest ==
    ASSUME IsFiniteSet(dirs'), IsFiniteSet(files'), files' \subseteq Names,
           \A c \in Creators : IsFiniteSet(making'[c].own), reader' \in Readers, reader'.step = "rest"
    PROVE  ReaderInv'
    BY DEF ReaderInv, Readers, Counted, Covered, NothingSkipped, Reading, LastPage

\* Entries are added only when the reader can do without them.
LEMMA MoreEntries ==
    ASSUME TreeInv, TreeInv', ReaderInv, DistinctKeys, Overlaps = "none", Unread, reader' = reader,
           dirs \subseteq dirs', IsFiniteSet(dirs'), files \subseteq files', IsFiniteSet(files'),
           files' \subseteq Names, \A c \in Creators : IsFiniteSet(making'[c].own)
    PROVE  ReaderInv'
<1>1. reader \in Readers  BY DEF ReaderInv, Readers
<1>2. CASE reader.step = "rest"  BY <1>1, <1>2, AtRest
<1>3. CASE reader.step # "rest"
  <2>1. /\ reader.page \in Nat \ {0} /\ reader.steady \subseteq Entries
        /\ reader.dirs \in Nat /\ reader.files \in Nat
    <3>1. reader.page > 0 /\ reader.steady \subseteq Entries  BY <1>3 DEF ReaderInv
    <3>2. reader.page \in Nat /\ reader.dirs \in Nat /\ reader.files \in Nat  BY <1>1 DEF Readers
    <3> QED  BY <3>1, <3>2
  <2>2. Page.offset \in Nat /\ Page.limit \in Nat \ {0} /\ Page' = Page /\ NextFrom' = NextFrom
    BY <2>1, PageNumbers DEF Page, NextFrom
  <2>3. ~(reader.step = "countFiles" \/ LastPage)
    <3> DEFINE total == reader.dirs + reader.files
    <3>1. reader.step = "countDirs" \/ (reader.step # "countFiles" /\ NextFrom < total)
      BY <1>3 DEF Unread, NextFrom, Page
    <3>2. ~(NextFrom < total /\ NextFrom >= total)
      <4>1. NextFrom \in Nat /\ total \in Nat  BY <2>1, <2>2 DEF NextFrom
      <4> HIDE DEF total
      <4> QED  BY <4>1
    <3>3. LastPage => reader.step \in {"readDirs", "readFiles"} /\ NextFrom >= total  BY DEF LastPage
    <3> HIDE DEF total
    <3> QED  BY <3>1, <3>2, <3>3
  <2>4. RootDirs \subseteq RootDirs' /\ IsFiniteSet(RootDirs') /\ RootDirs' \subseteq dirs'
    <3>1. RootDirs' \in SUBSET dirs' /\ RootDirs \subseteq RootDirs'  BY DEF RootDirs
    <3> QED  BY <3>1, FS_Subset
  <2>5. /\ Cardinality(RootDirs) \in Nat /\ Cardinality(RootDirs') \in Nat
        /\ Cardinality(RootDirs) <= Cardinality(RootDirs')
    <3>1. RootDirs \in SUBSET RootDirs'  BY <2>4
    <3> QED  BY <2>4, <3>1, FS_Subset, FS_CardinalityType
  <2>6. ASSUME NEW d \in RootDirs', d.path \in reader.steady
        PROVE  /\ d \in RootDirs /\ Rank(DirKey, d) \in Nat /\ Rank(DirKey', d) \in Nat
               /\ Rank(DirKey, d) <= Rank(DirKey', d) /\ Rank(DirKey, d) < Cardinality(RootDirs)
    <3>1. d \in dirs' /\ d.path \in Paths  BY <2>4, <2>6 DEF TreeInv, Row
    <3>2. d.path \notin files  BY <3>1, ListingAssumption DEF ReaderInv
    <3>3. PICK e \in RootDirs : e.path = d.path  BY <1>3, <2>6, <3>2, SteadyIsListed
    <3>4. e = d  BY <2>4, <3>1, <3>3 DEF TreeInv, Tree
    <3>5. DirKey \in [RootDirs -> Int] /\ Rank(DirKey, d) < Cardinality(RootDirs)  BY <3>3, <3>4, Listed
    <3>6. \A r \in RootDirs' : r.path \in TopPaths /\ SortKey[r.path] \in Int
      BY <2>4, ListingAssumption DEF RootDirs, TreeInv, Row, TopPaths
    <3>7. DirKey' \in [RootDirs' -> Int] /\ \A r \in RootDirs : DirKey'[r] = DirKey[r]
      BY <2>4, <3>6 DEF DirKey
    <3> QED  BY <2>4, <3>3, <3>4, <3>5, <3>7, RankGrows
  <2>7. ASSUME NEW f \in files', f \in reader.steady
        PROVE  /\ f \in files /\ Rank(FileKey, f) \in Nat /\ Rank(FileKey', f) \in Nat
               /\ Rank(FileKey, f) <= Rank(FileKey', f)
    <3>1. f \in Names  OBVIOUS
    <3>2. \A d \in RootDirs : d.path \in Paths  BY DEF RootDirs, TreeInv, Row
    <3>3. f \in files  BY <1>3, <2>7, <3>1, <3>2, SteadyIsListed, ListingAssumption
    <3>4. FileKey \in [files -> Int]  BY Listed
    <3>5. \A g \in files' : SortKey[g] \in Int  BY ListingAssumption
    <3>6. FileKey' \in [files' -> Int] /\ \A g \in files : FileKey'[g] = FileKey[g]  BY <3>5 DEF FileKey
    <3> QED  BY <3>3, <3>4, <3>6, RankGrows
  <2>8. ASSUME NEW n \in Int, NEW seen, DirsSeen(n, seen) PROVE DirsSeen(n, seen)'
    BY <2>6, <2>8 DEF DirsSeen
  <2>9. ASSUME NEW n \in Int, NEW seen, FilesSeen(n, seen) PROVE FilesSeen(n, seen)'
    BY <2>7, <2>9 DEF FilesSeen
  <2>10. ASSUME NEW seen, DirsSeen(Cardinality(RootDirs), seen) PROVE DirsSeen(Cardinality(RootDirs), seen)'
    BY <2>6, <2>10 DEF DirsSeen
  <2>11. Covered'
    <3>1. ASSUME reader.step = "countDirs"
          PROVE  DirsSeen(Page.offset, reader.shown)' /\ FilesSeen(Page.offset - Cardinality(RootDirs), reader.shown)'
      <4>1. DirsSeen(Page.offset, reader.shown) /\ FilesSeen(Page.offset - Cardinality(RootDirs), reader.shown)
        BY <3>1 DEF ReaderInv, Covered
      <4>2. DirsSeen(Page.offset, reader.shown)'  BY <2>2, <2>8, <4>1
      <4>3. /\ Page.offset - Cardinality(RootDirs) \in Int /\ Page.offset - Cardinality(RootDirs') \in Int
            /\ Page.offset - Cardinality(RootDirs') <= Page.offset - Cardinality(RootDirs)
        BY <2>2, <2>5
      <4>4. ASSUME NEW f \in files', f \in reader.steady,
                   Rank(FileKey', f) < Page.offset - Cardinality(RootDirs')
            PROVE  f \in reader.shown
        <5>1. /\ f \in files /\ Rank(FileKey, f) \in Nat /\ Rank(FileKey', f) \in Nat
              /\ Rank(FileKey, f) <= Rank(FileKey', f)
          BY <2>7, <4>4
        <5>2. Rank(FileKey, f) < Page.offset - Cardinality(RootDirs)  BY <4>3, <4>4, <5>1
        <5> QED  BY <4>1, <4>4, <5>1, <5>2 DEF FilesSeen
      <4>5. FilesSeen(Page.offset - Cardinality(RootDirs), reader.shown)'  BY <2>2, <4>4 DEF FilesSeen
      <4> QED  BY <4>2, <4>5
    <3>2. ASSUME Reading
          PROVE  Earlier'
      <4>1. /\ DirsSeen(Page.offset, reader.shown) /\ FilesSeen(Page.offset - reader.dirs, reader.shown)
            /\ Page.offset >= reader.dirs => DirsSeen(Cardinality(RootDirs), reader.shown)
        <5>1. Earlier  BY <3>2 DEF ReaderInv, Covered
        <5> QED  BY <5>1 DEF Earlier
      <4>2. Page.offset - reader.dirs \in Int  BY <2>1, <2>2
      <4> QED  BY <2>2, <2>8, <2>9, <2>10, <4>1, <4>2 DEF Earlier
    <3>3. ASSUME reader.step = "readFiles" PROVE DirsSeen(NextFrom, reader.shown \cup reader.got)'
      <4>1. DirsSeen(NextFrom, reader.shown \cup reader.got)  BY <3>3 DEF ReaderInv, Covered
      <4>2. NextFrom \in Int  BY <2>2 DEF NextFrom
      <4> QED  BY <2>2, <2>8, <4>1, <4>2
    <3>4. Reading' <=> Reading  BY DEF Reading
    <3> QED  BY <2>2, <3>1, <3>2, <3>3, <3>4 DEF Covered
  <2>12. Counted'
    <3>1. LastPage' <=> LastPage  BY <2>2 DEF LastPage
    <3>2. Reading' <=> Reading  BY DEF Reading
    <3>3. Reading => reader.dirs <= Cardinality(RootDirs)  BY DEF ReaderInv, Counted
    <3>4. Reading => reader.dirs <= Cardinality(RootDirs')  BY <2>1, <2>5, <3>3
    <3> QED  BY <2>3, <3>1, <3>2, <3>4 DEF Counted
  <2>13. Entries \subseteq Entries'  BY DEF Entries
  <2>14. NothingSkipped'  BY DEF ReaderInv, NothingSkipped
  <2> QED  BY <1>1, <2>1, <2>11, <2>12, <2>13, <2>14 DEF ReaderInv, Readers
<1> QED  BY <1>2, <1>3

\* Nothing changes but what the reader knows.
LEMMA ReadOnly ==
    ASSUME TreeInv, ReaderInv, DistinctKeys, UNCHANGED <<dirs, files, making>>,
           reader' \in Readers, reader'.step # "rest",
           reader'.page > 0, reader'.steady \subseteq Entries, Counted', Covered', NothingSkipped'
    PROVE  ReaderInv'
<1>1. Entries' = Entries  BY DEF Entries
<1> QED  BY <1>1 DEF ReaderInv

\* The same entries with the same keys, for the next look of the same reader.
LEMMA SameEntries ==
    ASSUME UNCHANGED <<dirs, files>>
    PROVE  /\ RootDirs' = RootDirs /\ DirKey' = DirKey /\ FileKey' = FileKey
           /\ Cardinality(RootDirs)' = Cardinality(RootDirs)
<1>1. RootDirs' = RootDirs  BY DEF RootDirs
<1> QED  BY <1>1 DEF DirKey, FileKey

LEMMA OpenKeeps ==
    ASSUME TreeInv, ReaderInv, DistinctKeys, Open
    PROVE  ReaderInv'
<1>1. UNCHANGED <<dirs, files, making>>
      /\ reader' = [Resting EXCEPT !.step = "countDirs", !.page = 1, !.steady = Entries]
  BY DEF Open, Go
<1>2. Entries \subseteq Paths \cup Names  BY DEF Entries, TreeInv, Row, ReaderInv
<1>3. /\ reader' \in Readers /\ reader'.step = "countDirs" /\ reader'.page = 1
      /\ reader'.steady = Entries /\ reader'.shown = {}
  <2> DEFINE st == "countDirs"
  <2>1. st \in ReaderSteps  BY DEF ReaderSteps
  <2>2. reader' = [step |-> st, page |-> 1, dirs |-> 0, files |-> 0, got |-> {}, shown |-> {}, steady |-> Entries]
    BY <1>1 DEF Resting
  <2> HIDE DEF st
  <2>3. /\ reader' \in Readers /\ reader'.step = st /\ reader'.page = 1
        /\ reader'.steady = Entries /\ reader'.shown = {}
    BY <1>2, <2>1, <2>2 DEF Readers
  <2> QED  BY <2>3 DEF st
<1>4. Page'.offset = 0
  <2>1. PageBounds(1, PageSize).offset = 0  BY PagesTile, ListingAssumption
  <2> QED  BY <1>3, <2>1 DEF Page
<1>5. DirsSeen(Page.offset, reader.shown)'
  <2>1. \A d \in RootDirs : Rank(DirKey, d) \in Nat  BY Listed
  <2>2. \A d \in RootDirs : ~(Rank(DirKey, d) < 0)  BY <2>1
  <2> QED  BY <1>1, <1>4, <2>2, SameEntries DEF DirsSeen
<1>6. FilesSeen(Page.offset - Cardinality(RootDirs), reader.shown)'
  <2>1. Cardinality(RootDirs) \in Nat /\ \A f \in files : Rank(FileKey, f) \in Nat  BY Listed
  <2>2. \A f \in files : ~(Rank(FileKey, f) < 0 - Cardinality(RootDirs))  BY <2>1
  <2> QED  BY <1>1, <1>4, <2>2, SameEntries DEF FilesSeen
<1>7. Covered'  BY <1>3, <1>5, <1>6 DEF Covered, Reading
<1>8. Counted' /\ NothingSkipped'  BY <1>3 DEF Counted, Reading, LastPage, NothingSkipped
<1>9. reader'.page > 0  BY <1>3
<1> QED  BY <1>1, <1>3, <1>7, <1>8, <1>9, ReadOnly

LEMMA CountDirsKeeps ==
    ASSUME TreeInv, ReaderInv, DistinctKeys, CountDirs
    PROVE  ReaderInv'
<1> DEFINE D == Cardinality(RootDirs)
<1>1. /\ UNCHANGED <<dirs, files, making>> /\ reader.step = "countDirs"
      /\ reader' = [reader EXCEPT !.step = "countFiles", !.dirs = D]
  BY DEF CountDirs, Go
<1>2. reader \in Readers /\ D \in Nat /\ "countFiles" \in ReaderSteps
  BY Listed DEF ReaderInv, ReaderSteps
<1> HIDE DEF D
<1>3. /\ reader' \in Readers /\ reader'.step = "countFiles" /\ reader'.dirs = D
      /\ reader'.page = reader.page /\ reader'.shown = reader.shown /\ reader'.steady = reader.steady
  BY <1>1, <1>2 DEF Readers
<1>4. Page' = Page /\ Page.offset \in Nat
  <2>1. reader.page \in Nat \ {0}
    <3>1. reader.page > 0  BY <1>1 DEF ReaderInv
    <3>2. reader.page \in Nat  BY <1>2 DEF Readers
    <3> QED  BY <3>1, <3>2
  <2> QED  BY <1>3, <2>1, PageNumbers DEF Page
<1>5. DirsSeen(Page.offset, reader.shown) /\ FilesSeen(Page.offset - D, reader.shown)
  BY <1>1 DEF ReaderInv, Covered, D
<1>6. Page.offset >= D => DirsSeen(D, reader.shown)
  <2>1. \A d \in RootDirs : Rank(DirKey, d) \in Nat /\ Rank(DirKey, d) < D  BY Listed DEF D
  <2> QED  BY <1>2, <1>4, <1>5, <2>1 DEF DirsSeen
<1>7. Earlier'
  <2>1. DirsSeen(Page.offset, reader.shown)' /\ FilesSeen(Page.offset - reader.dirs, reader.shown)'
    BY <1>1, <1>3, <1>4, <1>5, SameEntries DEF DirsSeen, FilesSeen
  <2>2. Page'.offset >= reader'.dirs => DirsSeen(Cardinality(RootDirs), reader.shown)'
    BY <1>1, <1>3, <1>4, <1>6, SameEntries DEF DirsSeen, D
  <2> QED  BY <2>1, <2>2 DEF Earlier
<1>8. Covered'  BY <1>3, <1>7 DEF Covered
<1>9. Counted' /\ NothingSkipped'
  <2>1. Cardinality(RootDirs)' = D /\ reader'.dirs = D /\ D <= D  BY <1>1, <1>2, <1>3, SameEntries DEF D
  <2> QED  BY <1>3, <2>1 DEF Counted, LastPage, NothingSkipped
<1>10. reader'.page > 0 /\ reader'.steady \subseteq Entries  BY <1>1, <1>3 DEF ReaderInv
<1> QED  BY <1>1, <1>3, <1>8, <1>9, <1>10, ReadOnly

LEMMA CountFilesKeeps ==
    ASSUME TreeInv, ReaderInv, DistinctKeys, CountFiles
    PROVE  ReaderInv'
<1> DEFINE F == Cardinality(files)
<1>1. /\ UNCHANGED <<dirs, files, making>> /\ reader.step = "countFiles"
      /\ reader' = [reader EXCEPT !.step = "readDirs", !.files = F]
  BY DEF CountFiles, Go
<1>2. reader \in Readers /\ F \in Nat /\ "readDirs" \in ReaderSteps
  BY Listed DEF ReaderInv, ReaderSteps
<1> HIDE DEF F
<1>3. /\ reader' \in Readers /\ reader'.step = "readDirs" /\ reader'.files = F /\ reader'.dirs = reader.dirs
      /\ reader'.page = reader.page /\ reader'.shown = reader.shown /\ reader'.steady = reader.steady
  BY <1>1, <1>2 DEF Readers
<1>4. Page' = Page  BY <1>3 DEF Page
<1>5. Earlier'
  <2>1. Earlier  BY <1>1 DEF ReaderInv, Covered, Reading
  <2> QED  BY <1>1, <1>3, <1>4, <2>1, SameEntries DEF Earlier, DirsSeen, FilesSeen
<1>6. Covered'  BY <1>3, <1>5 DEF Covered
<1>7. Counted' /\ NothingSkipped'
  <2>1. reader.dirs = Cardinality(RootDirs) /\ reader.dirs <= Cardinality(RootDirs)
    BY <1>1 DEF ReaderInv, Counted, Reading
  <2>2. Cardinality(RootDirs)' = reader'.dirs /\ reader'.dirs <= Cardinality(RootDirs)'
        /\ reader'.files = Cardinality(files)'
    BY <1>1, <1>3, <2>1, SameEntries DEF F
  <2> QED  BY <1>3, <2>2 DEF Counted, NothingSkipped
<1>8. reader'.page > 0 /\ reader'.steady \subseteq Entries  BY <1>1, <1>3 DEF ReaderInv
<1> QED  BY <1>1, <1>3, <1>6, <1>7, <1>8, ReadOnly

\* What a reader between its queries knows.
LEMMA UnderReading ==
    ASSUME TreeInv, ReaderInv, DistinctKeys, Reading
    PROVE  /\ reader \in Readers /\ reader.page \in Nat \ {0} /\ reader.steady \subseteq Entries
           /\ reader.dirs \in Nat /\ reader.files \in Nat /\ reader.dirs <= Cardinality(RootDirs)
           /\ Page.offset \in Nat /\ Page.limit \in Nat \ {0} /\ NextFrom = Page.offset + Page.limit
           /\ Earlier
<1>1. reader.step # "rest"  BY DEF Reading
<1>2. reader \in Readers /\ reader.page > 0 /\ reader.steady \subseteq Entries  BY <1>1 DEF ReaderInv
<1>3. reader.page \in Nat \ {0} /\ reader.dirs \in Nat /\ reader.files \in Nat  BY <1>2 DEF Readers
<1>4. Page.offset \in Nat /\ Page.limit \in Nat \ {0}  BY <1>3, PageNumbers DEF Page
<1>5. reader.dirs <= Cardinality(RootDirs) /\ Earlier  BY DEF ReaderInv, Counted, Covered
<1> QED  BY <1>2, <1>3, <1>4, <1>5 DEF NextFrom

LEMMA ReadDirsKeeps ==
    ASSUME TreeInv, ReaderInv, DistinctKeys, ReadDirs
    PROVE  ReaderInv'
<1>1. UNCHANGED <<dirs, files, making>> /\ reader.step = "readDirs"  BY DEF ReadDirs, Go
<1>2. PICK slice \in Slices(DirKey, Window.dirLimit, Window.dirOffset) :
             reader' = [reader EXCEPT !.step = "readFiles", !.got = {d.path : d \in slice}]
  BY DEF ReadDirs, DirKey
<1> DEFINE got == {d.path : d \in slice}
<1>3. /\ reader \in Readers /\ reader.page \in Nat \ {0} /\ reader.steady \subseteq Entries
      /\ reader.dirs \in Nat /\ Page.offset \in Nat /\ Page.limit \in Nat \ {0}
      /\ NextFrom = Page.offset + Page.limit /\ Earlier
  <2>1. Reading  BY <1>1 DEF Reading
  <2> QED  BY <2>1, UnderReading
<1>4. /\ IsFiniteSet(RootDirs) /\ DirKey \in [RootDirs -> Int]
      /\ \A d, e \in RootDirs : DirKey[d] = DirKey[e] => d = e
      /\ \A d \in RootDirs : Rank(DirKey, d) \in Nat /\ Rank(DirKey, d) < Cardinality(RootDirs)
  BY Listed
<1>5. slice \subseteq RootDirs  BY <1>2, <1>4, SliceIsOf
<1>6. got \in SUBSET (Paths \cup Names)  BY <1>5 DEF RootDirs, TreeInv, Row
<1> HIDE DEF got
<1>7. /\ reader' \in Readers /\ reader'.step = "readFiles" /\ reader'.got = got /\ reader'.dirs = reader.dirs
      /\ reader'.files = reader.files /\ reader'.page = reader.page /\ reader'.shown = reader.shown
      /\ reader'.steady = reader.steady
  <2>1. reader' = [reader EXCEPT !.step = "readFiles", !.got = got]  BY <1>2 DEF got
  <2> QED  BY <1>3, <1>6, <2>1 DEF Readers, ReaderSteps
<1>8. Page' = Page /\ NextFrom' = NextFrom  BY <1>7 DEF Page, NextFrom
<1>9. ASSUME NEW d \in RootDirs, d.path \in reader.steady, Rank(DirKey, d) < NextFrom
      PROVE  d.path \in reader.shown \cup got
  <2>1. CASE Page.offset >= reader.dirs
    BY <1>3, <1>4, <1>9, <2>1 DEF Earlier, DirsSeen
  <2>2. CASE Rank(DirKey, d) < Page.offset
    BY <1>3, <1>9, <2>2 DEF Earlier, DirsSeen
  <2>3. CASE Page.offset < reader.dirs /\ Page.offset <= Rank(DirKey, d)
    <3>1. Window.dirLimit = Page.limit /\ Window.dirOffset = Page.offset
      BY <1>3, <2>3 DEF Window, PageWindow
    <3>2. Covers(Window.dirLimit, Window.dirOffset, Rank(DirKey, d))
      BY <1>3, <1>4, <1>9, <2>3, <3>1 DEF Covers
    <3>3. d \in slice  BY <1>2, <1>4, <3>2, SliceHolds
    <3> QED  BY <3>3 DEF got
  <2> QED  BY <1>3, <1>4, <2>1, <2>2, <2>3
<1>10. DirsSeen(NextFrom, reader.shown \cup reader.got)'
  BY <1>1, <1>7, <1>8, <1>9, SameEntries DEF DirsSeen
<1>11. Earlier'  BY <1>1, <1>3, <1>7, <1>8, SameEntries DEF Earlier, DirsSeen, FilesSeen
<1>12. Covered'  BY <1>7, <1>10, <1>11 DEF Covered
<1>13. Counted' /\ NothingSkipped'
  <2>1. LastPage' <=> LastPage  BY <1>1, <1>7, <1>8 DEF LastPage
  <2>2. Cardinality(RootDirs)' = Cardinality(RootDirs) /\ Cardinality(files)' = Cardinality(files)
    BY <1>1, SameEntries
  <2> QED  BY <1>1, <1>7, <2>1, <2>2 DEF ReaderInv, Counted, Reading, NothingSkipped
<1>14. reader'.page > 0 /\ reader'.steady \subseteq Entries  BY <1>3, <1>7
<1> QED  BY <1>1, <1>7, <1>12, <1>13, <1>14, ReadOnly

LEMMA ReadFilesKeeps ==
    ASSUME TreeInv, ReaderInv, DistinctKeys, ReadFiles
    PROVE  ReaderInv'
<1> DEFINE D == reader.dirs
           more == NextFrom < reader.dirs + reader.files
<1>1. UNCHANGED <<dirs, files, making>> /\ reader.step = "readFiles"  BY DEF ReadFiles, Go
<1>2. PICK slice \in Slices(FileKey, Window.fileLimit, Window.fileOffset) :
             LET shown == reader.shown \cup reader.got \cup slice
             IN  reader' = IF more THEN [reader EXCEPT !.step = "countDirs", !.page = @ + 1, !.got = {}, !.shown = shown]
                           ELSE [reader EXCEPT !.step = "end", !.shown = shown]
  BY DEF ReadFiles, FileKey, NextFrom
<1> DEFINE shown == reader.shown \cup reader.got \cup slice
<1>3. /\ reader \in Readers /\ reader.page \in Nat \ {0} /\ reader.steady \subseteq Entries
      /\ reader.dirs \in Nat /\ reader.files \in Nat /\ reader.dirs <= Cardinality(RootDirs)
      /\ Page.offset \in Nat /\ Page.limit \in Nat \ {0} /\ NextFrom = Page.offset + Page.limit /\ Earlier
  <2>1. Reading  BY <1>1 DEF Reading
  <2> QED  BY <2>1, UnderReading
<1>4. /\ Cardinality(RootDirs) \in Nat /\ Cardinality(files) \in Nat
      /\ IsFiniteSet(files) /\ FileKey \in [files -> Int]
      /\ \A f, g \in files : FileKey[f] = FileKey[g] => f = g
      /\ \A d \in RootDirs : Rank(DirKey, d) \in Nat /\ Rank(DirKey, d) < Cardinality(RootDirs)
      /\ \A f \in files : Rank(FileKey, f) \in Nat /\ Rank(FileKey, f) < Cardinality(files)
  BY Listed
<1>5. slice \subseteq files  BY <1>2, <1>4, SliceIsOf
<1>6. shown \in SUBSET (Paths \cup Names)  BY <1>3, <1>5 DEF ReaderInv, Readers
<1>7. DirsSeen(NextFrom, shown)
  <2>1. DirsSeen(NextFrom, reader.shown \cup reader.got)  BY <1>1 DEF ReaderInv, Covered
  <2> QED  BY <2>1 DEF DirsSeen
<1>8. ASSUME NEW f \in files, f \in reader.steady, Rank(FileKey, f) < NextFrom - D
      PROVE  f \in shown
  <2>1. CASE Rank(FileKey, f) < Page.offset - D
    BY <1>3, <1>8, <2>1 DEF Earlier, FilesSeen
  <2>2. CASE ~(Rank(FileKey, f) < Page.offset - D)
    <3>1. D + Rank(FileKey, f) \in Page.offset..(Page.offset + Page.limit - 1)
      BY <1>3, <1>4, <1>8, <2>2
    <3>2. Covers(Window.fileLimit, Window.fileOffset, Rank(FileKey, f))
      BY <1>3, <1>4, <3>1, WindowIsItsSlice DEF Window
    <3> QED  BY <1>2, <1>4, <3>2, SliceHolds
  <2> QED  BY <2>1, <2>2
<1> HIDE DEF shown
<1>9. CASE more
  <2> DEFINE n == reader.page + 1
  <2>1. reader' = [reader EXCEPT !.step = "countDirs", !.page = n, !.got = {}, !.shown = shown]
    BY <1>2, <1>9 DEF shown
  <2>2. n \in Nat /\ n > 0  BY <1>3
  <2> HIDE DEF n
  <2>3. /\ reader' \in Readers /\ reader'.step = "countDirs" /\ reader'.page = n
        /\ reader'.shown = shown /\ reader'.steady = reader.steady
    BY <1>3, <1>6, <2>1, <2>2 DEF Readers, ReaderSteps
  <2>4. Page'.offset = NextFrom  BY <1>3, <2>3, PagesTile, ListingAssumption DEF Page, n
  <2>5. DirsSeen(Page.offset, reader.shown)'
    BY <1>1, <1>7, <2>3, <2>4, SameEntries DEF DirsSeen
  <2>6. ASSUME NEW f \in files, f \in reader.steady, Rank(FileKey, f) < NextFrom - Cardinality(RootDirs)
        PROVE  f \in shown
    <3>1. Rank(FileKey, f) < NextFrom - D  BY <1>3, <1>4, <2>6
    <3> QED  BY <1>8, <2>6, <3>1
  <2>7. FilesSeen(Page.offset - Cardinality(RootDirs), reader.shown)'
    BY <1>1, <2>3, <2>4, <2>6, SameEntries DEF FilesSeen
  <2>8. Covered'  BY <2>3, <2>5, <2>7 DEF Covered, Reading
  <2>9. Counted' /\ NothingSkipped'  BY <2>3 DEF Counted, Reading, LastPage, NothingSkipped
  <2> QED  BY <1>1, <1>3, <2>2, <2>3, <2>8, <2>9, ReadOnly
<1>10. CASE ~more
  <2>1. reader' = [reader EXCEPT !.step = "end", !.shown = shown]  BY <1>2, <1>10 DEF shown
  <2>2. /\ reader' \in Readers /\ reader'.step = "end" /\ reader'.page = reader.page
        /\ reader'.shown = shown /\ reader'.steady = reader.steady
    BY <1>3, <1>6, <2>1 DEF Readers, ReaderSteps
  <2>3. LastPage  BY <1>1, <1>3, <1>10 DEF LastPage
  <2>4. reader.dirs = Cardinality(RootDirs) /\ reader.files = Cardinality(files)
    BY <2>3 DEF ReaderInv, Counted
  <2>5. ASSUME NEW x \in reader.steady PROVE x \in shown
    <3>1. CASE x \in files
      <4>1. Rank(FileKey, x) < NextFrom - D  BY <1>3, <1>4, <1>10, <2>4, <3>1
      <4> QED  BY <1>8, <3>1, <4>1
    <3>2. ASSUME NEW d \in RootDirs, d.path = x PROVE x \in shown
      <4>1. Rank(DirKey, d) < NextFrom  BY <1>3, <1>4, <1>10, <2>4
      <4> QED  BY <1>7, <3>2, <4>1 DEF DirsSeen
    <3> QED  BY <1>1, <3>1, <3>2, SteadyIsListed
  <2>6. NothingSkipped'  BY <2>2, <2>5 DEF NothingSkipped
  <2>7. Covered' /\ Counted'  BY <2>2 DEF Covered, Counted, Reading, LastPage
  <2> QED  BY <1>1, <1>3, <2>2, <2>6, <2>7, ReadOnly
<1> QED  BY <1>9, <1>10

\* The transactions of requests hold finitely many rows.
LEMMA RowsReached ==
    ASSUME TreeInv, \A e \in Creators : IsFiniteSet(making[e].own),
           NEW c \in Creators, NEW d, NEW own, IsFiniteSet(own), Reach(c, d, own)
    PROVE  \A e \in Creators : IsFiniteSet(making'[e].own)
<1> DEFINE step == IF Len(d.path) = Len(making[c].path) THEN "commit" ELSE "look up"
           m == [making[c] EXCEPT !.at = [id |-> d.id, path |-> d.path], !.own = own, !.step = step]
<1>1. making' = [making EXCEPT ![c] = m]  BY DEF Reach
<1>2. making[c] \in Maker /\ making \in [Creators -> Maker]  BY DEF TreeInv
<1> HIDE DEF step
<1>3. m.own = own  BY <1>2 DEF Maker
<1> HIDE DEF m
<1>4. making'[c] = m /\ \A e \in Creators \ {c} : making'[e] = making[e]  BY <1>1, <1>2
<1> QED  BY <1>3, <1>4

LEMMA RowsDropped ==
    ASSUME TreeInv, \A e \in Creators : IsFiniteSet(making[e].own),
           NEW c \in Creators, NEW m, m.own = {} \/ m.own = making[c].own, making' = [making EXCEPT ![c] = m]
    PROVE  \A e \in Creators : IsFiniteSet(making'[e].own)
<1>1. making'[c] = m /\ \A e \in Creators \ {c} : making'[e] = making[e]  BY DEF TreeInv
<1> QED  BY <1>1, FS_EmptySet

\* A step of a request before its transaction commits.
LEMMA MakeKeeps ==
    ASSUME TreeInv, ReaderInv, NEW c \in Creators,
           (\E p \in Paths : MakeFolder(c, p)) \/ LookUp(c) \/ CreateRow(c) \/ RollBack(c)
    PROVE  ReaderInv'
<1>1. UNCHANGED <<dirs, files, reader>>  BY DEF MakeFolder, LookUp, CreateRow, RollBack
<1>2. making[c] \in Maker /\ \A e \in Creators : IsFiniteSet(making[e].own)  BY DEF TreeInv, ReaderInv
<1>3. \A e \in Creators : IsFiniteSet(making'[e].own)
  <2>1. ASSUME NEW p \in Paths, MakeFolder(c, p) PROVE \A e \in Creators : IsFiniteSet(making'[e].own)
    <3> DEFINE m == [Quiet EXCEPT !.step = "look up", !.path = p]
    <3>1. making' = [making EXCEPT ![c] = m]  BY <2>1 DEF MakeFolder
    <3>2. m.own = {}  BY DEF Quiet
    <3> HIDE DEF m
    <3> QED  BY <1>2, <3>1, <3>2, RowsDropped
  <2>2. CASE LookUp(c)
    <3>1. ASSUME making' = [making EXCEPT ![c].step = "create"]
          PROVE  \A e \in Creators : IsFiniteSet(making'[e].own)
      <4> DEFINE m == [making[c] EXCEPT !.step = "create"]
      <4>1. m.own = making[c].own  BY <1>2 DEF Maker
      <4>2. making' = [making EXCEPT ![c] = m]  BY <3>1
      <4> HIDE DEF m
      <4> QED  BY <1>2, <4>1, <4>2, RowsDropped
    <3>2. ASSUME NEW d \in Existing(c), Reach(c, d, making[c].own)
          PROVE  \A e \in Creators : IsFiniteSet(making'[e].own)
      BY <1>2, <3>2, RowsReached
    <3> QED  BY <2>2, <3>1, <3>2 DEF LookUp
  <2>3. CASE CreateRow(c)
    <3>1. PICK d : Reach(c, d, making[c].own \cup {d})  BY <2>3 DEF CreateRow
    <3>2. IsFiniteSet(making[c].own \cup {d})  BY <1>2, FS_AddElement
    <3> QED  BY <1>2, <3>1, <3>2, RowsReached
  <2>4. CASE RollBack(c)
    <3>1. Quiet.own = {} /\ making' = [making EXCEPT ![c] = Quiet]  BY <2>4 DEF RollBack, Quiet
    <3> QED  BY <1>2, <3>1, RowsDropped
  <2> QED  BY <2>1, <2>2, <2>3, <2>4
<1>4. Entries' = Entries /\ Page' = Page /\ NextFrom' = NextFrom  BY <1>1 DEF Entries, Page, NextFrom
<1>5. Counted' /\ Covered' /\ NothingSkipped'
  <2>1. (LastPage' <=> LastPage) /\ (Reading' <=> Reading)  BY <1>1, <1>4 DEF LastPage, Reading
  <2>2. Counted'  BY <1>1, <2>1, SameEntries DEF ReaderInv, Counted
  <2>3. Earlier' <=> Earlier  BY <1>1, <1>4, SameEntries DEF Earlier, DirsSeen, FilesSeen
  <2>4. Covered'
    BY <1>1, <1>4, <2>1, <2>3, SameEntries DEF ReaderInv, Covered, DirsSeen, FilesSeen
  <2> QED  BY <1>1, <2>2, <2>4 DEF ReaderInv, NothingSkipped
<1> QED  BY <1>1, <1>3, <1>4, <1>5 DEF ReaderInv, Readers

LEMMA CommitShows ==
    ASSUME TreeInv, TreeInv', ReaderInv, DistinctKeys, Overlaps = "none", NEW c \in Creators, Commit(c)
    PROVE  ReaderInv'
<1>1. /\ Unread /\ dirs' = dirs \cup making[c].own /\ making' = [making EXCEPT ![c] = Quiet]
      /\ files' = files /\ reader' = reader
  BY DEF Commit, Seen
<1>2. /\ IsFiniteSet(dirs) /\ IsFiniteSet(files) /\ files \subseteq Names
      /\ \A e \in Creators : IsFiniteSet(making[e].own)
  BY DEF ReaderInv
<1>3. Quiet.own = {}  BY DEF Quiet
<1>4. \A e \in Creators : IsFiniteSet(making'[e].own)  BY <1>1, <1>2, <1>3, RowsDropped
<1>5. IsFiniteSet(dirs')  BY <1>1, <1>2, FS_Union
<1> QED  BY <1>1, <1>2, <1>4, <1>5, MoreEntries

LEMMA UploadShows ==
    ASSUME TreeInv, TreeInv', ReaderInv, DistinctKeys, Overlaps = "none", NEW f \in Names, Upload(f)
    PROVE  ReaderInv'
<1>1. Unread /\ files' = files \cup {f} /\ dirs' = dirs /\ making' = making /\ reader' = reader
  BY DEF Upload
<1>2. /\ IsFiniteSet(dirs) /\ IsFiniteSet(files) /\ files \subseteq Names
      /\ \A e \in Creators : IsFiniteSet(making[e].own)
  BY DEF ReaderInv
<1>3. IsFiniteSet(files') /\ files' \subseteq Names  BY <1>1, <1>2, FS_AddElement
<1> QED  BY <1>1, <1>2, <1>3, MoreEntries

\* Nothing is removed while somebody reads.
LEMMA RemovalKeeps ==
    ASSUME TreeInv, ReaderInv, Overlaps = "none",
           (\E f \in Names : Delete(f)) \/ (\E p \in Paths : RemoveFolder(p))
    PROVE  ReaderInv'
<1>1. /\ Undisturbed /\ dirs' \in SUBSET dirs /\ files' \in SUBSET files /\ making' = making
      /\ \E gone : Without(gone)
  BY DEF Delete, RemoveFolder
<1>2. reader.step = "rest"  BY <1>1 DEF Undisturbed
<1>3. reader \in Readers  BY DEF ReaderInv
<1>4. PICK gone : reader' = [reader EXCEPT !.steady = @ \ gone]  BY <1>1 DEF Without
<1>5. reader' \in Readers /\ reader'.step = "rest"  BY <1>2, <1>3, <1>4 DEF Readers
<1>6. /\ IsFiniteSet(dirs) /\ IsFiniteSet(files) /\ files \subseteq Names
      /\ \A e \in Creators : IsFiniteSet(making[e].own)
  BY DEF ReaderInv
<1>7. IsFiniteSet(dirs') /\ IsFiniteSet(files')  BY <1>1, <1>6, FS_Subset
<1> QED  BY <1>1, <1>5, <1>6, <1>7, AtRest

LEMMA CloseKeeps ==
    ASSUME ReaderInv, Close
    PROVE  ReaderInv'
<1>1. UNCHANGED <<dirs, files, making>> /\ reader' = Resting  BY DEF Close
<1>2. reader' \in Readers /\ reader'.step = "rest"  BY <1>1 DEF Resting, Readers, ReaderSteps
<1>3. /\ IsFiniteSet(dirs) /\ IsFiniteSet(files) /\ files \subseteq Names
      /\ \A e \in Creators : IsFiniteSet(making[e].own)
  BY DEF ReaderInv
<1> QED  BY <1>1, <1>2, <1>3, AtRest

LEMMA ReaderStep ==
    ASSUME TreeInv, TreeInv', ReaderInv, DistinctKeys, Overlaps = "none", [Next]_vars
    PROVE  ReaderInv'
<1>1. ASSUME NEW c \in Creators, Make(c) PROVE ReaderInv'
  BY <1>1, MakeKeeps, CommitShows DEF Make
<1>2. ASSUME NEW f \in Names, Upload(f) \/ Delete(f) PROVE ReaderInv'
  BY <1>2, UploadShows, RemovalKeeps
<1>3. ASSUME NEW p \in Paths, RemoveFolder(p) PROVE ReaderInv'  BY <1>3, RemovalKeeps
<1>4. CASE Read
  BY <1>4, OpenKeeps, CountDirsKeeps, CountFilesKeeps, ReadDirsKeeps, ReadFilesKeeps, CloseKeeps DEF Read
<1>5. CASE UNCHANGED vars
  <2>1. UNCHANGED <<dirs, files, making, reader>>  BY <1>5 DEF vars
  <2>2. Entries' = Entries /\ Page' = Page /\ NextFrom' = NextFrom  BY <2>1 DEF Entries, Page, NextFrom
  <2>3. (LastPage' <=> LastPage) /\ (Reading' <=> Reading)  BY <2>1, <2>2 DEF LastPage, Reading
  <2>4. Earlier' <=> Earlier  BY <2>1, <2>2, SameEntries DEF Earlier, DirsSeen, FilesSeen
  <2>5. Covered'
    BY <2>1, <2>2, <2>3, <2>4, SameEntries DEF ReaderInv, Covered, DirsSeen, FilesSeen
  <2> QED  BY <2>1, <2>2, <2>3, <2>5, SameEntries DEF ReaderInv, Counted, NothingSkipped
<1> QED  BY <1>1, <1>2, <1>3, <1>4, <1>5 DEF Next

\* Who walks through the pages of a listing to the end has been shown every folder and
\* file that was there all along (GetFilesHandler over listAtPrefixes), for any page size
\* and however many are added meanwhile, when no two are equal in the listing's order,
\* nothing is removed during the walk and nothing is added between the counts of its
\* last page and that page's slices.
THEOREM PagesShowAll ==
    ASSUME Overlaps = "none", DistinctKeys
    PROVE  Spec => []NothingSkipped
<1>1. ReaderInv => NothingSkipped  BY DEF ReaderInv
<1>2. TreeInv /\ ReaderInv /\ [Next]_vars => TreeInv' /\ ReaderInv'  BY TreeStep, ReaderStep
<1> QED  BY <1>1, <1>2, TreeInit, ReaderInit, PTL DEF Spec

\* The bound on what changes folders and files.
LEMMA ChangesStep ==
    ASSUME changes \in 0..MaxChanges, [Next]_vars
    PROVE  (changes \in 0..MaxChanges)'
<1>1. MaxChanges \in Nat  BY ListingAssumption
<1>2. changes' = changes \/ Change
  BY DEF Next, vars, Make, MakeFolder, LookUp, CreateRow, Commit, RollBack, Upload, Delete, RemoveFolder,
         Read, Open, CountDirs, CountFiles, ReadDirs, ReadFiles, Close, Go
<1>3. CASE changes' = changes  BY <1>3
<1>4. CASE Change  BY <1>1, <1>4 DEF Change
<1> QED  BY <1>2, <1>3, <1>4

LEMMA TypesHold ==
    ASSUME TreeInv, ReaderInv, changes \in 0..MaxChanges
    PROVE  TypeOK
<1>1. UNION {Seen(c) : c \in Creators} \subseteq All  BY DEF Seen, All
<1>2. All \subseteq Row
  <2>1. \A c \in Creators : making[c] \in Maker  BY DEF TreeInv
  <2>2. \A c \in Creators : making[c].own \subseteq Row  BY <2>1 DEF Maker
  <2> QED  BY <2>2 DEF All, TreeInv
<1>3. OneId(All) /\ files \subseteq Names  BY DEF TreeInv, ReaderInv
<1>4. reader.got \cup reader.shown \cup reader.steady \subseteq Paths \cup Names
  BY DEF ReaderInv, Readers
<1> QED  BY <1>1, <1>2, <1>3, <1>4 DEF TypeOK, OneId, Row

\* Rows have ids of their own, also those of transactions that have not committed, and
\* folders, files and the reader's pages hold what they may (EnsureDirectoryMetadata,
\* listAtPrefixes), with requests and listings interleaved as for PagesShowAll.
THEOREM TypeCorrect ==
    ASSUME Overlaps = "none", DistinctKeys
    PROVE  Spec => []TypeOK
<1>1. Init => changes \in 0..MaxChanges  BY ListingAssumption DEF Init
<1>2. TreeInv /\ ReaderInv /\ [Next]_vars => TreeInv' /\ ReaderInv'  BY TreeStep, ReaderStep
<1> QED  BY <1>1, <1>2, TreeInit, ReaderInit, ChangesStep, TypesHold, PTL DEF Spec

=============================================================================
