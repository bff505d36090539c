-------------------------- MODULE ListingInvariant --------------------------
(***************************************************************************)
(* The invariants behind the properties of DriveListing.  TreeInv says of  *)
(* the requests that make folders what they see and what they have made;   *)
(* ReaderInv what somebody who walks through the pages has been shown.     *)
(***************************************************************************)
EXTENDS DriveListing

-----------------------------------------------------------------------------
(* Folders *)

\* The first n names of path p.
Upto(p, n) == SubSeq(p, 1, n)

\* The place of a row.
Place(d) == [id |-> d.id, path |-> d.path]

Row   == [id : Ids, path : Paths, parent : Ids \cup {None}]
Maker == [step : {"idle", "look up", "create", "commit"}, path : Paths \cup {<<>>},
          at : [id : Ids \cup {None}, path : Paths \cup {<<>>}], own : SUBSET Row]

\* The rows S are a tree: FolderTree says so of dirs.
Tree(S) ==
    /\ \A d, e \in S : d.path = e.path => d = e
    /\ \A d \in S : IF Len(d.path) = 1 THEN d.parent = None
                    ELSE \E e \in S : e.id = d.parent /\ e.path = Front(d.path)
OneId(S) == \A d, e \in S : d.id = e.id => d = e

\* The place a request has reached is the root or a row it sees, on its path.
Reached(at, S, p) ==
    /\ at = Root \/ \E d \in S : at = Place(d)
    /\ Len(at.path) <= Len(p) /\ at.path = Upto(p, Len(at.path))
\* The rows of a transaction are levels of its path that nobody has recorded.
OnPath(own, p, D) == \A d \in own : /\ Len(d.path) <= Len(p) /\ d.path = Upto(p, Len(d.path))
                                    /\ \A e \in D : e.path # d.path
\* Request m makes a folder over the recorded rows D.
Making(m, D) ==
    /\ m.path \in Paths /\ Reached(m.at, D \cup m.own, m.path) /\ OnPath(m.own, m.path, D)
    /\ m.step \in {"look up", "create"} => Len(m.at.path) < Len(m.path)
    /\ m.step = "create" => \A d \in D \cup m.own : d.path # Upto(m.path, Len(m.at.path) + 1)

MakerInv(m, D) ==
    /\ Tree(D \cup m.own)
    /\ IF m.step = "idle" THEN m.own = {} ELSE Making(m, D)

\* Levels two requests share are recorded.
SharedRecorded(ms, D) == \A c, e \in Creators : c # e /\ ms[c].step # "idle" /\ ms[e].step # "idle" =>
    \A q \in Paths : IsPrefix(q, ms[c].path) /\ IsPrefix(q, ms[e].path) => \E d \in D : d.path = q

All == dirs \cup UNION {making[c].own : c \in Creators}

TreeInv ==
    /\ dirs \subseteq Row /\ Tree(dirs) /\ OneId(All)
    /\ making \in [Creators -> Maker]
    /\ \A c \in Creators : MakerInv(making[c], dirs)
    /\ SharedRecorded(making, dirs)

-----------------------------------------------------------------------------
(* The reader *)

TopPaths == {p \in Paths : Len(p) = 1}

\* No two folders, and no two files, are equal in the listing's order.
DistinctKeys ==
    /\ \A p, q \in TopPaths : SortKey[p] = SortKey[q] => p = q
    /\ \A f, g \in Names : SortKey[f] = SortKey[g] => f = g

DirKey  == [d \in RootDirs |-> SortKey[d.path]]
FileKey == [f \in files |-> SortKey[f]]

\* How many entries come before x, by these keys.
Rank(key, x) == Cardinality({y \in DOMAIN key : key[y] < key[x]})

\* Of what was there all along, the first n folders, or files, are among seen.
DirsSeen(n, seen)  == \A d \in RootDirs : d.path \in reader.steady /\ Rank(DirKey, d) < n => d.path \in seen
FilesSeen(n, seen) == \A f \in files : f \in reader.steady /\ Rank(FileKey, f) < n => f \in seen

Reading  == reader.step \in {"countFiles", "readDirs", "readFiles"}
NextFrom == Page.offset + Page.limit
\* The total says that this page is the last.
LastPage == reader.step \in {"readDirs", "readFiles"} /\ NextFrom >= reader.dirs + reader.files

\* The counts are those of some moment since the page was opened; of this moment,
\* unless there is another page.
Counted ==
    /\ Reading => reader.dirs <= Cardinality(RootDirs)
    /\ reader.step = "countFiles" \/ LastPage => reader.dirs = Cardinality(RootDirs)
    /\ LastPage => reader.files = Cardinality(files)

\* Once the folders are counted: the entries before the page's offset have been shown,
\* and all folders if the page begins after the last.
Earlier ==
    /\ DirsSeen(Page.offset, reader.shown)
    /\ FilesSeen(Page.offset - reader.dirs, reader.shown)
    /\ Page.offset >= reader.dirs => DirsSeen(Cardinality(RootDirs), reader.shown)

\* What the pages before this one, and its own first query, ought to have shown.
Covered ==
    /\ reader.step = "countDirs" =>
          DirsSeen(Page.offset, reader.shown) /\ FilesSeen(Page.offset - Cardinality(RootDirs), reader.shown)
    /\ Reading => Earlier
    /\ reader.step = "readFiles" => DirsSeen(NextFrom, reader.shown \cup reader.got)

ReaderSteps == {"rest", "countDirs", "countFiles", "readDirs", "readFiles", "end"}
Readers == [step : ReaderSteps, page : Nat, dirs : Nat, files : Nat,
            got : SUBSET (Paths \cup Names), shown : SUBSET (Paths \cup Names),
            steady : SUBSET (Paths \cup Names)]

ReaderInv ==
    /\ IsFiniteSet(dirs) /\ \A c \in Creators : IsFiniteSet(making[c].own)
    /\ IsFiniteSet(files) /\ files \subseteq Names
    /\ reader \in Readers
    /\ reader.step # "rest" => reader.page > 0 /\ reader.steady \subseteq Entries
    /\ Counted /\ Covered /\ NothingSkipped

=============================================================================
