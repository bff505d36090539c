---------------------------- MODULE DriveListing ----------------------------
(***************************************************************************)
(* Directory rows and their listing.  Requests make folders, recording     *)
(* every missing level of a path in one transaction; others upload and     *)
(* delete files and remove folders; and a reader walks through the pages   *)
(* of the drive's root, each page from four queries: two counts and two    *)
(* slices.                                                                 *)
(*                                                                         *)
(* A path is a sequence of names; a directory row has an id of its own and *)
(* its parent's.  The rows of a transaction are seen by others once it     *)
(* commits.                                                                *)
(***************************************************************************)
EXTENDS Paging, FiniteSets, Sequences, SequencesExt

CONSTANTS
    Ids,        \* bound: ids of directory rows
    Creators,   \* requests that make folders
    Paths,      \* paths of folders
    Names,      \* paths of the files in the root
    SortKey,    \* what folders and files are sorted by; equal keys have no order
    PageSize,   \* the page size the reader asks for
    MaxChanges, \* bound: folders made and removed, files uploaded and deleted
    Overlaps,   \* "none": see MayMake, Unread and Undisturbed
    None

ASSUME ListingAssumption ==
    /\ Paths \subseteq Seq(STRING)
    /\ \A p \in Paths : p # <<>> /\ \A n \in 1..Len(p) : SubSeq(p, 1, n) \in Paths
    /\ PageSize \in Int /\ MaxChanges \in Nat /\ Overlaps \in {"none", "any"}
    /\ None \notin Ids /\ Names \cap Paths = {}
    /\ SortKey \in [{p \in Paths : Len(p) = 1} \cup Names -> Int]

VARIABLES
    dirs,     \* directory rows: id, path and parent's id
    files,    \* the files in the root
    making,   \* requests that make folders: path, row of the level reached, rows created
    reader,   \* the reader: its page and query, what it was shown, what was there all along
    changes

vars == <<dirs, files, making, reader, changes>>

Root    == [id |-> None, path |-> <<>>]
Quiet   == [step |-> "idle", path |-> <<>>, at |-> Root, own |-> {}]
Resting == [step |-> "rest", page |-> 0, dirs |-> 0, files |-> 0, got |-> {}, shown |-> {}, steady |-> {}]

Init ==
    /\ dirs = {} /\ files = {} /\ changes = 0
    /\ making = [c \in Creators |-> Quiet] /\ reader = Resting

Entries == {d.path : d \in {e \in dirs : e.parent = None}} \cup files
Active  == {c \in Creators : making[c].step # "idle"}

\* Of two requests at once, what their paths share is recorded already.
MayMake(p) ==
    Overlaps = "any" \/ \A c \in Active, q \in Paths :
        IsPrefix(q, p) /\ IsPrefix(q, making[c].path) => \E d \in dirs : d.path = q
\* The reader is not between the counts and the slices of its last page.
Unread ==
    \/ Overlaps = "any" \/ reader.step \in {"rest", "countDirs"}
    \/ LET page == PageBounds(reader.page, PageSize)
       IN  reader.step # "countFiles" /\ page.offset + page.limit < reader.dirs + reader.files
\* Nobody walks through the pages or makes a folder.
Undisturbed == Overlaps = "any" \/ (reader.step = "rest" /\ Active = {})

Change == changes < MaxChanges /\ changes' = changes + 1
Without(gone) == reader' = [reader EXCEPT !.steady = @ \ gone]

-----------------------------------------------------------------------------
(* EnsureDirectoryMetadata *)

MakeFolder(c, p) ==
    /\ making[c] = Quiet /\ MayMake(p) /\ Change
    /\ making' = [making EXCEPT ![c] = [Quiet EXCEPT !.step = "look up", !.path = p]]
    /\ UNCHANGED <<dirs, files, reader>>

Segment(c) == making[c].path[Len(making[c].at.path) + 1]
Seen(c)    == dirs \cup making[c].own

EqualsNull(c) == {d \in Seen(c) : Last(d.path) = Segment(c) /\ d.parent = making[c].at.id /\ d.parent # None}
    \* mutant: "parent_id = NULL" is true of no row
\* The directories of this name under the one reached; those of the root have no parent.
Existing(c) == {d \in Seen(c) : Last(d.path) = Segment(c) /\ d.parent = making[c].at.id}

\* The loop goes on under row d, or the transaction is complete.
Reach(c, d, own) ==
    making' = [making EXCEPT ![c].at = [id |-> d.id, path |-> d.path], ![c].own = own,
                             ![c].step = IF Len(d.path) = Len(making[c].path) THEN "commit" ELSE "look up"]

LookUp(c) ==
    /\ making[c].step = "look up"
    /\ IF Existing(c) = {} THEN making' = [making EXCEPT ![c].step = "create"]
       ELSE \E d \in Existing(c) : Reach(c, d, making[c].own)
    /\ UNCHANGED <<dirs, files, reader, changes>>

UsedIds == {d.id : d \in UNION {Seen(c) : c \in Creators}}

CreateRow(c) ==
    /\ making[c].step = "create" /\ Ids \ UsedIds # {}
    /\ LET d == [id     |-> CHOOSE id \in Ids : id \notin UsedIds,
                 path   |-> Append(making[c].at.path, Segment(c)),
                 parent |-> making[c].at.id]
       IN  Reach(c, d, making[c].own \cup {d})
    /\ UNCHANGED <<dirs, files, reader, changes>>

Commit(c) ==
    /\ making[c].step = "commit" /\ Unread
    /\ dirs' = Seen(c)
    /\ making' = [making EXCEPT ![c] = Quiet]
    /\ UNCHANGED <<files, reader, changes>>

\* A query fails: the transaction is rolled back.
RollBack(c) ==
    /\ c \in Active
    /\ making' = [making EXCEPT ![c] = Quiet]
    /\ UNCHANGED <<dirs, files, reader, changes>>

-----------------------------------------------------------------------------
(* Other requests *)

Upload(f) ==
    /\ f \notin files /\ Unread /\ Change
    /\ files' = files \cup {f}
    /\ UNCHANGED <<dirs, making, reader>>

Delete(f) ==
    /\ f \in files /\ Undisturbed /\ Change
    /\ files' = files \ {f} /\ Without({f})
    /\ UNCHANGED <<dirs, making>>

\* HideFolderSubtree: the folder's row and all rows under it, in one transaction.
RemoveFolder(p) ==
    /\ \E d \in dirs : d.path = p
    /\ Undisturbed /\ Change
    /\ dirs' = {d \in dirs : ~IsPrefix(p, d.path)} /\ Without({p})
    /\ UNCHANGED <<files, making>>

-----------------------------------------------------------------------------
(* Reading the pages *)

Go(step)  == reader.step = step /\ UNCHANGED <<dirs, files, making, changes>>
RootDirs  == {d \in dirs : Len(d.path) = 1}
Page      == PageBounds(reader.page, PageSize)
Window    == PageWindow(reader.dirs, Page.limit, Page.offset)

Open ==
    /\ Go("rest")
    /\ reader' = [Resting EXCEPT !.step = "countDirs", !.page = 1, !.steady = Entries]

CountDirs  == Go("countDirs") /\ reader' = [reader EXCEPT !.step = "countFiles", !.dirs = Cardinality(RootDirs)]
CountFiles == Go("countFiles") /\ reader' = [reader EXCEPT !.step = "readDirs", !.files = Cardinality(files)]

\* ORDER BY a key, LIMIT and OFFSET: rows of one key in any order.
Slices(key, limit, offset) ==
    {{rows[n] : n \in {m \in 1..Len(rows) : Covers(limit, offset, m - 1)}} :
        rows \in {s \in SetToSeqs(DOMAIN key) : \A m, n \in 1..Len(s) : m < n => key[s[m]] <= key[s[n]]}}

ReadDirs ==
    /\ Go("readDirs")
    /\ \E slice \in Slices([d \in RootDirs |-> SortKey[d.path]], Window.dirLimit, Window.dirOffset) :
          reader' = [reader EXCEPT !.step = "readFiles", !.got = {d.path : d \in slice}]

\* The next page is opened while the total says there is one.
ReadFiles ==
    /\ Go("readFiles")
    /\ \E slice \in Slices([f \in files |-> SortKey[f]], Window.fileLimit, Window.fileOffset) :
          LET shown == reader.shown \cup reader.got \cup slice
              more  == Page.offset + Page.limit < reader.dirs + reader.files
          IN  reader' = IF more THEN [reader EXCEPT !.step = "countDirs", !.page = @ + 1, !.got = {}, !.shown = shown]
                        ELSE [reader EXCEPT !.step = "end", !.shown = shown]

\* The listing is left, at its end or before.
Close ==
    /\ reader.step # "rest" /\ reader' = Resting
    /\ UNCHANGED <<dirs, files, making, changes>>

Read == Open \/ CountDirs \/ CountFiles \/ ReadDirs \/ ReadFiles \/ Close

Make(c) == (\E p \in Paths : MakeFolder(c, p)) \/ LookUp(c) \/ CreateRow(c) \/ Commit(c) \/ RollBack(c)

Next ==
    \/ \E c \in Creators : Make(c)
    \/ \E f \in Names : Upload(f) \/ Delete(f)
    \/ \E p \in Paths : RemoveFolder(p)
    \/ Read

Spec == Init /\ [][Next]_vars

-----------------------------------------------------------------------------
(* Properties *)

\* Type correctness: ids are unique, also among transactions, and the reader's page
\* is one the listing may have.
TypeOK ==
    LET all == UNION {Seen(c) : c \in Creators}
    IN  /\ all \subseteq [id : Ids, path : Paths, parent : Ids \cup {None}]
        /\ \A d, e \in all : d.id = e.id => d = e
        /\ files \subseteq Names /\ changes \in 0..MaxChanges
        /\ reader.got \cup reader.shown \cup reader.steady \subseteq Paths \cup Names

\* Directory rows are the folders' tree: one row a path, under the row of the folder
\* that holds it, whatever requests make the levels of their paths at once.
FolderTree ==
    /\ \A d, e \in dirs : d.path = e.path => d = e
    /\ \A d \in dirs : IF Len(d.path) = 1 THEN d.parent = None
                       ELSE \E e \in dirs : e.id = d.parent /\ e.path = Front(d.path)

\* Who reads the pages to the end has seen every folder and file that was there all
\* along, though others were added meanwhile and the pages were counted anew.
NothingSkipped == reader.step = "end" => reader.steady \subseteq reader.shown

=============================================================================
