------------------------- MODULE ThumbnailsInvariant -------------------------
(***************************************************************************)
(* The invariants behind ThumbShowsFile: each picture's path belongs to    *)
(* one file, deleted or not, or to one file the job is about to make a     *)
(* picture of, and to that one only.                                       *)
(***************************************************************************)
EXTENDS Thumbnails

Entry == [id : Rows, path : Paths]
Job   == [step : {"rest", "read", "write", "record"}, batch : Seq(Entry), data : Contents \cup {None}]

Deleted(i) == items[i] # None
Replaced(r) == write # None /\ write.row = r

TypeInv ==
    /\ rows \in [Rows -> Row \cup {None}]
    /\ objects \in [Paths -> Contents \cup {None}] /\ thumbs \in [Places -> Contents \cup {None}]
    /\ items \in [Items -> Item \cup {None}]
    /\ write \in Writing \cup {None}
    /\ write # None => Recorded(write.row)
    /\ job \in Job /\ Len(job.batch) <= Limit
    /\ job.step # "rest" => job.batch # <<>>
    /\ Working => job.data \in Contents
    /\ latest \in 0..MaxContents /\ failures \in 0..MaxFailures /\ moves \in 0..MaxMoves

\* An object is stored where a row says, and one row says so.
Stored ==
    /\ \A p \in Paths : objects[p] # None <=> RowsAt(p) # {}
    /\ \A r, s \in Rows : Recorded(r) /\ Recorded(s) /\ rows[r].path = rows[s].path => r = s

\* The pictures a file f may have: the one it is filed under, and the one recorded.
Names(f) == {ThumbOf(f.path)} \cup ({f.thumb} \ {None})

\* No two files have a picture's path in common.
OwnPictures ==
    /\ \A r, s \in Rows : Recorded(r) /\ Recorded(s) /\ r # s => Names(rows[r]) \cap Names(rows[s]) = {}
    /\ \A i, k \in Items : Deleted(i) /\ Deleted(k) /\ i # k => Names(items[i]) \cap Names(items[k]) = {}
    /\ \A r \in Rows, i \in Items : Recorded(r) /\ Deleted(i) => Names(rows[r]) \cap Names(items[i]) = {}

\* The picture an entry of the batch is for is recorded by nobody yet, and while
\* its row is there, it is no other file's.
Nobodys(e) ==
    /\ \A r \in Rows : Recorded(r) => rows[r].thumb # ThumbOf(e.path)
    /\ \A i \in Items : Deleted(i) => items[i].thumb # ThumbOf(e.path)
    /\ Recorded(e.id) =>
          /\ \A r \in Rows : Recorded(r) /\ r # e.id => ThumbOf(e.path) \notin Names(rows[r])
          /\ \A i \in Items : Deleted(i) => ThumbOf(e.path) \notin Names(items[i])

BatchPictures ==
    /\ \A m, n \in DOMAIN job.batch :
          m # n => ThumbOf(job.batch[m].path) # ThumbOf(job.batch[n].path)
    /\ \A n \in DOMAIN job.batch : Nobodys(job.batch[n])

\* What the job has read is what the file holds, and what it has written.
JobReads ==
    /\ Working /\ Recorded(Head(job.batch).id) /\ ~Replaced(Head(job.batch).id) =>
          job.data = objects[rows[Head(job.batch).id].path]
    /\ job.step = "record" => thumbs[ThumbOf(Source)] = job.data

PictureInv == Stored /\ OwnPictures /\ BatchPictures /\ JobReads /\ ThumbShowsFile

=============================================================================
