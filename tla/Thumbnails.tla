----------------------------- MODULE Thumbnails -----------------------------
(***************************************************************************)
(* The thumbnail job of the worker process.  Every minute it takes a batch *)
(* of ready image rows without a thumbnail, and for each reads the object, *)
(* writes a picture under the local thumbnail directory and records its    *)
(* path in the row.  Meanwhile users upload, replace, move, delete and     *)
(* restore the files, and another job purges what they deleted.            *)
(*                                                                         *)
(* A path is <<folder, stem, extension>>; pictures are filed under folder  *)
(* and stem.                                                               *)
(* One request of the users is served at a time; a picture is told apart   *)
(* by the contents it was made from.                                       *)
(***************************************************************************)
EXTENDS Integers, FiniteSets, Sequences, SequencesExt

CONSTANTS
    Rows, Items,  \* bounds: rows of image files, items of the recycle bin
    Paths,        \* paths of image files
    MaxContents,  \* bound: contents uploaded, numbered in the order of their upload
    Supported,    \* the extensions a thumbnail can be made from
    Limit,        \* rows in a batch
    MaxFailures,  \* bound: reads, writes and updates of the job that fail
    MaxMoves,     \* bound: moves and restores of files
    Overlaps,     \* "none": see Apart and NewName
    None

ASSUME ThumbnailAssumption ==
    /\ Limit \in Nat \ {0} /\ MaxFailures \in Nat /\ MaxMoves \in Nat /\ MaxContents \in Nat
    /\ Overlaps \in {"none", "any"} /\ IsFiniteSet(Rows)
    /\ \A p \in Paths : Len(p) = 3

VARIABLES
    rows,      \* rows of the files: path, upload status, recorded thumbnail
    objects,   \* the contents stored under each path
    thumbs,    \* the picture filed under each folder and stem
    items,     \* recycle bin: path, recorded thumbnail and contents of deleted files
    write,     \* the upload in progress, by its row
    job,       \* the thumbnail job: rest of its batch, its step, what it has read
    latest,    \* the contents uploaded last
    failures,  \* failures of the job so far
    moves      \* moves and restores so far

vars == <<rows, objects, thumbs, items, write, job, latest, failures, moves>>

Contents == 1..MaxContents
Places   == {Front(p) : p \in Paths}
Row      == [path : Paths, status : {"pending", "ready"}, thumb : Places \cup {None}]
Item     == [path : Paths, thumb : Places \cup {None}, content : Contents]
Writing  == [row : Rows, content : Contents, step : {"put", "settle"}]
Resting  == [step |-> "rest", batch |-> <<>>, data |-> None]

ASSUME NoneAssumption ==
    /\ None \notin Contents /\ None \notin Places
    /\ None \notin Row /\ None \notin Item /\ None \notin Writing

TypeOK ==
    /\ rows \in [Rows -> Row \cup {None}]
    /\ objects \in [Paths -> Contents \cup {None}] /\ thumbs \in [Places -> Contents \cup {None}]
    /\ items \in [Items -> Item \cup {None}]
    /\ write \in Writing \cup {None}
    /\ job.step \in {"rest", "read", "write", "record"} /\ job.data \in Contents \cup {None}
    /\ job.batch \in Seq([id : Rows, path : Paths]) /\ Len(job.batch) <= Limit
    /\ latest \in 0..MaxContents /\ failures \in 0..MaxFailures /\ moves \in 0..MaxMoves

Init ==
    /\ rows = [r \in Rows |-> None] /\ items = [i \in Items |-> None]
    /\ objects = [p \in Paths |-> None] /\ thumbs = [t \in Places |-> None]
    /\ write = None /\ job = Resting
    /\ latest = 0 /\ failures = 0 /\ moves = 0

-----------------------------------------------------------------------------
(* Users *)

\* localThumbnailPath: the extension is dropped.
ThumbOf(p) == Front(p)

Recorded(r) == rows[r] # None
RowsAt(p)   == {r \in Rows : Recorded(r) /\ rows[r].path = p}
\* Ids are not used again: none the job has in its batch.
FreshRows   == {r \in Rows : ~Recorded(r) /\ \A n \in DOMAIN job.batch : job.batch[n].id # r}
Working     == job.step \in {"write", "record"}

\* The job is not between reading and recording row r.
Apart(r)   == Overlaps = "any" \/ ~(Working /\ Head(job.batch).id = r)
\* No file, deleted or not, has the picture's path of p, nor is the job to make it.
NewName(p) ==
    \/ Overlaps = "any"
    \/ /\ \A r \in Rows : Recorded(r) => ThumbOf(p) \notin {ThumbOf(rows[r].path), rows[r].thumb}
       /\ \A i \in Items : items[i] # None => ThumbOf(p) \notin {ThumbOf(items[i].path), items[i].thumb}
       /\ \A n \in DOMAIN job.batch : ThumbOf(job.batch[n].path) # ThumbOf(p)

\* A new file is uploaded (its row is there once its bytes are).
Upload(p, c) ==
    /\ write = None /\ c = latest + 1 /\ RowsAt(p) = {} /\ NewName(p)
    /\ \E r \in FreshRows :
          rows' = [rows EXCEPT ![r] = [path |-> p, status |-> "ready", thumb |-> None]]
    /\ objects' = [objects EXCEPT ![p] = c]
    /\ latest' = c
    /\ UNCHANGED <<thumbs, items, write, job, failures, moves>>

\* A file is replaced: at once, or by way of the pending queue.
Replace(r, c, status) ==
    /\ write = None /\ c = latest + 1 /\ Recorded(r)
    /\ rows' = [rows EXCEPT ![r].status = status]
    /\ write' = [row |-> r, content |-> c, step |-> "put"]
    /\ latest' = c
    /\ UNCHANGED <<objects, thumbs, items, job, failures, moves>>

PutBytes ==
    /\ write # None /\ write.step = "put"
    /\ objects' = [objects EXCEPT ![rows[write.row].path] = write.content]
    /\ write' = [write EXCEPT !.step = "settle"]
    /\ UNCHANGED <<rows, thumbs, items, job, latest, failures, moves>>

KeepsPicture(row) == [row EXCEPT !.status = "ready"]   \* mutant: the old thumbnail is kept
\* UpdateFileMetadataContent and MarkFileUploadReady clear the thumbnail.
Updated(row) == [row EXCEPT !.status = "ready", !.thumb = None]

Settle ==
    /\ write # None /\ write.step = "settle" /\ Apart(write.row)
    /\ rows' = [rows EXCEPT ![write.row] = Updated(@)]
    /\ write' = None
    /\ UNCHANGED <<objects, thumbs, items, job, latest, failures, moves>>

\* To another folder; the row keeps its thumbnail where it is.
Move(r, p) ==
    /\ moves < MaxMoves /\ write = None /\ Recorded(r) /\ Tail(p) = Tail(rows[r].path)
    /\ RowsAt(p) = {} /\ NewName(p)
    /\ rows' = [rows EXCEPT ![r].path = p]
    /\ objects' = [objects EXCEPT ![p] = objects[rows[r].path], ![rows[r].path] = None]
    /\ moves' = moves + 1
    /\ UNCHANGED <<thumbs, items, write, job, latest, failures>>

Delete(r) ==
    /\ write = None /\ Recorded(r)
    /\ \E i \in Items :
          /\ items[i] = None
          /\ items' = [items EXCEPT ![i] = [path |-> rows[r].path, thumb |-> rows[r].thumb,
                                            content |-> objects[rows[r].path]]]
    /\ objects' = [objects EXCEPT ![rows[r].path] = None]
    /\ rows' = [rows EXCEPT ![r] = None]
    /\ UNCHANGED <<thumbs, write, job, latest, failures, moves>>

\* The restored file gets a new row, without a thumbnail.
Restore(i) ==
    /\ moves < MaxMoves /\ write = None /\ items[i] # None /\ RowsAt(items[i].path) = {}
    /\ \E r \in FreshRows :
          rows' = [rows EXCEPT ![r] = [path |-> items[i].path, status |-> "ready", thumb |-> None]]
    /\ objects' = [objects EXCEPT ![items[i].path] = items[i].content]
    /\ items' = [items EXCEPT ![i] = None]
    /\ moves' = moves + 1
    /\ UNCHANGED <<thumbs, write, job, latest, failures>>

\* The purge of an expired item removes the picture it was deleted with.
Purge(i) ==
    /\ items[i] # None
    /\ thumbs' = IF items[i].thumb = None THEN thumbs ELSE [thumbs EXCEPT ![items[i].thumb] = None]
    /\ items' = [items EXCEPT ![i] = None]
    /\ UNCHANGED <<rows, objects, write, job, latest, failures, moves>>

-----------------------------------------------------------------------------
(* The job *)

NeedsThumb(r) == Recorded(r) /\ rows[r].status = "ready" /\ rows[r].thumb = None

AllOfThem(all) == Cardinality(all)   \* mutant: the batch has no limit
BatchSize(all) == IF Cardinality(all) < Limit THEN Cardinality(all) ELSE Limit

\* GetFileMetadatasWoThumbnails states no order: any rows, up to the limit.
Tick ==
    LET all == {r \in Rows : NeedsThumb(r)}
    IN  /\ job.step = "rest" /\ all # {}
        /\ \E batch \in {b \in SUBSET all : Cardinality(b) = BatchSize(all)} :
              job' = [step |-> "read", data |-> None,
                      batch |-> LET s == SetToSeq(batch)
                                IN  [n \in DOMAIN s |-> [id |-> s[n], path |-> rows[s[n]].path]]]
        /\ UNCHANGED <<rows, objects, thumbs, items, write, latest, failures, moves>>

Following(batch) == [step |-> IF Len(batch) = 1 THEN "rest" ELSE "read", data |-> None, batch |-> Tail(batch)]
GivesUp(batch)   == Resting   \* mutant: the first error ends the run
\* After a file that failed comes the next one.
Skipped(batch) == Following(batch)

Source    == Head(job.batch).path
Fails     == failures < MaxFailures /\ failures' = failures + 1
CanRead   == Source[3] \in Supported /\ objects[Source] # None

\* The object is read under the path the row had when the batch was taken.
ReadSource ==
    /\ job.step = "read"
    /\ \/ /\ CanRead
          /\ job' = [job EXCEPT !.step = "write", !.data = objects[Source]]
          /\ UNCHANGED failures
       \/ /\ IF CanRead THEN Fails ELSE UNCHANGED failures
          /\ job' = Skipped(job.batch)
    /\ UNCHANGED <<rows, objects, thumbs, items, write, latest, moves>>

WriteThumb ==
    /\ job.step = "write"
    /\ \/ /\ thumbs' = [thumbs EXCEPT ![ThumbOf(Source)] = job.data]
          /\ job' = [job EXCEPT !.step = "record"]
          /\ UNCHANGED failures
       \/ Fails /\ job' = Skipped(job.batch) /\ UNCHANGED thumbs
    /\ UNCHANGED <<rows, objects, items, write, latest, moves>>

\* The row is updated by its id, whatever has become of the file.
RecordThumb ==
    /\ job.step = "record"
    /\ \/ /\ rows' = [r \in Rows |-> IF r = Head(job.batch).id /\ Recorded(r)
                                     THEN [rows[r] EXCEPT !.thumb = ThumbOf(Source)] ELSE rows[r]]
          /\ UNCHANGED failures
       \/ Fails /\ UNCHANGED rows
    /\ job' = Following(job.batch)
    /\ UNCHANGED <<objects, thumbs, items, write, latest, moves>>

MakeThumbnails == Tick \/ ReadSource \/ WriteThumb \/ RecordThumb

Users == \/ \E p \in Paths, c \in Contents : Upload(p, c)
         \/ \E r \in Rows, c \in Contents, status \in {"ready", "pending"} : Replace(r, c, status)
         \/ \E r \in Rows : Delete(r) \/ (\E p \in Paths : Move(r, p))
         \/ \E i \in Items : Restore(i)

Next == Users \/ PutBytes \/ Settle \/ MakeThumbnails \/ \E i \in Items : Purge(i)

Spec == Init /\ [][Next]_vars

\* The job runs every minute, and an upload that began is carried through.
Fairness == WF_vars(MakeThumbnails) /\ WF_vars(PutBytes \/ Settle)
FairSpec == Spec /\ Fairness

-----------------------------------------------------------------------------
(* Properties *)

\* A file shows a picture of the contents it has, whatever was replaced, moved,
\* deleted, restored or purged since the picture was made.
ThumbShowsFile ==
    \A r \in Rows : Recorded(r) /\ rows[r].thumb # None /\ (write # None => write.row # r)
        => thumbs[rows[r].thumb] = objects[rows[r].path]

\* Every file a thumbnail can be made from gets one, or goes away: a file the job
\* cannot read does not keep it from the others.
EveryImageGetsThumb ==
    \A r \in Rows : (NeedsThumb(r) /\ rows[r].path[3] \in Supported) ~> ~NeedsThumb(r)

=============================================================================
