---------------------------- MODULE UploadQueue ----------------------------
(***************************************************************************)
(* The pending-upload queue of the object-storage backend.                 *)
(*                                                                         *)
(* A /complete request assembles a chunked upload into a file on the local *)
(* staging disk and records it in the database as a "pending" row.  Drains *)
(* (ProcessPendingUploads) run in two kinds of processes, the API server   *)
(* (kicked by each /complete) and the cron worker (every 30 seconds).  A   *)
(* drain reads a batch of pending rows and hands the rows, as they were    *)
(* when it read them, to a pool of workers; a worker claims its row with   *)
(* an atomic update, archives the object it is about to overwrite, pushes  *)
(* the staged file and marks the row ready.                                *)
(*                                                                         *)
(* An upload stands for one chunk session and for its contents.  A row is  *)
(* named by the upload that created it, so KeyOf gives the row's key too.  *)
(***************************************************************************)
EXTENDS Integers, FiniteSets

CONSTANTS
    Uploads,           \* chunked uploads, and the rows they may create
    Keys,              \* path keys (drive slug, folder and file name)
    KeyOf,             \* the key each upload is addressed to
    Procs,             \* processes that drain the queue
    Api,               \* the process that serves requests; the others are cron
    Workers,           \* worker goroutines of all processes
    HostOf,            \* the process each worker belongs to
    BatchSize,         \* PendingUploadBatchSize
    MaxUploadAttempts, \* models.MaxUploadAttempts
    BacklogLimit,      \* MaxPendingUploadBacklogMB, every upload weighing 1
    MaxRestarts,       \* bound: process exits a behaviour may contain
    Faults,            \* the calls that may fail in this instance
    OverwritePolicy,   \* when a client may upload to a key again (see MayStart)
    None

FaultNames == {"query", "claim", "head", "copy", "archive", "put", "ready",
               "settle", "remove", "enqueue"}

ASSUME UploadsAssumption == /\ KeyOf \in [Uploads -> Keys]
                            /\ None \notin Uploads
                            /\ IsFiniteSet(Uploads)
ASSUME ProcsAssumption   == /\ Api \in Procs
                            /\ IsFiniteSet(Procs)
                            /\ HostOf \in [Workers -> Procs]
ASSUME LimitsAssumption  == /\ BatchSize \in Nat \ {0}
                            /\ MaxUploadAttempts \in Nat \ {0}
                            /\ BacklogLimit \in Nat
                            /\ MaxRestarts \in Nat
ASSUME FaultsAssumption  == Faults \subseteq FaultNames
\* A session completed again after a crash gets a second assembled file, which
\* "staged" can tell from the first only once the first is settled.
ASSUME PolicyAssumption  == /\ OverwritePolicy \in {"any", "settled", "quiet"}
                            /\ OverwritePolicy # "quiet" => MaxRestarts = 0

VARIABLES
    \* the database: one file_metadata row per upload that created one
    status,     \* upload_status, or "absent"
    source,     \* pending_source_path: the staged file, None when cleared
    attempts,   \* upload_attempts
    updated,    \* rank of updated_at among the rows, larger is later
    \* the bucket and the staging disk
    objects,    \* the contents at each key, None when there is no object
    versions,   \* archived contents of each key that have a metadata row
    staged,     \* assembled files on the staging disk
    \* the requests
    req,        \* progress of each upload's /complete handler
    found,      \* the row its lookup returned
    latest,     \* the last upload recorded for each key (history)
    \* the drains
    phase,      \* what each process's drain is doing
    attempted,  \* rows its current drain has taken up
    jobs,       \* snapshots waiting in its job channel
    pc,         \* what each worker is doing
    job,        \* the snapshot it works on
    copy,       \* the contents it has copied to an archive key
    \* the processes
    stopping,   \* processes whose context is cancelled
    restarts    \* exits so far

dbVars   == <<status, source, attempts, updated>>
reqVars  == <<req, found, latest>>
loopVars == <<phase, attempted, jobs>>
workVars == <<pc, job, copy>>
lifeVars == <<stopping, restarts>>
vars == <<dbVars, objects, versions, staged, reqVars, loopVars, workVars, lifeVars>>

Statuses  == {"absent", "pending", "uploading", "ready", "failed"}
ReqPcs    == {"new", "checked", "looked", "recorded", "kick", "done"}
Phases    == {"off", "query", "work", "ending"}
WorkerPcs == {"idle", "claim", "open", "head", "copy", "archive", "put",
              "ready", "remove", "settle"}
Snapshots == [row : Uploads, source : Uploads \cup {None}, attempts : Nat]
NoJob     == [row |-> None, source |-> None, attempts |-> 0]

TypeOK ==
    /\ status \in [Uploads -> Statuses]
    /\ source \in [Uploads -> Uploads \cup {None}]
    /\ attempts \in [Uploads -> Nat]
    /\ updated \in [Uploads -> Nat]
    /\ objects \in [Keys -> Uploads \cup {None}]
    /\ versions \in [Keys -> SUBSET Uploads]
    /\ staged \in SUBSET Uploads
    /\ req \in [Uploads -> ReqPcs]
    /\ found \in [Uploads -> Uploads \cup {None}]
    /\ latest \in [Keys -> Uploads \cup {None}]
    /\ phase \in [Procs -> Phases]
    /\ attempted \in [Procs -> SUBSET Uploads]
    /\ jobs \in [Procs -> SUBSET Snapshots]
    /\ pc \in [Workers -> WorkerPcs]
    /\ job \in [Workers -> Snapshots \cup {NoJob}]
    /\ copy \in [Workers -> Uploads \cup {None}]
    /\ stopping \in SUBSET Procs
    /\ restarts \in Nat

Init ==
    /\ status = [r \in Uploads |-> "absent"]
    /\ source = [r \in Uploads |-> None]
    /\ attempts = [r \in Uploads |-> 0]
    /\ updated = [r \in Uploads |-> 0]
    /\ objects = [k \in Keys |-> None]
    /\ versions = [k \in Keys |-> {}]
    /\ staged = {}
    /\ req = [u \in Uploads |-> "new"]
    /\ found = [u \in Uploads |-> None]
    /\ latest = [k \in Keys |-> None]
    /\ phase = [p \in Procs |-> "off"]
    /\ attempted = [p \in Procs |-> {}]
    /\ jobs = [p \in Procs |-> {}]
    /\ pc = [w \in Workers |-> "idle"]
    /\ job = [w \in Workers |-> NoJob]
    /\ copy = [w \in Workers |-> None]
    /\ stopping = {}
    /\ restarts = 0

-----------------------------------------------------------------------------
(* The database *)

RowsAt(k) == {r \in Uploads : KeyOf[r] = k /\ status[r] # "absent"}

\* GORM sets updated_at on every update: the row becomes the latest.
Touch(r) ==
    updated' = [x \in Uploads |->
                  IF x = r THEN Cardinality(Uploads)
                  ELSE IF updated[x] > updated[r] THEN updated[x] - 1
                  ELSE updated[x]]

PendingRows == {r \in Uploads : status[r] = "pending"}

\* GetPendingFileUploads: the oldest BatchSize pending rows.
PendingPage ==
    {r \in PendingRows :
        Cardinality({x \in PendingRows : updated[x] < updated[r]}) < BatchSize}

Backlog     == {r \in Uploads : status[r] \in {"pending", "uploading"}}
BacklogFull == Cardinality(Backlog) >= BacklogLimit

Settled(r) == status[r] \in {"absent", "ready", "failed"}

\* The row is in no drain's hands: neither in a job channel nor with a worker.
Unheld(r) == /\ \A p \in Procs : \A j \in jobs[p] : j.row # r
             /\ \A w \in Workers : job[w].row # r

InFlight(u) == req[u] \in {"checked", "looked"}

-----------------------------------------------------------------------------
(* Requests: CompleteChunkUploadHandler and EnqueueChunkedUpload *)

(***************************************************************************)
(* The clients.  Nothing in the server keeps two requests for one key      *)
(* apart, which is policy "any".  Under "settled" a client uploads to a    *)
(* key only when no other request for it is in flight and its row is ready *)
(* or failed; under "quiet" it also waits until no drain holds the row.    *)
(***************************************************************************)
MayStart(u) ==
    \/ OverwritePolicy = "any"
    \/ /\ \A v \in Uploads : KeyOf[v] = KeyOf[u] => ~InFlight(v)
       /\ \A r \in RowsAt(KeyOf[u]) :
            /\ Settled(r)
            /\ OverwritePolicy = "quiet" => Unheld(r)

\* The handler found its session and the backlog below the limit.  When the
\* backlog is full it answers 503 and changes nothing.
CheckBacklog(u) ==
    /\ req[u] = "new"
    /\ MayStart(u)
    /\ ~BacklogFull
    /\ req' = [req EXCEPT ![u] = "checked"]
    /\ UNCHANGED <<dbVars, objects, versions, staged, found, latest, loopVars,
                   workVars, lifeVars>>

\* Assemble writes a file only this handler knows of, then the row is looked up.
AssembleAndLookup(u) ==
    /\ req[u] = "checked"
    /\ staged' = staged \cup {u}
    /\ req' = [req EXCEPT ![u] = "looked"]
    /\ \/ /\ RowsAt(KeyOf[u]) = {}
          /\ found' = [found EXCEPT ![u] = None]
       \/ \E r \in RowsAt(KeyOf[u]) : found' = [found EXCEPT ![u] = r]
    /\ UNCHANGED <<dbVars, objects, versions, latest, loopVars, workVars, lifeVars>>

\* The row that will carry the upload: the one found, or a new one.
RowAlwaysCreated(u) == u   \* mutant: the lookup is ignored
RowFor(u) == IF found[u] = None THEN u ELSE found[u]

\* MarkFileMetadataPending on the row found, CreatePendingFileMetadataV2 otherwise.
RecordPending(u) ==
    LET r == RowFor(u)
    IN  /\ req[u] = "looked"
        /\ status' = [status EXCEPT ![r] = "pending"]
        /\ source' = [source EXCEPT ![r] = u]
        /\ attempts' = [attempts EXCEPT ![r] = 0]
        /\ Touch(r)
        /\ latest' = [latest EXCEPT ![KeyOf[u]] = u]
        /\ req' = [req EXCEPT ![u] = "recorded"]
        /\ found' = [found EXCEPT ![u] = None]
        /\ UNCHANGED <<objects, versions, staged, loopVars, workVars, lifeVars>>

\* EnqueueChunkedUpload failed: the handler removes the file it assembled; the
\* session is kept and the client may complete it again.  (A row that carries
\* the same session from before a crash has an assembled file of its own.)
EnqueueFails(u) ==
    /\ "enqueue" \in Faults
    /\ req[u] = "looked"
    /\ staged' = IF \E r \in Uploads : source[r] = u THEN staged ELSE staged \ {u}
    /\ req' = [req EXCEPT ![u] = "new"]
    /\ found' = [found EXCEPT ![u] = None]
    /\ UNCHANGED <<dbVars, objects, versions, latest, loopVars, workVars, lifeVars>>

\* The chunk session is discarded and the drain goroutine is spawned.
DiscardSession(u) ==
    /\ req[u] = "recorded"
    /\ req' = [req EXCEPT ![u] = "kick"]
    /\ UNCHANGED <<dbVars, objects, versions, staged, found, latest, loopVars,
                   workVars, lifeVars>>

-----------------------------------------------------------------------------
(* Drains: ProcessPendingUploads *)

\* pendingDrainRunning: only a process with no drain of its own starts one.
StartDrain(p) ==
    /\ phase' = [phase EXCEPT ![p] = "query"]
    /\ attempted' = [attempted EXCEPT ![p] = {}]
    /\ UNCHANGED jobs

\* The goroutine spawned by /complete; it returns when a drain is running.
Kick(u) ==
    /\ req[u] = "kick"
    /\ req' = [req EXCEPT ![u] = "done"]
    /\ IF phase[Api] = "off" THEN StartDrain(Api) ELSE UNCHANGED loopVars
    /\ UNCHANGED <<dbVars, objects, versions, staged, found, latest, workVars,
                   lifeVars>>

\* The cron entry, every 30 seconds.
CronTick(p) ==
    /\ p # Api
    /\ p \notin stopping
    /\ phase[p] = "off"
    /\ StartDrain(p)
    /\ UNCHANGED <<dbVars, objects, versions, staged, reqVars, workVars, lifeVars>>

Snapshot(r) == [row |-> r, source |-> source[r], attempts |-> attempts[r]]

RetriesAtOnce(p) == PendingPage   \* mutant: the attempted rows are not skipped

\* nextPendingBatch: rows this drain has already taken up are skipped.
NextBatch(p) == PendingPage \ attempted[p]

\* One pass of the loop; an empty batch ends the drain.
QueryBatch(p) ==
    /\ phase[p] = "query"
    /\ p \notin stopping
    /\ attempted' = [attempted EXCEPT ![p] = @ \cup NextBatch(p)]
    /\ jobs' = [jobs EXCEPT ![p] = {Snapshot(r) : r \in NextBatch(p)}]
    /\ phase' = [phase EXCEPT ![p] = IF NextBatch(p) = {} THEN "ending" ELSE "work"]
    /\ UNCHANGED <<dbVars, objects, versions, staged, reqVars, workVars, lifeVars>>

\* The context is cancelled, or the query failed: the drain returns.
QueryGivesUp(p) ==
    /\ phase[p] = "query"
    /\ p \in stopping \/ "query" \in Faults
    /\ phase' = [phase EXCEPT ![p] = "ending"]
    /\ UNCHANGED <<dbVars, objects, versions, staged, reqVars, attempted, jobs,
                   workVars, lifeVars>>

\* wg.Wait: every job was taken, or dropped, and every worker has returned.
BatchDone(p) ==
    /\ phase[p] = "work"
    /\ jobs[p] = {} \/ p \in stopping
    /\ \A w \in Workers : HostOf[w] = p => pc[w] = "idle"
    /\ jobs' = [jobs EXCEPT ![p] = {}]
    /\ phase' = [phase EXCEPT ![p] = "query"]
    /\ UNCHANGED <<dbVars, objects, versions, staged, reqVars, attempted,
                   workVars, lifeVars>>

\* The deferred pendingDrainRunning.Store(false).
EndDrain(p) ==
    /\ phase[p] = "ending"
    /\ phase' = [phase EXCEPT ![p] = "off"]
    /\ attempted' = [attempted EXCEPT ![p] = {}]
    /\ UNCHANGED <<dbVars, objects, versions, staged, reqVars, jobs, workVars,
                   lifeVars>>

-----------------------------------------------------------------------------
(* Workers: uploadBatch, finalizeClaimed and finalizePendingUpload *)

KeyAt(w) == KeyOf[job[w].row]

\* A call to the bucket fails by itself or because the context is cancelled.
BucketFails(w, call) == call \in Faults \/ HostOf[w] \in stopping
BucketAnswers(w)     == HostOf[w] \notin stopping

Goto(w, to) ==
    /\ pc' = [pc EXCEPT ![w] = to]
    /\ UNCHANGED <<job, copy>>

\* finalizePendingUpload returns an error.
ErrorIgnored(w) == Goto(w, "ready")   \* mutant: the row is marked ready
Fails(w) == Goto(w, "settle")

BackToPool(w) ==
    /\ pc' = [pc EXCEPT ![w] = "idle"]
    /\ job' = [job EXCEPT ![w] = NoJob]
    /\ copy' = [copy EXCEPT ![w] = None]

\* The order in which the rows of one batch are taken is left open.
TakeJob(w) ==
    LET p == HostOf[w]
    IN  /\ pc[w] = "idle"
        /\ p \notin stopping
        /\ \E j \in jobs[p] :
             /\ jobs' = [jobs EXCEPT ![p] = @ \ {j}]
             /\ job' = [job EXCEPT ![w] = j]
        /\ pc' = [pc EXCEPT ![w] = "claim"]
        /\ UNCHANGED <<dbVars, objects, versions, staged, reqVars, phase,
                       attempted, copy, lifeVars>>

ClaimedUnchecked(r) == status[r] \in {"pending", "uploading"}   \* mutant
Claimable(r) == status[r] = "pending"

\* ClaimPendingUpload: a compare-and-set on the status of the row as it is now.
Claim(w) ==
    LET r == job[w].row
    IN  /\ pc[w] = "claim"
        /\ Claimable(r)
        /\ status' = [status EXCEPT ![r] = "uploading"]
        /\ attempts' = [attempts EXCEPT ![r] = @ + 1]
        /\ Touch(r)
        /\ Goto(w, "open")
        /\ UNCHANGED <<source, objects, versions, staged, reqVars, loopVars, lifeVars>>

\* Another process got it first, or the update failed.
ClaimLost(w) ==
    /\ pc[w] = "claim"
    /\ ~Claimable(job[w].row) \/ "claim" \in Faults
    /\ BackToPool(w)
    /\ UNCHANGED <<dbVars, objects, versions, staged, reqVars, loopVars, lifeVars>>

OpenStaged(w) ==
    /\ pc[w] = "open"
    /\ IF job[w].source \in staged THEN Goto(w, "head") ELSE Fails(w)
    /\ UNCHANGED <<dbVars, objects, versions, staged, reqVars, loopVars, lifeVars>>

NeverArchives(w) == "put"   \* mutant: the object is overwritten at once
NeverCopies(w) ==           \* mutant: the archive row is created without a copy
    IF objects[KeyAt(w)] = None THEN "put" ELSE "archive"
AfterHead(w) == IF objects[KeyAt(w)] = None THEN "put" ELSE "copy"

\* Any error of HeadObject counts as "no object at this key".
HeadObject(w) ==
    /\ pc[w] = "head"
    /\ \/ BucketAnswers(w) /\ Goto(w, AfterHead(w))
       \/ BucketFails(w, "head") /\ Goto(w, "put")
    /\ UNCHANGED <<dbVars, objects, versions, staged, reqVars, loopVars, lifeVars>>

CopyToArchive(w) ==
    /\ pc[w] = "copy"
    /\ \/ /\ BucketAnswers(w)
          /\ copy' = [copy EXCEPT ![w] = objects[KeyAt(w)]]
          /\ pc' = [pc EXCEPT ![w] = "archive"]
          /\ UNCHANGED job
       \/ BucketFails(w, "copy") /\ Fails(w)
    /\ UNCHANGED <<dbVars, objects, versions, staged, reqVars, loopVars, lifeVars>>

\* CreateFileMetadataV2 for the archived copy; when it fails the copy is deleted.
ArchiveRow(w) ==
    /\ pc[w] = "archive"
    /\ \/ /\ versions' = [versions EXCEPT ![KeyAt(w)] = @ \cup {copy[w]}]
          /\ Goto(w, "put")
       \/ /\ "archive" \in Faults
          /\ Fails(w)
          /\ UNCHANGED versions
    /\ UNCHANGED <<dbVars, objects, staged, reqVars, loopVars, lifeVars>>

\* PutObjectMultipart; an upload may take effect although its answer is an error.
PutObject(w) ==
    /\ pc[w] = "put"
    /\ \/ /\ BucketAnswers(w)
          /\ objects' = [objects EXCEPT ![KeyAt(w)] = job[w].source]
          /\ \/ Goto(w, "ready")
             \/ "put" \in Faults /\ Fails(w)
       \/ /\ BucketFails(w, "put")
          /\ Fails(w)
          /\ UNCHANGED objects
    /\ UNCHANGED <<dbVars, versions, staged, reqVars, loopVars, lifeVars>>

\* MarkFileUploadReady, by id, whatever the row holds now.
MarkReady(w) ==
    LET r == job[w].row
    IN  /\ pc[w] = "ready"
        /\ \/ /\ status' = [status EXCEPT ![r] = "ready"]
              /\ source' = [source EXCEPT ![r] = None]
              /\ Touch(r)
              /\ Goto(w, "remove")
           \/ /\ "ready" \in Faults
              /\ Fails(w)
              /\ UNCHANGED <<status, source, updated>>
        /\ UNCHANGED <<attempts, objects, versions, staged, reqVars, loopVars, lifeVars>>

RemoveStaged(w) ==
    /\ pc[w] = "remove"
    /\ \/ staged' = staged \ {job[w].source}
       \/ "remove" \in Faults /\ UNCHANGED staged
    /\ BackToPool(w)
    /\ UNCHANGED <<dbVars, objects, versions, reqVars, loopVars, lifeVars>>

\* The attempt is counted from the snapshot, not from the row.
OneTooMany(w) == job[w].attempts >= MaxUploadAttempts            \* mutant
OneTooFew(w)  == job[w].attempts + 2 >= MaxUploadAttempts        \* mutant
OutOfAttempts(w) == job[w].attempts + 1 >= MaxUploadAttempts

NotReverted(w) == IF OutOfAttempts(w) THEN "failed" ELSE "uploading"   \* mutant
SettledStatus(w) == IF OutOfAttempts(w) THEN "failed" ELSE "pending"

\* finalizeClaimed on an error: MarkFileUploadFailed or RevertUploadToPending,
\* whose own error is ignored.
SettleFailure(w) ==
    LET r == job[w].row
    IN  /\ pc[w] = "settle"
        /\ \/ /\ status' = [status EXCEPT ![r] = SettledStatus(w)]
              /\ Touch(r)
           \/ "settle" \in Faults /\ UNCHANGED <<status, updated>>
        /\ BackToPool(w)
        /\ UNCHANGED <<source, attempts, objects, versions, staged, reqVars,
                       loopVars, lifeVars>>

WorkerStep(w) ==
    \/ TakeJob(w) \/ Claim(w) \/ ClaimLost(w) \/ OpenStaged(w) \/ HeadObject(w)
    \/ CopyToArchive(w) \/ ArchiveRow(w) \/ PutObject(w) \/ MarkReady(w)
    \/ RemoveStaged(w) \/ SettleFailure(w)

-----------------------------------------------------------------------------
(* Processes *)

\* SIGTERM cancels the context of the cron worker's drain.  The process does not
\* wait for its workers: Exit may come at any later moment.
Shutdown(p) ==
    /\ p # Api
    /\ restarts < MaxRestarts
    /\ stopping' = stopping \cup {p}
    /\ UNCHANGED <<dbVars, objects, versions, staged, reqVars, loopVars, workVars,
                   restarts>>

\* A process exits or crashes and is started again.  Its goroutines are gone;
\* for the API so are its requests.  A request that was not recorded, or whose
\* session was not discarded yet, can be made again.
Exit(p) ==
    /\ restarts < MaxRestarts
    /\ restarts' = restarts + 1
    /\ stopping' = stopping \ {p}
    /\ phase' = [phase EXCEPT ![p] = "off"]
    /\ attempted' = [attempted EXCEPT ![p] = {}]
    /\ jobs' = [jobs EXCEPT ![p] = {}]
    /\ pc' = [w \in Workers |-> IF HostOf[w] = p THEN "idle" ELSE pc[w]]
    /\ job' = [w \in Workers |-> IF HostOf[w] = p THEN NoJob ELSE job[w]]
    /\ copy' = [w \in Workers |-> IF HostOf[w] = p THEN None ELSE copy[w]]
    /\ IF p = Api
       THEN /\ req' = [u \in Uploads |->
                         CASE req[u] \in {"checked", "looked", "recorded"} -> "new"
                           [] req[u] = "kick" -> "done"
                           [] OTHER -> req[u]]
            /\ found' = [u \in Uploads |-> None]
       ELSE UNCHANGED <<req, found>>
    /\ UNCHANGED <<dbVars, objects, versions, staged, latest>>

Next ==
    \/ \E u \in Uploads :
         \/ CheckBacklog(u) \/ AssembleAndLookup(u) \/ RecordPending(u)
         \/ EnqueueFails(u) \/ DiscardSession(u) \/ Kick(u)
    \/ \E p \in Procs :
         \/ CronTick(p) \/ QueryBatch(p) \/ QueryGivesUp(p) \/ BatchDone(p)
         \/ EndDrain(p) \/ Shutdown(p) \/ Exit(p)
    \/ \E w \in Workers : WorkerStep(w)

Spec == Init /\ [][Next]_vars

\* Goroutines that can run do run, the cron ticks, and every drain returns; no
\* fairness is assumed of clients or of the faults.
Fairness ==
    /\ \A u \in Uploads : WF_vars(DiscardSession(u) \/ Kick(u))
    /\ \A p \in Procs : WF_vars(CronTick(p) \/ QueryBatch(p) \/ BatchDone(p)
                                \/ EndDrain(p))
    /\ \A w \in Workers : WF_vars(WorkerStep(w))

FairSpec == Spec /\ Fairness

-----------------------------------------------------------------------------
(* Properties *)

\* The worker owns its row: it has claimed it and not yet settled it.
Holding(w) == pc[w] \in {"open", "head", "copy", "archive", "put", "ready", "settle"}

\* No two workers, of whatever processes, push one row at the same time: the
\* claim of storagemanager.go that overlapping drains never upload a file twice.
ClaimExclusive ==
    \A v, w \in Workers :
        v # w /\ Holding(v) /\ Holding(w) => job[v].row # job[w].row

\* EnqueueChunkedUpload never leaves two rows for one key.
OneRowPerKey ==
    \A r, s \in Uploads :
        status[r] # "absent" /\ status[s] # "absent" /\ KeyOf[r] = KeyOf[s] => r = s

\* A row that is not settled successfully carries the last upload recorded for
\* its key, and that upload's assembled file is still on the staging disk: a
\* retry, in any process and after any crash, finds its bytes.
UnsettledRowHasBytes ==
    \A r \in Uploads :
        status[r] \in {"pending", "uploading", "failed"} =>
            source[r] = latest[KeyOf[r]] /\ source[r] \in staged

\* A row is marked ready only when the object at its key holds the last upload
\* recorded for it (MarkFileUploadReady after the push of the right bytes).
ReadyIsLatest ==
    \A r \in Uploads : status[r] = "ready" => objects[KeyOf[r]] = latest[KeyOf[r]]

\* The contents of an object are replaced only once an archived copy of them has
\* its metadata row, "so no version is lost" (finalizePendingUpload).
NoVersionLost ==
    [][\A k \in Keys : objects'[k] # objects[k] /\ objects[k] # None
                        => objects[k] \in versions[k]]_vars

\* The retry budget: a claim may use a snapshot another process has outdated, so
\* every process beyond the first can add one attempt, and no more.
AttemptsBounded ==
    \A r \in Uploads : attempts[r] <= MaxUploadAttempts + Cardinality(Procs) - 1

\* A row is given up only after a full budget of claims made for this upload.
FailedMeansSpent ==
    \A r \in Uploads : status[r] = "failed" => attempts[r] >= MaxUploadAttempts

InHand(p, r) == \/ \E j \in jobs[p] : j.row = r
                \/ \E w \in Workers : HostOf[w] = p /\ job[w].row = r

\* A drain takes a row up at most once (nextPendingBatch): once it has let go of
\* the row it does not take it again before it ends.
OncePerDrain ==
    [][\A p \in Procs, r \in Uploads :
          /\ r \in attempted[p] /\ ~InHand(p, r)
          /\ phase[p] # "off" /\ phase'[p] # "off"
          => ~InHand(p, r)']_vars

\* Every recorded upload is eventually pushed or given up.
EveryUploadSettles ==
    \A r \in Uploads : status[r] \in {"pending", "uploading"} ~> Settled(r)

\* The queue implements the versioned store: of each key, its row's status, the
\* last upload recorded, the object and the archived contents.
KeyState(k) ==
    IF RowsAt(k) = {} THEN "empty"
    ELSE LET r == CHOOSE r \in RowsAt(k) : TRUE
         IN  CASE status[r] \in {"pending", "uploading"} -> "queued"
               [] status[r] = "ready" -> "stored"
               [] status[r] = "failed" -> "failed"

Promise == INSTANCE VersionedStore WITH
    state <- [k \in Keys |-> KeyState(k)],
    current <- objects,
    kept <- versions

ImplementsVersionedStore == Promise!Spec

=============================================================================
