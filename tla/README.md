# Archivus: TLA+ specifications

Archivus is a file-drive server in Go (`backend/`) with a command-line sync
client (`sync-client/`) and a web front end (`archivus-svelte/`). The server
runs as two kinds of processes, the HTTP API (`cmd/archivus`) and a cron worker
(`cmd/celery`), that share one SQL database, one local staging disk and one
storage backend: a directory on disk (*disk manager*) or an S3/R2 bucket
(*S3 manager*). This directory holds its TLA+ specifications, the TLC
configurations that model-check them and the TLAPS proofs about them. Paths
below are relative to the repository root; `internal/` is `backend/internal/`.

## 1. Inventory

| component | state | operations | what is hard | what makes it correct |
|---|---|---|---|---|
| **Pending-upload queue** (`s3manager/filemanager.go`, `store/metadata_store.go`, `cmd/celery`) | `file_metadata` rows (`upload_status`, `pending_source_path`, `upload_attempts`, `updated_at`), assembled files on the staging disk, bucket objects, `pendingDrainRunning`, one job channel and worker pool per drain | `/complete` = check backlog, assemble, look up and record a row, discard the session, kick a drain; drain = query, hand out, claim, archive, push, mark ready or retry | two processes drain one table; rows are read before they are claimed; every call may fail; processes exit at any moment | one worker per row, one row per key, ready means the last upload's bytes are there, nothing overwritten unarchived, bounded retries, everything recorded is settled |
| **Chunk sessions** (`services/chunkupload`, `handlers/chunk_handler.go`) | session directories with a manifest and chunk files | Init, SaveChunk (temp file and rename), ReceivedChunks, Assemble, Discard | chunks re-sent, two completes, abort while assembling | an assembled file is exactly the chunks of one version; resume never loses a chunk |
| **Sync client transfer** (`sync-client/internal/api/chunked.go`) | none beyond the call | start, resume, send the missing chunks, complete, abort | lost answers, 503 and retries, session gone | a file reported uploaded was recorded; no session leaks |
| **Sync client state** (`sync-client/internal/syncer`, `cmd/archivus-sync`) | `state.json`: file signatures and pending sessions; known folders of a pass | SyncAll, uploadTree, uploadOne, ensureFolder, save | crash before save, content changed meanwhile, stale folder knowledge, two client processes | a changed file is eventually uploaded, an unchanged one is not uploaded again |
| **Recycle bin and moves** (`diskmanager`, `s3manager` `movedelete.go`, `dirmanager.go`; `store/folder_recycle_store.go`, `recyclebin_store.go`) | rows, hidden rows, recycle-bin items, bytes under live and recycled keys | delete, restore, move, purge of files and folders | several calls per operation, each may fail; generations of one name; purge racing restore | an item's bytes are where its row says; restore brings back what was deleted; purge removes nothing live |
| **Direct uploads, listings, downloads** (`filemanager.go` of both managers, `handlers/storage_handler.go`, `storagemanager/types`) | rows, objects | UploadFileV2, ListFilesV2, GetFile, page windows | uploads over rows of any status; page boundaries | a listing shows each entry once; a ready file can be read |
| **Directory metadata** (`storagemanager/base/dirmetadata.go`, `CreateDirV2`) | `directory_metadata` rows, directories | create a folder and its ancestors | concurrent creators; disk and rows out of step | one row per folder; ancestors exist |
| **Sharing** (`services/shared`, `store/shared_store.go`) | grants on a drive and root path | grant, revoke, resolve a path, download | resolution over prefixes; folders deleted under a grant | access exactly within the granted subtree |
| **Accounts, drives, membership** (`services/auth`, `store/drive_store.go`) | users, invitations, API keys, a table of members for each level | sign-up, invite, add and remove members | checks before the changes, tables updated one after the other | access level is the one granted; a removed member is out |
| **Thumbnails** (`services/thumbnail`) | `thumbnail_path`, thumbnail files | cron scan, render, write back | overwrite while rendering; files that cannot be rendered | a thumbnail belongs to the current contents; every image gets one |
| **Sync client configuration** (`config/config.go`, `cmd/archivus-sync`) | a config and a state file per server, the active server | login, track, sync, daemon | several files per command, processes that share them, kills | files whole and in step; no tracked folder lost; nothing taken for delivered that is not |
| Bucket client | – | put, copy, delete, list, HEAD | any of them may fail, alone or for some keys of a batch | its callers' properties |
| Server wiring, logging, dashboard, shell, web front end | – | – | – | pure input and output, or library calls |

The API, the cron worker and the two storage managers interact only through
the database, the staging disk and the bucket; there are no messages between
them. Inside a process the goroutines share a channel of jobs and one atomic
flag. The client and the server interact by HTTP requests whose answers may be
lost.

## 2. Modules

`UploadQueue` models the pending-upload queue. Its state and actions follow the
code closely enough to be read side by side:

| code | model |
|---|---|
| a `file_metadata` row | an element of `Uploads` (the upload that created it) with `status`, `source`, `attempts`, `updated` |
| `updated_at` | a rank, so that only the order of the rows matters (`Touch`) |
| objects, archived versions with a row, staging disk | `objects`, `versions`, `staged` |
| `CompleteChunkUploadHandler` | `CheckBacklog`, `AssembleAndLookup`, `RecordPending` or `EnqueueFails`, `DiscardSession`, `Kick`, with `req` and `found` the handler's position and local variable |
| `ProcessPendingUploads` | `Kick`/`CronTick` start it, `QueryBatch` is one pass of its loop, `BatchDone` is `wg.Wait`, `EndDrain` the deferred reset of the flag; `phase`, `attempted`, `jobs` are its state |
| `uploadBatch`'s goroutines | `pc`, `job`, `copy`; `TakeJob`, `Claim`, `ClaimLost` |
| `finalizePendingUpload` | `OpenStaged`, `HeadObject`, `CopyToArchive`, `ArchiveRow`, `PutObject`, `MarkReady`, `RemoveStaged`: one action per call that another process can see |
| `finalizeClaimed` | `SettleFailure` |
| SIGTERM, crash | `Shutdown` (the context is cancelled), `Exit` (all goroutines of the process are gone) |

A worker works on the *snapshot* of the row its drain read, not on the row; this
is what the queue's disagreements in section 4 come from. Every database statement is one atomic
step, as it is in the database. Each call that can fail does so when its name is
in `Faults`; a push may take effect although its answer is an error.

What clients do is a parameter. `OverwritePolicy = "any"` is the server as it
is: nothing keeps two requests for one key apart. Under `"settled"` a client
uploads to a key only when no other request for it is in flight and its row is
ready or failed; under `"quiet"` also no drain holds the row in its channel
or in a worker. The safety properties hold for quiet clients; section 4 says what breaks under the
two weaker policies.

`VersionedStore` is the abstract specification: of every key, a state (empty,
queued, stored, failed), the last accepted upload, the contents, and the
contents kept as versions. `UploadQueue!Promise` is its instance under the
refinement mapping (`KeyState`, `latest`, `objects`, `versions`).
`UploadQueueInvariant` defines the inductive invariants, `UploadQueueProofs` has the
theorems, `MCUploadQueue` the instances for TLC.

`ChunkSessions` models the server's side of a chunked upload and `SyncClient`,
which extends it, the client's: one large file in one folder, passed over again
and again.

| code | model |
|---|---|
| a session directory: manifest, `N.part` files | `total` (0 without a session), `parts` (each chunk as the contents it was cut from) |
| a request being served | `handler[h]`: its kind, step and local variables; `listening` while its client waits |
| the five chunk handlers | `LoadSession` (owner and manifest), then `InitSession`, `SaveChunk`, `ReportStatus`, `CheckComplete` / `AppendChunk` / `RecordUpload`, `DiscardSession`; `HandlerFails`; no handler holds a lock |
| API process exits | `ServerExits`: the handlers are gone, the directories stay |
| `uploadOne`, `ensureFolder`, `uploadChunked` | `Stat`, `Hash`, `EnsureFolder`, `ChoosePending`, `Persist`, `Resume`, `Save`; `pc` is the position |
| `sendChunks`, `doJSON` | `Send` (the request of `TheRequest`), `ReadAnswer` with `OnAnswer` (retry, recheck, advance, give up) |
| `state.json`, the state in memory, `knownFolders` | `disk`, `mem`, `known` |
| the connection | `LoseRequest`, `LoseAnswer`; with `LateRequests` the request behind a lost answer may still be running |

`EditPolicy` says when the user writes the file: at `"any"` moment; `"between"` passes
only; or `"forward"`, between passes and never back to the content the state file
names. Modification times count the writes, contents have up to `MaxChunks` chunks.
`SyncClientInvariant` defines the invariants, `SyncClientProofs` has the theorems,
`MCSyncClient` the instances.

`RecycleBin` models the drive on local disk (disk manager): bytes are moved by
renames, rows and bin items change in the database, so each operation is a
sequence of steps with a possible failure, undone or not, after each.

| code | model |
|---|---|
| a folder's directory | `disk[folder]`: bytes under each name, `None` without a directory |
| `.recyclebin/<uuid>/` | `bin[item]`, `binDir` |
| `file_metadata`, `directory_metadata` | `rows`: a path and `hidden`, the time of the soft delete (`deleted_at`) |
| `recycle_bin_items` | `items`, `record` (original path, `created_at`) |
| `CreateDirV2` | `CreateDir`, `MakeDir`, `RecordDir` |
| `UploadFileV2` | `Upload`, `RecordFile` |
| `MoveFile` | `Move`, `UpdateRow`; `MoveFails` makes the folder and then finds no file |
| `DeleteFileV2` | `DeleteFile`, `RecordItem`, `DropRow` |
| `DeleteDir` | `DeleteDir`, `HideSubtree` (one transaction) |
| `RestoreFile`, `restoreFolder` | `Restore`, `RecordRestored` or `UnhideSubtree`, `DropItem`; `RestoreFails` |
| `PurgeRecycleBinItem`, `PurgeExpiredRecycleBin` | `UserPurge`, or `CronList` and `CronTake`; then `PurgeBytes`, `PurgeRows`, `PurgeItem` |
| process exits | `ApiExits`, `CronExits` |

`op` is the position of the one request in progress: the users of a drive take
turns, the nightly purge runs beside them. `damage` counts what the code does
not undo: an exit in the middle of a request, and a failure of the last step of a
deletion or restore. Properties about rows and bytes agreeing hold without
damage; `NothingLost` holds with it. `RecycleBinInvariant` defines the invariants,
`RecycleBinProofs` has the theorems.

`BucketBin` is the same drive in a bucket (S3 manager). There is no rename: a move
or a deletion copies objects and then deletes them, a folder is moved key by key,
and an upload over a file first archives the old version under a fresh name.

| code | model |
|---|---|
| objects under the drive's prefix, under `.recyclebin/<uuid>/` | `bucket[key]`, `bin[item]`; the marker of a folder is the key `<<folder>>` |
| rows and bin items | `rows`, `items`, `record`, as in `RecycleBin` |
| `CreateDirV2` | `CreateDir`, `EnsureRow` (the marker is removed on an error, whoever made it) |
| `UploadFileV2` | `Upload` (archive copy), `ArchiveRow`, `PutObject`, `RecordUpload` |
| `MoveFile` | `Move`, `DeleteSource`, `UpdateLocation` |
| `DeleteFileV2` | `DeleteFile`, `DeleteOriginal`, `RecordItem`, `DropRow` |
| `DeleteDir` | `DeleteDir` (all copies), `DeleteBatch`, `HideSubtree` (one transaction) |
| `RestoreFile`, `restoreFolder` | `RestoreFile`, `RecreateRow`; `RestoreFolder`, `CopyBack` (key by key), `DeleteRecycled`, `UnhideSubtree`; `DropItem` |
| purges | `UserPurge`, or `CronList` and `CronTake`; `PurgeObjects`, `PurgeRows`, `PurgeItem` |

`damage` again counts what nothing undoes: an exit, a failed last step, a batch
deletion that left keys behind (its list of errors is not read), a failed undoing,
and a restore that meets a purge of its item. `BucketBinInvariant` defines the
invariants, `BucketBinProofs` has the theorems.

`Access` models one drive and its owner: accounts, invitation codes, the tables of
readers, writers and managers, folders and their shares. A request is a record
`req[q]` with its next step and its local variables; its checks and its queries
are separate steps, so that requests run into each other between them.

| code | model |
|---|---|
| `CheckIfUserInDrive` | `Level`: the first table, in the order of the levels, that has the user |
| `Register` | `Register`, `CreateUser`, then `JoinInvited` or `SetupNewDrive` |
| `InviteUser`, `AddUserToDrive` | `Invite`, `CodeExpires`, `Add` |
| `RemoveUserFromDrive` | `BeginRemove` (the checks), `DeleteMember` (one table each), `Reply` |
| `Grant`, `Revoke` | `BeginGrant`, `LookUpFolder`, `GrantSharedFolder`; `BeginRevoke`, `RevokeSharedFolder` |
| `List`, `Download`, `DownloadURL` | `BeginList`, `BeginDownload` (`resolveShare`), `CheckShare` (the storage manager looks again), `Reply` |

`added` is history: the levels at which a user was added while being removed.

`Thumbnails` has the files of a drive with their rows, and the job of the cron
worker: `Tick` takes a batch, `ReadSource`, `WriteThumb` and `RecordThumb` are done
for each row of it. The users' requests are single steps (their inside is
`BucketBin`'s subject), but for a replacement, whose bytes (`PutBytes`) and row
(`Settle`) change one after the other. A picture is the contents it was made from.
`ThumbnailsInvariant` defines the invariants, `ThumbnailsProofs` has the theorems.

`Paging` is the arithmetic of a paged listing, `PageBounds` and `PageWindow`.
`DriveListing` extends it with the directory rows: requests that make folders level by
level in a transaction (`MakeFolder`, `LookUp`, `CreateRow`, `Commit`, `RollBack`;
rows of a transaction are its own until it commits), removals of folders, uploads and
deletions, and a reader whose page is two counts and two slices (`CountDirs`,
`CountFiles`, `ReadDirs`, `ReadFiles`). Rows of one sort key come in any order.
`ListingInvariant` defines the invariants, `ListingProofs` has the theorems.

`ClientProfiles` has the files of the sync client and its commands as processes:
`Run`, `FindActive`, `LoadConfig`, then `Login`, `EditTracked` or `OpenState`,
`SyncFolder`, `EndPass`, `Rest`; a file is written by `Truncate`, `Write` and `Rename`,
and a process may be killed (`Crash`) at any of them. Temporary files have fixed
names, so two processes may write the same one. `ClientProfilesInvariant` defines the
invariants, `ClientProfilesProofs` has the theorems.

`ProfileStore` is what these files promise, with no file or process in it: the active
server, a profile of each server, the folders known as uploaded to it and what the
servers hold. A login changes one profile, starting from that server's own or, if none
was named, from the active one; a profile that names a server never becomes another's.
`Track` and `Untrack` change one folder of the active profile; a server is activated only
when it has a profile; `Remember` takes in only what is held and forgets nothing.
`ClientProfiles!Promise` is its instance, each profile and state read from its file.
A login is two steps of the store, the profile and then the active server, for a client
killed between its two renames stops there.

## 3. Runs

### Queue (`MCUploadQueue`)

Bounds: two uploads (so an overwrite, or two competing rows), at most three
workers of two processes (so races inside and across processes),
`MaxUploadAttempts = 2` instead of 5 (the boundary between the last retry and
giving up is reached, and a second drain can outdate an attempt count),
`BatchSize` 1 or 2 instead of 20 (a page smaller than or equal to the queue),
`BacklogLimit` in uploads of equal weight, at most one process exit. Two uploads
suffice for every hazard of the component: each needs one upload that is at work
and one that arrives meanwhile.

* **QueueOverwrite**: two uploads of one key, two processes, every call but HEAD
  may fail, one exit. `TypeOK`, `OneRowPerKey`, `UnsettledRowHasBytes`,
  `ReadyIsLatest`, `FailedMeansSpent`, `NoVersionLost` and the refinement
  `ImplementsVersionedStore`. Deadlock is not checked: once the bound on exits
  is used up and a row is stranded the system may have nothing to do.
* **QueuePool**: two files, three workers, lost claims and failing pushes.
  `ClaimExclusive`, `AttemptsBounded` (at most one attempt too many for each
  process beyond the first), `OncePerDrain`.
* **QueueLive**: `EveryUploadSettles` under fairness, copies and pushes failing.

Fairness (`Fairness`): a goroutine that can run does run (weak fairness of each
worker's step and of each drain's loop), a handler that has recorded its upload
goes on, and the cron ticks. Nothing is assumed of clients, of failures
(`QueryGivesUp`, `ClaimLost` by error) or of shutdowns.

### Sync client (`MCSyncClient`)

Bounds: contents `A` and `B` of two chunks, or in `SyncAny` of two and one (a file
that shrinks); four sessions, two requests served at once (one late, one current),
two attempts per chunk, one or two writes, one or two faults (lost messages,
failing calls and exits of either side together). Two chunks are enough for a
mixed file, two handlers for every race of one client with its own late request.

* **SyncAny**: writes at any moment, late requests, the folder deleted once. `TypeOK`;
  `OrphansBounded`: the client leaves a session behind on the server only for a lost
  answer, a crash before the session was saved, or a file whose number of chunks
  changed before it was resumed; `DeliveriesBounded`: a file is recorded again only
  because of a write or a fault.
* **SyncLive**: writes between passes that go forward. `NoMixedFile`,
  `ResumedSessionMatches`, `RecordedIsDelivered`, and under fairness
  `EventuallyDelivered`. Fairness: the client is started again and again and works on
  (its daemon runs passes periodically), and the server works on the requests it has
  received. Messages may be lost as often as the bound on faults allows. Late
  requests and folder deletions are left out: a late `/complete` may record the older
  version last, and a deleted folder is only made again after a restart of the
  client. `NoMixedFile` and `ResumedSessionMatches` hold with late requests, deletions and
  writes back, too: that is what the theorems of section 5 say.
* **SyncRestore** expects a violation, of `RecordedIsDelivered` by a write that goes
  back (section 4).

### Recycle bin (`MCRecycleBin`, `MCBucketBin`)

Bounds: the drive root and one folder, one file name (so the same name exists in
two places and a restore can find its place taken), two uploads, two bin items
(the second deletion meets the first item), four rows on disk, where `CreateDirV2`
records a folder twice, and three in the bucket. One unit of damage. Contents,
items and rows are interchangeable. Deadlock is not checked: with the bounds used
up there is nothing left to do.

* **RecycleFaults**: every database call but the insert of a directory row may
  fail. `TypeOK`, `ListedFileHasBytes`, `ListedOnce`, `ItemHasBytes`,
  `NothingLost`, `RestoreBringsBack`; a folder is deleted only when no older
  folder of its name is in the bin (`Generations = "one"`).
* **BucketFaults**: every call of the bucket and the database may fail but a
  listing (a listing that fails lets a restore overwrite what is there).
  `ListedHasObject`, `ListedOnce`, `EveryVersionReachable`, `NothingLost`;
  one generation of a folder as above, and nobody moves or restores a file onto
  another one (`Collisions = "none"`).

### Access (`MCAccess`)

* **AccessFaults**: the owner, an admin and a newcomer, a folder and one inside it,
  two requests at once, every query able to fail. Three users are what the
  properties need (one who acts, one who is acted upon, the owner), two requests
  what a race needs. `ManagersRemovedByOwner`, `RemovalIsComplete`,
  `ServedIsShared`. Nobody is added at a second level (`Regrants = "none"`).
  Deadlock is not checked: nobody need do anything.

### Thumbnails (`MCThumbnails`)

* **ThumbFaults**: three rows, three contents, two image files of one stem in
  different folders and a file without a generator, a batch of two, one failure,
  two moves or restores, one bin item. `TypeOK`, `ThumbShowsFile`, and under
  fairness `EveryImageGetsThumb`. Fairness: the cron runs the job every minute (weak
  fairness of its steps) and an upload that has begun is carried through; users and
  purges need do nothing. `Overlaps = "none"` keeps the settling of a
  replacement out of the moment between reading the file and recording its picture
  (`Apart`), and a new file off the picture of another, be it deleted or in the batch
  (`NewName`); files are moved and deleted at any moment.

### Listing (`MCDriveListing`)

* **ListingPages**: four folders (two of them inside another), three files, pages of
  two (so a page straddles folders and files), five changes, two requests that make
  folders at once. `FolderTree`, `NothingSkipped`. `Overlaps = "none"`: what the paths
  of two concurrent requests share exists already, entries are added at any moment but
  between the counts and the slices of the reader's last page, and removed when nobody
  reads or makes a folder. Sorted by name, so no two entries are equal in the order.

### Client profiles (`MCClientProfiles`)

* **ProfileFaults**: two processes, two servers, two folders meant for different
  drives, four commands, one kill; the client starts anew or with the root-level
  config of an older version. `SettingsSound`, `PassDelivers`, `TrackedKept` and the
  refinement `ImplementsProfileStore`.
  Config commands run one after the other, one process syncs to a server
  (`Overlaps = "none"`), and a folder is tracked for its own drive only
  (`Repoints = "none"`).

## 4. Known disagreements and limits of the code

The first is run as it is, by SyncRestore. Each of the others is what the model does
when the named parameter of a cfg is changed; the runs exclude it by that parameter.

* **A file brought back.** The answer to a `/complete` that was recorded is lost, or the
  client is killed before it saves: the server has the new content, `state.json` names
  the one before it. The user brings that one back; its checksum is the recorded one
  (`syncer.go:202`), the file is taken for unchanged, and the server keeps the other
  content. `state.go:22` has it that "fileState records what the client last uploaded for
  a given local file, so a subsequent run can tell whether the content changed".
  `EditPolicy = "between"`: `RecordedIsDelivered`.

* **A restart strands a claimed upload.** `GetPendingFileUploads` selects only
  pending rows, so one claimed by a process that exits stays `uploading` for ever,
  while the cron job is "the recovery net for the inline finalizer" and "picks up
  uploads orphaned by a restart" (`cmd/celery/main.go:124`). QueueLive with
  `MaxRestarts = 1`: `EveryUploadSettles`. A settling update that fails does the same.
* **A snapshot outlives its upload.** A worker uses what its drain read before the
  claim; claimed after the next overwrite was recorded, the row becomes ready
  without the new bytes, although "row claiming makes the two safe to race"
  (`chunk_handler.go:276`). `OverwritePolicy = "settled"`: `ReadyIsLatest`.
* With `OverwritePolicy = "any"` two requests for one new key create two rows
  (`OneRowPerKey`), and an overwrite of a row that is being pushed lets a second
  worker claim it (`ClaimExclusive`). With `"head"` among the faults a HEAD that fails
  is taken for an absent object and the contents are overwritten unarchived
  (`NoVersionLost`). Without the cron worker a kick that arrives while a drain is
  ending is lost (`EveryUploadSettles`).
* **Mixed chunks.** A chunk is read when it is sent: a file written A, B, A during a
  pass leaves a chunk of B in a session whose record says A and that is resumed,
  while "a stored session is only resumed if it still matches the local file
  exactly" (`sync-client/README.md:46`). SyncLive with `EditPolicy = "any"`:
  `ResumedSessionMatches`.
* **Generations of a folder.** Restoring the older of two deleted folders of one name
  also lists the rows of the younger, whose bytes are in the other item;
  `folder_recycle_store.go:76` says that "hiddenSince guards against resurrecting rows
  from an unrelated, older generation". `Generations = "any"`: `RestoreBringsBack`.
* **The clean-up of a folder creation.** On disk an upload makes its folder's directory
  without a row; a later `CreateDirV2` whose insert fails removes the directory with
  the files (`dirmanager.go:121`: "an existing directory is never a candidate for the
  cleanup"). `"create dir"` in `Failing`: `NothingLost`. In the bucket the marker of an
  existing folder is removed the same way (`BucketBin`: part of `damage`).
* **Moves and restores in a bucket** do not look at what is at the destination:
  `Collisions = "any"`, `NothingLost`.
* **Regrants.** A user added at a second level passes for the lesser one, and a
  manager so recorded is removed by other managers: `Regrants = "any"`,
  `ManagersRemovedByOwner`.
* **Concurrent folder creation** leaves two rows for a level, and an entry added
  between the counts and the slices of the last page may push another one out of
  it: `DriveListing` with `Overlaps = "any"`, `FolderTree`, `NothingSkipped`.
* **Ties in a listing's order.** Files sorted by size or creation time have no order when
  these are equal (`fileListOrder`, `metadata_store.go:363`), so each page's query may
  order them anew, and a file may be on two pages or on none. A `SortKey` that is the
  same for two files: `NothingSkipped`.
* **Thumbnails.** A row settled between reading and recording keeps the picture of the
  old contents; pictures drop the extension, so files of
  one stem share one; and as many unsupported files as the batch has places starve all
  others. `Overlaps = "any"`: `ThumbShowsFile`; a larger set of such files:
  `EveryImageGetsThumb`.
* **Two processes of the sync client** write one temporary file: `ClientProfiles` with
  `Overlaps = "any"`, `SettingsSound`, `TrackedKept`. A folder tracked again for
  another drive is not uploaded to it, for its files are remembered by path:
  `Repoints = "any"`, `PassDelivers`.

## 5. Proofs

`UploadQueueProofs` proves, for every number of uploads, keys, processes and
workers, every `BatchSize` and `MaxUploadAttempts` and every set of faults:

* `TypeCorrect`: `Spec => []TypeOK`, under every overwrite policy. The type
  invariant alone is not inductive: what a worker reads from its snapshot and
  the bucket depends on its program counter (`WorkerTypes`).
* `Invariance`: for quiet clients `Spec => []IInv`; and from it `ClaimExclusion`,
  `OneRow`, `StagedUntilStored`, `ReadyIsStored`, `FailedIsSpent`.
* `VersionsKept`: for quiet clients and a HEAD that does not fail by itself,
  `Spec => NoVersionLost`, from `IInv` and `ArchivedBeforePut`.

The argument: a worker that holds a row finds it `uploading` (`OwnedRows`), and
only a pending row is claimed, so claims are exclusive. A snapshot that may
still be claimed agrees with its row (`FreshSnapshots`), because a quiet client
records a new upload only when no snapshot of the row exists (`QuietRequests`);
so the worker pushes the upload recorded last (`PushedBeforeReady`). The staged
file of an unsettled row is removed only by the worker that has just marked the
row ready. `IInv` was checked with TLC before it was proved.

Three more are about drains, attempts and the abstract specification:

* `DrainsOnce`: `Spec => OncePerDrain`, under every overwrite policy.
* `AttemptsAreBounded`: for quiet clients `Spec => []AttemptsBounded`. A drain may claim a
  row by a snapshot taken before another process spent the row's last attempts. The
  invariant is `BudgetInv`: once a row has one attempt left, every new snapshot of it is
  the last, so its attempts together with the older snapshots still about
  (`LowClaims`) stay within the budget. It rests on `DrainInv`, that a drain has a row in
  hand once, so that each process accounts for one such snapshot at most; processes
  are a finite set (`ProcsAssumption`).
* `Refinement`: for quiet clients and a HEAD that does not fail by itself
  `Spec => ImplementsVersionedStore`: every action is mapped to a step of
  `VersionedStore` or to a stutter. `ArchivedBeforePut` is what the archiving of a
  version needs.

`SyncClientProofs` proves, for files of any length, any number of sessions and handlers,
and any bounds on faults, writes and attempts:

* `TypeCorrect`, from `SInv`, which holds however the file is written: at which steps
  a request is in flight, whose session it names, what the state file and the memory of
  the client have in common.
* `RecordedFileIsWhole` and `ResumesSameContent`: `Spec => []NoMixedFile` and
  `Spec => []ResumedSessionMatches` when the file is written between passes, with late
  requests, deletions, kills of either side and writes back to an older content. Neither
  is inductive: `ContentInv` says that there is one content for every session, that
  the chunks stored, the chunks in flight, the client's records of it and a request
  that appends it agree on.
* `DeliveriesAreBounded` and `OrphansAreBounded`, whenever the file is written. They bound
  counters, so each rests on a potential that no step raises by more than its
  bound: `DeliveryInv` adds to the files recorded those that requests nobody waits for will
  record (`Late`) and those the client still has to have recorded (`Due`); `LeakInv` adds
  to the sessions nobody knows (`Lost`) the requests that will make another one
  (`Ghosts`).
* `BeliefIsTrue`: `Spec => []RecordedIsDelivered` when no request is late and writes go
  forward. `BeliefInv` relates the state file and the client's memory to the last record of
  the server at each step of a pass; both assumptions are needed (section 4, and
  section 3 on late requests).

`AccessProofs` proves, for any users, requests, folders and failing queries:

* `TypeCorrect`: `Spec => []TypeOK`.
* `RemovalsAreComplete`: `Spec => []RemovalIsComplete`.

Both follow from `AccessInv`, which adds to the types what a request carries at each
step (`Carries`), and that the tables a removal has been through hold the user
only at levels added meanwhile (`LeftBehind`): `RemovalIsComplete` alone says nothing
of a removal that is half done.

It also proves the action properties of the module:

* `SharesAreChecked`: `Spec => ServedIsShared`, since no step but `CheckShare` lets a
  request through.
* `OwnerRemovesManagers`: `Spec => ManagersRemovedByOwner` when nobody is added at a
  second level. It needs that a user is in one table at most, hence that a user whose
  registration is about to enter a table is in none and is registered by one
  request (`MemberInv`); then a removal under way is the owner's, or finds a manager
  only if added since (`Entitled`).

`ListingProofs` proves, for every page size, page and number of folders and files, that
the pages tile (`PagesTile`) and that the two queries of a page return exactly its
slice of the folders followed by the files (`WindowIsItsSlice`). It also proves `RowsAreATree`: `Spec => []FolderTree` for any paths, ids and
number of requests, with `Overlaps = "none"`. The invariant, `TreeInv`, says of every
request under way that the rows it sees are a tree; that the rows it has
created are levels of its path nobody has recorded (`OnPath`); that it has reached a
row on its path (`Reached`), so that a look-up by name and parent is a look-up
of the next level (`NextRow`); and that levels two requests share are recorded
(`SharedRecorded`). That last part, which only `Overlaps = "none"` gives, is what makes
the union of two transactions' rows a tree again (`TreesJoin`).

On these rests `PagesShowAll`: `Spec => []NothingSkipped`, for any folders, files, page size
and number of changes, with `Overlaps = "none"` and no two folders and no two files equal in
the listing's order (`DistinctKeys`; by name that is so, for a folder's entries have
different names, and section 4 has what ties do). The invariant, `ReaderInv`, counts by
*rank*: how many entries come before one in its table. In a list sorted by distinct keys
an entry is at its rank (`SortedByRank`), so a slice holds the ranks it asks for
(`SliceHolds`), and entries that are added can only raise a rank (`RankGrows`). Hence what was
there all along and has not been shown is never pushed back over an offset the reader has
passed: before a page is counted, folders of a rank below its offset have been shown, and
files of a rank below the offset less the folders there are now; after, less the
folders *counted* (`Earlier`, `Covered`), which may be fewer than there are when the slices
are read. The counts are exact where the walk ends (`Counted`), which is what
`Overlaps = "none"` provides. `TreeInv` is needed for one row a path. TLC checked `ReaderInv`,
with the bounds of `ListingPages`, before it was proved. `TypeCorrect`, `Spec => []TypeOK`,
follows from the two invariants under the same hypotheses.

`ClientProfilesProofs` proves, for any servers, folders and processes and any number of
commands and kills:

* `TypeCorrect`: `Spec => []TypeOK`, however commands overlap (`TypeInv`: what a process
  has in memory, and has left to write, at each of its steps). It needs that what a
  file may hold is told from a missing and from a torn file (`ContentsAssumption`).
* `SettingsAreSound` and `TrackedFoldersKept`: `Spec => []SettingsSound` and
  `Spec => TrackedKept` when commands do not overlap. `SettingsInv` says that processes at
  work are apart, hence no two write one temporary file and what a rename puts in
  place is what its process wrote; that a token is its server's own; that the active
  server has its profile before it becomes active; and that a config command has in
  memory every folder of the profile it is to replace (`Keeps`).
* `PassesDeliver`: `Spec => []PassDelivers` when, besides, folders are tracked for their own
  drives. `PassInv` says of every state file and every pass that what they record has
  been sent to that server, for the folder's own drive.
* `ImplementsStore`: `Spec => ImplementsProfileStore` under the same conditions. A rename
  of a config is one edit only if what the process loaded several steps before is still
  the profile it replaces: `StoreInv` says so of every config command from the moment it
  knows its server (`EditSound`), and of every sync that it was logged in to its server
  and has in memory all its state file says (`SyncSound`). The root-level config is replaced
  only by a command that found no server named in it, so no server's login is lost
  (`LinkedStays`). TLC checked `StoreInv`, with the bounds of `ProfileFaults`, before
  it was proved.

`RecycleBinProofs` proves, for any folders, names, contents and rows, any finite set of bin
items, any failures and any number of exits:

* `RequestsAreSound` and `TypeCorrect`: `Spec => []RequestInv` and `Spec => []TypeOK`, whatever
  fails and whoever exits. `RequestInv` says what a request may rely on at each of its
  steps, with a purge running beside it: the bytes it moved are where it put them and
  nothing has taken their place, so that undoing it overwrites nothing
  (`RequestTypes`); a new item is in nobody's sight until it is recorded; an item being
  purged has no directory left once its bytes are gone (`PurgeTypes`). That time does
  not run out rests on every deletion of a folder having recorded an item
  (`Deletions`), hence the finite set of items.
* `BytesAreKept`: `Spec => NothingLost`, if the insert of a directory row does not fail
  (section 4 shows that a failure of it loses files). Every rename is to a place that is
  empty, there and back (`FileBinned`, `FileBack`, `DirBinned`, `DirBack`, `Moved`).
* `RowsMatchBytes`: `Spec => []OrderlyInv`, under the same assumption and when no folder is
  deleted while an older one of its name is in the bin (`Generations = "one"`; section 4 has
  what goes wrong otherwise). While there is no damage, every listed file has its bytes
  but the one a request is moving (`Listing`); every hidden row is of a recorded
  item, found by path and time (`HiddenRows`), and a folder has one item anybody may
  still restore or purge (`OneItem`), so that the rows a restore unhides, and those a
  purge removes, are exactly those its deletion hid; an item's hidden rows and its
  bytes have the same names (`HiddenBytes`, `FolderBytes`), and are what was listed
  when it was deleted (`Remembered`, `RequestRemembers`).
* From it, under the same assumptions: `ListedFilesHaveBytes`, `FilesAreListedOnce`,
  `ItemsHaveBytes` and `RestoresBringBack`, the properties `ListedFileHasBytes`,
  `ListedOnce`, `ItemHasBytes` and `RestoreBringsBack`. None of them is inductive: that a
  restore brings everything back depends on the whole way from the deletion through
  the bin, past purges of other items.

`BucketBinProofs` proves, for any folders, names, contents and rows, any finite set of bin
items, any failures and any number of exits:

* `RequestsAreSound` and `TypeCorrect`: `Spec => []RequestInv` and `Spec => []TypeOK`, whatever
  fails and whoever exits. `RequestInv` says where the copies are of what a request
  moves (`Copies`): an archived version beside the object an upload is about to overwrite,
  a moved object at both of its keys, a deleted one in the bin; which keys hold markers
  (`MarkerKeys`); and that a purge running beside a request is of another item, or of one
  whose objects the request has no need of any more (`RequestStays`).
* `VersionsAreKept`: `Spec => NothingLost`, when nobody moves or restores a file onto
  another (`Collisions = "none"`; section 4 shows the loss otherwise) and the listing a
  restore begins with answers (`BucketFaults`, section 3). Every step that deletes or
  overwrites an object is shown to have an equal one elsewhere, or to be one of the
  exceptions the property names.
* `ListingsAreSound`: `Spec => []OrderlyInv`, under the same two assumptions. While there
  is no damage, at every step of every request: a listed file has its object but the one
  a request is moving (`Listing`); what a request is about is where its next step looks
  for it, in the rows (`Clear`) and among the objects (`Held`); nobody purges the item a
  request restores (`Restorable`); hidden rows are of a recorded item, found by path
  and time, and a folder has one item anybody may still restore or purge (`HiddenRows`,
  `OneItem`); a folder that exists beside an older one in the bin has a marker, so that
  the older one is not restored into it (`Marked`); an item has the objects of its path,
  and of every hidden row of it (`ItemKeys`, `HiddenBytes`); an item's objects go before
  its rows, and its rows before the item (`PurgedBytes`, `NothingHidden`); and a version
  is listed, in an item that restores it, or on its way from one to the other
  (`Reachable`). One lemma per action, `...Listing`; `BinStays` and `OthersTaken` say what
  the steps that do not touch the bin, and those of a purge, leave alone. `OrderlyInv` and
  `RequestInv` were checked with TLC, with the bounds of `BucketFaults`, before they were
  proved.
* From it, under the same assumptions: `ListedFilesHaveObjects`, `PathsAreListedOnce` and
  `VersionsAreReachable`, the properties `ListedHasObject`, `ListedOnce` and
  `EveryVersionReachable`. That a folder's item restores a version rests on `OneItem`: the
  hidden row of its key can only be of this item, so the restore unhides it.

`ThumbnailsProofs` proves, for any rows, paths, extensions and batch size and any number
of failures and moves:

* `TypeCorrect` and `ObjectsBelongToRows`: `Spec => []TypeOK` and `Spec => []Stored`,
  whatever overlaps. `Stored` (an object is stored exactly where one row says) is
  needed for the types: a deleted file's item must have contents to restore. That a
  batch is a sequence of at most `Limit` entries rests on `SomeOrder`, which says what
  `SetToSeq` chooses.
* `PicturesAreTheirs`: `Spec => []ThumbShowsFile` with `Overlaps = "none"`. The
  invariant, `PictureInv`, says which pictures a file may have (`Names`: the one its
  path stands for and the one its row records, which differ once it was moved) and
  that no two files, deleted or not, have one in common (`OwnPictures`); that the
  picture an entry of the batch is for is recorded by nobody, and while the entry's
  row is there, is no other file's (`BatchPictures`); and that what the job has read
  and written is of the file it is at (`JobReads`). `ReadsItsFile` is the crux:
  the job reads under the path of the time of the batch, and if an object is there, its
  row has that path, so it is the entry's row, or the entry's row is gone.

Every invariant, action property and refinement of a passing run is a theorem. Where the
types are proved for every value of the constants and the runs have harder questions,
`TypeOK` is in no run (`Access`, `BucketBin`, `ClientProfiles`, `DriveListing`).
Only model-checked:
liveness under fairness (`EveryUploadSettles`, `EventuallyDelivered`,
`EveryImageGetsThumb`), which is beyond the prover.

## 6. Not modelled

* Users of one drive at once in `RecycleBin` and `BucketBin`: they take turns. One level
  of folders in both; moves and renames of folders.
* Uploads, moves and deletions of a row that is pending or being pushed: `UploadQueue`
  has keys nobody moves, `BucketBin` rows that are settled.
* Log-in, tokens and API keys: hashing and signing are library calls, a key is one
  row. The single-request upload of small files by the sync client, and the walk inside a
  tracked folder.
* The legacy `CreateDir` and `UploadFile` of both managers; downloads and the
  dashboard, which read only.
* HTTP framing, formatting, logging, server configuration, image rendering, the tagging
  sidecar, and the web front end, whose state is the browser's.
