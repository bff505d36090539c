------------------------- MODULE UploadQueueProofs -------------------------
(***************************************************************************)
(* Proofs about UploadQueue: type correctness under every overwrite        *)
(* policy, the safety properties of the queue for quiet clients, that a    *)
(* drain takes up a row once, that a row's attempts are bounded, and that  *)
(* the queue implements the versioned store.                               *)
(***************************************************************************)
EXTENDS UploadQueueInvariant, FiniteSetTheorems, TLAPS

USE DEF dbVars, reqVars, loopVars, workVars, lifeVars

\* The rank an update gives its row is a natural number.
LEMMA TouchType ==
    ASSUME TypeOK, NEW r \in Uploads, Touch(r)
    PROVE  updated' \in [Uploads -> Nat]
<1>1. Cardinality(Uploads) \in Nat
  BY UploadsAssumption, FS_CardinalityType
<1>2. QED
  BY <1>1 DEF TypeOK, Touch

\* A batch is made of snapshots.
LEMMA SnapshotType ==
    ASSUME TypeOK, NEW p \in Procs
    PROVE  /\ NextBatch(p) \in SUBSET Uploads
           /\ {Snapshot(r) : r \in NextBatch(p)} \in SUBSET Snapshots
<1>1. NextBatch(p) \in SUBSET Uploads
  BY DEF NextBatch, PendingPage, PendingRows
<1>2. \A r \in Uploads : Snapshot(r) \in Snapshots
  BY DEF TypeOK, Snapshot, Snapshots
<1>3. QED
  BY <1>1, <1>2

\* The snapshot of a busy worker names a row, and NoJob is not a snapshot.
LEMMA NoJobIsNone == NoJob \notin Snapshots /\ NoJob.row = None
  BY UploadsAssumption DEF NoJob, Snapshots

LEMMA BusyType ==
    ASSUME TInv, NEW w \in Workers, pc[w] # "idle"
    PROVE  /\ job[w] \in Snapshots
           /\ job[w].row \in Uploads
           /\ job[w].attempts \in Nat
           /\ KeyAt(w) \in Keys
<1>1. job[w] \in Snapshots
  BY DEF TInv, TypeOK, WorkerTypes
<1>2. QED
  BY <1>1, UploadsAssumption DEF Snapshots, KeyAt

LEMMA InitTInv == Init => TInv
  BY UploadsAssumption DEF Init, TInv, TypeOK, WorkerTypes, Statuses, ReqPcs,
     Phases, WorkerPcs

\* The requests and the drain loop leave the workers' snapshots and the bucket.
LEMMA RequestTInv ==
    ASSUME TInv, NEW u \in Uploads,
           \/ CheckBacklog(u) \/ AssembleAndLookup(u) \/ RecordPending(u)
           \/ EnqueueFails(u) \/ DiscardSession(u) \/ Kick(u)
    PROVE  TInv'
<1> USE DEF TInv, TypeOK
<1>1. WorkerTypes'
  BY DEF WorkerTypes, KeyAt, CheckBacklog, AssembleAndLookup, RecordPending,
     EnqueueFails, DiscardSession, Kick
<1>2. CASE CheckBacklog(u)
  BY <1>1, <1>2 DEF CheckBacklog, ReqPcs
<1>3. CASE AssembleAndLookup(u)
  BY <1>1, <1>3 DEF AssembleAndLookup, RowsAt, ReqPcs
<1>4. CASE RecordPending(u)
  <2>1. RowFor(u) \in Uploads
    BY DEF RowFor
  <2>2. updated' \in [Uploads -> Nat]
    BY <1>4, <2>1, TouchType DEF RecordPending
  <2>3. QED
    BY <1>1, <1>4, <2>1, <2>2, UploadsAssumption DEF RecordPending, Statuses, ReqPcs
<1>5. CASE EnqueueFails(u)
  BY <1>1, <1>5 DEF EnqueueFails, ReqPcs
<1>6. CASE DiscardSession(u)
  BY <1>1, <1>6 DEF DiscardSession, ReqPcs
<1>7. CASE Kick(u)
  BY <1>1, <1>7, ProcsAssumption DEF Kick, StartDrain, ReqPcs, Phases
<1>8. QED
  BY <1>2, <1>3, <1>4, <1>5, <1>6, <1>7

LEMMA DrainTInv ==
    ASSUME TInv, NEW p \in Procs,
           \/ CronTick(p) \/ QueryBatch(p) \/ QueryGivesUp(p) \/ BatchDone(p)
           \/ EndDrain(p) \/ Shutdown(p) \/ Exit(p)
    PROVE  TInv'
<1> USE DEF TInv, TypeOK
<1>1. WorkerTypes'
  BY DEF WorkerTypes, KeyAt, CronTick, QueryBatch, QueryGivesUp, BatchDone,
     EndDrain, Shutdown, Exit
<1>2. CASE CronTick(p)
  BY <1>1, <1>2 DEF CronTick, StartDrain, Phases
<1>3. CASE QueryBatch(p)
  BY <1>1, <1>3, SnapshotType DEF QueryBatch, Phases
<1>4. CASE QueryGivesUp(p)
  BY <1>1, <1>4 DEF QueryGivesUp, Phases
<1>5. CASE BatchDone(p)
  BY <1>1, <1>5 DEF BatchDone, Phases
<1>6. CASE EndDrain(p)
  BY <1>1, <1>6 DEF EndDrain, Phases
<1>7. CASE Shutdown(p)
  BY <1>1, <1>7 DEF Shutdown
<1>8. CASE Exit(p)
  BY <1>1, <1>8 DEF Exit, Phases, WorkerPcs, ReqPcs
<1>9. QED
  BY <1>2, <1>3, <1>4, <1>5, <1>6, <1>7, <1>8

LEMMA WorkerTInv ==
    ASSUME TInv, NEW w \in Workers, WorkerStep(w)
    PROVE  TInv'
<1> USE DEF TInv, TypeOK, WorkerPcs, BackToPool, Goto, Fails
<1>1. CASE TakeJob(w)
  <2>1. PICK j \in jobs[HostOf[w]] :
             /\ jobs' = [jobs EXCEPT ![HostOf[w]] = @ \ {j}]
             /\ job' = [job EXCEPT ![w] = j]
    BY <1>1 DEF TakeJob
  <2>2. j \in Snapshots /\ j # NoJob
    BY ProcsAssumption, NoJobIsNone
  <2>3. jobs' \in [Procs -> SUBSET Snapshots]
    BY <2>1
  <2>4. TypeOK'
    BY <1>1, <2>1, <2>2, <2>3 DEF TakeJob
  <2>5. WorkerTypes'
    BY <1>1, <2>1, <2>2 DEF TakeJob, WorkerTypes, KeyAt
  <2>6. QED
    BY <2>4, <2>5
<1>2. CASE Claim(w)
  <2>1. updated' \in [Uploads -> Nat]
    BY <1>2, BusyType, TouchType DEF Claim
  <2>2. TypeOK'
    <3>1. job[w].row \in Uploads
      BY <1>2, BusyType DEF Claim
    <3>2. status' \in [Uploads -> Statuses] /\ attempts' \in [Uploads -> Nat]
      BY <1>2, <3>1 DEF Claim, Statuses
    <3>3. pc' \in [Workers -> WorkerPcs]
      BY <1>2 DEF Claim
    <3>4. QED
      BY <1>2, <2>1, <3>2, <3>3 DEF Claim
  <2>3. WorkerTypes'
    BY <1>2 DEF Claim, WorkerTypes, KeyAt
  <2>4. QED
    BY <2>2, <2>3
<1>3. CASE ClaimLost(w)
  BY <1>3 DEF ClaimLost, WorkerTypes, KeyAt
<1>4. CASE OpenStaged(w)
  BY <1>4 DEF OpenStaged, WorkerTypes, KeyAt
<1>5. CASE HeadObject(w)
  BY <1>5, BusyType DEF HeadObject, AfterHead, WorkerTypes, KeyAt
<1>6. CASE CopyToArchive(w)
  BY <1>6, BusyType DEF CopyToArchive, WorkerTypes, KeyAt
<1>7. CASE ArchiveRow(w)
  <2>1. copy[w] \in Uploads /\ KeyAt(w) \in Keys
    BY <1>7, BusyType DEF ArchiveRow, WorkerTypes
  <2>2. versions' \in [Keys -> SUBSET Uploads]
    BY <1>7, <2>1 DEF ArchiveRow
  <2>3. TypeOK'
    BY <1>7, <2>2 DEF ArchiveRow
  <2>4. WorkerTypes'
    BY <1>7 DEF ArchiveRow, WorkerTypes, KeyAt
  <2>5. QED
    BY <2>3, <2>4
<1>8. CASE PutObject(w)
  <2>1. job[w].source \in Uploads /\ KeyAt(w) \in Keys
    BY <1>8, BusyType DEF PutObject, WorkerTypes
  <2>2. TypeOK'
    BY <1>8, <2>1 DEF PutObject
  <2>3. \A k \in Keys : objects[k] \in Uploads => objects'[k] \in Uploads
    BY <1>8, <2>1 DEF PutObject
  <2>4. \A v \in Workers : pc[v] = "copy" => KeyAt(v) \in Keys
    BY BusyType
  <2>5. /\ UNCHANGED <<job, copy>>
        /\ \E to \in {"ready", "settle"} : pc' = [pc EXCEPT ![w] = to]
    BY <1>8 DEF PutObject
  <2>6. WorkerTypes'
    BY <1>8, <2>1, <2>3, <2>4, <2>5 DEF PutObject, WorkerTypes, KeyAt
  <2>7. QED
    BY <2>2, <2>6
<1>9. CASE MarkReady(w)
  <2>1. updated' \in [Uploads -> Nat]
    BY <1>9, BusyType, TouchType DEF MarkReady
  <2>2. QED
    BY <1>9, <2>1, BusyType DEF MarkReady, WorkerTypes, KeyAt, Statuses
<1>10. CASE RemoveStaged(w)
  BY <1>10 DEF RemoveStaged, WorkerTypes, KeyAt
<1>11. CASE SettleFailure(w)
  <2>1. updated' \in [Uploads -> Nat]
    BY <1>11, BusyType, TouchType DEF SettleFailure
  <2>2. QED
    BY <1>11, <2>1, BusyType DEF SettleFailure, SettledStatus, WorkerTypes, KeyAt, Statuses
<1>12. QED
  BY <1>1, <1>2, <1>3, <1>4, <1>5, <1>6, <1>7, <1>8, <1>9, <1>10, <1>11 DEF WorkerStep

LEMMA NextTInv == TInv /\ [Next]_vars => TInv'
<1> SUFFICES ASSUME TInv, [Next]_vars PROVE TInv'
  OBVIOUS
<1>1. CASE Next
  BY <1>1, RequestTInv, DrainTInv, WorkerTInv DEF Next
<1>2. CASE UNCHANGED vars
  BY <1>2 DEF vars, TInv, TypeOK, WorkerTypes, KeyAt
<1>3. QED
  BY <1>1, <1>2

\* Every state of the queue is well typed, whatever the clients do, the calls
\* that fail and the processes that exit.
THEOREM TypeCorrect == Spec => []TypeOK
<1>1. Spec => []TInv
  BY InitTInv, NextTInv, PTL DEF Spec
<1>2. TInv => TypeOK
  BY DEF TInv
<1>3. QED
  BY <1>1, <1>2, PTL

-----------------------------------------------------------------------------
(* The inductive invariant for quiet clients *)

LEMMA InitIInv == Init => IInv
<1> SUFFICES ASSUME Init PROVE IInv
  OBVIOUS
<1>1. TInv
  BY InitTInv
<1>2. OwnedRows /\ ClaimExclusive /\ PushedBeforeReady
  BY DEF Init, OwnedRows, ClaimExclusive, PushedBeforeReady, Holding
<1>3. OneRowPerKey /\ RowSources /\ UnsettledRowHasBytes /\ ReadyIsLatest /\ FailedMeansSpent
  BY DEF Init, OneRowPerKey, RowSources, UnsettledRowHasBytes, ReadyIsLatest, FailedMeansSpent
<1>4. QuietRequests /\ FreshSnapshots
  BY DEF Init, QuietRequests, InFlight, FreshSnapshots, Holding
<1>5. QED
  BY <1>1, <1>2, <1>3, <1>4 DEF IInv

\* What a worker may do without touching a row: drop its job, move on with the
\* row it owns, or take a job from its channel.
CalmWorker(w) ==
    \/ pc'[w] = "idle"
    \/ /\ pc[w] # "idle"
       /\ job'[w] = job[w]
       /\ Holding(w)' => Holding(w)
       /\ pc'[w] = "ready" => pc[w] = "ready"
       /\ pc'[w] = "remove" => pc[w] = "remove"
    \/ pc'[w] = "claim" /\ job'[w] \in jobs[HostOf[w]]

\* A step that leaves the rows, the objects and the history alone.
Calm ==
    /\ UNCHANGED <<status, source, attempts, objects, latest>>
    /\ \A r \in Uploads :
         status[r] \in {"pending", "uploading", "failed"} /\ source[r] \in staged
         => source[r] \in staged'
    /\ \A p \in Procs : jobs'[p] \subseteq jobs[p]
    /\ \A u \in Uploads :
         InFlight(u)' => /\ InFlight(u) /\ req'[u] = req[u] /\ found'[u] = found[u]
                         /\ u \in staged => u \in staged'
    /\ \A w \in Workers : CalmWorker(w)

\* A step that moves a job only from its channel to a worker leaves a row that
\* no drain holds unheld.
LEMMA CalmUnheld ==
    ASSUME IInv, TInv', Calm, NEW r \in Uploads, Unheld(r)
    PROVE  Unheld(r)'
<1>1. \A p \in Procs : \A j \in jobs'[p] : j.row # r
  BY DEF Calm, Unheld
<1>2. ASSUME NEW w \in Workers
      PROVE  job'[w].row # r
  <2>1. CASE pc'[w] = "idle"
    BY <2>1, NoJobIsNone, UploadsAssumption DEF TInv, WorkerTypes, NoJob
  <2>2. CASE job'[w] = job[w]
    BY <2>2 DEF Unheld
  <2>3. CASE job'[w] \in jobs[HostOf[w]]
    BY <2>3, ProcsAssumption DEF Unheld
  <2>4. QED
    BY <2>1, <2>2, <2>3 DEF Calm, CalmWorker
<1>3. QED
  BY <1>1, <1>2 DEF Unheld

LEMMA CalmIInv ==
    ASSUME IInv, TInv', Calm
    PROVE  IInv'
<1>1. OwnedRows'
  BY DEF IInv, OwnedRows, Calm, CalmWorker, Holding
<1>2. ClaimExclusive'
  BY DEF IInv, ClaimExclusive, Calm, CalmWorker, Holding
<1>3. OneRowPerKey' /\ RowSources' /\ ReadyIsLatest' /\ FailedMeansSpent'
  BY DEF IInv, OneRowPerKey, RowSources, ReadyIsLatest, FailedMeansSpent, Calm
<1>4. UnsettledRowHasBytes'
  BY DEF IInv, UnsettledRowHasBytes, Calm
<1>5. PushedBeforeReady'
  BY DEF IInv, PushedBeforeReady, Calm, CalmWorker, KeyAt
<1>6. \A j : Fresh(j) => Fresh(j)'
  BY DEF Calm, Fresh
<1>7. FreshSnapshots'
  <2>1. \A p \in Procs : \A j \in jobs'[p] : Fresh(j)'
    BY <1>6 DEF IInv, FreshSnapshots, Calm
  <2>2. \A w \in Workers : pc'[w] # "idle" => \/ Fresh(job[w]) /\ job'[w] = job[w]
                                          \/ job'[w] \in jobs[HostOf[w]]
    BY DEF IInv, FreshSnapshots, Calm, CalmWorker
  <2>3. \A w \in Workers : pc'[w] # "idle" => Fresh(job'[w])
    BY <2>2, ProcsAssumption DEF IInv, FreshSnapshots
  <2>4. \A w \in Workers : pc'[w] # "idle" => Fresh(job[w])'
    BY <2>3 DEF Fresh, Calm
  <2>5. \A w \in Workers : Holding(w)' => job'[w].attempts < attempts'[job'[w].row]
    BY DEF IInv, FreshSnapshots, Calm, CalmWorker, Holding
  <2>6. QED
    BY <2>1, <2>4, <2>5 DEF FreshSnapshots
<1>8. QuietRequests'
  <2>1. \A k : RowsAt(k)' = RowsAt(k)
    BY DEF RowsAt, Calm
  <2>2. \A r \in Uploads : Settled(r)' = Settled(r)
    BY DEF Settled, Calm
  <2>3. \A k : RowsAt(k) \subseteq Uploads
    BY DEF RowsAt
  <2>4. QED
    BY <2>1, <2>2, <2>3, CalmUnheld DEF IInv, QuietRequests, Calm
<1>9. QED
  BY <1>1, <1>2, <1>3, <1>4, <1>5, <1>7, <1>8 DEF IInv

\* Requests that only move on, and the drain loop apart from its queries.
LEMMA RequestCalm ==
    ASSUME IInv, NEW u \in Uploads,
           EnqueueFails(u) \/ DiscardSession(u) \/ Kick(u)
    PROVE  Calm
<1> USE DEF IInv, TInv, TypeOK, Calm
<1>1. \A w \in Workers : CalmWorker(w)
  BY DEF CalmWorker, Holding, EnqueueFails, DiscardSession, Kick
<1>2. CASE EnqueueFails(u)
  <2>1. \A v \in Uploads : v \in staged /\ InFlight(v)' => v \in staged'
    BY <1>2 DEF EnqueueFails, InFlight
  <2>2. QED
    BY <1>1, <1>2, <2>1 DEF EnqueueFails, InFlight
<1>3. CASE DiscardSession(u)
  BY <1>1, <1>3 DEF DiscardSession, InFlight
<1>4. CASE Kick(u)
  BY <1>1, <1>4 DEF Kick, StartDrain, InFlight
<1>5. QED
  BY <1>2, <1>3, <1>4

LEMMA DrainCalm ==
    ASSUME IInv, NEW p \in Procs,
           \/ CronTick(p) \/ QueryGivesUp(p) \/ BatchDone(p) \/ EndDrain(p)
           \/ Shutdown(p) \/ Exit(p)
    PROVE  Calm
<1> USE DEF IInv, TInv, TypeOK, Calm, CalmWorker
<1>1. CASE CronTick(p)
  BY <1>1 DEF CronTick, StartDrain, InFlight, Holding
<1>2. CASE QueryGivesUp(p)
  BY <1>2 DEF QueryGivesUp, InFlight, Holding
<1>3. CASE BatchDone(p)
  BY <1>3 DEF BatchDone, InFlight, Holding
<1>4. CASE EndDrain(p)
  BY <1>4 DEF EndDrain, InFlight, Holding
<1>5. CASE Shutdown(p)
  BY <1>5 DEF Shutdown, InFlight, Holding
<1>6. CASE Exit(p)
  <2>1. \A w \in Workers : CalmWorker(w)
    BY <1>6 DEF Exit, Holding
  <2>2. \A v \in Uploads :
          InFlight(v)' => InFlight(v) /\ req'[v] = req[v] /\ found'[v] = found[v]
    BY <1>6 DEF Exit, InFlight
  <2>3. UNCHANGED staged
    BY <1>6 DEF Exit
  <2>4. \A q \in Procs : jobs'[q] \subseteq jobs[q]
    BY <1>6 DEF Exit
  <2>5. QED
    BY <1>6, <2>1, <2>2, <2>3, <2>4 DEF Exit
<1>7. QED
  BY <1>1, <1>2, <1>3, <1>4, <1>5, <1>6

\* The worker steps that write neither a row nor an object.  RemoveStaged is one
\* of them: the file it removes belongs to a row that is ready.
LEMMA WorkerCalm ==
    ASSUME IInv, NEW w \in Workers,
           \/ TakeJob(w) \/ ClaimLost(w) \/ OpenStaged(w) \/ HeadObject(w)
           \/ CopyToArchive(w) \/ ArchiveRow(w) \/ RemoveStaged(w)
    PROVE  Calm
<1> USE DEF IInv, TInv, TypeOK, Calm, Goto, Fails, BackToPool, WorkerPcs
<1>1. \A v \in Workers : CalmWorker(v)
  <2>1. CASE TakeJob(w)
    BY <2>1, ProcsAssumption DEF TakeJob, CalmWorker, Holding
  <2>2. CASE ~TakeJob(w)
    BY <2>2 DEF CalmWorker, Holding, ClaimLost, OpenStaged, HeadObject, AfterHead,
       CopyToArchive, ArchiveRow, RemoveStaged
  <2>3. QED
    BY <2>1, <2>2
<1>2. /\ UNCHANGED <<status, source, attempts, objects, latest, req, found>>
      /\ \A p \in Procs : jobs'[p] \subseteq jobs[p]
  <2>1. CASE TakeJob(w)
    BY <2>1, ProcsAssumption DEF TakeJob
  <2>2. CASE ~TakeJob(w)
    BY <2>2 DEF ClaimLost, OpenStaged, HeadObject, CopyToArchive, ArchiveRow, RemoveStaged
  <2>3. QED
    BY <2>1, <2>2
<1>3. ASSUME NEW r \in Uploads,
             status[r] \in {"pending", "uploading", "failed"}, source[r] \in staged
      PROVE  source[r] \in staged'
  <2>1. CASE RemoveStaged(w)
    <3>1. /\ pc[w] = "remove"
          /\ status[job[w].row] = "ready"
          /\ job[w].row \in Uploads
          /\ job[w].source \in Uploads
          /\ Fresh(job[w])
      BY <2>1, BusyType DEF RemoveStaged, OwnedRows, WorkerTypes, FreshSnapshots
    <3>2. KeyOf[job[w].source] = KeyOf[job[w].row]
      BY <3>1, UploadsAssumption DEF Fresh
    <3>3. source[r] # job[w].source
      BY <1>3, <3>1, <3>2, UploadsAssumption DEF RowSources, OneRowPerKey
    <3>4. QED
      BY <1>3, <2>1, <3>3 DEF RemoveStaged
  <2>2. CASE ~RemoveStaged(w)
    BY <1>3, <2>2 DEF TakeJob, ClaimLost, OpenStaged, HeadObject, CopyToArchive, ArchiveRow
  <2>3. QED
    BY <2>1, <2>2
<1>4. ASSUME NEW u \in Uploads, InFlight(u), u \in staged
      PROVE  u \in staged'
  <2>1. CASE RemoveStaged(w)
    <3>1. /\ status[job[w].row] = "ready"
          /\ job[w].row \in Uploads
          /\ job[w].source \in Uploads
          /\ Fresh(job[w])
      BY <2>1, BusyType DEF RemoveStaged, OwnedRows, WorkerTypes, FreshSnapshots
    <3>2. KeyOf[job[w].source] = KeyOf[job[w].row]
      BY <3>1, UploadsAssumption DEF Fresh
    <3>3. ~Unheld(job[w].row)
      BY DEF Unheld
    <3>4. job[w].source # u
      BY <1>4, <3>1, <3>2, <3>3 DEF QuietRequests, RowsAt
    <3>5. QED
      BY <1>4, <2>1, <3>4 DEF RemoveStaged
  <2>2. CASE ~RemoveStaged(w)
    BY <1>4, <2>2 DEF TakeJob, ClaimLost, OpenStaged, HeadObject, CopyToArchive, ArchiveRow
  <2>3. QED
    BY <2>1, <2>2
<1>5. QED
  BY <1>1, <1>2, <1>3, <1>4 DEF InFlight

\* A quiet client starts a request only for a key at rest.
LEMMA CheckBacklogIInv ==
    ASSUME IInv, TInv', OverwritePolicy = "quiet", NEW u \in Uploads, CheckBacklog(u)
    PROVE  IInv'
<1> USE DEF IInv, CheckBacklog
<1>1. OwnedRows' /\ ClaimExclusive' /\ PushedBeforeReady'
  BY DEF OwnedRows, ClaimExclusive, PushedBeforeReady, Holding, KeyAt
<1>2. OneRowPerKey' /\ RowSources' /\ UnsettledRowHasBytes' /\ ReadyIsLatest' /\ FailedMeansSpent'
  BY DEF OneRowPerKey, RowSources, UnsettledRowHasBytes, ReadyIsLatest, FailedMeansSpent
<1>3. FreshSnapshots'
  BY DEF FreshSnapshots, Fresh, Holding
<1>4. QuietRequests'
  <2>1. /\ \A r \in RowsAt(KeyOf[u]) : Settled(r) /\ Unheld(r)
        /\ \A v \in Uploads : KeyOf[v] = KeyOf[u] => ~InFlight(v)
    BY DEF MayStart
  <2>2. /\ \A k : RowsAt(k)' = RowsAt(k)
        /\ \A r : Settled(r)' = Settled(r) /\ Unheld(r)' = Unheld(r)
    BY DEF RowsAt, Settled, Unheld
  <2>3. req' = [req EXCEPT ![u] = "checked"] /\ req \in [Uploads -> ReqPcs]
    BY DEF TInv, TypeOK
  <2>4. QED
    BY <2>1, <2>2, <2>3 DEF QuietRequests, InFlight
<1>5. QED
  BY <1>1, <1>2, <1>3, <1>4

LEMMA AssembleIInv ==
    ASSUME IInv, TInv', NEW u \in Uploads, AssembleAndLookup(u)
    PROVE  IInv'
<1> USE DEF IInv, AssembleAndLookup
<1>1. OwnedRows' /\ ClaimExclusive' /\ PushedBeforeReady'
  BY DEF OwnedRows, ClaimExclusive, PushedBeforeReady, Holding, KeyAt
<1>2. OneRowPerKey' /\ RowSources' /\ UnsettledRowHasBytes' /\ ReadyIsLatest' /\ FailedMeansSpent'
  BY DEF OneRowPerKey, RowSources, UnsettledRowHasBytes, ReadyIsLatest, FailedMeansSpent
<1>3. FreshSnapshots'
  BY DEF FreshSnapshots, Fresh, Holding
<1>4. QuietRequests'
  <2>1. /\ \A k : RowsAt(k)' = RowsAt(k)
        /\ \A r : Settled(r)' = Settled(r) /\ Unheld(r)' = Unheld(r)
    BY DEF RowsAt, Settled, Unheld
  <2>2. \A v \in Uploads : /\ InFlight(v)' => InFlight(v)
                           /\ v # u => req'[v] = req[v] /\ found'[v] = found[v]
    BY DEF InFlight, TInv, TypeOK
  <2>3. IF found'[u] = None THEN RowsAt(KeyOf[u]) = {} ELSE found'[u] \in RowsAt(KeyOf[u])
    BY UploadsAssumption DEF TInv, TypeOK, RowsAt
  <2>4. QED
    BY <2>1, <2>2, <2>3 DEF QuietRequests
<1>5. QED
  BY <1>1, <1>2, <1>3, <1>4

\* A query snapshots pending rows only, and a row with a request in flight is
\* settled: the drain does not take it into its hands.
LEMMA QueryIInv ==
    ASSUME IInv, TInv', NEW p \in Procs, QueryBatch(p)
    PROVE  IInv'
<1> USE DEF IInv, QueryBatch
<1>1. OwnedRows' /\ ClaimExclusive' /\ PushedBeforeReady'
  BY DEF OwnedRows, ClaimExclusive, PushedBeforeReady, Holding, KeyAt
<1>2. OneRowPerKey' /\ RowSources' /\ UnsettledRowHasBytes' /\ ReadyIsLatest' /\ FailedMeansSpent'
  BY DEF OneRowPerKey, RowSources, UnsettledRowHasBytes, ReadyIsLatest, FailedMeansSpent
<1>3. \A r \in NextBatch(p) : r \in Uploads /\ status[r] = "pending"
  BY DEF NextBatch, PendingPage, PendingRows
<1>4. \A q \in Procs : \A j \in jobs'[q] :
        j \in jobs[q] \/ \E r \in NextBatch(p) : j = Snapshot(r)
  BY DEF TInv, TypeOK
<1>5. FreshSnapshots'
  <2>1. \A j : Fresh(j) => Fresh(j)'
    BY DEF Fresh
  <2>2. \A r \in NextBatch(p) : Fresh(Snapshot(r))
    BY <1>3 DEF Fresh, Snapshot, RowSources, TInv, TypeOK
  <2>3. \A q \in Procs : \A j \in jobs'[q] : Fresh(j)'
    BY <1>4, <2>1, <2>2 DEF FreshSnapshots
  <2>4. \A w \in Workers : pc'[w] # "idle" => Fresh(job[w])'
    BY <2>1 DEF FreshSnapshots, Fresh
  <2>5. QED
    BY <2>3, <2>4 DEF FreshSnapshots, Holding
<1>6. QuietRequests'
  <2>1. /\ \A k : RowsAt(k)' = RowsAt(k)
        /\ \A r : Settled(r)' = Settled(r)
    BY DEF RowsAt, Settled
  <2>2. \A r \in Uploads : Settled(r) /\ Unheld(r) => Unheld(r)'
    BY <1>3, <1>4 DEF Unheld, Settled, Snapshot
  <2>3. \A k : RowsAt(k) \subseteq Uploads
    BY DEF RowsAt
  <2>4. \A v \in Uploads : InFlight(v)' = InFlight(v)
    BY DEF InFlight
  <2>5. QED
    BY <2>1, <2>2, <2>3, <2>4 DEF QuietRequests
<1>7. QED
  BY <1>1, <1>2, <1>5, <1>6

\* The row a request records is in no drain's hands, so nobody's snapshot of it
\* is outdated by the new staged file.
LEMMA RecordIInv ==
    ASSUME IInv, TInv', NEW u \in Uploads, RecordPending(u)
    PROVE  IInv'
<1> DEFINE r == RowFor(u)
<1> USE DEF IInv, TInv, TypeOK
<1>1. /\ r \in Uploads /\ KeyOf[r] = KeyOf[u] /\ KeyOf[u] \in Keys
      /\ InFlight(u) /\ u \in staged
      /\ \A x \in RowsAt(KeyOf[u]) : x = r
      /\ status[r] = "absent" \/ (Settled(r) /\ Unheld(r))
  <2>1. InFlight(u) /\ req[u] = "looked" /\ KeyOf[u] \in Keys
    BY UploadsAssumption DEF RecordPending, InFlight
  <2>2. CASE found[u] = None
    BY <2>1, <2>2 DEF RowFor, QuietRequests, RowsAt
  <2>3. CASE found[u] # None
    <3>1. r \in RowsAt(KeyOf[u]) /\ u \in staged /\ Settled(r) /\ Unheld(r)
      BY <2>1, <2>3 DEF RowFor, QuietRequests
    <3>2. QED
      BY <2>1, <3>1 DEF RowsAt, OneRowPerKey
  <2>4. QED
    BY <2>2, <2>3
<1>2. /\ \A w \in Workers : pc[w] # "idle" => job[w].row # r
      /\ \A p \in Procs : \A j \in jobs[p] : j.row # r
  BY <1>1 DEF FreshSnapshots, Fresh, Unheld
<1>3. /\ UNCHANGED <<objects, staged, pc, job, jobs>>
      /\ \A x \in Uploads : x # r => /\ status'[x] = status[x]
                                     /\ source'[x] = source[x]
                                     /\ attempts'[x] = attempts[x]
      /\ status'[r] = "pending" /\ source'[r] = u
      /\ latest' = [latest EXCEPT ![KeyOf[u]] = u]
      /\ req' = [req EXCEPT ![u] = "recorded"]
      /\ \A v \in Uploads : v # u => found'[v] = found[v]
  BY <1>1 DEF RecordPending
<1>4. OwnedRows'
  BY <1>2, <1>3, BusyType DEF OwnedRows, Holding
<1>5. ClaimExclusive' /\ PushedBeforeReady'
  BY <1>3 DEF ClaimExclusive, PushedBeforeReady, Holding, KeyAt
<1>6. OneRowPerKey'
  BY <1>1, <1>3 DEF OneRowPerKey, RowsAt
<1>7. RowSources'
  BY <1>1, <1>3 DEF RowSources
<1>8. FreshSnapshots'
  <2>1. \A j \in Snapshots : Fresh(j) /\ j.row # r => Fresh(j)'
    BY <1>3 DEF Fresh, Snapshots
  <2>2. \A p \in Procs : \A j \in jobs'[p] : Fresh(j)'
    BY <1>2, <1>3, <2>1 DEF FreshSnapshots
  <2>3. \A w \in Workers : pc[w] # "idle" => job[w] \in Snapshots /\ Fresh(job[w]) /\ job[w].row # r
    BY <1>2, BusyType DEF FreshSnapshots
  <2>4. \A w \in Workers : pc'[w] # "idle" => Fresh(job[w])'
    BY <1>3, <2>1, <2>3
  <2>5. \A w \in Workers : Holding(w)' => job'[w].attempts < attempts'[job'[w].row]
    BY <1>2, <1>3, BusyType DEF FreshSnapshots, Holding
  <2>6. QED
    BY <2>2, <2>4, <2>5 DEF FreshSnapshots
<1>9. UnsettledRowHasBytes'
  BY <1>1, <1>3, UploadsAssumption DEF UnsettledRowHasBytes, RowsAt
<1>10. ReadyIsLatest'
  BY <1>1, <1>3, UploadsAssumption DEF ReadyIsLatest, RowsAt
<1>11. FailedMeansSpent'
  BY <1>3 DEF FailedMeansSpent
<1>12. QuietRequests'
  <2>1. ASSUME NEW v \in Uploads, InFlight(v)'
        PROVE  /\ InFlight(v) /\ KeyOf[v] # KeyOf[u]
               /\ req'[v] = req[v] /\ found'[v] = found[v]
    BY <1>1, <1>3, <2>1 DEF InFlight, QuietRequests
  <2>2. \A k : k # KeyOf[u] => RowsAt(k)' = RowsAt(k)
    BY <1>1, <1>3 DEF RowsAt
  <2>3. \A x \in Uploads : x # r => Settled(x)' = Settled(x)
    BY <1>3 DEF Settled
  <2>4. \A x : Unheld(x)' = Unheld(x)
    BY <1>3 DEF Unheld
  <2>5. ASSUME NEW v \in Uploads, InFlight(v)', NEW x \in RowsAt(KeyOf[v])'
        PROVE  Settled(x)' /\ Unheld(x)'
    <3>1. x \in RowsAt(KeyOf[v]) /\ x \in Uploads /\ x # r
      BY <1>1, <2>1, <2>2, <2>5 DEF RowsAt
    <3>2. Settled(x) /\ Unheld(x)
      BY <2>1, <2>5, <3>1 DEF QuietRequests
    <3>3. QED
      BY <2>3, <2>4, <3>1, <3>2
  <2>6. ASSUME NEW v \in Uploads, InFlight(v)'
        PROVE  \A y \in Uploads : InFlight(y)' /\ KeyOf[y] = KeyOf[v] => y = v
    BY <2>1, <2>6 DEF QuietRequests
  <2>7. ASSUME NEW v \in Uploads, InFlight(v)', req'[v] = "looked"
        PROVE  /\ v \in staged'
               /\ IF found'[v] = None THEN RowsAt(KeyOf[v])' = {}
                                      ELSE found'[v] \in RowsAt(KeyOf[v])'
    <3>1. /\ RowsAt(KeyOf[v])' = RowsAt(KeyOf[v])
          /\ InFlight(v) /\ req[v] = "looked" /\ found'[v] = found[v]
      BY <2>1, <2>2, <2>7
    <3>2. /\ v \in staged
          /\ IF found[v] = None THEN RowsAt(KeyOf[v]) = {} ELSE found[v] \in RowsAt(KeyOf[v])
      BY <3>1 DEF QuietRequests
    <3>3. QED
      BY <1>3, <3>1, <3>2
  <2>8. QED
    BY <2>5, <2>6, <2>7 DEF QuietRequests
<1>13. TInv'
  OBVIOUS
<1>14. QED
  BY <1>4, <1>5, <1>6, <1>7, <1>8, <1>9, <1>10, <1>11, <1>12, <1>13

\* A worker's step that writes its own row, and nothing else in the database.
RowStep(w) ==
    /\ pc[w] # "idle"
    /\ \A x \in Uploads : x # job[w].row =>
         status'[x] = status[x] /\ source'[x] = source[x] /\ attempts'[x] = attempts[x]
    /\ status'[job[w].row] # "absent"
    /\ UNCHANGED <<objects, staged, req, found, latest, jobs>>
    /\ \A v \in Workers : v # w => pc'[v] = pc[v] /\ job'[v] = job[v]
    /\ job'[w] \in {job[w], NoJob}

LEMMA WriterIsRowStep ==
    ASSUME IInv, NEW w \in Workers, Claim(w) \/ MarkReady(w) \/ SettleFailure(w)
    PROVE  /\ RowStep(w)
           /\ job[w] \in Snapshots /\ job[w].row \in Uploads
<1> USE DEF IInv, TInv, TypeOK, Goto, Fails, BackToPool, RowStep
<1>1. job[w] \in Snapshots /\ job[w].row \in Uploads /\ pc[w] # "idle"
  BY BusyType DEF Claim, MarkReady, SettleFailure
<1>2. CASE Claim(w)
  BY <1>1, <1>2 DEF Claim
<1>3. CASE MarkReady(w)
  <2>1. status'[job[w].row] # "absent"
    BY <1>1, <1>3 DEF MarkReady, OwnedRows, Holding
  <2>2. QED
    BY <1>1, <1>3, <2>1 DEF MarkReady
<1>4. CASE SettleFailure(w)
  <2>1. status'[job[w].row] # "absent"
    BY <1>1, <1>4 DEF SettleFailure, SettledStatus, OwnedRows, Holding
  <2>2. QED
    BY <1>1, <1>4, <2>1 DEF SettleFailure
<1>5. QED
  BY <1>2, <1>3, <1>4

\* The key of a row that a worker has in its hands has no request in flight, and
\* its row existed before the step: nothing a request relies on is disturbed.
LEMMA RowStepRest ==
    ASSUME IInv, TInv', NEW w \in Workers, RowStep(w), job[w].row \in Uploads
    PROVE  OneRowPerKey' /\ QuietRequests'
<1> DEFINE r == job[w].row
<1>1. status[r] # "absent" /\ ~Unheld(r)
  BY DEF IInv, FreshSnapshots, Fresh, RowStep, Unheld
<1>2. \A v \in Uploads : InFlight(v) => KeyOf[v] # KeyOf[r]
  BY <1>1 DEF IInv, QuietRequests, RowsAt
<1>3. \A x \in Uploads : status'[x] = "absent" <=> status[x] = "absent"
  BY <1>1 DEF RowStep
<1>4. OneRowPerKey'
  BY <1>3 DEF IInv, OneRowPerKey
<1>5. \A k : RowsAt(k)' = RowsAt(k)
  BY <1>3 DEF RowsAt
<1>6. \A v \in Uploads : /\ InFlight(v)' = InFlight(v)
                         /\ req'[v] = req[v] /\ found'[v] = found[v]
                         /\ v \in staged' <=> v \in staged
  BY DEF RowStep, InFlight
<1>7. ASSUME NEW x \in Uploads, x # r, Settled(x), Unheld(x)
      PROVE  Settled(x)' /\ Unheld(x)'
  <2>1. Settled(x)'
    BY <1>7 DEF RowStep, Settled
  <2>2. \A p \in Procs : \A j \in jobs'[p] : j.row # x
    BY <1>7 DEF RowStep, Unheld
  <2>3. \A v \in Workers : job'[v].row # x
    BY <1>7, NoJobIsNone, UploadsAssumption DEF RowStep, Unheld
  <2>4. QED
    BY <2>1, <2>2, <2>3 DEF Unheld
<1>8. ASSUME NEW v \in Uploads, InFlight(v), NEW x \in RowsAt(KeyOf[v])
      PROVE  Settled(x)' /\ Unheld(x)'
  BY <1>2, <1>7, <1>8 DEF IInv, QuietRequests, RowsAt
<1>9. QuietRequests'
  BY <1>5, <1>6, <1>8 DEF IInv, QuietRequests
<1>10. QED
  BY <1>4, <1>9

LEMMA ClaimIInv ==
    ASSUME IInv, TInv', NEW w \in Workers, Claim(w)
    PROVE  IInv'
<1> DEFINE r == job[w].row
<1> USE DEF IInv, TInv, TypeOK
<1>1. RowStep(w) /\ r \in Uploads /\ job[w] \in Snapshots
  BY WriterIsRowStep
<1>2. OneRowPerKey' /\ QuietRequests'
  BY <1>1, RowStepRest
<1>3. /\ pc[w] = "claim" /\ pc' = [pc EXCEPT ![w] = "open"]
      /\ status[r] = "pending" /\ status'[r] = "uploading"
      /\ attempts'[r] = attempts[r] + 1
      /\ UNCHANGED <<source, job>>
  BY <1>1 DEF Claim, Claimable, Goto
<1>4. OwnedRows'
  BY <1>1, <1>3, BusyType DEF OwnedRows, Holding, RowStep
<1>5. ClaimExclusive'
  BY <1>1, <1>3 DEF ClaimExclusive, OwnedRows, Holding, RowStep
<1>6. RowSources' /\ UnsettledRowHasBytes' /\ ReadyIsLatest' /\ FailedMeansSpent'
  <2>1. RowSources'
    BY <1>1, <1>3 DEF RowSources
  <2>2. UnsettledRowHasBytes'
    BY <1>1, <1>3 DEF UnsettledRowHasBytes, RowStep
  <2>3. ReadyIsLatest'
    BY <1>1, <1>3 DEF ReadyIsLatest, RowStep
  <2>4. FailedMeansSpent'
    BY <1>1, <1>3 DEF FailedMeansSpent, RowStep
  <2>5. QED
    BY <2>1, <2>2, <2>3, <2>4
<1>7. PushedBeforeReady'
  BY <1>1, <1>3 DEF PushedBeforeReady, KeyAt, RowStep
<1>8. FreshSnapshots'
  <2>1. \A j \in Snapshots : Fresh(j) => Fresh(j)'
    BY <1>1, <1>3 DEF Fresh, Snapshots, RowStep
  <2>2. \A p \in Procs : \A j \in jobs'[p] : Fresh(j)'
    BY <1>1, <2>1 DEF FreshSnapshots, RowStep
  <2>3. \A v \in Workers : pc'[v] # "idle" => job[v] \in Snapshots /\ Fresh(job[v])
    BY <1>3, BusyType DEF FreshSnapshots
  <2>4. \A v \in Workers : pc'[v] # "idle" => Fresh(job[v])'
    BY <1>3, <2>1, <2>3
  <2>5. job[w].attempts < attempts'[r]
    <3>1. job[w].attempts <= attempts[r] /\ job[w].attempts \in Nat /\ attempts[r] \in Nat
      BY <1>1, <1>3 DEF FreshSnapshots, Fresh, Snapshots
    <3>2. QED
      BY <1>3, <3>1
  <2>6. \A v \in Workers : v # w /\ Holding(v)' => job[v].attempts < attempts'[job[v].row]
    BY <1>1, <1>3, BusyType DEF FreshSnapshots, OwnedRows, Holding, RowStep
  <2>7. QED
    BY <1>3, <2>2, <2>4, <2>5, <2>6 DEF FreshSnapshots
<1>9. QED
  BY <1>2, <1>4, <1>5, <1>6, <1>7, <1>8

\* The row becomes ready with the bytes of its last upload at its key.
LEMMA MarkReadyIInv ==
    ASSUME IInv, TInv', NEW w \in Workers, MarkReady(w)
    PROVE  IInv'
<1> DEFINE r == job[w].row
<1> USE DEF IInv, TInv, TypeOK
<1>1. RowStep(w) /\ r \in Uploads /\ job[w] \in Snapshots
  BY WriterIsRowStep
<1>2. OneRowPerKey' /\ QuietRequests'
  BY <1>1, RowStepRest
<1>3. /\ pc[w] = "ready" /\ status[r] = "uploading" /\ Fresh(job[w])
      /\ UNCHANGED <<attempts, job>>
  BY <1>1 DEF MarkReady, Goto, Fails, OwnedRows, Holding, FreshSnapshots
<1>4. \/ status'[r] = "ready" /\ source'[r] = None /\ pc' = [pc EXCEPT ![w] = "remove"]
      \/ UNCHANGED <<status, source>> /\ pc' = [pc EXCEPT ![w] = "settle"]
  BY <1>1 DEF MarkReady, Goto, Fails
<1>5. OwnedRows'
  BY <1>1, <1>3, <1>4, BusyType DEF OwnedRows, ClaimExclusive, Holding, RowStep
<1>6. ClaimExclusive'
  BY <1>1, <1>3, <1>4 DEF ClaimExclusive, Holding, RowStep
<1>7. RowSources'
  BY <1>1, <1>3, <1>4 DEF RowSources, RowStep
<1>8. UnsettledRowHasBytes'
  BY <1>1, <1>3, <1>4 DEF UnsettledRowHasBytes, RowStep
<1>9. ReadyIsLatest'
  <2>1. objects[KeyOf[r]] = latest[KeyOf[r]]
    BY <1>1, <1>3 DEF PushedBeforeReady, KeyAt, Fresh, UnsettledRowHasBytes
  <2>2. QED
    BY <1>1, <1>3, <1>4, <2>1 DEF ReadyIsLatest, RowStep
<1>10. FailedMeansSpent'
  BY <1>1, <1>3, <1>4 DEF FailedMeansSpent, RowStep
<1>11. PushedBeforeReady'
  BY <1>1, <1>3, <1>4 DEF PushedBeforeReady, KeyAt, RowStep
<1>12. FreshSnapshots'
  <2>1. \A j \in Snapshots : Fresh(j) => Fresh(j)'
    BY <1>1, <1>3, <1>4 DEF Fresh, Snapshots, RowStep
  <2>2. \A p \in Procs : \A j \in jobs'[p] : Fresh(j)'
    BY <1>1, <2>1 DEF FreshSnapshots, RowStep
  <2>3. \A v \in Workers : pc'[v] # "idle" => job[v] \in Snapshots /\ Fresh(job[v])
    BY <1>3, <1>4, BusyType DEF FreshSnapshots
  <2>4. \A v \in Workers : pc'[v] # "idle" => Fresh(job[v])'
    BY <1>3, <2>1, <2>3
  <2>5. \A v \in Workers : Holding(v)' => job[v].attempts < attempts[job[v].row]
    BY <1>3, <1>4 DEF FreshSnapshots, Holding
  <2>6. QED
    BY <1>3, <2>2, <2>4, <2>5 DEF FreshSnapshots
<1>13. QED
  BY <1>2, <1>5, <1>6, <1>7, <1>8, <1>9, <1>10, <1>11, <1>12

\* The row goes back to the queue, or is given up after a full budget.
LEMMA SettleIInv ==
    ASSUME IInv, TInv', NEW w \in Workers, SettleFailure(w)
    PROVE  IInv'
<1> DEFINE r == job[w].row
<1> USE DEF IInv, TInv, TypeOK
<1>1. RowStep(w) /\ r \in Uploads /\ job[w] \in Snapshots
  BY WriterIsRowStep
<1>2. OneRowPerKey' /\ QuietRequests'
  BY <1>1, RowStepRest
<1>3. /\ pc[w] = "settle" /\ status[r] = "uploading"
      /\ job[w].attempts < attempts[r]
      /\ UNCHANGED <<source, attempts>>
      /\ pc' = [pc EXCEPT ![w] = "idle"] /\ job' = [job EXCEPT ![w] = NoJob]
  BY <1>1 DEF SettleFailure, BackToPool, OwnedRows, Holding, FreshSnapshots
<1>4. /\ status'[r] \in {"pending", "uploading", "failed"}
      /\ status'[r] = "failed" => job[w].attempts + 1 >= MaxUploadAttempts
  BY <1>1, <1>3 DEF SettleFailure, SettledStatus, OutOfAttempts
<1>5. OwnedRows'
  BY <1>1, <1>3, BusyType DEF OwnedRows, ClaimExclusive, Holding, RowStep
<1>6. ClaimExclusive'
  BY <1>1, <1>3 DEF ClaimExclusive, Holding, RowStep
<1>7. RowSources'
  BY <1>3 DEF RowSources
<1>8. UnsettledRowHasBytes'
  BY <1>1, <1>3 DEF UnsettledRowHasBytes, RowStep
<1>9. ReadyIsLatest'
  BY <1>1, <1>3, <1>4 DEF ReadyIsLatest, RowStep
<1>10. FailedMeansSpent'
  <2>1. job[w].attempts \in Nat /\ attempts[r] \in Nat /\ MaxUploadAttempts \in Nat
    BY <1>1, LimitsAssumption DEF Snapshots
  <2>2. status'[r] = "failed" => attempts'[r] >= MaxUploadAttempts
    BY <1>3, <1>4, <2>1
  <2>3. QED
    BY <1>1, <1>3, <2>2 DEF FailedMeansSpent, RowStep
<1>11. PushedBeforeReady'
  BY <1>1, <1>3 DEF PushedBeforeReady, KeyAt, RowStep
<1>12. FreshSnapshots'
  <2>1. \A j \in Snapshots : Fresh(j) => Fresh(j)'
    BY <1>1, <1>3, <1>4 DEF Fresh, Snapshots, RowStep
  <2>2. \A p \in Procs : \A j \in jobs'[p] : Fresh(j)'
    BY <1>1, <2>1 DEF FreshSnapshots, RowStep
  <2>3. \A v \in Workers : pc'[v] # "idle" =>
          job'[v] = job[v] /\ job[v] \in Snapshots /\ Fresh(job[v])
    BY <1>3, BusyType DEF FreshSnapshots
  <2>4. \A v \in Workers : pc'[v] # "idle" => Fresh(job[v])'
    BY <2>1, <2>3
  <2>5. \A v \in Workers : Holding(v)' => job'[v].attempts < attempts'[job'[v].row]
    BY <1>3 DEF FreshSnapshots, Holding
  <2>6. QED
    BY <2>2, <2>4, <2>5 DEF FreshSnapshots
<1>13. QED
  BY <1>2, <1>5, <1>6, <1>7, <1>8, <1>9, <1>10, <1>11, <1>12

\* Only the owner of the key's one row writes the object, with the row's bytes.
LEMMA PutIInv ==
    ASSUME IInv, TInv', NEW w \in Workers, PutObject(w)
    PROVE  IInv'
<1> DEFINE r == job[w].row
<1> USE DEF IInv, TInv, TypeOK
<1>1. /\ pc[w] = "put" /\ r \in Uploads /\ KeyAt(w) = KeyOf[r] /\ KeyOf[r] \in Keys
      /\ status[r] = "uploading"
  BY BusyType DEF PutObject, OwnedRows, Holding, KeyAt
<1>2. /\ UNCHANGED <<status, source, attempts, staged, req, found, latest, jobs, job>>
      /\ \/ pc' = [pc EXCEPT ![w] = "ready"] /\ objects' = [objects EXCEPT ![KeyOf[r]] = job[w].source]
         \/ pc' = [pc EXCEPT ![w] = "settle"]
      /\ \A k \in Keys : k # KeyOf[r] => objects'[k] = objects[k]
  BY <1>1 DEF PutObject, Goto, Fails
<1>3. OwnedRows' /\ ClaimExclusive'
  <2>1. \A v \in Workers : (Holding(v)' => Holding(v)) /\ (pc'[v] = "remove" => pc[v] = "remove")
    BY <1>1, <1>2 DEF Holding
  <2>2. QED
    BY <1>2, <2>1 DEF OwnedRows, ClaimExclusive
<1>4. OneRowPerKey' /\ RowSources' /\ UnsettledRowHasBytes' /\ FailedMeansSpent'
  BY <1>2 DEF OneRowPerKey, RowSources, UnsettledRowHasBytes, FailedMeansSpent
<1>5. QuietRequests'
  BY <1>2 DEF QuietRequests, InFlight, RowsAt, Settled, Unheld
<1>6. FreshSnapshots'
  BY <1>1, <1>2 DEF FreshSnapshots, Fresh, Holding
<1>7. ReadyIsLatest'
  <2>1. \A x \in Uploads : status[x] = "ready" => KeyOf[x] # KeyOf[r]
    BY <1>1 DEF OneRowPerKey
  <2>2. QED
    BY <1>2, <2>1, UploadsAssumption DEF ReadyIsLatest
<1>8. PushedBeforeReady'
  <2>1. ASSUME NEW v \in Workers, v # w, pc[v] = "ready"
        PROVE  KeyAt(v) # KeyOf[r] /\ KeyAt(v) \in Keys
    <3>1. /\ Holding(v) /\ Holding(w) /\ job[v].row \in Uploads /\ job[v].row # r
          /\ KeyAt(v) \in Keys
      BY <1>1, <2>1, BusyType DEF ClaimExclusive, Holding
    <3>2. status[job[v].row] = "uploading"
      BY <3>1 DEF OwnedRows
    <3>3. QED
      BY <1>1, <3>1, <3>2 DEF OneRowPerKey, KeyAt
  <2>2. \A v \in Workers : v # w /\ pc'[v] = "ready" => objects'[KeyAt(v)] = job[v].source
    BY <1>2, <2>1 DEF PushedBeforeReady
  <2>3. pc'[w] = "ready" => objects'[KeyAt(w)] = job[w].source
    BY <1>1, <1>2
  <2>4. QED
    BY <1>2, <2>2, <2>3 DEF PushedBeforeReady, KeyAt
<1>9. QED
  BY <1>3, <1>4, <1>5, <1>6, <1>7, <1>8

LEMMA NextIInv ==
    ASSUME OverwritePolicy = "quiet", IInv, [Next]_vars
    PROVE  IInv'
<1>1. TInv'
  BY NextTInv DEF IInv
<1>2. CASE \E u \in Uploads :
             \/ CheckBacklog(u) \/ AssembleAndLookup(u) \/ RecordPending(u)
             \/ EnqueueFails(u) \/ DiscardSession(u) \/ Kick(u)
  BY <1>1, <1>2, CheckBacklogIInv, AssembleIInv, RecordIInv, RequestCalm, CalmIInv
<1>3. CASE \E p \in Procs :
             \/ CronTick(p) \/ QueryBatch(p) \/ QueryGivesUp(p) \/ BatchDone(p)
             \/ EndDrain(p) \/ Shutdown(p) \/ Exit(p)
  BY <1>1, <1>3, QueryIInv, DrainCalm, CalmIInv
<1>4. CASE \E w \in Workers : WorkerStep(w)
  BY <1>1, <1>4, ClaimIInv, PutIInv, MarkReadyIInv, SettleIInv, WorkerCalm, CalmIInv
     DEF WorkerStep
<1>5. CASE UNCHANGED vars
  <2>1. Calm
    BY <1>5 DEF vars, Calm, CalmWorker, InFlight, Holding, IInv, TInv, TypeOK
  <2>2. QED
    BY <1>1, <2>1, CalmIInv
<1>6. QED
  BY <1>2, <1>3, <1>4, <1>5 DEF Next

THEOREM Invariance ==
    ASSUME OverwritePolicy = "quiet"
    PROVE  Spec => []IInv
<1>1. IInv /\ [Next]_vars => IInv'
  BY NextIInv
<1>2. QED
  BY InitIInv, <1>1, PTL DEF Spec

\* With clients that leave a key alone until its last upload is at rest, no two
\* workers of any processes ever push the same row, through every failing call
\* and every process that exits.
THEOREM ClaimExclusion ==
    ASSUME OverwritePolicy = "quiet"
    PROVE  Spec => []ClaimExclusive
<1>1. IInv => ClaimExclusive
  BY DEF IInv
<1>2. QED
  BY <1>1, Invariance, PTL

\* For such clients a key has one row, however requests and drains interleave.
THEOREM OneRow ==
    ASSUME OverwritePolicy = "quiet"
    PROVE  Spec => []OneRowPerKey
<1>1. IInv => OneRowPerKey
  BY DEF IInv
<1>2. QED
  BY <1>1, Invariance, PTL

\* For such clients an upload that is not stored yet keeps its staged file, so a
\* later attempt finds it.
THEOREM StagedUntilStored ==
    ASSUME OverwritePolicy = "quiet"
    PROVE  Spec => []UnsettledRowHasBytes
<1>1. IInv => UnsettledRowHasBytes
  BY DEF IInv
<1>2. QED
  BY <1>1, Invariance, PTL

\* For such clients a file reported ready has the bytes of its last upload.
THEOREM ReadyIsStored ==
    ASSUME OverwritePolicy = "quiet"
    PROVE  Spec => []ReadyIsLatest
<1>1. IInv => ReadyIsLatest
  BY DEF IInv
<1>2. QED
  BY <1>1, Invariance, PTL

\* For such clients an upload is given up only after MaxUploadAttempts claims.
THEOREM FailedIsSpent ==
    ASSUME OverwritePolicy = "quiet"
    PROVE  Spec => []FailedMeansSpent
<1>1. IInv => FailedMeansSpent
  BY DEF IInv
<1>2. QED
  BY <1>1, Invariance, PTL

-----------------------------------------------------------------------------
(* Versions *)

\* Two workers that own rows own rows of different keys.
LEMMA OwnersApart ==
    ASSUME IInv, NEW v \in Workers, NEW w \in Workers, v # w, Holding(v), Holding(w)
    PROVE  KeyAt(v) # KeyAt(w) /\ KeyAt(v) \in Keys /\ KeyAt(w) \in Keys
<1>1. /\ job[v].row \in Uploads /\ job[w].row \in Uploads
      /\ KeyAt(v) \in Keys /\ KeyAt(w) \in Keys
  BY BusyType DEF IInv, Holding
<1>2. /\ job[v].row # job[w].row
      /\ status[job[v].row] = "uploading" /\ status[job[w].row] = "uploading"
  BY DEF IInv, ClaimExclusive, OwnedRows
<1>3. QED
  BY <1>1, <1>2 DEF IInv, OneRowPerKey, KeyAt

LEMMA NextArchived ==
    ASSUME "head" \notin Faults, IInv, ArchivedBeforePut, [Next]_vars
    PROVE  ArchivedBeforePut'
<1> USE DEF IInv, TInv, TypeOK, Goto, Fails, BackToPool, WorkerPcs
<1>1. ASSUME NEW w \in Workers, HeadObject(w)
      PROVE  ArchivedBeforePut'
  BY <1>1 DEF HeadObject, AfterHead, BucketFails, ArchivedBeforePut, KeyAt
<1>2. ASSUME NEW w \in Workers, CopyToArchive(w)
      PROVE  ArchivedBeforePut'
  BY <1>2, BusyType DEF CopyToArchive, WorkerTypes, ArchivedBeforePut, KeyAt
<1>3. ASSUME NEW w \in Workers, ArchiveRow(w)
      PROVE  ArchivedBeforePut'
  <2>1. KeyAt(w) \in Keys /\ copy[w] \in Uploads /\ copy[w] = objects[KeyAt(w)]
    BY <1>3, BusyType DEF ArchiveRow, WorkerTypes, ArchivedBeforePut
  <2>2. \A k \in Keys : versions[k] \subseteq versions'[k]
    BY <1>3 DEF ArchiveRow
  <2>3. \A v \in Workers : pc[v] = "put" => KeyAt(v) \in Keys
    BY BusyType
  <2>4. pc'[w] = "put" => objects[KeyAt(w)] \in versions'[KeyAt(w)]
    BY <1>3, <2>1 DEF ArchiveRow
  <2>5. /\ UNCHANGED <<objects, job, copy, stopping>>
        /\ \A v \in Workers : v # w => pc'[v] = pc[v]
        /\ pc'[w] # "archive"
    BY <1>3 DEF ArchiveRow
  <2>6. QED
    BY <2>2, <2>3, <2>4, <2>5 DEF ArchivedBeforePut, KeyAt
<1>4. ASSUME NEW w \in Workers, PutObject(w)
      PROVE  ArchivedBeforePut'
  <2>1. /\ Holding(w) /\ KeyAt(w) \in Keys
        /\ \A k \in Keys : k # KeyAt(w) => objects'[k] = objects[k]
        /\ UNCHANGED <<versions, job, copy, stopping>>
        /\ \A v \in Workers : v # w => pc'[v] = pc[v]
        /\ pc'[w] \notin {"archive", "put"}
    BY <1>4, BusyType DEF PutObject, Holding
  <2>2. \A v \in Workers : pc'[v] \in {"archive", "put"} =>
          pc'[v] = pc[v] /\ objects'[KeyAt(v)] = objects[KeyAt(v)]
    BY <2>1, OwnersApart DEF Holding
  <2>3. QED
    BY <2>1, <2>2 DEF ArchivedBeforePut, KeyAt
<1>5. ASSUME UNCHANGED <<objects, versions>>,
             \A v \in Workers : pc'[v] \in {"archive", "put"} =>
                /\ pc'[v] = pc[v] /\ job'[v] = job[v] /\ copy'[v] = copy[v]
                /\ HostOf[v] \in stopping => HostOf[v] \in stopping'
      PROVE  ArchivedBeforePut'
  BY <1>5 DEF ArchivedBeforePut, KeyAt
<1>6. CASE \E u \in Uploads :
             \/ CheckBacklog(u) \/ AssembleAndLookup(u) \/ RecordPending(u)
             \/ EnqueueFails(u) \/ DiscardSession(u) \/ Kick(u)
  BY <1>5, <1>6 DEF CheckBacklog, AssembleAndLookup, RecordPending, EnqueueFails,
     DiscardSession, Kick
<1>7. CASE \E p \in Procs :
             \/ CronTick(p) \/ QueryBatch(p) \/ QueryGivesUp(p) \/ BatchDone(p)
             \/ EndDrain(p) \/ Shutdown(p) \/ Exit(p)
  BY <1>5, <1>7 DEF CronTick, QueryBatch, QueryGivesUp, BatchDone, EndDrain, Shutdown, Exit
<1>8. ASSUME NEW w \in Workers,
             \/ TakeJob(w) \/ Claim(w) \/ ClaimLost(w) \/ OpenStaged(w)
             \/ MarkReady(w) \/ RemoveStaged(w) \/ SettleFailure(w)
      PROVE  ArchivedBeforePut'
  BY <1>5, <1>8 DEF TakeJob, Claim, ClaimLost, OpenStaged, MarkReady, RemoveStaged,
     SettleFailure
<1>9. CASE UNCHANGED vars
  BY <1>5, <1>9 DEF vars
<1>10. QED
  BY <1>1, <1>2, <1>3, <1>4, <1>6, <1>7, <1>8, <1>9 DEF Next, WorkerStep

\* Only a push changes an object, and it finds the old contents archived.
LEMMA PushKeepsVersion ==
    ASSUME IInv, ArchivedBeforePut, [Next]_vars, NEW k \in Keys, objects'[k] # objects[k]
    PROVE  objects[k] \in versions[k] \cup {None}
<1>1. PICK w \in Workers : PutObject(w)
  BY DEF Next, WorkerStep, vars, CheckBacklog, AssembleAndLookup, RecordPending,
     EnqueueFails, DiscardSession, Kick, CronTick, QueryBatch, QueryGivesUp, BatchDone,
     EndDrain, Shutdown, Exit, TakeJob, Claim, ClaimLost, OpenStaged, HeadObject,
     CopyToArchive, ArchiveRow, MarkReady, RemoveStaged, SettleFailure
<1>2. k = KeyAt(w) /\ pc[w] = "put" /\ HostOf[w] \notin stopping
  BY <1>1 DEF PutObject, BucketAnswers, IInv, TInv, TypeOK
<1>3. QED
  BY <1>2 DEF ArchivedBeforePut

\* When HeadObject does not fail by itself, a push by such clients never replaces
\* contents that have no archived version with a row.
THEOREM VersionsKept ==
    ASSUME OverwritePolicy = "quiet", "head" \notin Faults
    PROVE  Spec => NoVersionLost
<1>1. Init => ArchivedBeforePut
  BY DEF Init, ArchivedBeforePut
<1>2. IInv /\ ArchivedBeforePut /\ [Next]_vars => ArchivedBeforePut'
  BY NextArchived
<1>3. IInv /\ ArchivedBeforePut /\ [Next]_vars =>
        [\A k \in Keys : objects'[k] # objects[k] /\ objects[k] # None
                        => objects[k] \in versions[k]]_vars
  BY PushKeepsVersion
<1>4. Spec => []IInv
  BY Invariance
<1>5. QED
  BY <1>1, <1>2, <1>3, <1>4, PTL DEF Spec, NoVersionLost

-----------------------------------------------------------------------------
(* The budget of claims, the drain, the refinement *)

\* The steps of a request and of a process, as Next groups them.
RequestStep(u) ==
    \/ CheckBacklog(u) \/ AssembleAndLookup(u) \/ RecordPending(u)
    \/ EnqueueFails(u) \/ DiscardSession(u) \/ Kick(u)

DrainStep(p) ==
    \/ CronTick(p) \/ QueryBatch(p) \/ QueryGivesUp(p) \/ BatchDone(p)
    \/ EndDrain(p) \/ Shutdown(p) \/ Exit(p)

-----------------------------------------------------------------------------
(* A drain takes a row up once *)

LEMMA NextOncePerDrain ==
    ASSUME TInv, Next, NEW p \in Procs, NEW r \in Uploads, r \in attempted[p], ~InHand(p, r)
    PROVE  ~InHand(p, r)'
<1> USE DEF InHand, TInv, TypeOK
<1>1. NoJob.row # r
  BY NoJobIsNone, UploadsAssumption
<1>2. ASSUME NEW u \in Uploads, RequestStep(u)
      PROVE  ~InHand(p, r)'
  BY <1>2 DEF RequestStep, CheckBacklog, AssembleAndLookup, RecordPending,
     EnqueueFails, DiscardSession, Kick, StartDrain
<1>3. ASSUME NEW q \in Procs, DrainStep(q)
      PROVE  ~InHand(p, r)'
  <2>1. ASSUME QueryBatch(q)
        PROVE  ~InHand(p, r)'
    <3>1. \A j \in {Snapshot(x) : x \in NextBatch(p)} : j.row # r
      BY DEF NextBatch, Snapshot
    <3>2. QED
      BY <2>1, <3>1 DEF QueryBatch
  <2>2. ASSUME Exit(q)
        PROVE  ~InHand(p, r)'
    BY <1>1, <2>2 DEF Exit
  <2>3. QED
    BY <1>3, <2>1, <2>2 DEF DrainStep, CronTick, StartDrain, QueryGivesUp, BatchDone,
       EndDrain, Shutdown
<1>4. ASSUME NEW w \in Workers, WorkerStep(w)
      PROVE  ~InHand(p, r)'
  <2>1. CASE TakeJob(w)
    BY <2>1, ProcsAssumption DEF TakeJob
  <2>2. CASE UNCHANGED jobs /\ (UNCHANGED job \/ job' = [job EXCEPT ![w] = NoJob])
    BY <1>1, <2>2
  <2>3. QED
    BY <1>4, <2>1, <2>2 DEF WorkerStep, Claim, ClaimLost, OpenStaged, HeadObject,
       CopyToArchive, ArchiveRow, PutObject, MarkReady, RemoveStaged, SettleFailure,
       Goto, Fails, BackToPool
<1>5. QED
  BY <1>2, <1>3, <1>4 DEF Next, RequestStep, DrainStep

\* Whatever the clients do and whichever calls fail, a drain that has let go of a
\* row does not take it up again before it ends.
THEOREM DrainsOnce == Spec => OncePerDrain
<1>1. TInv /\ [Next]_vars =>
        [\A p \in Procs, r \in Uploads :
            /\ r \in attempted[p] /\ ~InHand(p, r)
            /\ phase[p] # "off" /\ phase'[p] # "off"
            => ~InHand(p, r)']_vars
  BY NextOncePerDrain
<1>2. QED
  BY <1>1, InitTInv, NextTInv, PTL DEF Spec, OncePerDrain

-----------------------------------------------------------------------------
(* The rows in a drain's hands *)

LEMMA InitDrainInv == Init => DrainInv
  BY DEF Init, DrainInv

\* A step that only takes rows out of hands keeps the drains' order.
LEMMA LessInHand ==
    ASSUME DrainInv, UNCHANGED phase,
           \A p \in Procs : jobs'[p] \subseteq jobs[p],
           \A w \in Workers : pc'[w] # "idle" => pc[w] # "idle" /\ job'[w] = job[w]
    PROVE  DrainInv'
  BY ProcsAssumption DEF DrainInv

LEMMA NextDrainInv ==
    ASSUME TInv, DrainInv, [Next]_vars
    PROVE  DrainInv'
<1> USE DEF TInv, TypeOK
<1>1. ASSUME NEW u \in Uploads, RequestStep(u)
      PROVE  DrainInv'
  BY <1>1 DEF DrainInv, RequestStep, CheckBacklog, AssembleAndLookup, RecordPending,
     EnqueueFails, DiscardSession, Kick, StartDrain
<1>2. ASSUME NEW p \in Procs, DrainStep(p)
      PROVE  DrainInv'
  <2>1. ASSUME QueryBatch(p)
        PROVE  DrainInv'
    <3>1. \A i, j \in {Snapshot(r) : r \in NextBatch(p)} : i.row = j.row => i = j
      BY DEF Snapshot
    <3>2. NextBatch(p) = {} => {Snapshot(r) : r \in NextBatch(p)} = {}
      OBVIOUS
    <3>3. QED
      BY <2>1, <3>1, <3>2 DEF QueryBatch, DrainInv
  <2>2. ASSUME Exit(p)
        PROVE  DrainInv'
    BY <2>2 DEF Exit, DrainInv
  <2>3. ASSUME CronTick(p) \/ QueryGivesUp(p) \/ BatchDone(p) \/ EndDrain(p) \/ Shutdown(p)
        PROVE  DrainInv'
    BY <2>3 DEF DrainInv, CronTick, StartDrain, QueryGivesUp, BatchDone, EndDrain, Shutdown
  <2>4. QED
    BY <1>2, <2>1, <2>2, <2>3 DEF DrainStep
<1>3. ASSUME NEW w \in Workers, WorkerStep(w)
      PROVE  DrainInv'
  <2>1. CASE TakeJob(w)
    <3>1. PICK j \in jobs[HostOf[w]] :
               /\ jobs' = [jobs EXCEPT ![HostOf[w]] = @ \ {j}]
               /\ job' = [job EXCEPT ![w] = j]
      BY <2>1 DEF TakeJob
    <3>2. /\ HostOf[w] \in Procs /\ phase[HostOf[w]] = "work"
          /\ pc' = [pc EXCEPT ![w] = "claim"] /\ phase' = phase
      BY <2>1, ProcsAssumption DEF TakeJob, DrainInv
    <3>3. \A v \in Workers : HostOf[v] = HostOf[w] /\ pc[v] # "idle" => job[v].row # j.row
      BY <3>2 DEF DrainInv
    <3>4. QED
      BY <2>1, <3>1, <3>2, <3>3 DEF DrainInv, TakeJob
  <2>2. CASE ~TakeJob(w)
    <3>1. /\ UNCHANGED <<phase, jobs>> /\ pc[w] # "idle"
          /\ \A v \in Workers : v # w => pc'[v] = pc[v] /\ job'[v] = job[v]
          /\ pc'[w] = "idle" \/ job'[w] = job[w]
      BY <1>3, <2>2 DEF WorkerStep, Claim, ClaimLost, OpenStaged, HeadObject,
         CopyToArchive, ArchiveRow, PutObject, MarkReady, RemoveStaged, SettleFailure,
         Goto, Fails, BackToPool
    <3>2. QED
      BY <3>1, LessInHand
  <2>3. QED
    BY <2>1, <2>2
<1>4. CASE UNCHANGED vars
  BY <1>4, LessInHand DEF vars
<1>5. QED
  BY <1>1, <1>2, <1>3, <1>4 DEF Next, RequestStep, DrainStep

-----------------------------------------------------------------------------
(* The retry budget *)

LEMMA LowClaimsType ==
    ASSUME NEW r
    PROVE  /\ IsFiniteSet(LowClaims(r))
           /\ Cardinality(LowClaims(r)) \in Nat
           /\ Cardinality(LowClaims(r)) <= Cardinality(Procs)
           /\ Cardinality(Procs) \in Nat /\ Cardinality(Procs) >= 1
<1>1. LowClaims(r) \subseteq Procs
  BY DEF LowClaims
<1>2. IsFiniteSet(Procs) /\ Procs # {}
  BY ProcsAssumption
<1>3. Cardinality(Procs) \in Nat /\ Cardinality(Procs) # 0
  BY <1>2, FS_CardinalityType, FS_EmptySet
<1>4. IsFiniteSet(LowClaims(r)) /\ Cardinality(LowClaims(r)) <= Cardinality(Procs)
  BY <1>1, <1>2, FS_Subset
<1>5. QED
  BY <1>3, <1>4, FS_CardinalityType

\* One row's part of the budget, and the bound.
Budget == MaxUploadAttempts + Cardinality(Procs) - 2

RowBudget(r) ==
    /\ attempts[r] <= Budget + 1
    /\ Returns(r) => \/ attempts[r] + 1 < MaxUploadAttempts
                     \/ attempts[r] + Cardinality(LowClaims(r)) <= Budget

LEMMA BudgetIsRows ==
    /\ BudgetInv <=> \A r \in Uploads : RowBudget(r)
    /\ BudgetInv' <=> \A r \in Uploads : RowBudget(r)'
    /\ Budget \in Nat
<1>1. Cardinality(Procs) \in Nat /\ Cardinality(Procs) >= 1
  BY LowClaimsType
<1>2. MaxUploadAttempts \in Nat \ {0}
  BY LimitsAssumption
<1>3. Budget \in Nat /\ Budget + 1 = MaxUploadAttempts + Cardinality(Procs) - 1
  BY <1>1, <1>2 DEF Budget
<1>4. QED
  BY <1>3 DEF BudgetInv, RowBudget, Budget

\* A row keeps its budget when it is not claimed and gains no claims.
LEMMA RowBudgetKept ==
    ASSUME TInv, NEW r \in Uploads, RowBudget(r), attempts'[r] = attempts[r],
           Returns(r)' => Returns(r), LowClaims(r)' \subseteq LowClaims(r)
    PROVE  RowBudget(r)'
<1>1. /\ Cardinality(LowClaims(r)) \in Nat /\ Cardinality(LowClaims(r)') \in Nat
      /\ Cardinality(LowClaims(r)') <= Cardinality(LowClaims(r))
  BY LowClaimsType, FS_Subset, FS_CardinalityType
<1>2. attempts[r] \in Nat
  BY DEF TInv, TypeOK
<1>3. QED
  BY <1>1, <1>2, BudgetIsRows DEF RowBudget

\* What a step may do to a worker without giving it a claim or a row.
Lets(w) ==
    \/ pc'[w] = "idle"
    \/ /\ job'[w] = job[w]
       /\ Holding(w)' => Holding(w)
       /\ pc'[w] = "claim" => pc[w] = "claim"
    \/ pc'[w] = "claim" /\ job'[w] \in jobs[HostOf[w]]

LEMMA QuietBudget ==
    ASSUME TInv, BudgetInv, UNCHANGED attempts,
           \A r \in Uploads : status'[r] = "pending" => Returns(r),
           \A p \in Procs : jobs'[p] \subseteq jobs[p],
           \A w \in Workers : Lets(w)
    PROVE  BudgetInv'
<1>1. ASSUME NEW r \in Uploads PROVE LowClaims(r)' \subseteq LowClaims(r)
  BY DEF LowClaims, Lets
<1>2. ASSUME NEW r \in Uploads PROVE Returns(r)' => Returns(r)
  BY DEF Returns, Lets, Holding
<1>3. QED
  BY <1>1, <1>2, RowBudgetKept, BudgetIsRows

\* The claim of a worker of process p with a snapshot that has attempts left uses
\* up the claim of p; a claim with the last snapshot ends the row's returns.
LEMMA ClaimBudget ==
    ASSUME IInv, TInv', DrainInv, BudgetInv, NEW w \in Workers, Claim(w)
    PROVE  BudgetInv'
<1> USE DEF IInv, TInv
<1>a. PICK r \in Uploads : r = job[w].row
  BY BusyType DEF Claim
<1>b. PICK p \in Procs : p = HostOf[w]
  BY ProcsAssumption
<1>1. /\ job[w].row = r /\ job[w].attempts \in Nat /\ HostOf[w] = p
      /\ attempts[r] \in Nat /\ job[w].attempts <= attempts[r]
  BY <1>a, <1>b, BusyType, ProcsAssumption DEF Claim, FreshSnapshots, Fresh, Claimable, TypeOK
<1>2. /\ pc[w] = "claim" /\ status[r] = "pending"
      /\ status' = [status EXCEPT ![r] = "uploading"]
      /\ attempts' = [attempts EXCEPT ![r] = @ + 1]
      /\ pc' = [pc EXCEPT ![w] = "open"]
      /\ UNCHANGED <<job, jobs>>
  BY <1>1 DEF Claim, Claimable, Goto
<1>3. \A x \in Uploads : LowClaims(x)' \subseteq LowClaims(x)
  BY <1>2 DEF LowClaims, TypeOK
<1>4. ASSUME NEW x \in Uploads, x # r
      PROVE  RowBudget(x)'
  <2>1. Returns(x)' => Returns(x)
    BY <1>1, <1>2, <1>4 DEF Returns, Holding, TypeOK
  <2>2. QED
    BY <1>1, <1>2, <1>3, <1>4, <2>1, RowBudgetKept, BudgetIsRows DEF TypeOK
<1>5. RowBudget(r)'
  <2>1. /\ Returns(r) /\ RowBudget(r)
        /\ attempts'[r] = attempts[r] + 1
    BY <1>1, <1>2, BudgetIsRows DEF Returns, TypeOK
  <2>2. CASE Low(job[w])
    <3>1. LowClaims(r)' \subseteq LowClaims(r) \ {p} /\ p \in LowClaims(r)
      <4>1. p \in LowClaims(r)
        BY <1>1, <1>2, <2>2 DEF LowClaims
      <4>2. /\ \A j \in jobs[p] : j.row # r
            /\ \A v \in Workers : HostOf[v] = p /\ pc[v] = "claim" /\ job[v].row = r => v = w
        BY <1>1, <1>2 DEF DrainInv
      <4>3. p \notin LowClaims(r)'
        BY <1>2, <4>2 DEF LowClaims, TypeOK
      <4>4. QED
        BY <1>3, <4>1, <4>3
    <3>2. /\ Cardinality(LowClaims(r)') + 1 <= Cardinality(LowClaims(r))
          /\ Cardinality(LowClaims(r)') \in Nat /\ Cardinality(LowClaims(r)) \in Nat
          /\ Cardinality(LowClaims(r)) <= Cardinality(Procs) /\ Cardinality(Procs) \in Nat
      <4>1. /\ IsFiniteSet(LowClaims(r) \ {p})
            /\ Cardinality(LowClaims(r) \ {p}) = Cardinality(LowClaims(r)) - 1
        BY <3>1, LowClaimsType, FS_RemoveElement
      <4>2. Cardinality(LowClaims(r)') <= Cardinality(LowClaims(r) \ {p})
        BY <3>1, <4>1, FS_Subset
      <4>3. IsFiniteSet(LowClaims(r)')
        BY <3>1, <4>1, FS_Subset
      <4>4. QED
        BY <4>1, <4>2, <4>3, LowClaimsType, FS_CardinalityType
    <3>3. MaxUploadAttempts \in Nat
      BY LimitsAssumption
    <3>4. QED
      BY <1>1, <2>1, <3>2, <3>3 DEF RowBudget, Budget
  <2>3. CASE ~Low(job[w])
    <3>1. attempts[r] + 1 >= MaxUploadAttempts
      BY <1>1, <2>3, LimitsAssumption DEF Low
    <3>2. ~Returns(r)'
      <4>1. \A v \in Workers : Holding(v) => job[v].row # r
        BY <1>2 DEF OwnedRows
      <4>2. QED
        BY <1>1, <1>2, <2>3, <4>1 DEF Returns, Holding, TypeOK, Low
    <3>3. attempts[r] + Cardinality(LowClaims(r)) <= Budget
      BY <1>1, <2>1, <3>1, LimitsAssumption DEF RowBudget
    <3>4. attempts'[r] <= Budget + 1
      BY <1>1, <2>1, <3>3, LowClaimsType, BudgetIsRows
    <3>5. QED
      BY <3>2, <3>4 DEF RowBudget
  <2>4. QED
    BY <2>2, <2>3
<1>6. QED
  BY <1>4, <1>5, BudgetIsRows

\* A row that is recorded again is in no drain's hands.
LEMMA RecordBudget ==
    ASSUME IInv, TInv', BudgetInv, NEW u \in Uploads, RecordPending(u)
    PROVE  BudgetInv'
<1> USE DEF IInv, TInv
<1>a. PICK r \in Uploads : r = RowFor(u)
  BY DEF RowFor, TypeOK
<1>1. /\ InFlight(u) /\ req[u] = "looked"
      /\ status' = [status EXCEPT ![r] = "pending"]
      /\ attempts' = [attempts EXCEPT ![r] = 0]
      /\ UNCHANGED <<pc, job, jobs>>
  BY <1>a DEF RecordPending, InFlight
<1>2. LowClaims(r) = {}
  <2>1. CASE found[u] = None
    <3>1. status[r] = "absent"
      BY <1>a, <1>1, <2>1 DEF QuietRequests, RowsAt, RowFor
    <3>2. QED
      BY <3>1 DEF LowClaims, FreshSnapshots, Fresh
  <2>2. CASE found[u] # None
    <3>1. Unheld(r)
      BY <1>a, <1>1, <2>2 DEF QuietRequests, RowFor
    <3>2. QED
      BY <3>1 DEF LowClaims, Unheld
  <2>3. QED
    BY <2>1, <2>2
<1>3. \A x \in Uploads : LowClaims(x)' = LowClaims(x)
  BY <1>1 DEF LowClaims
<1>4. ASSUME NEW x \in Uploads, x # r
      PROVE  RowBudget(x)'
  <2>1. Returns(x)' => Returns(x)
    BY <1>1, <1>4 DEF Returns, Holding, TypeOK
  <2>2. QED
    BY <1>1, <1>3, <1>4, <2>1, RowBudgetKept, BudgetIsRows DEF TypeOK
<1>5. RowBudget(r)'
  <2>1. attempts'[r] = 0 /\ Cardinality(LowClaims(r)') = 0
    BY <1>1, <1>2, <1>3, FS_EmptySet DEF TypeOK
  <2>2. QED
    BY <2>1, BudgetIsRows DEF RowBudget
<1>6. QED
  BY <1>4, <1>5, BudgetIsRows

\* A batch's snapshots are up to date: one with attempts left says the row has
\* attempts left.
LEMMA QueryBudget ==
    ASSUME TInv, TInv', DrainInv, BudgetInv, NEW p \in Procs, QueryBatch(p)
    PROVE  BudgetInv'
<1> USE DEF TInv
<1>1. /\ UNCHANGED <<status, attempts, pc, job>> /\ jobs[p] = {}
      /\ jobs' = [jobs EXCEPT ![p] = {Snapshot(r) : r \in NextBatch(p)}]
  BY DEF QueryBatch, DrainInv
<1>2. ASSUME NEW r \in Uploads
      PROVE  RowBudget(r)'
  <2>1. Returns(r)' = Returns(r)
    BY <1>1 DEF Returns, Holding
  <2>2. CASE attempts[r] + 1 < MaxUploadAttempts
    BY <1>1, <2>1, <2>2, BudgetIsRows DEF RowBudget
  <2>3. CASE ~(attempts[r] + 1 < MaxUploadAttempts)
    <3>1. \A j \in {Snapshot(x) : x \in NextBatch(p)} : ~(j.row = r /\ Low(j))
      BY <2>3 DEF Snapshot, Low
    <3>2. LowClaims(r)' \subseteq LowClaims(r)
      BY <1>1, <3>1 DEF LowClaims, TypeOK
    <3>3. QED
      BY <1>1, <2>1, <3>2, RowBudgetKept, BudgetIsRows
  <2>4. QED
    BY <2>2, <2>3
<1>3. QED
  BY <1>2, BudgetIsRows

LEMMA NextBudget ==
    ASSUME IInv, TInv', DrainInv, BudgetInv, [Next]_vars
    PROVE  BudgetInv'
<1> USE DEF IInv, TInv, TypeOK
<1>1. ASSUME NEW u \in Uploads, RequestStep(u), ~RecordPending(u)
      PROVE  BudgetInv'
  <2>1. UNCHANGED <<status, attempts, jobs, pc, job>>
    BY <1>1 DEF RequestStep, CheckBacklog, AssembleAndLookup, EnqueueFails,
       DiscardSession, Kick, StartDrain
  <2>2. QED
    BY <2>1, QuietBudget DEF Lets, Holding, Returns
<1>2. ASSUME NEW p \in Procs, DrainStep(p), ~QueryBatch(p)
      PROVE  BudgetInv'
  <2>1. /\ UNCHANGED <<status, attempts>>
        /\ \A q \in Procs : jobs'[q] \subseteq jobs[q]
        /\ \A w \in Workers : pc'[w] = "idle" \/ (pc'[w] = pc[w] /\ job'[w] = job[w])
    <3>1. CASE CronTick(p) \/ QueryGivesUp(p) \/ EndDrain(p) \/ Shutdown(p)
      BY <3>1 DEF CronTick, StartDrain, QueryGivesUp, EndDrain, Shutdown
    <3>2. CASE BatchDone(p)
      BY <3>2 DEF BatchDone
    <3>3. CASE Exit(p)
      <4>1. /\ UNCHANGED <<status, attempts>>
            /\ jobs' = [jobs EXCEPT ![p] = {}]
            /\ pc' = [w \in Workers |-> IF HostOf[w] = p THEN "idle" ELSE pc[w]]
            /\ job' = [w \in Workers |-> IF HostOf[w] = p THEN NoJob ELSE job[w]]
        BY <3>3 DEF Exit
      <4>2. \A q \in Procs : jobs'[q] \subseteq jobs[q]
        BY <4>1
      <4>3. \A w \in Workers : pc'[w] = "idle" \/ (pc'[w] = pc[w] /\ job'[w] = job[w])
        BY <4>1
      <4>4. QED
        BY <4>1, <4>2, <4>3
    <3>4. QED
      BY <1>2, <3>1, <3>2, <3>3 DEF DrainStep
  <2>2. QED
    BY <2>1, QuietBudget DEF Lets, Holding, Returns
<1>3. ASSUME NEW w \in Workers, WorkerStep(w), ~Claim(w)
      PROVE  BudgetInv'
  <2>1. /\ UNCHANGED attempts
        /\ \A q \in Procs : jobs'[q] \subseteq jobs[q]
    BY <1>3, ProcsAssumption DEF WorkerStep, TakeJob, ClaimLost, OpenStaged, HeadObject,
       CopyToArchive, ArchiveRow, PutObject, MarkReady, RemoveStaged, SettleFailure,
       Goto, Fails, BackToPool
  <2>2. \A v \in Workers : Lets(v)
    BY <1>3 DEF WorkerStep, TakeJob, ClaimLost, OpenStaged, HeadObject, AfterHead,
       CopyToArchive, ArchiveRow, PutObject, MarkReady, RemoveStaged, SettleFailure,
       Goto, Fails, BackToPool, Lets, Holding
  <2>3. \A r \in Uploads : status'[r] = "pending" => Returns(r)
    <3>1. CASE MarkReady(w)
      BY <3>1 DEF MarkReady, Returns
    <3>2. CASE SettleFailure(w)
      <4>1. Holding(w) /\ job[w].row \in Uploads /\ job[w].attempts \in Nat
        BY <3>2, BusyType DEF SettleFailure, Holding
      <4>2. SettledStatus(w) = "pending" => Low(job[w])
        BY <4>1, LimitsAssumption DEF SettledStatus, OutOfAttempts, Low
      <4>3. QED
        BY <3>2, <4>1, <4>2 DEF SettleFailure, Returns
    <3>3. CASE UNCHANGED status
      BY <3>3 DEF Returns
    <3>4. QED
      BY <1>3, <3>1, <3>2, <3>3 DEF WorkerStep, TakeJob, ClaimLost, OpenStaged, HeadObject,
         CopyToArchive, ArchiveRow, PutObject, RemoveStaged
  <2>4. QED
    BY <2>1, <2>2, <2>3, QuietBudget
<1>4. CASE UNCHANGED vars
  BY <1>4, QuietBudget DEF vars, Lets, Holding, Returns
<1>5. QED
  BY <1>1, <1>2, <1>3, <1>4, ClaimBudget, RecordBudget, QueryBudget
     DEF Next, RequestStep, DrainStep

LEMMA InitBudget == Init => BudgetInv
<1> SUFFICES ASSUME Init PROVE BudgetInv
  OBVIOUS
<1>1. \A r \in Uploads : LowClaims(r) = {}
  BY DEF Init, LowClaims
<1>2. \A r \in Uploads : attempts[r] = 0 /\ ~Returns(r)
  BY DEF Init, Returns, Holding
<1>3. QED
  BY <1>2, BudgetIsRows DEF RowBudget

\* With clients that leave a key alone until its last upload is at rest, a row is
\* claimed at most once more per process beyond the first than
\* models.MaxUploadAttempts allows, however stale the snapshots the drains hold.
THEOREM AttemptsAreBounded ==
    ASSUME OverwritePolicy = "quiet"
    PROVE  Spec => []AttemptsBounded
<1>1. Init => DrainInv /\ BudgetInv
  BY InitDrainInv, InitBudget
<1>2. IInv /\ IInv' /\ DrainInv /\ BudgetInv /\ [Next]_vars => DrainInv' /\ BudgetInv'
  BY NextDrainInv, NextBudget DEF IInv
<1>3. Spec => []IInv
  BY Invariance
<1>4. BudgetInv => AttemptsBounded
  BY DEF BudgetInv, AttemptsBounded
<1>5. QED
  BY <1>1, <1>2, <1>3, <1>4, PTL DEF Spec

-----------------------------------------------------------------------------
(* The refinement of VersionedStore *)

\* The rows and the state of a key as functions of the rows' statuses.
RowsIn(st, k) == {r \in Uploads : KeyOf[r] = k /\ st[r] # "absent"}

AnyOf(rows) == CHOOSE r \in rows : TRUE

RowState(s) ==
    CASE s \in {"pending", "uploading"} -> "queued"
      [] s = "ready" -> "stored"
      [] s = "failed" -> "failed"

StateOf(st, k) ==
    IF RowsIn(st, k) = {} THEN "empty" ELSE RowState(st[AnyOf(RowsIn(st, k))])

\* The state of each key in the versioned store.
Mapped == [k \in Keys |-> KeyState(k)]

LEMMA KeyStates ==
    ASSUME NEW k
    PROVE  KeyState(k) = StateOf(status, k) /\ KeyState(k)' = StateOf(status', k)
  BY DEF KeyState, RowsAt, StateOf, RowsIn, AnyOf, RowState

LEMMA EmptyKey ==
    ASSUME NEW st, NEW k, \A r \in Uploads : KeyOf[r] = k => st[r] = "absent"
    PROVE  StateOf(st, k) = "empty"
  BY DEF StateOf, RowsIn

\* A key with one row has the state of that row.
LEMMA OneRowState ==
    ASSUME NEW st, NEW r \in Uploads, st[r] # "absent",
           \A s \in Uploads : KeyOf[s] = KeyOf[r] /\ st[s] # "absent" => s = r
    PROVE  StateOf(st, KeyOf[r]) = RowState(st[r])
<1>1. RowsIn(st, KeyOf[r]) = {r}
  BY DEF RowsIn
<1>2. AnyOf({r}) = r
  BY DEF AnyOf
<1>3. QED
  BY <1>1, <1>2 DEF StateOf

LEMMA SameRows ==
    ASSUME NEW st, NEW tt, NEW k, \A r \in Uploads : KeyOf[r] = k => tt[r] = st[r]
    PROVE  StateOf(tt, k) = StateOf(st, k)
<1>1. RowsIn(tt, k) = RowsIn(st, k)
  BY DEF RowsIn
<1>2. ASSUME RowsIn(st, k) # {}
      PROVE  AnyOf(RowsIn(st, k)) \in RowsIn(st, k)
  BY <1>2 DEF AnyOf
<1>3. \A r \in RowsIn(st, k) : tt[r] = st[r]
  BY DEF RowsIn
<1>4. QED
  BY <1>1, <1>2, <1>3 DEF StateOf

LEMMA SameKey ==
    ASSUME NEW k, \A r \in Uploads : KeyOf[r] = k => status'[r] = status[r]
    PROVE  KeyState(k)' = KeyState(k)
<1>1. StateOf(status', k) = StateOf(status, k)
  BY SameRows
<1>2. QED
  BY <1>1, KeyStates

\* The state of a key whose row is known.
LEMMA StateOfRow ==
    ASSUME IInv, NEW r \in Uploads, status[r] # "absent"
    PROVE  /\ KeyOf[r] \in Keys
           /\ Mapped[KeyOf[r]] = RowState(status[r])
<1>1. KeyOf[r] \in Keys
  BY UploadsAssumption
<1>2. KeyState(KeyOf[r]) = RowState(status[r])
  BY KeyStates, OneRowState DEF IInv, OneRowPerKey
<1>3. QED
  BY <1>1, <1>2 DEF Mapped

\* A step that gives one row a status gives its key the row's state.
LEMMA RowWritten ==
    ASSUME IInv, IInv', NEW r \in Uploads, NEW s \in Statuses \ {"absent"},
           status' = [status EXCEPT ![r] = s]
    PROVE  Mapped' = [Mapped EXCEPT ![KeyOf[r]] = RowState(s)]
<1> USE DEF IInv, TInv, TypeOK
<1>1. status'[r] = s /\ \A x \in Uploads : x # r => status'[x] = status[x]
  OBVIOUS
<1>2. KeyState(KeyOf[r])' = RowState(s)
  <2>1. status'[r] # "absent"
    BY <1>1
  <2>2. \A x \in Uploads : KeyOf[x] = KeyOf[r] /\ status'[x] # "absent" => x = r
    BY <2>1 DEF OneRowPerKey
  <2>3. StateOf(status', KeyOf[r]) = RowState(status'[r])
    BY <2>1, <2>2, OneRowState
  <2>4. QED
    BY <1>1, <2>3, KeyStates
<1>3. ASSUME NEW k \in Keys, k # KeyOf[r]
      PROVE  KeyState(k)' = KeyState(k)
  <2>1. \A x \in Uploads : KeyOf[x] = k => status'[x] = status[x]
    BY <1>1, <1>3
  <2>2. QED
    BY <2>1, SameKey
<1>4. QED
  BY <1>2, <1>3 DEF Mapped

\* A step that leaves the rows leaves the keys.
LEMMA RowsKept ==
    ASSUME UNCHANGED status
    PROVE  Mapped' = Mapped
  BY DEF Mapped, KeyState, RowsAt

LEMMA RecordAccepts ==
    ASSUME IInv, IInv', NEW u \in Uploads, RecordPending(u)
    PROVE  Promise!Accept(u)
<1> USE DEF IInv, TInv, TypeOK
<1>1. PICK r \in Uploads : r = RowFor(u)
  BY DEF RowFor
<1>2. InFlight(u) /\ req[u] = "looked"
  BY DEF RecordPending, InFlight
<1>3. KeyOf[r] = KeyOf[u] /\ KeyOf[u] \in Keys
  BY <1>1, <1>2, UploadsAssumption DEF RowFor, QuietRequests, RowsAt
<1>4. Mapped[KeyOf[u]] # "queued"
  <2>1. CASE found[u] = None
    <3>1. StateOf(status, KeyOf[u]) = "empty"
      BY <1>2, <2>1, EmptyKey DEF QuietRequests, RowsAt
    <3>2. QED
      BY <1>3, <3>1, KeyStates DEF Mapped
  <2>2. CASE found[u] # None
    <3>1. status[r] \in {"ready", "failed"}
      BY <1>1, <1>2, <2>2 DEF RowFor, QuietRequests, RowsAt, Settled
    <3>2. QED
      BY <1>3, <3>1, StateOfRow DEF RowState
  <2>3. QED
    BY <2>1, <2>2
<1>5. Mapped' = [Mapped EXCEPT ![KeyOf[u]] = "queued"]
  <2>1. status' = [status EXCEPT ![r] = "pending"]
    BY <1>1 DEF RecordPending
  <2>2. QED
    BY <1>3, <2>1, RowWritten DEF Statuses, RowState
<1>6. QED
  BY <1>4, <1>5 DEF RecordPending, Promise!Accept, Mapped

\* A worker that owns its row works for a queued key, with the key's last upload.
LEMMA OwnedIsQueued ==
    ASSUME IInv, NEW w \in Workers, Holding(w)
    PROVE  /\ job[w].row \in Uploads /\ KeyAt(w) = KeyOf[job[w].row] /\ KeyAt(w) \in Keys
           /\ Mapped[KeyAt(w)] = "queued"
           /\ job[w].source = latest[KeyAt(w)]
<1>1. /\ job[w].row \in Uploads /\ KeyAt(w) = KeyOf[job[w].row] /\ KeyAt(w) \in Keys
      /\ pc[w] # "idle"
  BY BusyType DEF IInv, Holding, KeyAt
<1>2. status[job[w].row] = "uploading"
  BY DEF IInv, OwnedRows
<1>3. job[w].source = source[job[w].row]
  BY <1>1, <1>2 DEF IInv, FreshSnapshots, Fresh
<1>4. QED
  BY <1>1, <1>2, <1>3, StateOfRow DEF IInv, UnsettledRowHasBytes, RowState

LEMMA WorkerImplements ==
    ASSUME IInv, IInv', ArchivedBeforePut, NEW w \in Workers, WorkerStep(w)
    PROVE  \/ \E k \in Keys : \/ Promise!Keep(k) \/ Promise!Publish(k)
                              \/ Promise!Finish(k) \/ Promise!GiveUp(k)
           \/ UNCHANGED <<Mapped, latest, objects, versions>>
<1> USE DEF IInv, TInv, TypeOK, Goto, Fails, BackToPool
<1>1. CASE Claim(w)
  <2>1. job[w].row \in Uploads /\ status[job[w].row] = "pending"
    BY <1>1, BusyType DEF Claim, Claimable
  <2>2. /\ Mapped' = [Mapped EXCEPT ![KeyOf[job[w].row]] = "queued"]
        /\ Mapped[KeyOf[job[w].row]] = "queued"
    BY <1>1, <2>1, RowWritten, StateOfRow DEF Claim, Statuses, RowState
  <2>3. UNCHANGED Mapped
    BY <2>2 DEF Mapped
  <2>4. QED
    BY <1>1, <2>3 DEF Claim
<1>2. CASE ArchiveRow(w)
  <2>1. /\ KeyAt(w) \in Keys /\ Mapped[KeyAt(w)] = "queued"
        /\ objects[KeyAt(w)] = copy[w] /\ copy[w] # None
    BY <1>2, OwnedIsQueued, UploadsAssumption
       DEF ArchiveRow, Holding, ArchivedBeforePut, WorkerTypes
  <2>2. UNCHANGED <<Mapped, latest, objects>>
    BY <1>2, RowsKept DEF ArchiveRow
  <2>3. Promise!Keep(KeyAt(w)) \/ UNCHANGED versions
    BY <1>2, <2>1, <2>2 DEF ArchiveRow, Promise!Keep, Mapped
  <2>4. QED
    BY <2>1, <2>2, <2>3
<1>3. CASE PutObject(w)
  <2>1. /\ KeyAt(w) \in Keys /\ Mapped[KeyAt(w)] = "queued"
        /\ job[w].source = latest[KeyAt(w)]
    BY <1>3, OwnedIsQueued DEF PutObject, Holding
  <2>2. UNCHANGED <<Mapped, latest, versions>>
    BY <1>3, RowsKept DEF PutObject
  <2>3. BucketAnswers(w) => objects[KeyAt(w)] \in versions[KeyAt(w)] \cup {None}
    BY <1>3 DEF PutObject, BucketAnswers, ArchivedBeforePut
  <2>4. Promise!Publish(KeyAt(w)) \/ UNCHANGED objects
    BY <1>3, <2>1, <2>2, <2>3 DEF PutObject, Promise!Publish, Mapped
  <2>5. QED
    BY <2>1, <2>2, <2>4
<1>4. CASE MarkReady(w)
  <2>1. /\ job[w].row \in Uploads /\ KeyAt(w) = KeyOf[job[w].row]
        /\ KeyAt(w) \in Keys /\ Mapped[KeyAt(w)] = "queued"
        /\ objects[KeyAt(w)] = latest[KeyAt(w)]
    BY <1>4, OwnedIsQueued DEF MarkReady, Holding, PushedBeforeReady
  <2>2. UNCHANGED <<latest, objects, versions>>
    BY <1>4 DEF MarkReady
  <2>3. CASE UNCHANGED status
    BY <2>2, <2>3, RowsKept
  <2>4. CASE status' = [status EXCEPT ![job[w].row] = "ready"]
    <3>1. Mapped' = [Mapped EXCEPT ![KeyAt(w)] = "stored"]
      BY <2>1, <2>4, RowWritten DEF Statuses, RowState
    <3>2. QED
      BY <2>1, <2>2, <3>1 DEF Promise!Finish, Mapped
  <2>5. QED
    BY <1>4, <2>3, <2>4 DEF MarkReady
<1>5. CASE SettleFailure(w)
  <2>1. /\ job[w].row \in Uploads /\ KeyAt(w) = KeyOf[job[w].row]
        /\ KeyAt(w) \in Keys /\ Mapped[KeyAt(w)] = "queued"
    BY <1>5, OwnedIsQueued DEF SettleFailure, Holding
  <2>2. UNCHANGED <<latest, objects, versions>>
    BY <1>5 DEF SettleFailure
  <2>3. CASE UNCHANGED status
    BY <2>2, <2>3, RowsKept
  <2>4. CASE status' = [status EXCEPT ![job[w].row] = "pending"]
    <3>1. Mapped' = [Mapped EXCEPT ![KeyAt(w)] = "queued"]
      BY <2>1, <2>4, RowWritten DEF Statuses, RowState
    <3>2. QED
      BY <2>1, <2>2, <3>1 DEF Mapped
  <2>5. CASE status' = [status EXCEPT ![job[w].row] = "failed"]
    <3>1. Mapped' = [Mapped EXCEPT ![KeyAt(w)] = "failed"]
      BY <2>1, <2>5, RowWritten DEF Statuses, RowState
    <3>2. QED
      BY <2>1, <2>2, <3>1 DEF Promise!GiveUp, Mapped
  <2>6. QED
    BY <1>5, <2>3, <2>4, <2>5 DEF SettleFailure, SettledStatus
<1>6. CASE \/ TakeJob(w) \/ ClaimLost(w) \/ OpenStaged(w) \/ HeadObject(w)
           \/ CopyToArchive(w) \/ RemoveStaged(w)
  <2>1. UNCHANGED <<status, latest, objects, versions>>
    BY <1>6 DEF TakeJob, ClaimLost, OpenStaged, HeadObject, CopyToArchive, RemoveStaged
  <2>2. QED
    BY <2>1, RowsKept
<1>7. QED
  BY <1>1, <1>2, <1>3, <1>4, <1>5, <1>6 DEF WorkerStep

LEMMA NextImplements ==
    ASSUME IInv, IInv', ArchivedBeforePut, [Next]_vars
    PROVE  [Promise!Next]_(Promise!vars)
<1>1. ASSUME NEW u \in Uploads, RequestStep(u)
      PROVE  Promise!Accept(u) \/ UNCHANGED <<Mapped, latest, objects, versions>>
  <2>1. CASE RecordPending(u)
    BY <2>1, RecordAccepts
  <2>2. CASE ~RecordPending(u)
    <3>1. UNCHANGED <<status, latest, objects, versions>>
      BY <1>1, <2>2 DEF RequestStep, CheckBacklog, AssembleAndLookup, EnqueueFails,
         DiscardSession, Kick
    <3>2. QED
      BY <3>1, RowsKept
  <2>3. QED
    BY <2>1, <2>2
<1>2. ASSUME NEW p \in Procs, DrainStep(p)
      PROVE  UNCHANGED <<Mapped, latest, objects, versions>>
  <2>1. UNCHANGED <<status, latest, objects, versions>>
    BY <1>2 DEF DrainStep, CronTick, QueryBatch, QueryGivesUp, BatchDone, EndDrain,
       Shutdown, Exit
  <2>2. QED
    BY <2>1, RowsKept
<1>3. CASE UNCHANGED vars
  BY <1>3, RowsKept DEF vars, Promise!vars, Mapped
<1>4. UNCHANGED <<Mapped, latest, objects, versions>> => UNCHANGED Promise!vars
  BY DEF Promise!vars, Mapped
<1>5. QED
  BY <1>1, <1>2, <1>3, <1>4, WorkerImplements
     DEF Next, RequestStep, DrainStep, Promise!Next

LEMMA InitImplements == Init => Promise!Init
<1> SUFFICES ASSUME Init PROVE Promise!Init
  OBVIOUS
<1>1. \A k \in Keys : KeyState(k) = "empty"
  BY KeyStates, EmptyKey DEF Init
<1>2. QED
  BY <1>1 DEF Init, Promise!Init

\* For clients that leave a key alone until its last upload is at rest, and when
\* HeadObject does not fail by itself, the queue with its drains, workers, retries
\* and exits implements the versioned store: of each key one upload at a time is
\* queued, it is stored only as the key's contents, and what it replaces is kept.
THEOREM Refinement ==
    ASSUME OverwritePolicy = "quiet", "head" \notin Faults
    PROVE  Spec => ImplementsVersionedStore
<1>1. Init => ArchivedBeforePut
  BY DEF Init, ArchivedBeforePut
<1>2. IInv /\ ArchivedBeforePut /\ [Next]_vars => ArchivedBeforePut'
  BY NextArchived
<1>3. IInv /\ IInv' /\ ArchivedBeforePut /\ [Next]_vars => [Promise!Next]_(Promise!vars)
  BY NextImplements
<1>4. Spec => []IInv
  BY Invariance
<1>5. QED
  BY <1>1, <1>2, <1>3, <1>4, InitImplements, PTL
     DEF Spec, ImplementsVersionedStore, Promise!Spec

=============================================================================
