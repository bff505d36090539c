------------------------ MODULE UploadQueueInvariant ------------------------
(***************************************************************************)
(* The inductive invariant behind the safety properties of UploadQueue.    *)
(* TInv strengthens the type invariant and holds under every overwrite     *)
(* policy; IInv adds what a quiet client (see MayStart) guarantees.        *)
(***************************************************************************)
EXTENDS UploadQueue

\* What a worker's program counter says of its snapshot and of the bucket.
WorkerTypes ==
    \A w \in Workers :
        /\ pc[w] = "idle" <=> job[w] = NoJob
        /\ pc[w] \in {"head", "copy", "archive", "put", "ready", "remove"}
             => job[w].source \in Uploads
        /\ pc[w] = "copy" => objects[KeyAt(w)] \in Uploads
        /\ pc[w] = "archive" => copy[w] \in Uploads

TInv == TypeOK /\ WorkerTypes

\* A worker that owns its row finds it uploading; one that is about to remove
\* the staged file finds it ready.
OwnedRows ==
    \A w \in Workers :
        /\ Holding(w) => status[job[w].row] = "uploading"
        /\ pc[w] = "remove" => status[job[w].row] = "ready"

\* While a request is in flight for a key, no drain touches the key's row and no
\* other request is in flight for it; after the lookup, the assembled file is
\* there and the row found is the key's row.
QuietRequests ==
    \A u \in Uploads :
        InFlight(u) =>
            /\ \A r \in RowsAt(KeyOf[u]) : Settled(r) /\ Unheld(r)
            /\ \A v \in Uploads : InFlight(v) /\ KeyOf[v] = KeyOf[u] => v = u
            /\ req[u] = "looked" =>
                 /\ u \in staged
                 /\ IF found[u] = None THEN RowsAt(KeyOf[u]) = {}
                                       ELSE found[u] \in RowsAt(KeyOf[u])

\* A row's staged file is an upload to the row's key.
RowSources ==
    \A r \in Uploads : source[r] # None => KeyOf[source[r]] = KeyOf[r]

\* A snapshot that may still be claimed, or has been, agrees with its row.
Fresh(j) ==
    /\ status[j.row] # "absent"
    /\ j.source # None => KeyOf[j.source] = KeyOf[j.row]
    /\ status[j.row] \in {"pending", "uploading"} =>
         j.source = source[j.row] /\ j.attempts <= attempts[j.row]

FreshSnapshots ==
    /\ \A p \in Procs : \A j \in jobs[p] : Fresh(j)
    /\ \A w \in Workers : pc[w] # "idle" => Fresh(job[w])
    /\ \A w \in Workers : Holding(w) => job[w].attempts < attempts[job[w].row]

\* A worker that reports success has put its snapshot's bytes at the key.
PushedBeforeReady ==
    \A w \in Workers : pc[w] = "ready" => objects[KeyAt(w)] = job[w].source

IInv == /\ TInv
        /\ OwnedRows
        /\ ClaimExclusive
        /\ OneRowPerKey
        /\ QuietRequests
        /\ RowSources
        /\ FreshSnapshots
        /\ UnsettledRowHasBytes
        /\ PushedBeforeReady
        /\ ReadyIsLatest
        /\ FailedMeansSpent

\* A worker about to overwrite an object has archived its contents, unless its
\* context is cancelled and the overwrite cannot be sent.
ArchivedBeforePut ==
    \A w \in Workers :
        /\ pc[w] = "archive" => copy[w] = objects[KeyAt(w)]
        /\ pc[w] = "put" => \/ objects[KeyAt(w)] \in versions[KeyAt(w)] \cup {None}
                            \/ HostOf[w] \in stopping

VInv == IInv /\ ArchivedBeforePut

-----------------------------------------------------------------------------
(* The drains, under every overwrite policy *)

\* A drain has rows in hand only while it works on a batch, each of them once, and
\* only rows it has noted as taken up.
DrainInv ==
    \A p \in Procs :
        /\ phase[p] # "work" =>
             jobs[p] = {} /\ \A w \in Workers : HostOf[w] = p => pc[w] = "idle"
        /\ \A i, j \in jobs[p] : i.row = j.row => i = j
        /\ \A w \in Workers : HostOf[w] = p /\ pc[w] # "idle" =>
             /\ \A j \in jobs[p] : j.row # job[w].row
             /\ \A v \in Workers : HostOf[v] = p /\ pc[v] # "idle" /\ job[v].row = job[w].row => v = w

\* A failed attempt with this snapshot puts the row back into the queue.
Low(j) == j.attempts + 1 < MaxUploadAttempts

\* The processes that may still claim row r with such a snapshot.
LowClaims(r) ==
    {p \in Procs : \/ \E j \in jobs[p] : j.row = r /\ Low(j)
                   \/ \E w \in Workers : /\ HostOf[w] = p /\ pc[w] = "claim"
                                         /\ job[w].row = r /\ Low(job[w])}

\* The row is claimable now, or will be again.
Returns(r) ==
    \/ status[r] = "pending"
    \/ \E w \in Workers : Holding(w) /\ job[w].row = r /\ Low(job[w])

\* Once a row has one attempt left, new snapshots of it are the last: every claim by
\* an older one is paid for by a process that loses that snapshot.
BudgetInv ==
    \A r \in Uploads :
        /\ attempts[r] <= MaxUploadAttempts + Cardinality(Procs) - 1
        /\ Returns(r) => \/ attempts[r] + 1 < MaxUploadAttempts
                         \/ attempts[r] + Cardinality(LowClaims(r))
                              <= MaxUploadAttempts + Cardinality(Procs) - 2

=============================================================================
