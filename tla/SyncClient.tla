----------------------------- MODULE SyncClient -----------------------------
(***************************************************************************)
(* The sync client and one tracked large file, on top of ChunkSessions:    *)
(* passes over the file (uploadOne), the state file, chunk sessions that   *)
(* are started, resumed, completed and aborted, and a process that may     *)
(* die at any moment.  A request may be lost, its answer may be lost, and  *)
(* with LateRequests the server may still be working on a request whose    *)
(* client has given up waiting.                                            *)
(*                                                                         *)
(* The modification time counts the writes to the local file.              *)
(***************************************************************************)
EXTENDS ChunkSessions

CONSTANTS
    MaxChunkAttempts,  \* maxChunkAttempts
    MaxEdits,          \* bound: writes to the local file
    MaxFaults,         \* bound: lost messages, failing calls, crashes
    LateRequests,      \* lost answers may belong to requests still running
    EditPolicy,        \* "any"; "between": no write during a pass; "forward": and none
                       \* that brings back what the state file says was uploaded
    MaxFolderDeletes   \* bound: deletions of the folder on the server

ASSUME ClientAssumption ==
    /\ MaxChunkAttempts \in Nat \ {0}
    /\ MaxEdits \in Nat /\ MaxFaults \in Nat /\ MaxFolderDeletes \in Nat
    /\ LateRequests \in BOOLEAN
    /\ EditPolicy \in {"any", "between", "forward"}

VARIABLES
    file,      \* the local file: contents and modification time
    disk,      \* the state file
    mem,       \* the state in memory
    pc,        \* what the client does next
    waiting,   \* it waits for the answer of the handler in "call"
    call,
    info,      \* the stat of this pass: size and modification time
    sum,       \* the hash of this pass, as the contents hashed
    cur,       \* the session worked on: id and number of chunks
    resumed,   \* it was started by an earlier pass
    got,       \* the chunks the server is known to have
    next,      \* the chunk to send
    tries,     \* attempts at this chunk so far
    known,     \* knownFolders
    faults,    \* faults so far
    leaks,     \* occasions on which the client may have lost track of a session
    deletes    \* folder deletions so far

clientVars == <<file, disk, mem, pc, waiting, call, info, sum, cur, resumed, got,
                next, tries, known, faults, leaks, deletes>>
vars == <<serverVars, clientVars>>

Drops == {"drop_skip", "drop_restart", "drop_unsaved"}
Calls == Drops \cup {"init", "status", "send", "recheck", "complete"}
Pcs   == Calls \cup {"off", "idle", "hash", "folder", "pending", "persist",
                     "resume", "failed", "save"}

NoFile    == [mtime |-> 0, sum |-> None]
NoPending == [s |-> None, n |-> 0, size |-> 0, sum |-> None]
States    == [files   : [mtime : Nat, sum : Contents \cup {None}],
              pending : [s : Sessions \cup {None}, n : 0..MaxChunks,
                         size : 0..MaxChunks, sum : Contents \cup {None}]]

ClientTypeOK ==
    /\ file \in [c : Contents, mtime : 1..MaxEdits + 1]
    /\ disk \in States /\ mem \in States
    /\ pc \in Pcs
    /\ waiting \in BOOLEAN /\ call \in Handlers \cup {None}
    /\ info \in [size : 0..MaxChunks, mtime : Nat]
    /\ sum \in Contents \cup {None}
    /\ cur \in [s : Sessions \cup {None}, n : 0..MaxChunks]
    /\ resumed \in BOOLEAN
    /\ got \in SUBSET Chunks
    /\ next \in 0..MaxChunks + 1 /\ tries \in 0..MaxChunkAttempts
    /\ known \in BOOLEAN
    /\ faults \in 0..MaxFaults /\ leaks \in Nat /\ deletes \in 0..MaxFolderDeletes

TypeOK == ServerTypeOK /\ ClientTypeOK

Init ==
    /\ ServerInit
    /\ file \in [c : Contents, mtime : {1}]
    /\ disk = [files |-> NoFile, pending |-> NoPending]
    /\ mem = disk
    /\ pc = "off" /\ waiting = FALSE /\ call = None
    /\ info = [size |-> 0, mtime |-> 0] /\ sum = None
    /\ cur = [s |-> None, n |-> 0] /\ resumed = FALSE
    /\ got = {} /\ next = 0 /\ tries = 0
    /\ known = FALSE
    /\ faults = 0 /\ leaks = 0 /\ deletes = 0

-----------------------------------------------------------------------------
(* Passes over the file: uploadOne *)

passVars == <<info, sum, cur, resumed, got, next, tries>>

\* A fault; it is a leak when a session may be left that the client has forgotten.
Fault(leak) ==
    /\ faults < MaxFaults
    /\ faults' = faults + 1
    /\ leaks' = IF leak THEN leaks + 1 ELSE leaks
NoFault == UNCHANGED <<faults, leaks>>

\* The client process starts: New loads the state file.
Boot ==
    /\ pc = "off"
    /\ pc' = "idle"
    /\ mem' = disk
    /\ known' = FALSE
    /\ UNCHANGED <<serverVars, file, disk, waiting, call, passVars, faults, leaks, deletes>>

\* mutant: the record is dropped and the session left on the server
DropSilently(state, drop, otherwise) ==
    /\ mem' = [state EXCEPT !.pending = NoPending]
    /\ pc' = otherwise
    /\ UNCHANGED cur

\* discardPending: the record is dropped and the session aborted on the server.
DropPending(state, drop, otherwise) ==
    /\ mem' = [state EXCEPT !.pending = NoPending]
    /\ IF state.pending = NoPending
       THEN pc' = otherwise /\ UNCHANGED cur
       ELSE pc' = drop /\ cur' = [s |-> state.pending.s, n |-> state.pending.n]

CountPastEnd(c) == Size[c] + 1   \* mutant: a full last chunk counts twice
ChunkCount(c)   == Size[c]

TimeIgnored   == mem.files.mtime # 0 /\ Size[mem.files.sum] = Size[file.c]   \* mutant
FastUnchanged == mem.files.mtime = file.mtime

\* A pass begins with the stat of the file; an unchanged one is skipped.
Stat ==
    /\ pc = "idle"
    /\ info' = [size |-> Size[file.c], mtime |-> file.mtime]
    /\ IF FastUnchanged
       THEN DropPending(mem, "drop_skip", "save")
       ELSE pc' = "hash" /\ UNCHANGED <<mem, cur>>
    /\ UNCHANGED <<serverVars, file, disk, waiting, call, sum, resumed, got, next,
                   tries, known, faults, leaks, deletes>>

\* The recorded modification time is the one of the stat, not of the hash.
Hash ==
    /\ pc = "hash"
    /\ sum' = file.c
    /\ IF mem.files.sum = file.c
       THEN DropPending([mem EXCEPT !.files = [mtime |-> info.mtime, sum |-> file.c]],
                        "drop_skip", "save")
       ELSE pc' = "folder" /\ UNCHANGED <<mem, cur>>
    /\ UNCHANGED <<serverVars, file, disk, waiting, call, info, resumed, got, next,
                   tries, known, faults, leaks, deletes>>

\* ensureFolder: a folder once created is not created again by this process.
EnsureFolder ==
    /\ pc = "folder"
    /\ \/ /\ known
          /\ pc' = "pending"
          /\ UNCHANGED <<folder, known>> /\ NoFault
       \/ /\ ~known
          /\ folder' = TRUE /\ known' = TRUE
          /\ pc' = "pending"
          /\ NoFault
       \/ /\ ~known
          /\ Fault(FALSE)
          /\ folder' \in {folder, TRUE}
          /\ pc' = "save"
          /\ UNCHANGED known
    /\ UNCHANGED <<total, parts, unused, handler, listening, accepted, recorded, file,
                   disk, mem, waiting, call, passVars, deletes>>

RecordIgnored == mem.pending.s # None   \* mutant: a stored session is always resumed
Resumable == mem.pending.size = info.size /\ mem.pending.sum = sum

\* uploadChunked: resume the stored session, or drop it; a session may also have
\* become too old.
ChoosePending ==
    /\ pc = "pending"
    /\ \/ /\ mem.pending # NoPending /\ Resumable
          /\ resumed' = TRUE
          /\ cur' = [s |-> mem.pending.s, n |-> mem.pending.n]
          /\ pc' = "resume"
          /\ UNCHANGED mem
       \/ /\ DropPending(mem, "drop_restart", "init")
          /\ UNCHANGED resumed
    /\ UNCHANGED <<serverVars, file, disk, waiting, call, info, sum, got, next, tries,
                   known, faults, leaks, deletes>>

\* The new session is saved before a byte is sent.
Persist ==
    /\ pc = "persist"
    /\ \/ /\ disk' = mem
          /\ pc' = "resume"
          /\ UNCHANGED <<mem, cur>> /\ NoFault
       \/ /\ Fault(FALSE)
          /\ DropPending(mem, "drop_unsaved", "failed")
          /\ UNCHANGED disk
    /\ UNCHANGED <<serverVars, file, waiting, call, info, sum, resumed, got, next, tries,
                   known, deletes>>

\* ErrSessionGone: a stored session is forgotten and the file started over.
SessionGone ==
    /\ resumed' = FALSE
    /\ IF resumed
       THEN pc' = "init" /\ mem' = [mem EXCEPT !.pending = NoPending]
       ELSE pc' = "save" /\ UNCHANGED mem

\* ResumeChunkedUpload: the file must still have as many chunks as the session.
Resume ==
    /\ pc = "resume"
    /\ IF ChunkCount(file.c) = cur.n
       THEN pc' = "status" /\ UNCHANGED <<mem, resumed, leaks>>
       ELSE SessionGone /\ leaks' = IF resumed THEN leaks + 1 ELSE leaks
    /\ UNCHANGED <<serverVars, file, disk, waiting, call, info, sum, cur, got, next,
                   tries, known, faults, deletes>>

\* The run's own save at its end.
Save ==
    /\ pc \in {"save", "failed"}
    /\ pc' = "idle"
    /\ \/ disk' = mem /\ NoFault
       \/ Fault(FALSE) /\ UNCHANGED disk
    /\ info' = [size |-> 0, mtime |-> 0] /\ sum' = None
    /\ cur' = [s |-> None, n |-> 0] /\ resumed' = FALSE
    /\ got' = {} /\ next' = 0 /\ tries' = 0
    /\ UNCHANGED <<serverVars, file, mem, waiting, call, known, deletes>>

-----------------------------------------------------------------------------
(* Calls to the server *)

\* The request of each calling step; a chunk is read from the file as it is now.
TheRequest ==
    CASE pc = "init"                   -> Request("init", None, ChunkCount(file.c), None)
      [] pc \in {"status", "recheck"}  -> Request("status", cur.s, 0, None)
      [] pc = "send"                   -> Request("part", cur.s, next, file.c)
      [] pc = "complete"               -> Request("complete", cur.s, 0, None)
      [] pc \in Drops                  -> Request("abort", cur.s, 0, None)

Send ==
    /\ pc \in Calls /\ ~waiting
    /\ \E h \in Handlers : Receive(h, TheRequest) /\ call' = h
    /\ waiting' = TRUE
    /\ cur' = IF pc = "init" THEN [s |-> None, n |-> ChunkCount(file.c)] ELSE cur
    /\ UNCHANGED <<total, parts, unused, folder, accepted, recorded, file, disk, mem, pc,
                   info, sum, resumed, got, next, tries, known, faults, leaks, deletes>>

\* sendChunks goes on with the next chunk the server lacks, then completes.
Advance(received, after) ==
    LET missing == {i \in after + 1..cur.n : i \notin received}
    IN  /\ tries' = 0
        /\ IF missing = {}
           THEN pc' = "complete" /\ next' = 0
           ELSE /\ pc' = "send"
                /\ next' \in missing /\ \A i \in missing : next' <= i

\* After a failed attempt the session's status decides about the next one.
Recheck(code, received) ==
    /\ got' = IF code = "ok" THEN received ELSE got
    /\ IF next \in got'
       THEN Advance(got', next)
       ELSE /\ pc' = IF tries = MaxChunkAttempts THEN "failed" ELSE "send"
            /\ UNCHANGED <<next, tries>>
    /\ UNCHANGED <<mem, cur, resumed>>

NothingRecorded == [mem EXCEPT !.pending = NoPending]   \* mutant
AfterUpload == [mem EXCEPT !.pending = NoPending,
                           !.files = [mtime |-> info.mtime, sum |-> sum]]

\* What the client does with an answer, or with the error in its place.
OnAnswer(code, s, received) ==
    \/ /\ pc = "init"
       /\ IF code = "ok"
          THEN /\ cur' = [cur EXCEPT !.s = s]
               /\ mem' = [mem EXCEPT !.pending =
                            [s |-> s, n |-> cur.n, size |-> info.size, sum |-> sum]]
               /\ pc' = "persist"
          ELSE pc' = "save" /\ UNCHANGED <<cur, mem>>
       /\ UNCHANGED <<resumed, got, next, tries>>
    \/ /\ pc = "status" /\ code = "ok"
       /\ got' = received
       /\ Advance(received, 0)
       /\ UNCHANGED <<mem, cur, resumed>>
    \/ /\ pc = "send" /\ code = "ok"
       /\ Advance(got, next)
       /\ UNCHANGED <<mem, cur, resumed, got>>
    \/ /\ pc = "send" /\ code = "error"
       /\ pc' = "recheck" /\ tries' = tries + 1
       /\ UNCHANGED <<mem, cur, resumed, got, next>>
    \/ /\ pc = "recheck"
       /\ Recheck(code, received)
    \/ /\ pc = "complete" /\ code = "ok"
       /\ mem' = AfterUpload
       /\ pc' = "save"
       /\ UNCHANGED <<cur, resumed, got, next, tries>>
    \/ /\ pc \in {"status", "send", "complete"} /\ code = "gone"
       /\ SessionGone
       /\ UNCHANGED <<cur, got, next, tries>>
    \/ /\ pc \in {"status", "complete"} /\ code = "error"
       /\ pc' = "failed"
       /\ UNCHANGED <<mem, cur, resumed, got, next, tries>>
    \/ /\ pc \in Drops
       /\ pc' = CASE pc = "drop_skip"    -> "save"
                  [] pc = "drop_restart" -> "init"
                  [] pc = "drop_unsaved" -> "failed"
       /\ UNCHANGED <<mem, cur, resumed, got, next, tries>>

HangUp ==
    /\ waiting' = FALSE /\ call' = None
    /\ listening' = listening \ {call}
    /\ handler' = IF handler[call].step = "done" THEN [handler EXCEPT ![call] = Idle]
                                                 ELSE handler

ReadAnswer ==
    /\ waiting /\ handler[call].step = "done"
    /\ OnAnswer(handler[call].code, handler[call].s, handler[call].got)
    /\ HangUp
    /\ UNCHANGED <<total, parts, unused, folder, accepted, recorded, file, disk, info,
                   sum, known, faults, leaks, deletes>>

\* The connection breaks, or the client's timeout passes.
MayHangUp == LateRequests \/ handler[call].step = "done"

LoseAnswer ==
    /\ waiting /\ MayHangUp
    /\ Fault(pc \in {"init"} \cup Drops)
    /\ OnAnswer("error", None, {})
    /\ HangUp
    /\ UNCHANGED <<total, parts, unused, folder, accepted, recorded, file, disk, info,
                   sum, known, deletes>>

LoseRequest ==
    /\ pc \in Calls /\ ~waiting
    /\ Fault(pc \in Drops)
    /\ OnAnswer("error", None, {})
    /\ UNCHANGED <<serverVars, file, disk, waiting, call, info, sum, known, deletes>>

-----------------------------------------------------------------------------
(* The environment *)

\* The client is killed; what it had in memory is lost.
Crash ==
    /\ pc # "off"
    /\ waiting => MayHangUp
    /\ Fault(pc \in {"init"} \cup Drops \/ mem.pending # disk.pending)
    /\ pc' = "off" /\ mem' = disk /\ known' = FALSE
    /\ IF waiting THEN HangUp ELSE UNCHANGED <<waiting, call, listening, handler>>
    /\ info' = [size |-> 0, mtime |-> 0] /\ sum' = None
    /\ cur' = [s |-> None, n |-> 0] /\ resumed' = FALSE
    /\ got' = {} /\ next' = 0 /\ tries' = 0
    /\ UNCHANGED <<total, parts, unused, folder, accepted, recorded, file, disk, deletes>>

\* The user writes the file, or touches it.
Edit ==
    /\ file.mtime <= MaxEdits
    /\ EditPolicy = "any" \/ pc \in {"off", "idle"}
    /\ \E c \in Contents :
          /\ EditPolicy = "forward" => c = file.c \/ c \notin {mem.files.sum, disk.files.sum}
          /\ file' = [c |-> c, mtime |-> file.mtime + 1]
    /\ UNCHANGED <<serverVars, disk, mem, pc, waiting, call, passVars, known, faults,
                   leaks, deletes>>

DeleteFolder ==
    /\ deletes < MaxFolderDeletes
    /\ folder
    /\ folder' = FALSE /\ deletes' = deletes + 1
    /\ UNCHANGED <<total, parts, unused, handler, listening, accepted, recorded, file,
                   disk, mem, pc, waiting, call, passVars, known, faults, leaks>>

ClientStep == \/ Boot \/ Stat \/ Hash \/ EnsureFolder \/ ChoosePending \/ Persist
              \/ Resume \/ Save \/ Send \/ ReadAnswer

ServerFault == /\ \/ \E h \in Handlers : HandlerFails(h)
                  \/ ServerExits
               /\ Fault(waiting /\ pc \in {"init"} \cup Drops)
               /\ UNCHANGED <<file, disk, mem, pc, waiting, call, passVars, known,
                              deletes>>

Next ==
    \/ ClientStep
    \/ LoseAnswer \/ LoseRequest \/ Crash \/ Edit \/ DeleteFolder
    \/ \E h \in Handlers : ServerStep(h) /\ UNCHANGED clientVars
    \/ ServerFault

Spec == Init /\ [][Next]_vars

\* The client is started again and again and goes on with its pass; the server
\* works on the requests it has received.
Fairness ==
    /\ WF_vars(ClientStep)
    /\ \A h \in Handlers : WF_vars(ServerStep(h) /\ UNCHANGED clientVars)

FairSpec == Spec /\ Fairness

-----------------------------------------------------------------------------
(* Properties *)

Whole(c) == [i \in Chunks |-> IF i <= Size[c] THEN c ELSE None]

\* A file the server records is one the user had: all its chunks are of one
\* content (Assemble, with handlers that overwrite and discard chunks meanwhile).
NoMixedFile == accepted # None => \E c \in Contents : accepted = Whole(c)

\* A stored session is resumed only when the chunks the server already has are
\* those of the file just hashed (resumable, state.go).
ResumedSessionMatches ==
    pc = "status" /\ resumed => \A i \in Chunks : parts[cur.s][i] \in {None, sum}

\* Sessions on the server's disk the client has no record of.  No one will ever
\* complete or abort them, as the server does not expire sessions.
Orphans == {s \in Sessions :
              /\ IsOpen(s)
              /\ s # mem.pending.s /\ s # disk.pending.s
              /\ s # cur.s
              /\ \A h \in Handlers : handler[h] # Idle => handler[h].s # s}

\* The client aborts every session it gives up: there is an orphan only for each
\* lost answer to an init or abort, crash before the session was saved, or file
\* that changed its number of chunks while a pass was about to resume it.
OrphansBounded == Cardinality(Orphans) <= leaks

\* A file is sent again only because it was written, or because of a fault.
DeliveriesBounded == recorded <= file.mtime + faults

\* What the state file says was uploaded ("what the client last uploaded", state.go) is
\* what the server recorded last, so that a pass can tell whether the content changed.
\* It fails when an upload is recorded, its answer is lost, and the user brings back
\* the content before: EditPolicy = "between"; "forward" leaves that out.
Believed == mem.files.mtime = file.mtime
RecordedIsDelivered == Believed => accepted = Whole(file.c)

\* Once the file is left alone and the faults are over, the server gets it.
EventuallyDelivered == <>[](Believed /\ accepted = Whole(file.c))

=============================================================================
