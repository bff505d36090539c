------------------------- MODULE SyncClientInvariant -------------------------
(***************************************************************************)
(* The inductive invariants behind the safety properties of SyncClient.    *)
(* SInv holds whatever the user does to the file, ContentInv when it is    *)
(* not written during a pass; LeakInv and DeliveryInv are the potentials   *)
(* behind the two bounds.                                                  *)
(***************************************************************************)
EXTENDS SyncClient

Transfers == {"persist", "resume", "status", "send", "recheck", "complete"}

StepsOf(kind) ==
    CASE kind = "init"     -> {"run", "done"}
      [] kind = "part"     -> {"load", "run", "done"}
      [] kind = "status"   -> {"load", "run", "done"}
      [] kind = "complete" -> {"load", "assemble", "enqueue", "discard", "done"}
      [] kind = "abort"    -> {"load", "discard", "done"}

KindOf(p) ==
    CASE p = "init"                  -> "init"
      [] p \in {"status", "recheck"} -> "status"
      [] p = "send"                  -> "part"
      [] p = "complete"              -> "complete"
      [] p \in Drops                 -> "abort"

\* The first m chunks of an assembled file are there, and no more; the session
\* has more, unless it was discarded meanwhile.
Assembled(r, m) ==
    /\ m < MaxChunks
    /\ \A i \in Chunks : r.buf[i] # None <=> i <= m
    /\ total[r.s] = 0 \/ m < total[r.s]

RequestShape(r) ==
    /\ r.step \in StepsOf(r.kind)
    /\ r.kind = "init" => /\ r.i \in Chunks
                          /\ r.step = "run" => r.s = None
                          /\ r.code = "ok" => r.s \in Sessions
    /\ r.kind # "init" => r.s \in Sessions
    /\ r.kind = "part" => r.i \in Chunks /\ r.c \in Contents
    /\ r.step = "load" => r.buf = NoParts
    /\ r.step = "done" => r.code # "none"
    /\ r.step = "assemble" => \E m \in 0..MaxChunks : Assembled(r, m)

HandlerShapes ==
    \A h \in Handlers : handler[h] # Idle =>
        /\ RequestShape(handler[h])
        /\ handler[h].step = "done" => h \in listening

\* The client waits for one handler, and for an answer to the call it makes.
Calling ==
    /\ listening = IF waiting THEN {call} ELSE {}
    /\ waiting => /\ call \in Handlers /\ handler[call] # Idle
                  /\ pc \in Calls /\ handler[call].kind = KindOf(pc)
                  /\ IF pc = "init" THEN cur = [s |-> None, n |-> handler[call].i]
                                    ELSE handler[call].s = cur.s

ClientShape ==
    /\ pc \in Transfers \cup Drops => cur.s \in Sessions
    /\ pc \in {"send", "recheck"} => next \in Chunks
    /\ pc = "send" => tries < MaxChunkAttempts
    /\ mem.pending = NoPending \/ mem.pending.s \in Sessions
    /\ disk.pending = NoPending \/ disk.pending.s \in Sessions

\* A session that is closed has no chunks.
ClosedSessions == \A s \in Sessions : total[s] = 0 => parts[s] = NoParts

\* The client has no record of the session.
Unknown(s) == mem.pending.s # s /\ disk.pending.s # s /\ cur.s # s

\* A session nobody has been told of: its id was not generated, or is in an
\* answer the client has not read.
FreshSessions ==
    /\ \A s \in unused :
          /\ total[s] = 0 /\ Unknown(s)
          /\ \A h \in Handlers : handler[h] # Idle => handler[h].s # s
    /\ \A h \in Handlers : handler[h] # Idle /\ handler[h].kind = "init" /\ handler[h].s # None =>
          /\ handler[h].s \notin unused /\ Unknown(handler[h].s)
          /\ total[handler[h].s] = handler[h].i /\ parts[handler[h].s] = NoParts
          /\ \A g \in Handlers : handler[g] # Idle /\ handler[g].s = handler[h].s => g = h

SInv == /\ TypeOK
        /\ HandlerShapes
        /\ Calling
        /\ ClientShape
        /\ ClosedSessions
        /\ FreshSessions

-----------------------------------------------------------------------------
(* Contents, for a file that is not written during a pass *)

\* What a pass has seen of the file still holds.
PassSees ==
    /\ pc \notin {"off", "idle"} => info.size = Size[file.c]
    /\ pc \in Transfers \cup {"folder", "pending", "drop_restart", "init"} => sum = file.c
    /\ pc = "init" /\ waiting => cur.n = Size[file.c]

Prefix(c, m) == [i \in Chunks |-> IF i <= m THEN c ELSE None]

RequestContent(r, con) ==
    /\ r.kind = "init" => \E c \in Contents : r.i = Size[c]
    /\ r.kind = "part" => r.c = con[r.s]
    /\ r.step = "assemble" => \E m \in 0..MaxChunks : r.buf = Prefix(con[r.s], m)
    /\ r.step = "enqueue" => r.buf = Whole(con[r.s])

RecordOf(p, con) == p.s # None => p.sum = con[p.s] /\ p.size = Size[p.sum] /\ p.n = Size[p.sum]

\* Session s was made for content con[s], and nothing else is in it or on its way.
SessionContent(con) ==
    /\ \A s \in Sessions : /\ total[s] \in {0, Size[con[s]]}
                           /\ \A i \in Chunks : parts[s][i] \in {None, con[s]}
    /\ \A h \in Handlers : handler[h] # Idle => RequestContent(handler[h], con)

\* The client's records, and the session it works on, are for the content they say.
RecordContent(con) ==
    /\ RecordOf(mem.pending, con) /\ RecordOf(disk.pending, con)
    /\ pc \in Transfers => con[cur.s] = file.c /\ cur.n = Size[file.c]

OneContentEach ==
    \E con \in [Sessions -> Contents] : SessionContent(con) /\ RecordContent(con)

ContentInv == PassSees /\ OneContentEach /\ NoMixedFile

-----------------------------------------------------------------------------
(* The client's record of the session it works on *)

Recorded ==
    /\ pc \in Transfers => mem.pending.s = cur.s
    /\ pc \in Drops \cup {"init"} => mem.pending = NoPending
    /\ pc = "off" => mem = disk

-----------------------------------------------------------------------------
(* Sessions the client has given up *)

\* An answer that tells the session is closed is true.
ClosedAnswers ==
    \A h \in Handlers :
        /\ handler[h] # Idle /\ handler[h].step = "done" /\ handler[h].kind # "init"
        /\ \/ handler[h].code = "gone"
           \/ handler[h].code = "ok" /\ handler[h].kind \in {"complete", "abort"}
        => total[handler[h].s] = 0

\* The session will be resumed or aborted, if nothing fails.
Held(s) ==
    \/ mem.pending.s = s
    \/ pc \in Drops /\ cur.s = s /\ ~(waiting /\ handler[call].code = "error")
    \/ \E h \in Handlers : /\ handler[h] # Idle /\ handler[h].kind = "init"
                           /\ handler[h].s = s /\ handler[h].code = "ok"

Lost == {s \in Sessions : IsOpen(s) /\ ~Held(s)}

\* Requests for a session whose client no longer waits.
Ghosts == {h \in Handlers : /\ handler[h] # Idle /\ handler[h].kind = "init"
                            /\ handler[h].step = "run" /\ h \notin listening}

LeakInv ==
    /\ ClosedAnswers
    /\ IsFiniteSet(Lost) /\ IsFiniteSet(Ghosts)
    /\ Cardinality(Lost) + Cardinality(Ghosts) <= leaks

-----------------------------------------------------------------------------
(* Deliveries *)

\* Files that will be recorded for a client that no longer waits.
Late == {h \in Handlers : /\ handler[h] # Idle /\ handler[h].kind = "complete"
                          /\ handler[h].step \in {"load", "assemble", "enqueue"}
                          /\ h \notin listening}

Bit(b) == IF b THEN 1 ELSE 0

\* The file of this pass is recorded and the client will read so.
Delivered == /\ pc = "complete" /\ waiting
             /\ \/ handler[call].step = "discard"
                \/ handler[call].step = "done" /\ handler[call].code = "ok"

\* Where no upload of this pass can follow.
Quiet == {"off", "idle", "save", "failed", "drop_skip", "drop_unsaved"}

\* Files the client will still have recorded if nobody writes the file and nothing fails.
Due == IF pc \in Quiet
       THEN Bit(mem.files.mtime # file.mtime)
       ELSE Bit(~Delivered) + Bit(info.mtime # file.mtime)

DeliveryInv ==
    /\ IsFiniteSet(Late)
    /\ recorded + Cardinality(Late) + Due <= file.mtime + faults

-----------------------------------------------------------------------------
(* What the client believes, for requests that do not outlive their client *)

\* The server works for the client that waits, and for no other.
NobodyLate == \A h \in Handlers : handler[h] # Idle => h \in listening

\* An upload that is answered was recorded, and is of the file as it is.
Told ==
    \A h \in Handlers :
        /\ handler[h] # Idle /\ handler[h].kind = "complete"
        /\ handler[h].step = "discard" \/ (handler[h].step = "done" /\ handler[h].code = "ok")
        => accepted = Whole(file.c)

\* What the client's record of the file says is so, and what it names is with the
\* server if the file still is that.
TrueRecord(f) ==
    /\ f.mtime <= file.mtime
    /\ f.mtime = file.mtime => f.sum = file.c
    /\ f.sum = file.c => accepted = Whole(file.c)

BeliefInv ==
    /\ NobodyLate /\ Told
    /\ info.mtime <= file.mtime
    /\ TrueRecord(mem.files) /\ TrueRecord(disk.files)

=============================================================================
