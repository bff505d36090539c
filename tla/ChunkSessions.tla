--------------------------- MODULE ChunkSessions ---------------------------
(***************************************************************************)
(* The server's side of a chunked upload: the chunk sessions on the        *)
(* staging disk (chunkupload.Manager) and the handlers that serve          *)
(* /upload/chunk/{init,part,status,complete,abort}.  Handlers run          *)
(* concurrently and none of them holds a lock.                             *)
(*                                                                         *)
(* One file is uploaded, over and over, with changing contents.  A chunk   *)
(* is told by its index and by the contents it was cut from.               *)
(***************************************************************************)
EXTENDS Integers, FiniteSets

CONSTANTS
    Sessions,    \* upload ids
    Contents,    \* contents of the file
    Size,        \* number of chunks of each
    MaxChunks,   \* bound: chunks of the longest content
    Handlers,    \* bound: requests the server works on at once
    None

Chunks == 1..MaxChunks

ASSUME SizeAssumption == MaxChunks \in Nat /\ Size \in [Contents -> Chunks]
ASSUME NoneAssumption == None \notin Sessions \cup Contents

VARIABLES
    total,      \* the manifest's totalChunks of each session, 0 without a session
    parts,      \* committed chunk files of each session
    unused,     \* upload ids not generated yet
    handler,    \* the request each handler serves
    listening,  \* handlers whose client still waits for the answer
    folder,     \* the destination folder exists
    accepted,   \* chunks of the file that was recorded last, None before
    recorded    \* files recorded so far (history)

serverVars == <<total, parts, unused, handler, listening, folder, accepted, recorded>>

Kinds == {"init", "part", "status", "complete", "abort"}
Steps == {"load", "run", "assemble", "enqueue", "discard", "done"}
Codes == {"none", "ok", "gone", "error"}
NoParts  == [i \in Chunks |-> None]
Idle     == [kind |-> "none"]
Requests == [kind : Kinds, s : Sessions \cup {None}, i : 0..MaxChunks,
             c : Contents \cup {None}, step : Steps, code : Codes,
             buf : [Chunks -> Contents \cup {None}], got : SUBSET Chunks]

ServerTypeOK ==
    /\ total \in [Sessions -> 0..MaxChunks]
    /\ parts \in [Sessions -> [Chunks -> Contents \cup {None}]]
    /\ unused \in SUBSET Sessions
    /\ handler \in [Handlers -> Requests \cup {Idle}]
    /\ listening \in SUBSET Handlers
    /\ folder \in BOOLEAN
    /\ accepted \in [Chunks -> Contents \cup {None}] \cup {None}
    /\ recorded \in Nat

ServerInit ==
    /\ total = [s \in Sessions |-> 0]
    /\ parts = [s \in Sessions |-> NoParts]
    /\ unused = Sessions
    /\ handler = [h \in Handlers |-> Idle]
    /\ listening = {}
    /\ folder = FALSE
    /\ accepted = None
    /\ recorded = 0

-----------------------------------------------------------------------------

IsOpen(s)   == total[s] > 0
Received(s) == {i \in 1..total[s] : parts[s][i] # None}
Serves(h, kind, step) == handler[h].kind = kind /\ handler[h].step = step

\* A client sends a request and waits for the answer.
Request(kind, s, i, c) ==
    [kind |-> kind, s |-> s, i |-> i, c |-> c,
     step |-> IF kind = "init" THEN "run" ELSE "load",
     code |-> "none", buf |-> NoParts, got |-> {}]

Receive(h, request) ==
    /\ handler[h] = Idle
    /\ handler' = [handler EXCEPT ![h] = request]
    /\ listening' = listening \cup {h}

\* The handler answers; nobody reads the answer of a client that has gone away.
Answer(h, code, s, got) ==
    handler' = [handler EXCEPT ![h] =
                  IF h \in listening
                  THEN [@ EXCEPT !.step = "done", !.code = code, !.s = s, !.got = got]
                  ELSE Idle]

Proceed(h, step) == handler' = [handler EXCEPT ![h].step = step]
Errs(h)          == Answer(h, "error", handler[h].s, {})

\* loadOwnedSession
LoadSession(h) ==
    /\ handler[h] # Idle /\ handler[h].step = "load"
    /\ IF IsOpen(handler[h].s)
       THEN Proceed(h, CASE handler[h].kind = "complete" -> "assemble"
                         [] handler[h].kind = "abort"    -> "discard"
                         [] OTHER                        -> "run")
       ELSE Answer(h, "gone", handler[h].s, {})
    /\ UNCHANGED <<total, parts, unused, listening, folder, accepted, recorded>>

\* InitChunkUploadHandler: the folder must exist; i is the number of chunks.
InitSession(h) ==
    /\ Serves(h, "init", "run")
    /\ IF folder
       THEN \E s \in unused :
              /\ unused' = unused \ {s}
              /\ total' = [total EXCEPT ![s] = handler[h].i]
              /\ Answer(h, "ok", s, {})
       ELSE /\ Answer(h, "gone", None, {})
            /\ UNCHANGED <<unused, total>>
    /\ UNCHANGED <<parts, listening, folder, accepted, recorded>>

\* SaveChunk writes a temporary file and renames it into the session's directory,
\* which fails when the directory is gone.
SaveChunk(h) ==
    LET s == handler[h].s
    IN  /\ Serves(h, "part", "run")
        /\ IF IsOpen(s) /\ handler[h].i <= total[s]
           THEN /\ parts' = [parts EXCEPT ![s][handler[h].i] = handler[h].c]
                /\ Answer(h, "ok", s, {})
           ELSE /\ Errs(h)
                /\ UNCHANGED parts
        /\ UNCHANGED <<total, unused, listening, folder, accepted, recorded>>

ReportStatus(h) ==
    /\ Serves(h, "status", "run")
    /\ Answer(h, "ok", handler[h].s, Received(handler[h].s))
    /\ UNCHANGED <<total, parts, unused, listening, folder, accepted, recorded>>

\* Assemble: every chunk is there, and is then read, one after the other.  The
\* number of chunks is the manifest's, loaded with the session.
AppendedSoFar(h) == {i \in Chunks : handler[h].buf[i] # None}

CheckComplete(s) == Received(s) = 1..total[s]
AppendChunk(h) ==
    LET s == handler[h].s
        n == Cardinality(AppendedSoFar(h)) + 1
    IN  /\ Serves(h, "complete", "assemble")
        /\ IF (n = 1 /\ ~CheckComplete(s)) \/ parts[s][n] = None
           THEN Errs(h)
           ELSE handler' = [handler EXCEPT
                              ![h].buf[n] = parts[s][n],
                              ![h].step = IF n = total[s] THEN "enqueue" ELSE @]
        /\ UNCHANGED <<total, parts, unused, listening, folder, accepted, recorded>>

\* EnqueueChunkedUpload: the file is recorded.
RecordUpload(h) ==
    /\ Serves(h, "complete", "enqueue")
    /\ accepted' = handler[h].buf
    /\ recorded' = recorded + 1
    /\ Proceed(h, "discard")
    /\ UNCHANGED <<total, parts, unused, listening, folder>>

\* Discard, after a file was recorded or to abort the session.
DiscardSession(h) ==
    LET s == handler[h].s
    IN  /\ handler[h] # Idle /\ handler[h].step = "discard"
        /\ total' = [total EXCEPT ![s] = 0]
        /\ parts' = [parts EXCEPT ![s] = NoParts]
        /\ Answer(h, "ok", s, {})
        /\ UNCHANGED <<unused, listening, folder, accepted, recorded>>

\* The backlog is full (init, complete), the chunk cannot be written, or the
\* upload cannot be recorded: the handler answers with an error.
HandlerFails(h) ==
    /\ \/ Serves(h, "init", "run") \/ Serves(h, "part", "run")
       \/ Serves(h, "complete", "assemble") /\ AppendedSoFar(h) = {}
       \/ Serves(h, "complete", "enqueue")
    /\ Errs(h)
    /\ UNCHANGED <<total, parts, unused, listening, folder, accepted, recorded>>

\* The API process exits: its requests are gone and their clients see an error.
ServerExits ==
    /\ handler' = [h \in Handlers |->
                     IF h \in listening
                     THEN [handler[h] EXCEPT !.step = "done", !.code = "error"]
                     ELSE Idle]
    /\ UNCHANGED <<total, parts, unused, listening, folder, accepted, recorded>>

ServerStep(h) ==
    \/ LoadSession(h) \/ InitSession(h) \/ SaveChunk(h) \/ ReportStatus(h)
    \/ AppendChunk(h) \/ RecordUpload(h) \/ DiscardSession(h)

=============================================================================
