--------------------------- MODULE SyncClientProofs ---------------------------
(***************************************************************************)
(* Proofs about SyncClient: type correctness, what the server records and  *)
(* what a session is resumed with, and the bounds on forgotten sessions    *)
(* and on repeated uploads.                                                *)
(***************************************************************************)
EXTENDS SyncClientInvariant, FiniteSetTheorems, TLAPS

USE DEF serverVars, clientVars, passVars

-----------------------------------------------------------------------------
(* Requests *)

LEMMA IdleType == Idle \notin Requests
  BY DEF Idle, Requests, Kinds

LEMMA RequestType ==
    ASSUME NEW r \in Requests
    PROVE  /\ r.kind \in Kinds /\ r.s \in Sessions \cup {None} /\ r.i \in 0..MaxChunks
           /\ r.c \in Contents \cup {None} /\ r.step \in Steps /\ r.code \in Codes
           /\ r.buf \in [Chunks -> Contents \cup {None}] /\ r.got \in SUBSET Chunks
           /\ r # Idle
  BY IdleType DEF Requests

\* A request with another step.
LEMMA StepSet ==
    ASSUME NEW r \in Requests, NEW step \in Steps
    PROVE  /\ [r EXCEPT !.step = step] \in Requests
           /\ [r EXCEPT !.step = step].step = step
           /\ [r EXCEPT !.step = step].kind = r.kind
           /\ [r EXCEPT !.step = step].s = r.s
           /\ [r EXCEPT !.step = step].i = r.i
           /\ [r EXCEPT !.step = step].c = r.c
           /\ [r EXCEPT !.step = step].code = r.code
           /\ [r EXCEPT !.step = step].buf = r.buf
  BY DEF Requests

\* A request that is answered.
Done(r, code, s, g) == [r EXCEPT !.step = "done", !.code = code, !.s = s, !.got = g]

LEMMA DoneType ==
    ASSUME NEW r \in Requests, NEW code \in Codes, NEW s \in Sessions \cup {None},
           NEW g \in SUBSET Chunks
    PROVE  /\ Done(r, code, s, g) \in Requests
           /\ Done(r, code, s, g).kind = r.kind
           /\ Done(r, code, s, g).s = s
           /\ Done(r, code, s, g).i = r.i
           /\ Done(r, code, s, g).c = r.c
           /\ Done(r, code, s, g).step = "done"
           /\ Done(r, code, s, g).code = code
           /\ Done(r, code, s, g).buf = r.buf
           /\ Done(r, code, s, g).got = g
  BY DEF Requests, Done, Steps

\* A request whose next chunk is appended.
Appended(r, n, c, step) == [r EXCEPT !.buf = [r.buf EXCEPT ![n] = c], !.step = step]

LEMMA AppendedType ==
    ASSUME NEW r \in Requests, NEW n \in Chunks, NEW c \in Contents \cup {None}, NEW step \in Steps
    PROVE  /\ Appended(r, n, c, step) \in Requests
           /\ Appended(r, n, c, step).kind = r.kind
           /\ Appended(r, n, c, step).s = r.s
           /\ Appended(r, n, c, step).i = r.i
           /\ Appended(r, n, c, step).c = r.c
           /\ Appended(r, n, c, step).code = r.code
           /\ Appended(r, n, c, step).step = step
           /\ Appended(r, n, c, step).buf = [r.buf EXCEPT ![n] = c]
<1>1. [r.buf EXCEPT ![n] = c] \in [Chunks -> Contents \cup {None}]
  BY RequestType
<1> DEFINE b == [r.buf EXCEPT ![n] = c]
<1> HIDE DEF b
<1>2. b \in [Chunks -> Contents \cup {None}]
  BY <1>1 DEF b
<1>3. /\ [r EXCEPT !.buf = b, !.step = step] \in Requests
      /\ [r EXCEPT !.buf = b, !.step = step].kind = r.kind
      /\ [r EXCEPT !.buf = b, !.step = step].s = r.s
      /\ [r EXCEPT !.buf = b, !.step = step].i = r.i
      /\ [r EXCEPT !.buf = b, !.step = step].c = r.c
      /\ [r EXCEPT !.buf = b, !.step = step].code = r.code
      /\ [r EXCEPT !.buf = b, !.step = step].step = step
      /\ [r EXCEPT !.buf = b, !.step = step].buf = b
  BY <1>2 DEF Requests
<1>4. QED
  BY <1>3 DEF b, Appended

LEMMA NewRequest ==
    ASSUME NEW kind \in Kinds, NEW s \in Sessions \cup {None}, NEW i \in 0..MaxChunks,
           NEW c \in Contents \cup {None}
    PROVE  /\ Request(kind, s, i, c) \in Requests
           /\ Request(kind, s, i, c).kind = kind
           /\ Request(kind, s, i, c).s = s
           /\ Request(kind, s, i, c).i = i
           /\ Request(kind, s, i, c).c = c
           /\ Request(kind, s, i, c).step = IF kind = "init" THEN "run" ELSE "load"
           /\ Request(kind, s, i, c).code = "none"
           /\ Request(kind, s, i, c).buf = NoParts
<1>1. NoParts \in [Chunks -> Contents \cup {None}]
  BY DEF NoParts
<1>2. QED
  BY <1>1 DEF Request, Requests, Steps, Codes

\* What answering and proceeding do to the handlers.
LEMMA AnswerEffect ==
    ASSUME ServerTypeOK, NEW h \in Handlers, handler[h] # Idle, NEW code \in Codes,
           NEW s \in Sessions \cup {None}, NEW g \in SUBSET Chunks, Answer(h, code, s, g)
    PROVE  /\ handler[h] \in Requests
           /\ \E r \in Requests \cup {Idle} :
                /\ handler' = [handler EXCEPT ![h] = r]
                /\ r = IF h \in listening THEN Done(handler[h], code, s, g) ELSE Idle
<1>1. handler[h] \in Requests
  BY DEF ServerTypeOK
<1>2. Done(handler[h], code, s, g) \in Requests
  BY <1>1, DoneType
<1>3. QED
  BY <1>1, <1>2 DEF Answer, Done

LEMMA ProceedEffect ==
    ASSUME ServerTypeOK, NEW h \in Handlers, handler[h] # Idle, NEW step \in Steps, Proceed(h, step)
    PROVE  /\ handler[h] \in Requests
           /\ \E r \in Requests :
                /\ handler' = [handler EXCEPT ![h] = r]
                /\ r = [handler[h] EXCEPT !.step = step]
<1>1. handler[h] \in Requests
  BY DEF ServerTypeOK
<1>2. QED
  BY <1>1, StepSet DEF Proceed, ServerTypeOK

-----------------------------------------------------------------------------
(* Steps of the server *)

ClientKept == UNCHANGED <<file, disk, mem, pc, waiting, call, info, sum, cur, resumed,
                          got, next, tries, known, deletes, listening>>

\* A handler moves on with its request, or is done with it and nobody listens.
Moves(h, r) ==
    /\ handler[h] \in Requests /\ r \in Requests \cup {Idle}
    /\ handler' = [handler EXCEPT ![h] = r]
    /\ r = Idle => h \notin listening
    /\ r # Idle => /\ r.kind = handler[h].kind /\ r.s = handler[h].s
                   /\ r.i = handler[h].i /\ r.c = handler[h].c
                   /\ r.step = "done" => h \in listening
                   /\ RequestShape(r)'

\* Only the session of the request is touched, and none is opened.
SessionsKept(h) ==
    /\ UNCHANGED unused
    /\ \A s \in Sessions :
         /\ total'[s] \in {0, total[s]}
         /\ total'[s] = 0 => parts'[s] = NoParts
         /\ \/ s = handler[h].s /\ handler[h].kind # "init"
            \/ total'[s] = total[s] /\ parts'[s] = parts[s]

LEMMA ShapeDone ==
    ASSUME NEW r \in Requests, NEW q \in Requests, RequestShape(r), q.step = "done",
           q.kind = r.kind, q.s = r.s, q.i = r.i, q.c = r.c, q.kind = "init" => q.code # "ok",
           q.code # "none"
    PROVE  RequestShape(q) /\ RequestShape(q)'
  BY RequestType DEF RequestShape, StepsOf, Kinds

LEMMA AnswerMoves ==
    ASSUME SInv, NEW h \in Handlers, handler[h] # Idle, NEW code \in Codes \ {"none"},
           NEW g \in SUBSET Chunks, Answer(h, code, handler[h].s, g),
           handler[h].kind = "init" => code # "ok"
    PROVE  \E r \in Requests \cup {Idle} :
             /\ Moves(h, r)
             /\ r # Idle => r = Done(handler[h], code, handler[h].s, g)
<1>1. handler[h] \in Requests /\ RequestShape(handler[h])
  BY DEF SInv, TypeOK, ServerTypeOK, HandlerShapes
<1>2. handler[h].s \in Sessions \cup {None}
  BY <1>1, RequestType
<1>3. PICK r \in Requests \cup {Idle} :
        /\ handler' = [handler EXCEPT ![h] = r]
        /\ r = IF h \in listening THEN Done(handler[h], code, handler[h].s, g) ELSE Idle
  BY <1>2, AnswerEffect DEF SInv, TypeOK
<1>4. CASE h \notin listening
  BY <1>1, <1>3, <1>4 DEF Moves
<1>5. CASE h \in listening
  <2>1. /\ r \in Requests /\ r.kind = handler[h].kind /\ r.s = handler[h].s
        /\ r.i = handler[h].i /\ r.c = handler[h].c /\ r.step = "done" /\ r.code = code
    BY <1>1, <1>2, <1>3, <1>5, DoneType
  <2>2. RequestShape(r)'
    BY <1>1, <2>1, ShapeDone
  <2>3. QED
    BY <1>1, <1>3, <1>5, <2>1, <2>2, IdleType DEF Moves
<1>6. QED
  BY <1>4, <1>5

LEMMA ErrsMoves ==
    ASSUME SInv, NEW h \in Handlers, handler[h] # Idle, Errs(h)
    PROVE  \E r \in Requests \cup {Idle} :
             /\ Moves(h, r)
             /\ r # Idle => r = Done(handler[h], "error", handler[h].s, {})
  BY AnswerMoves DEF Errs, Codes

LEMMA ProceedMoves ==
    ASSUME SInv, NEW h \in Handlers, handler[h] # Idle, NEW step \in Steps \ {"done"},
           Proceed(h, step), NEW r, r = [handler[h] EXCEPT !.step = step], RequestShape(r)'
    PROVE  r \in Requests /\ Moves(h, r)
<1>1. handler[h] \in Requests
  BY DEF SInv, TypeOK, ServerTypeOK
<1>2. QED
  BY <1>1, ProceedEffect, StepSet, IdleType DEF SInv, TypeOK, Moves

LEMMA ServesType ==
    ASSUME SInv, NEW h \in Handlers, NEW kind, NEW step, Serves(h, kind, step)
    PROVE  kind # "none" => /\ handler[h] # Idle /\ handler[h] \in Requests
                            /\ RequestShape(handler[h])
  BY DEF SInv, TypeOK, ServerTypeOK, HandlerShapes, Serves, Idle

LEMMA LoadMoves ==
    ASSUME SInv, NEW h \in Handlers, LoadSession(h)
    PROVE  /\ \E r \in Requests \cup {Idle} : Moves(h, r)
           /\ SessionsKept(h)
           /\ ServerTypeOK'
<1> DEFINE s == handler[h].s
           step == CASE handler[h].kind = "complete" -> "assemble"
                     [] handler[h].kind = "abort"    -> "discard"
                     [] OTHER                        -> "run"
<1>1. /\ handler[h] # Idle /\ handler[h] \in Requests /\ RequestShape(handler[h])
      /\ handler[h].step = "load"
  BY DEF LoadSession, SInv, TypeOK, ServerTypeOK, HandlerShapes
<1>2. /\ handler[h].kind \in Kinds \ {"init"} /\ s \in Sessions
      /\ handler[h].buf = NoParts
  BY <1>1, RequestType DEF RequestShape, StepsOf, Kinds
<1>3. SessionsKept(h)
  BY <1>1 DEF LoadSession, SessionsKept, SInv, ClosedSessions
<1>4. \E r \in Requests \cup {Idle} : Moves(h, r)
  <2>1. CASE IsOpen(s)
    <3>1. step \in Steps \ {"done"} /\ Proceed(h, step)
      BY <1>2, <2>1 DEF LoadSession, Steps, Kinds
    <3>2. PICK r : r = [handler[h] EXCEPT !.step = step]
      OBVIOUS
    <3>3. /\ step = "assemble" => total'[r.s] > 0 /\ total'[r.s] \in Nat /\ total'[r.s] <= MaxChunks
          /\ step \in StepsOf(handler[h].kind) /\ step # "load"
      <4>1. r.s = s
        BY <1>1, <3>1, <3>2, StepSet
      <4>2. QED
        BY <1>2, <2>1, <4>1, SizeAssumption
           DEF LoadSession, IsOpen, SInv, TypeOK, ServerTypeOK, StepsOf, Kinds
    <3> HIDE DEF step
    <3>4. /\ r \in Requests /\ r.step = step /\ r.kind = handler[h].kind /\ r.s = s
          /\ r.i = handler[h].i /\ r.c = handler[h].c /\ r.buf = NoParts
      BY <1>1, <1>2, <3>1, <3>2, StepSet
    <3>5. step = "assemble" => Assembled(r, 0)' /\ 0 \in 0..MaxChunks
      <4>1. \A i \in Chunks : NoParts[i] # None <=> i <= 0
        BY SizeAssumption DEF NoParts, Chunks
      <4>2. QED
        BY <3>3, <3>4, <4>1, SizeAssumption DEF Assembled
    <3>6. RequestShape(r)'
      BY <1>1, <1>2, <3>1, <3>3, <3>4, <3>5 DEF RequestShape
    <3>7. QED
      BY <1>1, <3>1, <3>2, <3>6, ProceedMoves
  <2>2. CASE ~IsOpen(s)
    BY <1>1, <2>2, AnswerMoves DEF LoadSession, Codes
  <2>3. QED
    BY <2>1, <2>2
<1>5. ServerTypeOK'
  BY <1>4 DEF LoadSession, Moves, SInv, TypeOK, ServerTypeOK
<1>6. QED
  BY <1>3, <1>4, <1>5

LEMMA SaveMoves ==
    ASSUME SInv, NEW h \in Handlers, SaveChunk(h)
    PROVE  /\ \E r \in Requests \cup {Idle} : Moves(h, r)
           /\ SessionsKept(h)
           /\ ServerTypeOK'
<1> DEFINE s == handler[h].s
<1>1. /\ handler[h] # Idle /\ handler[h] \in Requests /\ RequestShape(handler[h])
      /\ handler[h].kind = "part"
  BY ServesType DEF SaveChunk, Serves
<1>2. s \in Sessions /\ handler[h].i \in Chunks /\ handler[h].c \in Contents
  BY <1>1 DEF RequestShape
<1>3. \E r \in Requests \cup {Idle} : Moves(h, r)
  BY <1>1, AnswerMoves, ErrsMoves DEF SaveChunk, Codes
<1>4. parts' \in [Sessions -> [Chunks -> Contents \cup {None}]]
      /\ \A x \in Sessions : x # s => parts'[x] = parts[x]
  BY <1>2 DEF SaveChunk, SInv, TypeOK, ServerTypeOK
<1>5. SessionsKept(h)
  BY <1>1, <1>4 DEF SaveChunk, IsOpen, SessionsKept, SInv, ClosedSessions
<1>6. ServerTypeOK'
  BY <1>3, <1>4 DEF SaveChunk, Moves, SInv, TypeOK, ServerTypeOK
<1>7. QED
  BY <1>3, <1>5, <1>6

LEMMA StatusMoves ==
    ASSUME SInv, NEW h \in Handlers, ReportStatus(h)
    PROVE  /\ \E r \in Requests \cup {Idle} : Moves(h, r)
           /\ SessionsKept(h)
           /\ ServerTypeOK'
<1>1. /\ handler[h] # Idle /\ handler[h] \in Requests /\ RequestShape(handler[h])
      /\ handler[h].kind = "status"
  BY ServesType DEF ReportStatus, Serves
<1>2. Received(handler[h].s) \in SUBSET Chunks
  <2>1. total[handler[h].s] \in 0..MaxChunks
    BY <1>1 DEF RequestShape, SInv, TypeOK, ServerTypeOK
  <2>2. QED
    BY <2>1, SizeAssumption DEF Received, Chunks
<1>3. \E r \in Requests \cup {Idle} : Moves(h, r)
  BY <1>1, <1>2, AnswerMoves DEF ReportStatus, Codes
<1>4. SessionsKept(h)
  BY <1>1 DEF ReportStatus, SessionsKept, SInv, ClosedSessions
<1>5. ServerTypeOK'
  BY <1>3 DEF ReportStatus, Moves, SInv, TypeOK, ServerTypeOK
<1>6. QED
  BY <1>3, <1>4, <1>5

LEMMA DiscardMoves ==
    ASSUME SInv, NEW h \in Handlers, DiscardSession(h)
    PROVE  /\ \E r \in Requests \cup {Idle} : Moves(h, r)
           /\ SessionsKept(h)
           /\ ServerTypeOK'
<1> DEFINE s == handler[h].s
<1>1. /\ handler[h] # Idle /\ handler[h] \in Requests /\ RequestShape(handler[h])
      /\ handler[h].step = "discard"
  BY DEF DiscardSession, SInv, TypeOK, ServerTypeOK, HandlerShapes
<1>2. s \in Sessions /\ handler[h].kind # "init"
  BY <1>1, RequestType DEF RequestShape, StepsOf, Kinds
<1>3. \E r \in Requests \cup {Idle} : Moves(h, r)
  BY <1>1, <1>2, AnswerMoves DEF DiscardSession, Codes
<1>4. /\ total' \in [Sessions -> 0..MaxChunks]
      /\ parts' \in [Sessions -> [Chunks -> Contents \cup {None}]]
      /\ \A x \in Sessions : x # s => parts'[x] = parts[x] /\ total'[x] = total[x]
      /\ total'[s] = 0 /\ parts'[s] = NoParts
  BY <1>2, SizeAssumption DEF DiscardSession, NoParts, SInv, TypeOK, ServerTypeOK
<1>5. SessionsKept(h)
  BY <1>2, <1>4 DEF DiscardSession, SessionsKept, SInv, ClosedSessions
<1>6. ServerTypeOK'
  BY <1>3, <1>4 DEF DiscardSession, Moves, SInv, TypeOK, ServerTypeOK
<1>7. QED
  BY <1>3, <1>5, <1>6

LEMMA RecordMoves ==
    ASSUME SInv, NEW h \in Handlers, RecordUpload(h)
    PROVE  /\ \E r \in Requests \cup {Idle} : Moves(h, r)
           /\ SessionsKept(h)
           /\ ServerTypeOK'
<1>1. /\ handler[h] # Idle /\ handler[h] \in Requests /\ RequestShape(handler[h])
      /\ handler[h].kind = "complete"
  BY ServesType DEF RecordUpload, Serves
<1>2. PICK r : r = [handler[h] EXCEPT !.step = "discard"]
  OBVIOUS
<1>3. \E q \in Requests \cup {Idle} : Moves(h, q)
  <2>1. RequestShape(r)'
    BY <1>1, <1>2, StepSet DEF RequestShape, StepsOf, Steps
  <2>2. QED
    BY <1>1, <1>2, <2>1, ProceedMoves DEF RecordUpload, Steps
<1>4. SessionsKept(h)
  BY <1>1 DEF RecordUpload, SessionsKept, SInv, ClosedSessions
<1>5. accepted' \in [Chunks -> Contents \cup {None}] /\ recorded' \in Nat
  BY <1>1, RequestType DEF RecordUpload, SInv, TypeOK, ServerTypeOK
<1>6. ServerTypeOK'
  BY <1>3, <1>5 DEF RecordUpload, Moves, SInv, TypeOK, ServerTypeOK
<1>7. QED
  BY <1>3, <1>4, <1>6

LEMMA FailsMoves ==
    ASSUME SInv, NEW h \in Handlers, HandlerFails(h)
    PROVE  /\ \E r \in Requests \cup {Idle} : Moves(h, r)
           /\ SessionsKept(h)
           /\ ServerTypeOK'
<1>1. handler[h] # Idle
  BY ServesType DEF HandlerFails
<1>2. \E r \in Requests \cup {Idle} : Moves(h, r)
  BY <1>1, ErrsMoves DEF HandlerFails
<1>3. SessionsKept(h)
  BY DEF HandlerFails, SessionsKept, SInv, ClosedSessions
<1>4. ServerTypeOK'
  BY <1>2 DEF HandlerFails, Moves, SInv, TypeOK, ServerTypeOK
<1>5. QED
  BY <1>2, <1>3, <1>4

\* The chunk that Assemble reads next follows those it has read.
LEMMA NextChunk ==
    ASSUME SInv, NEW h \in Handlers, Serves(h, "complete", "assemble"),
           NEW m \in 0..MaxChunks, Assembled(handler[h], m)
    PROVE  /\ Cardinality(AppendedSoFar(h)) + 1 = m + 1
           /\ m + 1 \in Chunks
<1>1. m \in Nat /\ m < MaxChunks /\ MaxChunks \in Nat
  BY SizeAssumption DEF Assembled
<1>2. AppendedSoFar(h) = 1..m
  <2>1. \A i \in Chunks : i \in 1..m <=> i <= m
    BY <1>1 DEF Chunks
  <2>2. 1..m \subseteq Chunks
    BY <1>1 DEF Chunks
  <2>3. QED
    BY <2>1, <2>2 DEF AppendedSoFar, Assembled
<1>3. Cardinality(1..m) = m
  BY <1>1, FS_Interval
<1>4. QED
  BY <1>1, <1>2, <1>3 DEF Chunks

\* A chunk that is there is appended to those before it.
AppendsTo(h, m, n, s, c, r) ==
    /\ n = m + 1 /\ Assembled(handler[h], m)
    /\ s = handler[h].s /\ c = parts[s][n] /\ total[s] # 0
    /\ handler' = [handler EXCEPT ![h] = r]
    /\ r.kind = "complete" /\ r.s = s /\ r.i = handler[h].i /\ r.c = handler[h].c
    /\ r.code = handler[h].code
    /\ r.step = IF n = total[s] THEN "enqueue" ELSE "assemble"
    /\ \A i \in Chunks : r.buf[i] = IF i = n THEN c ELSE handler[h].buf[i]

LEMMA AppendEffect ==
    ASSUME SInv, NEW h \in Handlers, AppendChunk(h), ~Errs(h)
    PROVE  \E m \in 0..MaxChunks, n \in Chunks, s \in Sessions, c \in Contents, r \in Requests :
             AppendsTo(h, m, n, s, c, r)
<1>1. /\ handler[h] # Idle /\ handler[h] \in Requests /\ RequestShape(handler[h])
      /\ handler[h].kind = "complete" /\ handler[h].step = "assemble"
  BY ServesType DEF AppendChunk, Serves
<1>2. PICK m \in 0..MaxChunks : Assembled(handler[h], m)
  BY <1>1 DEF RequestShape
<1>3. PICK s \in Sessions : s = handler[h].s
  BY <1>1 DEF RequestShape
<1>4. Cardinality(AppendedSoFar(h)) + 1 = m + 1 /\ m + 1 \in Chunks
  BY <1>2, NextChunk DEF AppendChunk
<1>5. PICK n \in Chunks : n = m + 1
  BY <1>4
<1>6. PICK c : c = parts[s][n]
  OBVIOUS
<1>7. /\ c # None
      /\ handler' = [handler EXCEPT ![h].buf[n] = c,
                                    ![h].step = IF n = total[s] THEN "enqueue" ELSE @]
      /\ UNCHANGED <<total, parts>>
  BY <1>3, <1>4, <1>5, <1>6 DEF AppendChunk
<1>8. c \in Contents /\ total[s] # 0
  BY <1>6, <1>7 DEF SInv, TypeOK, ServerTypeOK, ClosedSessions, NoParts
<1>9. PICK step : step = IF n = total[s] THEN "enqueue" ELSE "assemble"
  OBVIOUS
<1>10. PICK r : r = Appended(handler[h], n, c, step)
  OBVIOUS
<1>11. handler' = [handler EXCEPT ![h] = r]
  BY <1>1, <1>7, <1>9, <1>10 DEF Appended, SInv, TypeOK, ServerTypeOK
<1>12. step \in Steps
  BY <1>9 DEF Steps
<1>13. /\ r \in Requests /\ r.kind = "complete" /\ r.s = s /\ r.i = handler[h].i
       /\ r.c = handler[h].c /\ r.step = step /\ r.code = handler[h].code
       /\ r.buf = [handler[h].buf EXCEPT ![n] = c]
  BY <1>1, <1>3, <1>8, <1>10, <1>12, AppendedType
<1>14. \A i \in Chunks : r.buf[i] = IF i = n THEN c ELSE handler[h].buf[i]
  BY <1>1, <1>13, RequestType
<1>15. AppendsTo(h, m, n, s, c, r)
  BY <1>2, <1>3, <1>5, <1>6, <1>8, <1>9, <1>11, <1>13, <1>14 DEF AppendsTo
<1>16. QED
  BY <1>8, <1>13, <1>15

LEMMA AppendMoves ==
    ASSUME SInv, NEW h \in Handlers, AppendChunk(h)
    PROVE  /\ \E r \in Requests \cup {Idle} : Moves(h, r)
           /\ SessionsKept(h)
           /\ ServerTypeOK'
<1>1. /\ handler[h] # Idle /\ handler[h] \in Requests
  BY ServesType DEF AppendChunk, Serves
<1>2. SessionsKept(h) /\ UNCHANGED total
  BY <1>1 DEF AppendChunk, SessionsKept, SInv, ClosedSessions
<1>3. \E r \in Requests \cup {Idle} : Moves(h, r)
  <2>1. CASE Errs(h)
    BY <1>1, <2>1, ErrsMoves
  <2>2. CASE ~Errs(h)
    <3>0. PICK m \in 0..MaxChunks, n \in Chunks, s \in Sessions, c \in Contents, r \in Requests :
            AppendsTo(h, m, n, s, c, r)
      BY <2>2, AppendEffect
    <3>1. /\ n = m + 1 /\ Assembled(handler[h], m)
          /\ s = handler[h].s /\ c = parts[s][n] /\ total[s] # 0
          /\ handler' = [handler EXCEPT ![h] = r]
          /\ r.kind = "complete" /\ r.s = s /\ r.i = handler[h].i /\ r.c = handler[h].c
          /\ r.step = IF n = total[s] THEN "enqueue" ELSE "assemble"
          /\ \A i \in Chunks : r.buf[i] = IF i = n THEN c ELSE handler[h].buf[i]
      BY <3>0 DEF AppendsTo
    <3>2. c # None
      BY NoneAssumption
    <3>3. r.step = "assemble" => n \in 0..MaxChunks /\ Assembled(r, n)'
      <4> SUFFICES ASSUME r.step = "assemble" PROVE n \in 0..MaxChunks /\ Assembled(r, n)'
        OBVIOUS
      <4>1. total[s] \in Nat /\ total[s] <= MaxChunks /\ n # total[s]
        BY <3>1, SizeAssumption DEF SInv, TypeOK, ServerTypeOK
      <4>2. m < total[s] /\ m \in Nat
        BY <3>1, <4>1, SizeAssumption DEF Assembled
      <4>3. n < total[s] /\ n \in Nat
        BY <3>1, <4>1, <4>2
      <4>4. \A i \in Chunks : r.buf[i] # None <=> i <= n
        <5>1. \A i \in Chunks : i # n => (i <= m <=> i <= n)
          BY <3>1, <4>2 DEF Chunks
        <5>2. n <= n
          BY <4>3
        <5>3. QED
          BY <3>1, <3>2, <5>1, <5>2 DEF Assembled
      <4>5. QED
        BY <1>2, <3>1, <4>1, <4>3, <4>4, SizeAssumption DEF Assembled
    <3>4. RequestShape(r)'
      BY <3>1, <3>3 DEF RequestShape, StepsOf
    <3>5. QED
      BY <1>1, <3>1, <3>4, IdleType DEF Moves, AppendChunk, Serves
  <2>3. QED
    BY <2>1, <2>2
<1>4. ServerTypeOK'
  BY <1>3 DEF AppendChunk, Moves, SInv, TypeOK, ServerTypeOK
<1>5. QED
  BY <1>2, <1>3, <1>4

\* Every step of a handler but the one that opens a session.
LEMMA HandlerMoves ==
    ASSUME SInv, NEW h \in Handlers, ServerStep(h) \/ HandlerFails(h), ~InitSession(h)
    PROVE  /\ \E r \in Requests \cup {Idle} : Moves(h, r)
           /\ SessionsKept(h)
           /\ ServerTypeOK'
  BY LoadMoves, SaveMoves, StatusMoves, AppendMoves, RecordMoves, DiscardMoves, FailsMoves
     DEF ServerStep

\* A request keeps its shape when no session is opened.
LEMMA ShapeKept ==
    ASSUME NEW r \in Requests, RequestShape(r), \A s \in Sessions : total'[s] \in {0, total[s]}
    PROVE  RequestShape(r)'
<1>1. r.step = "assemble" => r.s \in Sessions
  BY RequestType DEF RequestShape, StepsOf, Kinds
<1>2. ASSUME NEW m \in 0..MaxChunks, r.step = "assemble", Assembled(r, m)
      PROVE  Assembled(r, m)'
  BY <1>1, <1>2 DEF Assembled
<1>3. QED
  BY <1>2 DEF RequestShape

LEMMA MovesKeep ==
    ASSUME SInv, ClientKept, NEW h \in Handlers, NEW r \in Requests \cup {Idle}, Moves(h, r),
           SessionsKept(h)
    PROVE  HandlerShapes' /\ Calling' /\ ClientShape' /\ ClosedSessions' /\ FreshSessions'
<1> USE DEF SInv, TypeOK, ServerTypeOK, ClientKept
<1>1. /\ handler'[h] = r /\ \A g \in Handlers : g # h => handler'[g] = handler[g]
      /\ handler[h] \in Requests /\ handler[h] # Idle
  BY IdleType DEF Moves
<1>2. HandlerShapes'
  <2>1. ASSUME NEW g \in Handlers, g # h, handler[g] # Idle
        PROVE  RequestShape(handler[g])'
    <3>1. PICK q \in Requests : q = handler[g] /\ q = handler'[g]
      BY <1>1, <2>1
    <3>2. RequestShape(q)
      BY <2>1, <3>1 DEF HandlerShapes
    <3>3. RequestShape(q)'
      BY <3>2, ShapeKept DEF SessionsKept
    <3>4. QED
      BY <3>1, <3>3 DEF RequestShape, Assembled
  <2>2. r # Idle => RequestShape(handler[h])'
    <3>1. r # Idle => RequestShape(r)'
      BY DEF Moves
    <3>2. QED
      BY <1>1, <3>1 DEF RequestShape, Assembled
  <2>3. QED
    BY <1>1, <2>1, <2>2 DEF HandlerShapes, Moves
<1>3. Calling'
  <2>1. waiting /\ call = h => r # Idle
    BY DEF Calling, Moves
  <2>2. QED
    BY <1>1, <2>1 DEF Calling, Moves
<1>4. ClientShape' /\ ClosedSessions'
  BY DEF ClientShape, ClosedSessions, SessionsKept
<1>5. FreshSessions'
  <2>1. \A g \in Handlers : handler'[g] # Idle =>
          /\ handler[g] # Idle /\ handler'[g].s = handler[g].s
          /\ handler'[g].kind = handler[g].kind /\ handler'[g].i = handler[g].i
    BY <1>1 DEF Moves
  <2>2. ASSUME NEW s \in unused
        PROVE  /\ total'[s] = 0 /\ Unknown(s)'
               /\ \A g \in Handlers : handler'[g] # Idle => handler'[g].s # s
    BY <1>1, <2>1 DEF FreshSessions, Unknown, SessionsKept
  <2>3. ASSUME NEW g \in Handlers, handler'[g] # Idle, handler'[g].kind = "init",
               handler'[g].s # None
        PROVE  /\ handler'[g].s \notin unused /\ Unknown(handler[g].s)'
               /\ total'[handler'[g].s] = handler'[g].i /\ parts'[handler'[g].s] = NoParts
               /\ \A f \in Handlers : handler'[f] # Idle /\ handler'[f].s = handler'[g].s => f = g
    <3>1. PICK s \in Sessions : s = handler[g].s /\ s = handler'[g].s
      BY <2>1, <2>3, RequestType
    <3>2. /\ s \notin unused /\ Unknown(s) /\ total[s] = handler[g].i /\ parts[s] = NoParts
          /\ \A f \in Handlers : handler[f] # Idle /\ handler[f].s = s => f = g
      BY <2>1, <2>3, <3>1 DEF FreshSessions
    <3>3. total'[s] = total[s] /\ parts'[s] = parts[s]
      BY <1>1, <2>1, <2>3, <3>1, <3>2 DEF SessionsKept
    <3>4. QED
      BY <2>1, <2>3, <3>1, <3>2, <3>3 DEF Unknown
  <2>4. QED
    BY <2>2, <2>3 DEF FreshSessions, SessionsKept
<1>6. QED
  BY <1>2, <1>3, <1>4, <1>5

LEMMA KeptClientType ==
    ASSUME ClientTypeOK, ClientKept, faults' \in 0..MaxFaults, leaks' \in Nat
    PROVE  ClientTypeOK'
  BY DEF ClientTypeOK, ClientKept, States

LEMMA MovesSInv ==
    ASSUME SInv, ClientKept, faults' \in 0..MaxFaults, leaks' \in Nat,
           NEW h \in Handlers, ServerStep(h) \/ HandlerFails(h), ~InitSession(h)
    PROVE  SInv'
  BY HandlerMoves, MovesKeep, KeptClientType DEF SInv, TypeOK

LEMMA InitSessionSInv ==
    ASSUME SInv, ClientKept, faults' \in 0..MaxFaults, leaks' \in Nat,
           NEW h \in Handlers, InitSession(h)
    PROVE  SInv'
<1>1. /\ handler[h] # Idle /\ handler[h] \in Requests /\ RequestShape(handler[h])
      /\ handler[h].kind = "init" /\ handler[h].step = "run" /\ handler[h].s = None
      /\ handler[h].i \in Chunks
  BY ServesType DEF InitSession, Serves, RequestShape
<1>2. CASE ~folder
  <2>1. \E r \in Requests \cup {Idle} : Moves(h, r)
    BY <1>1, <1>2, AnswerMoves DEF InitSession, Codes
  <2>2. SessionsKept(h)
    BY <1>1, <1>2 DEF InitSession, SessionsKept, SInv, ClosedSessions
  <2>3. ServerTypeOK'
    BY <1>2, <2>1 DEF InitSession, Moves, SInv, TypeOK, ServerTypeOK
  <2>4. QED
    BY <2>1, <2>2, <2>3, MovesKeep, KeptClientType DEF SInv, TypeOK
<1>3. CASE folder
  <2>1. PICK s \in unused : /\ unused' = unused \ {s}
                            /\ total' = [total EXCEPT ![s] = handler[h].i]
                            /\ Answer(h, "ok", s, {})
    BY <1>3 DEF InitSession
  <2>2. s \in Sessions /\ UNCHANGED parts
    BY <2>1 DEF InitSession, SInv, TypeOK, ServerTypeOK
  <2>3. PICK r \in Requests \cup {Idle} :
          /\ handler' = [handler EXCEPT ![h] = r]
          /\ r = IF h \in listening THEN Done(handler[h], "ok", s, {}) ELSE Idle
    BY <1>1, <2>1, <2>2, AnswerEffect DEF SInv, TypeOK, Codes
  <2>4. /\ r # Idle => /\ r \in Requests /\ r.kind = "init" /\ r.s = s /\ r.i = handler[h].i
                       /\ r.code = "ok" /\ r.c = handler[h].c /\ r.step = "done" /\ h \in listening
        /\ r = Idle => h \notin listening
    BY <1>1, <2>2, <2>3, DoneType, IdleType DEF Codes
  <2>5. /\ handler'[h] = r /\ \A g \in Handlers : g # h => handler'[g] = handler[g]
        /\ total'[s] = handler[h].i /\ \A x \in Sessions : x # s => total'[x] = total[x]
    BY <2>1, <2>2, <2>3 DEF SInv, TypeOK, ServerTypeOK
  <2>6. /\ total[s] = 0 /\ Unknown(s) /\ parts[s] = NoParts
        /\ \A g \in Handlers : handler[g] # Idle => handler[g].s # s
    BY <2>1, <2>2 DEF SInv, FreshSessions, ClosedSessions
  <2>7. TypeOK'
    <3>1. total' \in [Sessions -> 0..MaxChunks] /\ handler' \in [Handlers -> Requests \cup {Idle}]
      BY <1>1, <2>1, <2>2, <2>3, SizeAssumption DEF SInv, TypeOK, ServerTypeOK, Chunks
    <3>2. ServerTypeOK'
      BY <1>3, <2>1, <3>1 DEF InitSession, SInv, TypeOK, ServerTypeOK
    <3>3. QED
      BY <3>2, KeptClientType DEF SInv, TypeOK
  <2>8. HandlerShapes'
    <3>1. ASSUME NEW g \in Handlers, g # h, handler[g] # Idle
          PROVE  RequestShape(handler[g])'
      <4>1. PICK q \in Requests : q = handler[g] /\ q = handler'[g]
        BY <2>5, <3>1 DEF SInv, TypeOK, ServerTypeOK
      <4>2. RequestShape(q) /\ q.s # s
        BY <2>6, <3>1, <4>1 DEF SInv, HandlerShapes
      <4>3. q.step = "assemble" => total'[q.s] = total[q.s]
        BY <2>5, <4>2, RequestType DEF RequestShape, StepsOf, Kinds
      <4>4. RequestShape(q)'
        BY <4>2, <4>3 DEF RequestShape, Assembled
      <4>5. QED
        BY <4>1, <4>4 DEF RequestShape, Assembled
    <3>2. r # Idle => RequestShape(handler[h])'
      BY <1>1, <2>2, <2>4, <2>5 DEF RequestShape, StepsOf
    <3>3. QED
      BY <2>4, <2>5, <3>1, <3>2 DEF HandlerShapes, SInv, ClientKept
  <2>9. Calling'
    <3>1. waiting /\ call = h => r # Idle /\ pc = "init"
      <4>1. waiting /\ call = h => h \in listening
        BY DEF SInv, Calling
      <4>2. KindOf(pc) = "init" /\ pc \in Calls => pc = "init"
        BY DEF KindOf, Calls, Drops
      <4>3. QED
        BY <1>1, <2>4, <4>1, <4>2 DEF SInv, Calling
    <3>2. QED
      BY <1>1, <2>4, <2>5, <3>1 DEF SInv, Calling, ClientKept
  <2>10. ClientShape' /\ ClosedSessions'
    <3>1. handler[h].i # 0
      BY <1>1, SizeAssumption DEF Chunks
    <3>2. QED
      BY <2>2, <2>5, <3>1 DEF SInv, ClientShape, ClosedSessions, ClientKept
  <2>11. FreshSessions'
    <3>1. ASSUME NEW x \in unused'
          PROVE  /\ total'[x] = 0 /\ Unknown(x)'
                 /\ \A g \in Handlers : handler'[g] # Idle => handler'[g].s # x
      <4>1. x \in unused /\ x # s /\ x \in Sessions
        BY <2>1, <3>1 DEF SInv, TypeOK, ServerTypeOK
      <4>2. QED
        BY <2>4, <2>5, <4>1 DEF SInv, FreshSessions, Unknown, ClientKept
    <3>2. ASSUME NEW g \in Handlers, handler'[g] # Idle, handler'[g].kind = "init",
                 handler'[g].s # None
          PROVE  /\ handler'[g].s \notin unused' /\ Unknown(handler[g].s)'
                 /\ total'[handler'[g].s] = handler'[g].i /\ parts'[handler'[g].s] = NoParts
                 /\ \A f \in Handlers : handler'[f] # Idle /\ handler'[f].s = handler'[g].s => f = g
      <4>1. CASE g = h
        <5>1. handler'[g].s = s /\ handler'[g].i = handler[h].i
          BY <2>4, <2>5, <3>2, <4>1
        <5>2. QED
          BY <2>1, <2>2, <2>5, <2>6, <4>1, <5>1 DEF Unknown, ClientKept
      <4>2. CASE g # h
        <5>1. PICK x \in Sessions : x = handler[g].s /\ x = handler'[g].s
          BY <2>5, <3>2, <4>2, RequestType DEF SInv, TypeOK, ServerTypeOK
        <5>2. /\ x # s /\ x \notin unused /\ Unknown(x)
              /\ total[x] = handler[g].i /\ parts[x] = NoParts
              /\ \A f \in Handlers : handler[f] # Idle /\ handler[f].s = x => f = g
          BY <2>5, <2>6, <3>2, <4>2, <5>1 DEF SInv, FreshSessions
        <5>3. QED
          BY <2>1, <2>2, <2>4, <2>5, <4>2, <5>1, <5>2 DEF Unknown, ClientKept
      <4>3. QED
        BY <4>1, <4>2
    <3>3. QED
      BY <3>1, <3>2 DEF FreshSessions
  <2>12. QED
    BY <2>7, <2>8, <2>9, <2>10, <2>11 DEF SInv
<1>4. QED
  BY <1>2, <1>3

\* The requests whose clients wait are answered with an error; the others are gone.
LEMMA ExitsEffect ==
    ASSUME SInv, ServerExits, NEW h \in Handlers
    PROVE  IF h \in listening
           THEN /\ handler[h] \in Requests /\ handler'[h] \in Requests
                /\ handler'[h].kind = handler[h].kind /\ handler'[h].s = handler[h].s
                /\ handler'[h].i = handler[h].i /\ handler'[h].c = handler[h].c
                /\ handler'[h].step = "done" /\ handler'[h].code = "error"
                /\ RequestShape(handler[h])
           ELSE handler'[h] = Idle
<1>1. CASE h \in listening
  <2>1. handler[h] \in Requests /\ RequestShape(handler[h])
    BY <1>1 DEF SInv, TypeOK, ServerTypeOK, Calling, HandlerShapes
  <2>2. PICK r \in Requests : r = handler[h]
    BY <2>1
  <2>3. handler'[h] = [r EXCEPT !.step = "done", !.code = "error"]
    BY <1>1, <2>2 DEF ServerExits
  <2>4. /\ [r EXCEPT !.step = "done", !.code = "error"] \in Requests
        /\ [r EXCEPT !.step = "done", !.code = "error"].kind = r.kind
        /\ [r EXCEPT !.step = "done", !.code = "error"].s = r.s
        /\ [r EXCEPT !.step = "done", !.code = "error"].i = r.i
        /\ [r EXCEPT !.step = "done", !.code = "error"].c = r.c
        /\ [r EXCEPT !.step = "done", !.code = "error"].step = "done"
        /\ [r EXCEPT !.step = "done", !.code = "error"].code = "error"
    BY DEF Requests, Steps, Codes
  <2>5. QED
    BY <1>1, <2>1, <2>2, <2>3, <2>4
<1>2. CASE h \notin listening
  BY <1>2 DEF ServerExits
<1>3. QED
  BY <1>1, <1>2

\* The records the client keeps name no session it was not told of; it is told of
\* q when it reads the answer.
RecordsNoNew(q) ==
    /\ mem'.pending.s \in {q, None, mem.pending.s, disk.pending.s, cur.s}
    /\ disk'.pending.s \in {q, None, mem.pending.s, disk.pending.s, cur.s}
    /\ cur'.s \in {q, None, mem.pending.s, disk.pending.s, cur.s}

LEMMA FreshKept ==
    ASSUME SInv, UNCHANGED <<total, parts, unused>>, NEW q, q \notin unused,
           \A g \in Handlers : handler'[g] # Idle =>
              \/ /\ handler[g] # Idle /\ handler'[g].s = handler[g].s
                 /\ handler'[g].kind = handler[g].kind /\ handler'[g].i = handler[g].i
                 /\ handler'[g].kind = "init" /\ q # None => handler'[g].s # q
              \/ handler'[g].kind # "init" /\ handler'[g].s = cur.s
              \/ handler'[g].s = None,
           RecordsNoNew(q)
    PROVE  ClosedSessions' /\ FreshSessions'
<1> USE DEF SInv
<1>1. ASSUME NEW x, Unknown(x), x # q, x # None
      PROVE  Unknown(x)'
  BY <1>1 DEF Unknown, RecordsNoNew
<1>2. ASSUME NEW s \in unused
      PROVE  /\ total[s] = 0 /\ Unknown(s)'
             /\ \A h \in Handlers : handler'[h] # Idle => handler'[h].s # s
  <2>1. s # None /\ s # q /\ Unknown(s) /\ total[s] = 0
    BY <1>2, NoneAssumption DEF FreshSessions, TypeOK, ServerTypeOK
  <2>2. Unknown(s)'
    BY <1>1, <2>1
  <2>3. QED
    BY <1>2, <2>1, <2>2 DEF FreshSessions, Unknown
<1>3. ASSUME NEW h \in Handlers, handler'[h] # Idle, handler'[h].kind = "init", handler'[h].s # None
      PROVE  /\ handler'[h].s \notin unused /\ Unknown(handler[h].s)'
             /\ total[handler'[h].s] = handler'[h].i /\ parts[handler'[h].s] = NoParts
             /\ \A g \in Handlers : handler'[g] # Idle /\ handler'[g].s = handler'[h].s => g = h
  <2>1. /\ handler[h] # Idle /\ handler'[h].s = handler[h].s
        /\ handler'[h].kind = handler[h].kind /\ handler'[h].i = handler[h].i
        /\ q # None => handler'[h].s # q
    BY <1>3
  <2>2. PICK s : s = handler[h].s /\ s = handler'[h].s
    BY <2>1
  <2>3. /\ s \notin unused /\ Unknown(s) /\ total[s] = handler[h].i /\ parts[s] = NoParts
        /\ \A g \in Handlers : handler[g] # Idle /\ handler[g].s = s => g = h
        /\ s # q /\ s # None
    BY <1>3, <2>1, <2>2 DEF FreshSessions
  <2>4. Unknown(s)' /\ s # cur.s
    BY <1>1, <2>3 DEF Unknown
  <2>5. QED
    BY <1>3, <2>1, <2>2, <2>3, <2>4 DEF Unknown
<1>4. QED
  BY <1>2, <1>3 DEF FreshSessions, ClosedSessions

LEMMA ExitsSInv ==
    ASSUME SInv, ClientKept, faults' \in 0..MaxFaults, leaks' \in Nat, ServerExits
    PROVE  SInv'
<1>1. UNCHANGED <<total, parts, unused, listening, folder, accepted, recorded>>
  BY DEF ServerExits
<1>2. TypeOK'
  <2>1. handler' \in [Handlers -> Requests \cup {Idle}]
    <3>1. \A h \in Handlers : handler'[h] \in Requests \cup {Idle}
      BY ExitsEffect
    <3>2. QED
      BY <3>1 DEF ServerExits
  <2>2. QED
    BY <1>1, <2>1, KeptClientType DEF SInv, TypeOK, ServerTypeOK
<1>3. HandlerShapes'
  <2>1. ASSUME NEW h \in Handlers, handler'[h] # Idle
        PROVE  RequestShape(handler[h])' /\ handler'[h].step = "done" /\ h \in listening
    <3>1. /\ h \in listening /\ handler[h] \in Requests /\ handler'[h] \in Requests
          /\ RequestShape(handler[h])
          /\ handler'[h].kind = handler[h].kind /\ handler'[h].s = handler[h].s
          /\ handler'[h].i = handler[h].i /\ handler'[h].c = handler[h].c
          /\ handler'[h].step = "done" /\ handler'[h].code = "error"
      BY <2>1, ExitsEffect
    <3>2. PICK q : q = handler'[h]
      OBVIOUS
    <3>3. RequestShape(q)
      BY <3>1, <3>2, ShapeDone
    <3>4. QED
      BY <1>1, <3>1, <3>2, <3>3 DEF RequestShape, Assembled
  <2>2. QED
    BY <1>1, <2>1 DEF HandlerShapes
<1>4. Calling' /\ ClientShape'
  <2>1. waiting => call \in listening /\ call \in Handlers
    BY DEF SInv, Calling
  <2>2. waiting => handler'[call] # Idle
    BY <2>1, ExitsEffect, IdleType
  <2>3. QED
    BY <1>1, <2>1, <2>2, ExitsEffect DEF SInv, Calling, ClientShape, ClientKept
<1>5. ClosedSessions' /\ FreshSessions'
  <2>1. RecordsNoNew(None) /\ None \notin unused
    BY NoneAssumption DEF RecordsNoNew, ClientKept, SInv, TypeOK, ServerTypeOK
  <2>2. \A g \in Handlers : handler'[g] # Idle =>
          /\ handler[g] # Idle /\ handler'[g].s = handler[g].s
          /\ handler'[g].kind = handler[g].kind /\ handler'[g].i = handler[g].i
    BY ExitsEffect, IdleType
  <2>3. QED
    BY <1>1, <2>1, <2>2, FreshKept
<1>6. QED
  BY <1>2, <1>3, <1>4, <1>5 DEF SInv


-----------------------------------------------------------------------------
(* Steps of the client *)

\* The session discardPending works on is the one of the dropped record.
LEMMA DropEffect ==
    ASSUME NEW state \in States, NEW drop, NEW otherwise, ClientTypeOK,
           DropPending(state, drop, otherwise),
           state.pending = NoPending \/ state.pending.s \in Sessions
    PROVE  /\ mem' \in States /\ mem'.pending = NoPending /\ mem'.files = state.files
           /\ cur' \in [s : Sessions \cup {None}, n : 0..MaxChunks]
           /\ IF state.pending = NoPending
              THEN pc' = otherwise /\ cur' = cur
              ELSE pc' = drop /\ cur'.s = state.pending.s /\ cur'.s \in Sessions
<1>1. NoPending \in [s : Sessions \cup {None}, n : 0..MaxChunks, size : 0..MaxChunks,
                     sum : Contents \cup {None}]
  BY SizeAssumption DEF NoPending
<1>2. mem' = [files |-> state.files, pending |-> NoPending]
  BY DEF DropPending, States
<1>3. QED
  BY <1>1, <1>2 DEF DropPending, ClientTypeOK, States

LEMMA SessionTypes ==
    ASSUME ClientTypeOK
    PROVE  /\ mem.pending.s \in Sessions \cup {None} /\ disk.pending.s \in Sessions \cup {None}
           /\ mem.files \in [mtime : Nat, sum : Contents \cup {None}]
           /\ mem.pending \in [s : Sessions \cup {None}, n : 0..MaxChunks, size : 0..MaxChunks,
                               sum : Contents \cup {None}]
           /\ cur.s \in Sessions \cup {None} /\ cur.n \in 0..MaxChunks
           /\ NoPending.s = None
  BY DEF ClientTypeOK, States, NoPending

\* A step that no handler and no session takes part in.
LEMMA LocalSInv ==
    ASSUME SInv, ~waiting,
           UNCHANGED <<total, parts, unused, handler, listening, waiting, call>>,
           ServerTypeOK', ClientTypeOK', ClientShape', RecordsNoNew(None)
    PROVE  SInv'
<1>1. HandlerShapes'
  BY DEF SInv, HandlerShapes, RequestShape, Assembled
<1>2. Calling'
  BY DEF SInv, Calling
<1>3. ClosedSessions' /\ FreshSessions'
  <2>1. None \notin unused
    BY NoneAssumption DEF SInv, TypeOK, ServerTypeOK
  <2>2. QED
    BY <2>1, FreshKept
<1>4. QED
  BY <1>1, <1>2, <1>3 DEF SInv, TypeOK

\* The client waits for the answer of a call, or not at all.
LEMMA NotWaiting ==
    ASSUME SInv, pc \notin Calls
    PROVE  ~waiting
  BY DEF SInv, Calling

LEMMA BootSInv == ASSUME SInv, Boot PROVE SInv'
<1>1. ~waiting
  BY NotWaiting DEF Boot, Calls, Drops
<1>2. ServerTypeOK' /\ ClientTypeOK'
  BY DEF Boot, SInv, TypeOK, ServerTypeOK, ClientTypeOK, Pcs
<1>3. ClientShape'
  BY DEF Boot, SInv, ClientShape, Transfers, Drops
<1>4. RecordsNoNew(None)
  BY DEF Boot, RecordsNoNew
<1>5. QED
  BY <1>1, <1>2, <1>3, <1>4, LocalSInv DEF Boot

LEMMA StatSInv == ASSUME SInv, Stat PROVE SInv'
<1>1. ~waiting
  BY NotWaiting DEF Stat, Calls, Drops
<1>2. mem \in States /\ (mem.pending = NoPending \/ mem.pending.s \in Sessions) /\ ClientTypeOK
  BY DEF SInv, TypeOK, ClientTypeOK, ClientShape
<1>3. /\ mem' \in States /\ cur' \in [s : Sessions \cup {None}, n : 0..MaxChunks]
      /\ pc' \in {"save", "hash", "drop_skip"}
      /\ pc' = "drop_skip" => cur'.s \in Sessions
      /\ mem'.pending \in {NoPending, mem.pending}
      /\ cur'.s \in {cur.s, mem.pending.s}
  BY <1>2, DropEffect DEF Stat, ClientTypeOK
<1>4. info' \in [size : 0..MaxChunks, mtime : Nat]
  BY <1>2, SizeAssumption DEF Stat, ClientTypeOK, Chunks
<1>5. ServerTypeOK' /\ ClientTypeOK'
  BY <1>3, <1>4 DEF Stat, SInv, TypeOK, ServerTypeOK, ClientTypeOK, Pcs, Calls, Drops
<1>6. ClientShape'
  BY <1>2, <1>3 DEF Stat, SInv, ClientShape, Transfers, Drops
<1>7. RecordsNoNew(None)
  BY <1>2, <1>3, SessionTypes DEF Stat, RecordsNoNew
<1>8. QED
  BY <1>1, <1>5, <1>6, <1>7, LocalSInv DEF Stat

LEMMA HashSInv == ASSUME SInv, Hash PROVE SInv'
<1>1. ~waiting
  BY NotWaiting DEF Hash, Calls, Drops
<1>2. mem \in States /\ (mem.pending = NoPending \/ mem.pending.s \in Sessions) /\ ClientTypeOK
  BY DEF SInv, TypeOK, ClientTypeOK, ClientShape
<1> DEFINE state == [mem EXCEPT !.files = [mtime |-> info.mtime, sum |-> file.c]]
<1>3. state \in States /\ state.pending = mem.pending
  BY <1>2 DEF ClientTypeOK, States
<1>4. /\ mem' \in States /\ cur' \in [s : Sessions \cup {None}, n : 0..MaxChunks]
      /\ pc' \in {"save", "folder", "drop_skip"}
      /\ pc' = "drop_skip" => cur'.s \in Sessions
      /\ mem'.pending \in {NoPending, mem.pending}
      /\ cur'.s \in {cur.s, mem.pending.s}
  <2> HIDE DEF state
  <2>1. CASE mem.files.sum = file.c
    <3>1. DropPending(state, "drop_skip", "save")
      BY <2>1 DEF Hash, state
    <3>2. QED
      BY <1>2, <1>3, <3>1, DropEffect
  <2>2. CASE mem.files.sum # file.c
    BY <1>2, <2>2 DEF Hash, ClientTypeOK
  <2>3. QED
    BY <2>1, <2>2
<1>5. ServerTypeOK' /\ ClientTypeOK'
  BY <1>4 DEF Hash, SInv, TypeOK, ServerTypeOK, ClientTypeOK, Pcs, Calls, Drops
<1>6. ClientShape'
  BY <1>2, <1>4 DEF Hash, SInv, ClientShape, Transfers, Drops
<1>7. RecordsNoNew(None)
  BY <1>2, <1>4, SessionTypes DEF Hash, RecordsNoNew
<1>8. QED
  BY <1>1, <1>5, <1>6, <1>7, LocalSInv DEF Hash

LEMMA FaultType ==
    ASSUME ClientTypeOK, NEW leak, Fault(leak)
    PROVE  /\ faults' \in 0..MaxFaults /\ leaks' \in Nat
           /\ faults' = faults + 1 /\ leaks' = IF leak THEN leaks + 1 ELSE leaks
  BY ClientAssumption DEF Fault, ClientTypeOK

LEMMA EnsureFolderSInv == ASSUME SInv, EnsureFolder PROVE SInv'
<1>1. ~waiting
  BY NotWaiting DEF EnsureFolder, Calls, Drops
<1>2. /\ faults' \in 0..MaxFaults /\ leaks' \in Nat /\ folder' \in BOOLEAN
      /\ known' \in BOOLEAN /\ pc' \in {"pending", "save"}
  <2>1. ClientTypeOK /\ folder \in BOOLEAN
    BY DEF SInv, TypeOK, ServerTypeOK
  <2>2. Fault(FALSE) \/ NoFault
    BY DEF EnsureFolder
  <2>3. faults' \in 0..MaxFaults /\ leaks' \in Nat
    BY <2>1, <2>2, FaultType DEF NoFault, ClientTypeOK
  <2>4. QED
    BY <2>1, <2>3 DEF EnsureFolder, ClientTypeOK
<1>3. ServerTypeOK' /\ ClientTypeOK'
  BY <1>2 DEF EnsureFolder, SInv, TypeOK, ServerTypeOK, ClientTypeOK, Pcs
<1>4. ClientShape'
  BY <1>2 DEF EnsureFolder, SInv, ClientShape, Transfers, Drops
<1>5. RecordsNoNew(None)
  BY DEF EnsureFolder, RecordsNoNew
<1>6. QED
  BY <1>1, <1>3, <1>4, <1>5, LocalSInv DEF EnsureFolder

LEMMA ChoosePendingSInv == ASSUME SInv, ChoosePending PROVE SInv'
<1>1. ~waiting
  BY NotWaiting DEF ChoosePending, Calls, Drops
<1>2. mem \in States /\ (mem.pending = NoPending \/ mem.pending.s \in Sessions) /\ ClientTypeOK
  BY DEF SInv, TypeOK, ClientTypeOK, ClientShape
<1>3. /\ mem' \in States /\ cur' \in [s : Sessions \cup {None}, n : 0..MaxChunks]
      /\ pc' \in {"resume", "init", "drop_restart"} /\ resumed' \in BOOLEAN
      /\ pc' \in {"resume", "drop_restart"} => cur'.s \in Sessions
      /\ mem'.pending \in {NoPending, mem.pending}
      /\ cur'.s \in {cur.s, mem.pending.s}
  <2>1. CASE DropPending(mem, "drop_restart", "init") /\ UNCHANGED resumed
    BY <1>2, <2>1, DropEffect DEF ClientTypeOK
  <2>2. CASE /\ mem.pending # NoPending /\ resumed' = TRUE
             /\ cur' = [s |-> mem.pending.s, n |-> mem.pending.n]
             /\ pc' = "resume" /\ mem' = mem
    <3>1. mem.pending.s \in Sessions /\ mem.pending.n \in 0..MaxChunks
      BY <1>2, <2>2, SessionTypes
    <3>2. QED
      BY <1>2, <2>2, <3>1
  <2>3. QED
    BY <2>1, <2>2 DEF ChoosePending
<1>4. ServerTypeOK' /\ ClientTypeOK'
  BY <1>3 DEF ChoosePending, SInv, TypeOK, ServerTypeOK, ClientTypeOK, Pcs, Calls, Drops
<1>5. ClientShape'
  BY <1>2, <1>3 DEF ChoosePending, SInv, ClientShape, Transfers, Drops
<1>6. RecordsNoNew(None)
  BY <1>2, <1>3, SessionTypes DEF ChoosePending, RecordsNoNew
<1>7. QED
  BY <1>1, <1>4, <1>5, <1>6, LocalSInv DEF ChoosePending

LEMMA PersistSInv == ASSUME SInv, Persist PROVE SInv'
<1>1. ~waiting
  BY NotWaiting DEF Persist, Calls, Drops
<1>2. /\ mem \in States /\ (mem.pending = NoPending \/ mem.pending.s \in Sessions)
      /\ ClientTypeOK /\ cur.s \in Sessions
  BY DEF Persist, SInv, TypeOK, ClientTypeOK, ClientShape, Transfers
<1>3. /\ mem' \in States /\ cur' \in [s : Sessions \cup {None}, n : 0..MaxChunks]
      /\ pc' \in {"resume", "failed", "drop_unsaved"} /\ disk' \in {disk, mem}
      /\ pc' \in {"resume", "drop_unsaved"} => cur'.s \in Sessions
      /\ mem'.pending \in {NoPending, mem.pending}
      /\ cur'.s \in {cur.s, mem.pending.s}
      /\ faults' \in 0..MaxFaults /\ leaks' \in Nat
  <2>1. CASE Fault(FALSE) /\ DropPending(mem, "drop_unsaved", "failed") /\ UNCHANGED disk
    <3>1. faults' \in 0..MaxFaults /\ leaks' \in Nat
      BY <1>2, <2>1, FaultType
    <3>2. QED
      BY <1>2, <2>1, <3>1, DropEffect
  <2>2. CASE ~(Fault(FALSE) /\ DropPending(mem, "drop_unsaved", "failed") /\ UNCHANGED disk)
    BY <1>2, <2>2 DEF Persist, NoFault, ClientTypeOK
  <2>3. QED
    BY <2>1, <2>2
<1>4. ServerTypeOK' /\ ClientTypeOK'
  BY <1>3 DEF Persist, SInv, TypeOK, ServerTypeOK, ClientTypeOK, Pcs, Calls, Drops
<1>5. ClientShape'
  BY <1>2, <1>3 DEF Persist, SInv, ClientShape, Transfers, Drops
<1>6. RecordsNoNew(None)
  BY <1>2, <1>3, SessionTypes DEF Persist, RecordsNoNew
<1>7. QED
  BY <1>1, <1>4, <1>5, <1>6, LocalSInv DEF Persist

LEMMA ForgetType ==
    ASSUME NEW state \in States
    PROVE  /\ [state EXCEPT !.pending = NoPending] \in States
           /\ [state EXCEPT !.pending = NoPending].pending = NoPending
           /\ [state EXCEPT !.pending = NoPending].files = state.files
  BY SizeAssumption DEF States, NoPending

LEMMA ResumeSInv == ASSUME SInv, Resume PROVE SInv'
<1>1. ~waiting
  BY NotWaiting DEF Resume, Calls, Drops
<1>2. mem \in States /\ ClientTypeOK /\ cur.s \in Sessions
  BY DEF Resume, SInv, TypeOK, ClientTypeOK, ClientShape, Transfers
<1>3. /\ mem' \in States /\ mem'.pending \in {NoPending, mem.pending}
      /\ pc' \in {"status", "init", "save"} /\ resumed' \in BOOLEAN /\ leaks' \in Nat
  <2>1. leaks' \in {leaks, leaks + 1} /\ resumed' \in {resumed, FALSE}
    BY DEF Resume, SessionGone
  <2>2. mem' \in {mem, [mem EXCEPT !.pending = NoPending]} /\ pc' \in {"status", "init", "save"}
    BY DEF Resume, SessionGone
  <2>3. mem' \in States /\ mem'.pending \in {NoPending, mem.pending}
    BY <1>2, <2>2, ForgetType
  <2>4. leaks \in Nat /\ resumed \in BOOLEAN
    BY <1>2 DEF ClientTypeOK
  <2>5. leaks' \in Nat
    BY <2>1, <2>4
  <2>6. resumed' \in BOOLEAN
    BY <2>1, <2>4
  <2>7. QED
    BY <2>2, <2>3, <2>5, <2>6
<1>4. ServerTypeOK' /\ ClientTypeOK'
  BY <1>3 DEF Resume, SInv, TypeOK, ServerTypeOK, ClientTypeOK, Pcs, Calls, Drops
<1>5. ClientShape'
  BY <1>2, <1>3 DEF Resume, SInv, ClientShape, Transfers, Drops
<1>6. RecordsNoNew(None)
  BY <1>2, <1>3, SessionTypes DEF Resume, RecordsNoNew
<1>7. QED
  BY <1>1, <1>4, <1>5, <1>6, LocalSInv DEF Resume

LEMMA SaveSInv == ASSUME SInv, Save PROVE SInv'
<1>1. ~waiting
  BY NotWaiting DEF Save, Calls, Drops
<1>2. disk' \in {disk, mem} /\ mem' = mem
  BY DEF Save
<1>3. ServerTypeOK' /\ ClientTypeOK'
  <2>1. ClientTypeOK /\ (Fault(FALSE) \/ NoFault)
    BY DEF Save, SInv, TypeOK
  <2>2. faults' \in 0..MaxFaults /\ leaks' \in Nat
    BY <2>1, FaultType DEF NoFault, ClientTypeOK
  <2>3. cur' \in [s : Sessions \cup {None}, n : 0..MaxChunks]
        /\ info' \in [size : 0..MaxChunks, mtime : Nat]
        /\ next' \in 0..MaxChunks + 1 /\ tries' \in 0..MaxChunkAttempts
        /\ disk' \in States /\ mem' \in States
    BY <1>2, <2>1, SizeAssumption, ClientAssumption DEF Save, ClientTypeOK
  <2>4. QED
    BY <2>2, <2>3 DEF Save, SInv, TypeOK, ServerTypeOK, ClientTypeOK, Pcs
<1>4. ClientShape'
  BY <1>2 DEF Save, SInv, ClientShape, Transfers, Drops
<1>5. RecordsNoNew(None)
  BY <1>2 DEF Save, RecordsNoNew
<1>6. QED
  BY <1>1, <1>3, <1>4, <1>5, LocalSInv DEF Save

LEMMA DeleteFolderSInv == ASSUME SInv, DeleteFolder PROVE SInv'
<1>1. ServerTypeOK' /\ ClientTypeOK'
  <2>1. deletes' \in 0..MaxFolderDeletes
    <3>1. deletes \in 0..MaxFolderDeletes /\ MaxFolderDeletes \in Nat
      BY ClientAssumption DEF SInv, TypeOK, ClientTypeOK
    <3>2. QED
      BY <3>1 DEF DeleteFolder
  <2>2. QED
    BY <2>1 DEF DeleteFolder, SInv, TypeOK, ServerTypeOK, ClientTypeOK
<1>2. HandlerShapes' /\ Calling' /\ ClientShape' /\ ClosedSessions' /\ FreshSessions'
  BY DEF DeleteFolder, SInv, HandlerShapes, RequestShape, Assembled, Calling, ClientShape,
         ClosedSessions, FreshSessions, Unknown
<1>3. QED
  BY <1>1, <1>2 DEF SInv, TypeOK

LEMMA EditSInv == ASSUME SInv, Edit PROVE SInv'
<1>1. file' \in [c : Contents, mtime : 1..MaxEdits + 1]
  BY ClientAssumption DEF Edit, SInv, TypeOK, ClientTypeOK
<1>2. ServerTypeOK' /\ ClientTypeOK'
  BY <1>1 DEF Edit, SInv, TypeOK, ServerTypeOK, ClientTypeOK
<1>3. HandlerShapes' /\ Calling' /\ ClientShape' /\ ClosedSessions' /\ FreshSessions'
  BY DEF Edit, SInv, HandlerShapes, RequestShape, Assembled, Calling, ClientShape,
         ClosedSessions, FreshSessions, Unknown
<1>4. QED
  BY <1>2, <1>3 DEF SInv, TypeOK


LEMMA CallKinds ==
    ASSUME NEW p \in Calls
    PROVE  /\ KindOf(p) \in Kinds
           /\ KindOf(p) = "init" <=> p = "init"
           /\ KindOf(p) = "part" <=> p = "send"
           /\ KindOf(p) = "complete" <=> p = "complete"
           /\ KindOf(p) = "status" <=> p \in {"status", "recheck"}
           /\ KindOf(p) = "abort" <=> p \in Drops
  BY DEF Calls, Drops, KindOf, Kinds

LEMMA Requested ==
    ASSUME SInv, pc \in Calls
    PROVE  /\ TheRequest \in Requests
           /\ TheRequest.kind = KindOf(pc)
           /\ TheRequest.s = IF pc = "init" THEN None ELSE cur.s
           /\ TheRequest.i = IF pc = "init" THEN Size[file.c] ELSE IF pc = "send" THEN next ELSE 0
           /\ TheRequest.c = IF pc = "send" THEN file.c ELSE None
           /\ TheRequest.step = IF pc = "init" THEN "run" ELSE "load"
           /\ TheRequest.code = "none" /\ TheRequest.buf = NoParts
<1>1. /\ Size[file.c] \in 0..MaxChunks /\ file.c \in Contents \cup {None}
      /\ 0 \in 0..MaxChunks /\ cur.s \in Sessions \cup {None}
      /\ pc = "send" => next \in 0..MaxChunks
  BY SizeAssumption DEF SInv, TypeOK, ClientTypeOK, ClientShape, Chunks
<1>2. CASE pc = "init"
  BY <1>1, <1>2, NewRequest DEF TheRequest, KindOf, ChunkCount, Kinds, Drops
<1>3. CASE pc \in {"status", "recheck"}
  <2>1. TheRequest = Request("status", cur.s, 0, None) /\ KindOf(pc) = "status"
    BY <1>3 DEF TheRequest, KindOf, Drops
  <2>2. QED
    BY <1>1, <1>3, <2>1, NewRequest DEF Kinds
<1>4. CASE pc = "send"
  BY <1>1, <1>4, NewRequest DEF TheRequest, KindOf, Kinds, Drops
<1>5. CASE pc = "complete"
  BY <1>1, <1>5, NewRequest DEF TheRequest, KindOf, Kinds, Drops
<1>6. CASE pc \in Drops
  BY <1>1, <1>6, NewRequest DEF TheRequest, KindOf, Kinds, Drops
<1>7. QED
  BY <1>2, <1>3, <1>4, <1>5, <1>6 DEF Calls

\* A call is a new request for a handler that is free.
LEMMA SendEffect ==
    ASSUME SInv, Send
    PROVE  \E h \in Handlers, r \in Requests :
             /\ handler[h] = Idle /\ handler' = [handler EXCEPT ![h] = r] /\ r = TheRequest
             /\ call' = h /\ listening' = {h} /\ waiting' = TRUE
<1>1. PICK h \in Handlers : Receive(h, TheRequest) /\ call' = h
  BY DEF Send
<1>2. listening = {}
  BY DEF Send, SInv, Calling
<1>3. TheRequest \in Requests
  BY Requested DEF Send
<1>4. QED
  BY <1>1, <1>2, <1>3 DEF Receive, Send

LEMMA SendSInv == ASSUME SInv, Send PROVE SInv'
<1>1. PICK h \in Handlers, r \in Requests :
        /\ handler[h] = Idle /\ handler' = [handler EXCEPT ![h] = r] /\ r = TheRequest
        /\ call' = h /\ listening' = {h} /\ waiting' = TRUE
  BY SendEffect
<1>2. /\ r.kind = KindOf(pc) /\ r.s = (IF pc = "init" THEN None ELSE cur.s)
      /\ r.i = IF pc = "init" THEN Size[file.c] ELSE IF pc = "send" THEN next ELSE 0
      /\ r.c = IF pc = "send" THEN file.c ELSE None
      /\ r.step = IF pc = "init" THEN "run" ELSE "load"
      /\ r.code = "none" /\ r.buf = NoParts
  BY <1>1, Requested DEF Send
<1>3. /\ handler'[h] = r /\ r # Idle /\ \A g \in Handlers : g # h => handler'[g] = handler[g]
      /\ Size[file.c] \in Chunks /\ file.c \in Contents /\ pc \in Calls
      /\ pc # "init" => cur.s \in Sessions
      /\ pc = "send" => next \in Chunks
      /\ UNCHANGED <<total, parts, unused, folder, accepted, recorded, file, disk, mem, pc,
                     info, sum, resumed, got, next, tries, known, faults, leaks, deletes>>
  BY <1>1, IdleType, SizeAssumption
     DEF Send, SInv, TypeOK, ServerTypeOK, ClientTypeOK, ClientShape, Calls, Transfers
<1>4. cur' = IF pc = "init" THEN [s |-> None, n |-> Size[file.c]] ELSE cur
  BY DEF Send, ChunkCount
<1>5. cur' \in [s : Sessions \cup {None}, n : 0..MaxChunks]
  BY <1>3, <1>4, SizeAssumption DEF SInv, TypeOK, ClientTypeOK, Chunks
<1>6. ServerTypeOK' /\ ClientTypeOK'
  BY <1>1, <1>3, <1>5 DEF SInv, TypeOK, ServerTypeOK, ClientTypeOK
<1>7. HandlerShapes'
  <2>1. ASSUME NEW g \in Handlers, g # h, handler[g] # Idle
        PROVE  RequestShape(handler[g])' /\ handler[g].step # "done"
    <3>1. handler[g].step # "done"
      BY <2>1 DEF Send, SInv, HandlerShapes, Calling
    <3>2. QED
      BY <1>3, <2>1, <3>1 DEF SInv, HandlerShapes, RequestShape, Assembled
  <2>2. RequestShape(r) /\ r.step # "done"
    BY <1>2, <1>3, CallKinds DEF RequestShape, StepsOf, Kinds
  <2>3. RequestShape(handler[h])' /\ handler'[h].step # "done"
    BY <1>3, <2>2 DEF RequestShape, Assembled
  <2>4. QED
    BY <1>1, <1>3, <2>1, <2>3 DEF HandlerShapes
<1>8. Calling'
  BY <1>1, <1>2, <1>3, <1>4 DEF Calling
<1>9. ClientShape'
  BY <1>3, <1>4 DEF SInv, ClientShape, Transfers, Drops
<1>10. ClosedSessions' /\ FreshSessions'
  <2>1. \A g \in Handlers : handler'[g] # Idle =>
          \/ /\ handler[g] # Idle /\ handler'[g].s = handler[g].s
             /\ handler'[g].kind = handler[g].kind /\ handler'[g].i = handler[g].i
          \/ handler'[g].kind # "init" /\ handler'[g].s = cur.s
          \/ handler'[g].s = None
    BY <1>2, <1>3, CallKinds
  <2>2. RecordsNoNew(None) /\ None \notin unused
    BY <1>3, <1>4, NoneAssumption DEF RecordsNoNew, SInv, TypeOK, ServerTypeOK
  <2>3. QED
    BY <1>3, <2>1, <2>2, FreshKept
<1>11. QED
  BY <1>6, <1>7, <1>8, <1>9, <1>10 DEF SInv, TypeOK

\* sendChunks goes to a chunk that is missing, or to the end.
LEMMA AdvanceEffect ==
    ASSUME NEW received, NEW after \in 0..MaxChunks, Advance(received, after), cur.n \in 0..MaxChunks
    PROVE  /\ tries' = 0
           /\ \/ pc' = "complete" /\ next' = 0
              \/ pc' = "send" /\ next' \in Chunks
  BY SizeAssumption DEF Advance, Chunks

\* What the client does with an answer fits.
LEMMA AnswerClient ==
    ASSUME SInv, NEW code \in Codes, NEW s \in Sessions \cup {None}, NEW g \in SUBSET Chunks,
           pc \in Calls, OnAnswer(code, s, g), pc = "init" /\ code = "ok" => s \in Sessions
    PROVE  /\ mem' \in States /\ pc' \in Pcs /\ resumed' \in BOOLEAN /\ got' \in SUBSET Chunks
           /\ cur' \in [s : Sessions \cup {None}, n : 0..MaxChunks]
           /\ next' \in 0..MaxChunks + 1 /\ tries' \in 0..MaxChunkAttempts
           /\ pc' \in Transfers \cup Drops => cur'.s \in Sessions
           /\ pc' \in {"send", "recheck"} => next' \in Chunks
           /\ pc' = "send" => tries' < MaxChunkAttempts
           /\ mem'.pending = NoPending \/ mem'.pending.s \in Sessions
           /\ mem'.pending.s \in {IF pc = "init" /\ code = "ok" THEN s ELSE None, None, mem.pending.s}
           /\ cur'.s \in {IF pc = "init" /\ code = "ok" THEN s ELSE None, cur.s}
<1> USE DEF SInv, TypeOK, ClientTypeOK, ClientShape
<1>0. /\ cur.n \in 0..MaxChunks /\ 0 \in 0..MaxChunks
      /\ next \in Chunks => next \in 0..MaxChunks
  BY SizeAssumption DEF Chunks
<1>1. CASE pc = "init" /\ code = "ok"
  <2>1. /\ cur' = [cur EXCEPT !.s = s]
        /\ mem' = [mem EXCEPT !.pending =
                     [s |-> s, n |-> cur.n, size |-> info.size, sum |-> sum]]
        /\ pc' = "persist" /\ UNCHANGED <<resumed, got, next, tries>>
    BY <1>1 DEF OnAnswer, Drops
  <2>2. /\ cur' \in [s : Sessions \cup {None}, n : 0..MaxChunks] /\ cur'.s = s
        /\ mem' \in States /\ mem'.pending.s = s
    BY <2>1 DEF States
  <2>3. QED
    BY <1>1, <2>1, <2>2 DEF Pcs, Transfers, Drops, Calls
<1>2. CASE pc = "init" /\ code # "ok"
  BY <1>2 DEF OnAnswer, Drops, Pcs, Transfers, Calls
<1>3. CASE pc = "status" /\ code = "ok"
  <2>1. got' = g /\ Advance(g, 0) /\ UNCHANGED <<mem, cur, resumed>>
    BY <1>3 DEF OnAnswer, Drops
  <2>2. tries' = 0 /\ ((pc' = "complete" /\ next' = 0) \/ (pc' = "send" /\ next' \in Chunks))
    BY <1>0, <2>1, AdvanceEffect
  <2>3. QED
    BY <1>3, <2>1, <2>2, ClientAssumption, SizeAssumption DEF Pcs, Transfers, Drops, Calls, Chunks
<1>4. CASE pc = "send" /\ code = "ok"
  <2>1. Advance(got, next) /\ UNCHANGED <<mem, cur, resumed, got>>
    BY <1>4 DEF OnAnswer, Drops
  <2>2. tries' = 0 /\ ((pc' = "complete" /\ next' = 0) \/ (pc' = "send" /\ next' \in Chunks))
    BY <1>0, <1>4, <2>1, AdvanceEffect
  <2>3. QED
    BY <1>4, <2>1, <2>2, ClientAssumption, SizeAssumption DEF Pcs, Transfers, Drops, Calls, Chunks
<1>5. CASE pc = "send" /\ code = "error"
  <2>1. pc' = "recheck" /\ tries' = tries + 1 /\ UNCHANGED <<mem, cur, resumed, got, next>>
    BY <1>5 DEF OnAnswer, Drops
  <2>2. tries' \in 0..MaxChunkAttempts
    BY <1>5, <2>1, ClientAssumption
  <2>3. QED
    BY <1>5, <2>1, <2>2 DEF Pcs, Transfers, Drops, Calls
<1>6. CASE pc = "recheck"
  <2>1. /\ got' = (IF code = "ok" THEN g ELSE got) /\ UNCHANGED <<mem, cur, resumed>>
        /\ IF next \in got'
           THEN Advance(got', next)
           ELSE /\ pc' = IF tries = MaxChunkAttempts THEN "failed" ELSE "send"
                /\ UNCHANGED <<next, tries>>
    BY <1>6 DEF OnAnswer, Recheck, Drops
  <2>2. \/ tries' = 0 /\ ((pc' = "complete" /\ next' = 0) \/ (pc' = "send" /\ next' \in Chunks))
        \/ /\ pc' \in {"failed", "send"}
           /\ pc' = "send" => tries # MaxChunkAttempts
           /\ UNCHANGED <<next, tries>>
    BY <1>0, <1>6, <2>1, AdvanceEffect
  <2>3. QED
    BY <1>6, <2>1, <2>2, ClientAssumption, SizeAssumption DEF Pcs, Transfers, Drops, Calls, Chunks
<1>7. CASE pc = "complete" /\ code = "ok"
  <2>1. mem' = AfterUpload /\ pc' = "save" /\ UNCHANGED <<cur, resumed, got, next, tries>>
    BY <1>7 DEF OnAnswer, Drops
  <2>2. mem' \in States /\ mem'.pending = NoPending
    <3>1. NoPending \in [s : Sessions \cup {None}, n : 0..MaxChunks, size : 0..MaxChunks,
                         sum : Contents \cup {None}]
      BY SizeAssumption DEF NoPending
    <3>2. mem' = [files |-> [mtime |-> info.mtime, sum |-> sum], pending |-> NoPending]
      BY <2>1 DEF AfterUpload, States
    <3>3. QED
      BY <3>1, <3>2 DEF States
  <2>3. QED
    BY <1>7, <2>1, <2>2, SessionTypes DEF Pcs, Transfers, Drops, Calls
<1>8. CASE pc \in {"status", "send", "complete"} /\ code = "gone"
  <2>1. /\ mem' \in {mem, [mem EXCEPT !.pending = NoPending]} /\ pc' \in {"init", "save"}
        /\ resumed' = FALSE /\ UNCHANGED <<cur, got, next, tries>>
    BY <1>8 DEF OnAnswer, SessionGone, Drops
  <2>2. mem' \in States /\ mem'.pending \in {mem.pending, NoPending}
    BY <2>1, ForgetType
  <2>3. QED
    BY <1>8, <2>1, <2>2, SessionTypes DEF Pcs, Transfers, Drops, Calls
<1>9. CASE pc \in {"status", "complete"} /\ code = "error"
  BY <1>9 DEF OnAnswer, Drops, Pcs, Transfers, Calls
<1>10. CASE pc \in Drops
  <2>1. pc' \in {"save", "init", "failed"} /\ UNCHANGED <<mem, cur, resumed, got, next, tries>>
    BY <1>10 DEF OnAnswer, Drops
  <2>2. QED
    BY <1>10, <2>1 DEF Pcs, Transfers, Drops, Calls
<1>11. QED
  BY <1>1, <1>2, <1>3, <1>4, <1>5, <1>6, <1>7, <1>8, <1>9, <1>10 DEF OnAnswer

\* The client stops waiting for its handler.
LEMMA HangUpSInv ==
    ASSUME SInv, waiting, HangUp, UNCHANGED <<total, parts, unused, folder, accepted, recorded>>,
           ClientTypeOK', ClientShape', NEW q, q \notin unused, RecordsNoNew(q),
           q # None => /\ handler[call].step = "done"
                       /\ \A g \in Handlers : handler[g] # Idle /\ handler[g].s = q => g = call
    PROVE  SInv'
<1>1. /\ call \in Handlers /\ listening' = {} /\ ~waiting' /\ handler[call] # Idle
      /\ \A g \in Handlers : handler[g] # Idle /\ handler[g].step = "done" => g = call
  BY DEF SInv, Calling, HandlerShapes, HangUp
<1>2. \A g \in Handlers :
        handler'[g] = IF g = call /\ handler[g].step = "done" THEN Idle ELSE handler[g]
  BY <1>1 DEF HangUp, SInv, TypeOK, ServerTypeOK
<1>3. ServerTypeOK'
  <2>1. handler' \in [Handlers -> Requests \cup {Idle}]
    BY <1>1 DEF HangUp, SInv, TypeOK, ServerTypeOK
  <2>2. QED
    BY <1>1, <2>1 DEF SInv, TypeOK, ServerTypeOK
<1>4. HandlerShapes'
  BY <1>1, <1>2 DEF SInv, HandlerShapes, RequestShape, Assembled
<1>5. Calling'
  BY <1>1 DEF Calling
<1>6. ClosedSessions' /\ FreshSessions'
  BY <1>2, FreshKept
<1>7. QED
  BY <1>3, <1>4, <1>5, <1>6 DEF SInv, TypeOK

LEMMA ReadAnswerSInv == ASSUME SInv, ReadAnswer PROVE SInv'
<1>1. /\ waiting /\ call \in Handlers /\ handler[call] # Idle /\ handler[call] \in Requests
      /\ handler[call].step = "done" /\ RequestShape(handler[call]) /\ pc \in Calls
      /\ handler[call].kind = KindOf(pc) /\ HangUp
      /\ OnAnswer(handler[call].code, handler[call].s, handler[call].got)
      /\ UNCHANGED <<total, parts, unused, folder, accepted, recorded, file, disk, info,
                     sum, known, faults, leaks, deletes>>
  BY DEF ReadAnswer, SInv, TypeOK, ServerTypeOK, HandlerShapes, Calling
<1>2. PICK code \in Codes, s \in Sessions \cup {None}, g \in SUBSET Chunks :
        code = handler[call].code /\ s = handler[call].s /\ g = handler[call].got
  BY <1>1, RequestType
<1>3. pc = "init" /\ code = "ok" => s \in Sessions /\ handler[call].kind = "init"
  BY <1>1, <1>2, CallKinds DEF RequestShape
<1>4. PICK q : q = IF pc = "init" /\ code = "ok" THEN s ELSE None
  OBVIOUS
<1>5. /\ mem' \in States /\ pc' \in Pcs /\ resumed' \in BOOLEAN /\ got' \in SUBSET Chunks
      /\ cur' \in [s : Sessions \cup {None}, n : 0..MaxChunks]
      /\ next' \in 0..MaxChunks + 1 /\ tries' \in 0..MaxChunkAttempts
      /\ pc' \in Transfers \cup Drops => cur'.s \in Sessions
      /\ pc' \in {"send", "recheck"} => next' \in Chunks
      /\ pc' = "send" => tries' < MaxChunkAttempts
      /\ mem'.pending = NoPending \/ mem'.pending.s \in Sessions
      /\ mem'.pending.s \in {q, None, mem.pending.s}
      /\ cur'.s \in {q, cur.s}
  BY <1>1, <1>2, <1>3, <1>4, AnswerClient
<1>6. ClientTypeOK' /\ ClientShape'
  BY <1>1, <1>5 DEF SInv, TypeOK, ClientTypeOK, ClientShape, HangUp
<1>7. RecordsNoNew(q)
  BY <1>1, <1>5 DEF RecordsNoNew
<1>8. /\ q \notin unused
      /\ q # None => \A h \in Handlers : handler[h] # Idle /\ handler[h].s = q => h = call
  BY <1>1, <1>2, <1>3, <1>4, NoneAssumption DEF SInv, TypeOK, ServerTypeOK, FreshSessions
<1>9. QED
  BY <1>1, <1>6, <1>7, <1>8, HangUpSInv

\* An error takes the place of the answer.
LEMMA ErrorClient ==
    ASSUME SInv, pc \in Calls, OnAnswer("error", None, {}),
           UNCHANGED <<file, disk, info, sum, known, deletes>>, faults' \in 0..MaxFaults,
           leaks' \in Nat, waiting' \in BOOLEAN, call' \in Handlers \cup {None}
    PROVE  ClientTypeOK' /\ ClientShape' /\ RecordsNoNew(None)
<1>1. /\ mem' \in States /\ pc' \in Pcs /\ resumed' \in BOOLEAN /\ got' \in SUBSET Chunks
      /\ cur' \in [s : Sessions \cup {None}, n : 0..MaxChunks]
      /\ next' \in 0..MaxChunks + 1 /\ tries' \in 0..MaxChunkAttempts
      /\ pc' \in Transfers \cup Drops => cur'.s \in Sessions
      /\ pc' \in {"send", "recheck"} => next' \in Chunks
      /\ pc' = "send" => tries' < MaxChunkAttempts
      /\ mem'.pending = NoPending \/ mem'.pending.s \in Sessions
      /\ mem'.pending.s \in {None, mem.pending.s}
      /\ cur'.s \in {None, cur.s}
  BY AnswerClient DEF Codes
<1>2. QED
  BY <1>1 DEF SInv, TypeOK, ClientTypeOK, ClientShape, RecordsNoNew

LEMMA LoseAnswerSInv == ASSUME SInv, LoseAnswer PROVE SInv'
<1>1. /\ waiting /\ pc \in Calls /\ HangUp /\ OnAnswer("error", None, {}) /\ ClientTypeOK
      /\ UNCHANGED <<total, parts, unused, folder, accepted, recorded, file, disk, info,
                     sum, known, deletes>>
  BY DEF LoseAnswer, SInv, TypeOK, Calling
<1>2. faults' \in 0..MaxFaults /\ leaks' \in Nat
  BY <1>1, FaultType DEF LoseAnswer
<1>3. ClientTypeOK' /\ ClientShape' /\ RecordsNoNew(None)
  BY <1>1, <1>2, ErrorClient DEF HangUp
<1>4. None \notin unused
  BY NoneAssumption DEF SInv, TypeOK, ServerTypeOK
<1>5. QED
  BY <1>1, <1>3, <1>4, HangUpSInv

LEMMA LoseRequestSInv == ASSUME SInv, LoseRequest PROVE SInv'
<1>1. /\ ~waiting /\ pc \in Calls /\ OnAnswer("error", None, {}) /\ ClientTypeOK
      /\ UNCHANGED <<serverVars, file, disk, waiting, call, info, sum, known, deletes>>
  BY DEF LoseRequest, SInv, TypeOK
<1>2. faults' \in 0..MaxFaults /\ leaks' \in Nat
  BY <1>1, FaultType DEF LoseRequest
<1>3. ClientTypeOK' /\ ClientShape' /\ RecordsNoNew(None)
  BY <1>1, <1>2, ErrorClient DEF SInv, TypeOK, ClientTypeOK
<1>4. ServerTypeOK'
  BY <1>1 DEF SInv, TypeOK, ServerTypeOK
<1>5. QED
  BY <1>1, <1>3, <1>4, LocalSInv

LEMMA CrashSInv == ASSUME SInv, Crash PROVE SInv'
<1>1. /\ pc' = "off" /\ mem' = disk /\ known' = FALSE
      /\ info' = [size |-> 0, mtime |-> 0] /\ sum' = None
      /\ cur' = [s |-> None, n |-> 0] /\ resumed' = FALSE
      /\ got' = {} /\ next' = 0 /\ tries' = 0
      /\ UNCHANGED <<total, parts, unused, folder, accepted, recorded, file, disk, deletes>>
      /\ IF waiting THEN HangUp ELSE UNCHANGED <<waiting, call, listening, handler>>
  BY DEF Crash
<1>2. faults' \in 0..MaxFaults /\ leaks' \in Nat
  BY FaultType DEF Crash, SInv, TypeOK
<1>3. waiting' \in BOOLEAN /\ call' \in Handlers \cup {None}
  BY <1>1 DEF HangUp, SInv, TypeOK, ClientTypeOK
<1>4. ClientTypeOK'
  <2>1. cur' \in [s : Sessions \cup {None}, n : 0..MaxChunks]
        /\ info' \in [size : 0..MaxChunks, mtime : Nat]
        /\ next' \in 0..MaxChunks + 1 /\ tries' \in 0..MaxChunkAttempts
    BY <1>1, SizeAssumption, ClientAssumption
  <2>2. QED
    BY <1>1, <1>2, <1>3, <2>1 DEF SInv, TypeOK, ClientTypeOK, Pcs
<1>5. ClientShape'
  BY <1>1 DEF SInv, ClientShape, Transfers, Drops
<1>6. RecordsNoNew(None) /\ None \notin unused
  BY <1>1, NoneAssumption DEF RecordsNoNew, SInv, TypeOK, ServerTypeOK
<1>7. CASE waiting
  BY <1>1, <1>4, <1>5, <1>6, <1>7, HangUpSInv
<1>8. CASE ~waiting
  <2>1. ServerTypeOK'
    BY <1>1, <1>8 DEF SInv, TypeOK, ServerTypeOK
  <2>2. QED
    BY <1>1, <1>4, <1>5, <1>6, <1>8, <2>1, LocalSInv
<1>9. QED
  BY <1>7, <1>8

LEMMA ServerSInv ==
    ASSUME SInv, ClientKept \/ UNCHANGED clientVars, faults' \in 0..MaxFaults, leaks' \in Nat,
           \/ \E h \in Handlers : ServerStep(h) \/ HandlerFails(h)
           \/ ServerExits
    PROVE  SInv'
<1>1. ClientKept
  BY DEF ClientKept, ServerStep, LoadSession, InitSession, SaveChunk, ReportStatus, AppendChunk,
         RecordUpload, DiscardSession, HandlerFails, ServerExits
<1>2. QED
  BY <1>1, MovesSInv, InitSessionSInv, ExitsSInv

-----------------------------------------------------------------------------
(* Type correctness *)

LEMMA InitSInv == Init => SInv
<1> SUFFICES ASSUME Init PROVE SInv
  OBVIOUS
<1>1. ServerTypeOK
  <2>1. 0 \in 0..MaxChunks /\ NoParts \in [Chunks -> Contents \cup {None}]
    BY SizeAssumption DEF NoParts
  <2>2. QED
    BY <2>1 DEF Init, ServerInit, ServerTypeOK
<1>2. NoFile \in [mtime : Nat, sum : Contents \cup {None}]
      /\ NoPending \in [s : Sessions \cup {None}, n : 0..MaxChunks, size : 0..MaxChunks,
                        sum : Contents \cup {None}]
  BY SizeAssumption DEF NoFile, NoPending
<1>3. disk \in States /\ mem \in States
  BY <1>2 DEF Init, States
<1>4. ClientTypeOK
  <2>1. cur \in [s : Sessions \cup {None}, n : 0..MaxChunks]
        /\ info \in [size : 0..MaxChunks, mtime : Nat]
        /\ next \in 0..MaxChunks + 1 /\ tries \in 0..MaxChunkAttempts
    BY SizeAssumption, ClientAssumption DEF Init
  <2>2. file \in [c : Contents, mtime : 1..MaxEdits + 1] /\ faults \in 0..MaxFaults
        /\ leaks \in Nat /\ deletes \in 0..MaxFolderDeletes
    BY ClientAssumption DEF Init
  <2>3. QED
    BY <1>3, <2>1, <2>2 DEF Init, ClientTypeOK, Pcs
<1>5. HandlerShapes /\ Calling /\ ClientShape /\ ClosedSessions /\ FreshSessions
  BY NoneAssumption
     DEF Init, ServerInit, HandlerShapes, Calling, ClientShape, ClosedSessions, FreshSessions,
         Unknown, NoPending, Transfers, Drops
<1>6. QED
  BY <1>1, <1>4, <1>5 DEF SInv, TypeOK

LEMMA StutterSInv == ASSUME SInv, UNCHANGED vars PROVE SInv'
  BY DEF vars, SInv, TypeOK, ServerTypeOK, ClientTypeOK, HandlerShapes, RequestShape, Assembled,
         Calling, ClientShape, ClosedSessions, FreshSessions, Unknown

LEMMA NextSInv == SInv /\ [Next]_vars => SInv'
<1> SUFFICES ASSUME SInv, [Next]_vars PROVE SInv'
  OBVIOUS
<1>1. CASE ClientStep
  BY <1>1, BootSInv, StatSInv, HashSInv, EnsureFolderSInv, ChoosePendingSInv, PersistSInv,
     ResumeSInv, SaveSInv, SendSInv, ReadAnswerSInv DEF ClientStep
<1>2. CASE LoseAnswer \/ LoseRequest \/ Crash \/ Edit \/ DeleteFolder
  BY <1>2, LoseAnswerSInv, LoseRequestSInv, CrashSInv, EditSInv, DeleteFolderSInv
<1>3. CASE \E h \in Handlers : ServerStep(h) /\ UNCHANGED clientVars
  <2>1. faults' \in 0..MaxFaults /\ leaks' \in Nat
    BY <1>3 DEF SInv, TypeOK, ClientTypeOK
  <2>2. QED
    BY <1>3, <2>1, ServerSInv
<1>4. CASE ServerFault
  <2>1. faults' \in 0..MaxFaults /\ leaks' \in Nat
    BY <1>4, FaultType DEF ServerFault, SInv, TypeOK
  <2>2. ClientKept
    BY <1>4 DEF ServerFault, ClientKept, HandlerFails, ServerExits
  <2>3. QED
    BY <1>4, <2>1, <2>2, ServerSInv DEF ServerFault
<1>5. CASE UNCHANGED vars
  BY <1>5, StutterSInv
<1>6. QED
  BY <1>1, <1>2, <1>3, <1>4, <1>5 DEF Next

LEMMA Structure == Spec => []SInv
<1>1. Init => SInv
  BY InitSInv
<1>2. SInv /\ [Next]_vars => SInv'
  BY NextSInv
<1>3. QED
  BY <1>1, <1>2, PTL DEF Spec

\* TypeOK: the state of the client and of the server has its types, whatever is
\* lost, fails or crashes, and whenever the file is written.
THEOREM TypeCorrect == Spec => []TypeOK
<1>1. SInv => TypeOK
  BY DEF SInv
<1>2. QED
  BY <1>1, Structure, PTL


-----------------------------------------------------------------------------
(* What the sessions hold, for a file that is not written during a pass *)

\* A step of a handler, of a request that stays for the same content.
LEMMA ContentKept ==
    ASSUME SInv, NEW con \in [Sessions -> Contents], SessionContent(con),
           NEW h \in Handlers, NEW r \in Requests \cup {Idle}, Moves(h, r), SessionsKept(h),
           r # Idle => RequestContent(r, con),
           \A s \in Sessions, i \in Chunks : parts'[s][i] \in {None, parts[s][i], con[s]}
    PROVE  SessionContent(con)'
<1>1. handler'[h] = r /\ \A g \in Handlers : g # h => handler'[g] = handler[g]
  BY DEF Moves, SInv, TypeOK, ServerTypeOK
<1>2. QED
  BY <1>1 DEF SessionContent, SessionsKept

LEMMA DoneContent ==
    ASSUME NEW r \in Requests, NEW con, RequestContent(r, con), NEW code \in Codes,
           NEW s \in Sessions \cup {None}, NEW g \in SUBSET Chunks, r.kind # "init" => s = r.s
    PROVE  RequestContent(Done(r, code, s, g), con)
<1>1. PICK q : q = Done(r, code, s, g)
  OBVIOUS
<1>2. q.kind = r.kind /\ q.s = s /\ q.i = r.i /\ q.c = r.c /\ q.step = "done"
  BY <1>1, DoneType
<1>3. RequestContent(q, con)
  BY <1>2 DEF RequestContent
<1>4. QED
  BY <1>1, <1>3

\* An answer changes nothing about the content of a request.
LEMMA AnswerContent ==
    ASSUME SInv, NEW con \in [Sessions -> Contents], SessionContent(con),
           NEW h \in Handlers, handler[h] # Idle, NEW code \in Codes \ {"none"},
           NEW g \in SUBSET Chunks, Answer(h, code, handler[h].s, g),
           handler[h].kind = "init" => code # "ok", SessionsKept(h),
           \A s \in Sessions, i \in Chunks : parts'[s][i] \in {None, parts[s][i], con[s]}
    PROVE  SessionContent(con)'
<1>1. PICK r \in Requests \cup {Idle} :
        /\ Moves(h, r)
        /\ r # Idle => r = Done(handler[h], code, handler[h].s, g)
  BY AnswerMoves
<1>2. handler[h] \in Requests /\ RequestContent(handler[h], con)
  BY DEF SInv, TypeOK, ServerTypeOK, SessionContent
<1>3. r # Idle => RequestContent(r, con)
  <2>1. handler[h].s \in Sessions \cup {None}
    BY <1>2, RequestType
  <2>2. RequestContent(Done(handler[h], code, handler[h].s, g), con)
    BY <1>2, <2>1, DoneContent
  <2>3. QED
    BY <1>1, <2>2
<1>4. QED
  BY <1>1, <1>3, ContentKept

\* The chunks appended so far are those of one content.
LEMMA AppendContent ==
    ASSUME SInv, NEW con \in [Sessions -> Contents], SessionContent(con),
           NEW h \in Handlers, AppendChunk(h), ~Errs(h)
    PROVE  SessionContent(con)'
<1>0. PICK m \in 0..MaxChunks, n \in Chunks, s \in Sessions, c \in Contents, r \in Requests :
        AppendsTo(h, m, n, s, c, r)
  BY AppendEffect
<1>1. /\ n = m + 1 /\ Assembled(handler[h], m)
      /\ s = handler[h].s /\ c = parts[s][n] /\ total[s] # 0
      /\ handler' = [handler EXCEPT ![h] = r]
      /\ r.kind = "complete" /\ r.s = s /\ r.i = handler[h].i /\ r.c = handler[h].c
      /\ r.step = IF n = total[s] THEN "enqueue" ELSE "assemble"
      /\ \A i \in Chunks : r.buf[i] = IF i = n THEN c ELSE handler[h].buf[i]
  BY <1>0 DEF AppendsTo
<1>2. /\ handler[h] # Idle /\ handler[h] \in Requests /\ handler[h].kind = "complete"
      /\ handler[h].step = "assemble"
  BY ServesType DEF AppendChunk, Serves
<1>3. c = con[s] /\ c # None /\ total[s] = Size[c]
  BY <1>1, NoneAssumption DEF SessionContent
<1>4. \A i \in Chunks : handler[h].buf[i] = IF i <= m THEN c ELSE None
  <2>1. PICK k \in 0..MaxChunks : handler[h].buf = Prefix(con[s], k)
    BY <1>1, <1>2 DEF SessionContent, RequestContent
  <2>2. \A i \in Chunks : handler[h].buf[i] \in {c, None}
    BY <1>3, <2>1 DEF Prefix
  <2>3. \A i \in Chunks : handler[h].buf[i] # None <=> i <= m
    BY <1>1 DEF Assembled
  <2>4. QED
    BY <1>3, <2>2, <2>3
<1>5. \A i \in Chunks : i <= n <=> i = n \/ i <= m
  BY <1>1, SizeAssumption DEF Chunks
<1>6. r.buf = Prefix(c, n)
  <2>1. r.buf \in [Chunks -> Contents \cup {None}]
    BY RequestType
  <2>2. \A i \in Chunks : r.buf[i] = IF i <= n THEN c ELSE None
    BY <1>1, <1>4, <1>5
  <2>3. QED
    BY <2>1, <2>2 DEF Prefix
<1>7. n \in 0..MaxChunks
  BY SizeAssumption DEF Chunks
<1>8. RequestContent(r, con)
  <2>1. r.step = "assemble" => \E k \in 0..MaxChunks : r.buf = Prefix(con[r.s], k)
    BY <1>1, <1>3, <1>6, <1>7
  <2>2. r.step = "enqueue" => r.buf = Whole(con[r.s])
    BY <1>1, <1>3, <1>6 DEF Prefix, Whole
  <2>3. QED
    BY <1>1, <2>1, <2>2 DEF RequestContent
<1>9. SessionsKept(h) /\ UNCHANGED parts
  BY AppendMoves DEF AppendChunk
<1>10. handler'[h] = r /\ \A g \in Handlers : g # h => handler'[g] = handler[g]
  BY <1>1 DEF SInv, TypeOK, ServerTypeOK
<1>11. QED
  BY <1>8, <1>9, <1>10 DEF SessionContent, SessionsKept

LEMMA ProceedContent ==
    ASSUME SInv, NEW con \in [Sessions -> Contents], SessionContent(con),
           NEW h \in Handlers, handler[h] # Idle, NEW step \in Steps, Proceed(h, step),
           UNCHANGED <<total, parts>>, step # "enqueue",
           step = "assemble" => handler[h].buf = NoParts
    PROVE  SessionContent(con)'
<1>1. PICK r \in Requests : /\ handler' = [handler EXCEPT ![h] = r]
                            /\ r = [handler[h] EXCEPT !.step = step]
  BY ProceedEffect DEF SInv, TypeOK
<1>2. /\ r.kind = handler[h].kind /\ r.s = handler[h].s /\ r.i = handler[h].i
      /\ r.c = handler[h].c /\ r.buf = handler[h].buf /\ r.step = step
  BY <1>1, StepSet DEF SInv, TypeOK, ServerTypeOK
<1>3. NoParts = Prefix(con[r.s], 0) /\ 0 \in 0..MaxChunks
  <2>1. \A i \in Chunks : ~(i <= 0)
    BY SizeAssumption DEF Chunks
  <2>2. QED
    BY <2>1, SizeAssumption DEF NoParts, Prefix
<1>4. RequestContent(r, con)
  <2>1. RequestContent(handler[h], con)
    BY DEF SessionContent
  <2>2. step = "assemble" => \E m \in 0..MaxChunks : r.buf = Prefix(con[r.s], m)
    BY <1>2, <1>3
  <2>3. QED
    BY <1>2, <2>1, <2>2 DEF RequestContent
<1>5. handler'[h] = r /\ \A g \in Handlers : g # h => handler'[g] = handler[g]
  BY <1>1 DEF SInv, TypeOK, ServerTypeOK
<1>6. QED
  BY <1>4, <1>5 DEF SessionContent

LEMMA HandlerContent ==
    ASSUME SInv, NEW con \in [Sessions -> Contents], SessionContent(con),
           NEW h \in Handlers, ServerStep(h) \/ HandlerFails(h), ~InitSession(h)
    PROVE  SessionContent(con)'
<1>1. SessionsKept(h)
  BY HandlerMoves
<1>2. CASE LoadSession(h)
  <2>1. /\ handler[h] # Idle /\ handler[h] \in Requests /\ RequestShape(handler[h])
        /\ handler[h].step = "load" /\ UNCHANGED <<total, parts>>
    BY <1>2 DEF LoadSession, SInv, TypeOK, ServerTypeOK, HandlerShapes
  <2>2. handler[h].buf = NoParts /\ handler[h].kind # "init"
    BY <2>1, RequestType DEF RequestShape, StepsOf
  <2>3. CASE IsOpen(handler[h].s)
    <3>1. \E step \in {"assemble", "discard", "run"} : Proceed(h, step)
      BY <1>2, <2>3 DEF LoadSession
    <3>2. QED
      BY <2>1, <2>2, <3>1, ProceedContent DEF Steps
  <2>4. CASE ~IsOpen(handler[h].s)
    BY <1>1, <1>2, <2>1, <2>2, <2>4, AnswerContent DEF LoadSession, Codes
  <2>5. QED
    BY <2>3, <2>4
<1>3. CASE SaveChunk(h)
  <2>1. /\ handler[h] # Idle /\ handler[h] \in Requests /\ RequestShape(handler[h])
        /\ handler[h].kind = "part"
    BY <1>3, ServesType DEF SaveChunk, Serves
  <2>2. /\ handler[h].s \in Sessions /\ handler[h].i \in Chunks
        /\ handler[h].c = con[handler[h].s]
    BY <2>1 DEF RequestShape, SessionContent, RequestContent
  <2>3. \A s \in Sessions, i \in Chunks : parts'[s][i] \in {None, parts[s][i], con[s]}
    BY <1>3, <2>2 DEF SaveChunk, SInv, TypeOK, ServerTypeOK
  <2>4. \/ Answer(h, "ok", handler[h].s, {}) \/ Answer(h, "error", handler[h].s, {})
    BY <1>3 DEF SaveChunk, Errs
  <2>5. QED
    BY <1>1, <2>1, <2>3, <2>4, AnswerContent DEF Codes
<1>4. CASE ReportStatus(h)
  <2>1. /\ handler[h] # Idle /\ RequestShape(handler[h]) /\ handler[h].kind = "status"
        /\ UNCHANGED parts
    BY <1>4, ServesType DEF ReportStatus, Serves
  <2>2. Received(handler[h].s) \in SUBSET Chunks
    <3>1. total[handler[h].s] \in 0..MaxChunks
      BY <2>1 DEF RequestShape, SInv, TypeOK, ServerTypeOK
    <3>2. QED
      BY <3>1, SizeAssumption DEF Received, Chunks
  <2>3. QED
    BY <1>1, <1>4, <2>1, <2>2, AnswerContent DEF ReportStatus, Codes
<1>5. CASE AppendChunk(h)
  <2>1. handler[h] # Idle /\ UNCHANGED parts /\ handler[h].kind # "init"
    BY <1>5, ServesType DEF AppendChunk, Serves
  <2>2. CASE Errs(h)
    BY <1>1, <2>1, <2>2, AnswerContent DEF Errs, Codes
  <2>3. CASE ~Errs(h)
    BY <1>5, <2>3, AppendContent
  <2>4. QED
    BY <2>2, <2>3
<1>6. CASE RecordUpload(h)
  <2>1. handler[h] # Idle /\ UNCHANGED <<total, parts>> /\ Proceed(h, "discard")
    BY <1>6, ServesType DEF RecordUpload
  <2>2. QED
    BY <2>1, ProceedContent DEF Steps
<1>7. CASE DiscardSession(h)
  <2>1. handler[h] # Idle /\ RequestShape(handler[h]) /\ handler[h].step = "discard"
    BY <1>7 DEF DiscardSession, SInv, HandlerShapes
  <2>2. handler[h].s \in Sessions /\ handler[h].kind # "init"
    BY <2>1, RequestType DEF RequestShape, StepsOf, Kinds, SInv, TypeOK, ServerTypeOK
  <2>3. \A s \in Sessions, i \in Chunks : parts'[s][i] \in {None, parts[s][i], con[s]}
    BY <1>7, <2>2 DEF DiscardSession, NoParts, SInv, TypeOK, ServerTypeOK
  <2>4. QED
    BY <1>1, <1>7, <2>1, <2>2, <2>3, AnswerContent DEF DiscardSession, Codes
<1>8. CASE HandlerFails(h)
  <2>1. handler[h] # Idle /\ UNCHANGED parts
    BY <1>8, ServesType DEF HandlerFails
  <2>2. QED
    BY <1>1, <1>8, <2>1, AnswerContent DEF HandlerFails, Errs, Codes
<1>9. QED
  BY <1>2, <1>3, <1>4, <1>5, <1>6, <1>7, <1>8 DEF ServerStep

LEMMA OneContentNext ==
    ASSUME NEW con \in [Sessions -> Contents], SessionContent(con)', RecordContent(con)'
    PROVE  OneContentEach'
  BY DEF OneContentEach

\* A new session is for the content its client has hashed, whichever that is.
LEMMA InitContent ==
    ASSUME SInv, ClientKept, NEW con \in [Sessions -> Contents], SessionContent(con),
           RecordContent(con), NEW h \in Handlers, InitSession(h)
    PROVE  OneContentEach'
<1>1. /\ handler[h] # Idle /\ handler[h] \in Requests /\ RequestShape(handler[h])
      /\ handler[h].kind = "init" /\ handler[h].s = None
  BY ServesType DEF InitSession, Serves, RequestShape
<1>2. CASE ~folder
  <2>1. SessionsKept(h) /\ UNCHANGED parts
    BY <1>1, <1>2 DEF InitSession, SessionsKept, SInv, ClosedSessions
  <2>2. SessionContent(con)'
    BY <1>1, <1>2, <2>1, AnswerContent DEF InitSession, Codes
  <2>3. RecordContent(con)'
    BY DEF RecordContent, ClientKept
  <2>4. QED
    BY <2>2, <2>3, OneContentNext
<1>3. CASE folder
  <2>1. PICK s \in unused : /\ unused' = unused \ {s}
                            /\ total' = [total EXCEPT ![s] = handler[h].i]
                            /\ Answer(h, "ok", s, {})
    BY <1>3 DEF InitSession
  <2>2. s \in Sessions /\ UNCHANGED parts
    BY <2>1 DEF InitSession, SInv, TypeOK, ServerTypeOK
  <2>3. PICK r \in Requests \cup {Idle} :
          /\ handler' = [handler EXCEPT ![h] = r]
          /\ r = IF h \in listening THEN Done(handler[h], "ok", s, {}) ELSE Idle
    BY <1>1, <2>1, <2>2, AnswerEffect DEF SInv, TypeOK, Codes
  <2>4. PICK c \in Contents : handler[h].i = Size[c]
    BY <1>1 DEF SessionContent, RequestContent
  <2>5. PICK new \in [Sessions -> Contents] : new = [con EXCEPT ![s] = c]
    BY <2>2
  <2>6. new[s] = c /\ \A x \in Sessions : x # s => new[x] = con[x]
    BY <2>2, <2>5
  <2>7. /\ handler'[h] = r /\ \A g \in Handlers : g # h => handler'[g] = handler[g]
        /\ total'[s] = handler[h].i /\ \A x \in Sessions : x # s => total'[x] = total[x]
    BY <2>1, <2>2, <2>3 DEF SInv, TypeOK, ServerTypeOK
  <2>8. /\ Unknown(s) /\ parts[s] = NoParts
        /\ \A g \in Handlers : handler[g] # Idle => handler[g].s # s
    BY <2>1, <2>2 DEF SInv, FreshSessions, ClosedSessions
  <2>9. r # Idle => RequestContent(r, new)
    <3>1. r # Idle => RequestContent(r, con) /\ r.kind = "init" /\ r.step = "done"
      BY <1>1, <2>2, <2>3, DoneContent, DoneType DEF SessionContent, Codes
    <3>2. QED
      BY <3>1 DEF RequestContent
  <2>10. ASSUME NEW g \in Handlers, g # h, handler[g] # Idle
         PROVE  RequestContent(handler[g], new)
    <3>1. PICK q \in Requests : q = handler[g]
      BY <2>10 DEF SInv, TypeOK, ServerTypeOK
    <3>2. RequestContent(q, con) /\ q.s # s /\ RequestShape(q)
      BY <2>8, <2>10, <3>1 DEF SessionContent, SInv, HandlerShapes
    <3>3. q.kind # "init" => new[q.s] = con[q.s]
      BY <2>6, <3>2 DEF RequestShape
    <3>4. q.step \in {"assemble", "enqueue"} \/ q.kind = "part" => q.kind # "init"
      BY <3>2 DEF RequestShape, StepsOf
    <3>5. RequestContent(q, new)
      BY <3>2, <3>3, <3>4 DEF RequestContent
    <3>6. QED
      BY <3>1, <3>5
  <2>11. SessionContent(new)'
    <3>1. \A x \in Sessions : /\ total'[x] \in {0, Size[new[x]]}
                              /\ \A i \in Chunks : parts'[x][i] \in {None, new[x]}
      BY <2>2, <2>4, <2>6, <2>7, <2>8 DEF SessionContent, NoParts
    <3>2. \A g \in Handlers : handler'[g] # Idle => RequestContent(handler'[g], new)
      BY <2>7, <2>9, <2>10
    <3>3. QED
      BY <3>1, <3>2 DEF SessionContent
  <2>12. RecordContent(new)'
    <3>1. /\ mem.pending.s \in Sessions \cup {None} /\ disk.pending.s \in Sessions \cup {None}
          /\ pc \in Transfers => cur.s \in Sessions
      BY SessionTypes DEF SInv, TypeOK, ClientShape
    <3>2. QED
      BY <2>6, <2>8, <3>1 DEF RecordContent, RecordOf, Unknown, ClientKept
  <2>13. QED
    BY <2>11, <2>12, OneContentNext
<1>4. QED
  BY <1>2, <1>3


\* What the server records is one content.
LEMMA RecordsWhole ==
    ASSUME SInv, NEW con \in [Sessions -> Contents], SessionContent(con), NoMixedFile,
           \/ \E h \in Handlers : ServerStep(h) \/ HandlerFails(h)
           \/ ServerExits
    PROVE  NoMixedFile'
<1>1. ASSUME NEW h \in Handlers, RecordUpload(h)
      PROVE  NoMixedFile'
  <2>1. /\ handler[h] # Idle /\ handler[h].step = "enqueue" /\ accepted' = handler[h].buf
        /\ handler[h].s \in Sessions
    BY <1>1, ServesType DEF RecordUpload, Serves, RequestShape
  <2>2. QED
    BY <2>1 DEF SessionContent, RequestContent, NoMixedFile
<1>2. CASE UNCHANGED accepted
  BY <1>2 DEF NoMixedFile
<1>3. QED
  BY <1>1, <1>2 DEF ServerStep, LoadSession, InitSession, SaveChunk, ReportStatus, AppendChunk,
                    DiscardSession, HandlerFails, ServerExits

LEMMA ServerContent ==
    ASSUME SInv, ContentInv, ClientKept,
           \/ \E h \in Handlers : ServerStep(h) \/ HandlerFails(h)
           \/ ServerExits
    PROVE  ContentInv'
<1>1. PICK con \in [Sessions -> Contents] : SessionContent(con) /\ RecordContent(con)
  BY DEF ContentInv, OneContentEach
<1>2. PassSees'
  BY DEF ContentInv, PassSees, ClientKept
<1>3. RecordContent(con)'
  BY <1>1 DEF RecordContent, ClientKept
<1>4. NoMixedFile'
  BY <1>1, RecordsWhole DEF ContentInv
<1>5. ASSUME NEW h \in Handlers, ServerStep(h) \/ HandlerFails(h)
      PROVE  OneContentEach'
  <2>1. CASE InitSession(h)
    BY <1>1, <2>1, InitContent
  <2>2. CASE ~InitSession(h)
    BY <1>1, <1>3, <1>5, <2>2, HandlerContent, OneContentNext
  <2>3. QED
    BY <2>1, <2>2
<1>6. ASSUME ServerExits
      PROVE  OneContentEach'
  <2>1. ASSUME NEW h \in Handlers, handler'[h] # Idle
        PROVE  RequestContent(handler'[h], con)
    <3>1. PICK q \in Requests : q = handler'[h]
      BY <1>6, <2>1, ExitsEffect
    <3>2. /\ handler[h] # Idle /\ q.kind = handler[h].kind /\ q.s = handler[h].s
          /\ q.i = handler[h].i /\ q.c = handler[h].c /\ q.step = "done"
      BY <1>6, <2>1, <3>1, ExitsEffect, IdleType
    <3>3. RequestContent(q, con)
      BY <1>1, <3>2 DEF SessionContent, RequestContent
    <3>4. QED
      BY <3>1, <3>3
  <2>2. SessionContent(con)'
    BY <1>1, <1>6, <2>1 DEF SessionContent, ServerExits
  <2>3. QED
    BY <1>3, <2>2, OneContentNext
<1>7. OneContentEach'
  BY <1>5, <1>6
<1>8. QED
  BY <1>2, <1>4, <1>7 DEF ContentInv

\* A step of the client that starts no session for another content.
LEMMA PassContent ==
    ASSUME SInv, ContentInv, UNCHANGED <<total, parts, accepted>>, PassSees',
           \A h \in Handlers : handler'[h] \in {handler[h], Idle},
           NEW con \in [Sessions -> Contents], SessionContent(con), RecordContent(con)'
    PROVE  ContentInv'
<1>1. SessionContent(con)'
  BY DEF SessionContent
<1>2. NoMixedFile'
  BY DEF ContentInv, NoMixedFile
<1>3. QED
  BY <1>1, <1>2, OneContentNext DEF ContentInv

LEMMA RecordDropped ==
    ASSUME NEW con, RecordContent(con), mem'.pending \in {mem.pending, disk.pending, NoPending},
           disk'.pending \in {mem.pending, disk.pending}
    PROVE  RecordOf(mem.pending, con)' /\ RecordOf(disk.pending, con)'
  BY DEF RecordContent, RecordOf, NoPending

LEMMA BeginContent ==
    ASSUME SInv, ContentInv, Boot \/ Stat \/ Hash \/ EnsureFolder
    PROVE  ContentInv'
<1>1. PICK con \in [Sessions -> Contents] : SessionContent(con) /\ RecordContent(con)
  BY DEF ContentInv, OneContentEach
<1>2. mem'.pending \in {mem.pending, disk.pending, NoPending} /\ disk' = disk
  <2>1. mem \in States
    BY DEF SInv, TypeOK, ClientTypeOK
  <2>2. mem' = disk \/ mem' = mem \/ mem'.pending = NoPending
    <3>1. ASSUME NEW state \in States, NEW drop, NEW otherwise, DropPending(state, drop, otherwise)
          PROVE  mem'.pending = NoPending
      BY <3>1, ForgetType DEF DropPending
    <3>2. [mem EXCEPT !.files = [mtime |-> info.mtime, sum |-> file.c]] \in States
      BY <2>1 DEF SInv, TypeOK, ClientTypeOK, States
    <3>3. QED
      BY <2>1, <3>1, <3>2 DEF Boot, Stat, Hash, EnsureFolder
  <2>3. QED
    BY <2>2 DEF Boot, Stat, Hash, EnsureFolder
<1>3. /\ pc' \in {"idle", "save", "drop_skip", "hash", "folder", "pending"}
      /\ UNCHANGED <<total, parts, handler, accepted, file>>
  BY DEF Boot, Stat, Hash, EnsureFolder, DropPending
<1>4. PassSees'
  <2>1. CASE Boot
    BY <2>1 DEF Boot, PassSees, Transfers
  <2>2. CASE Stat
    <3>1. /\ pc' \in {"save", "drop_skip", "hash"} /\ UNCHANGED file
          /\ info' = [size |-> Size[file.c], mtime |-> file.mtime]
      BY <2>2 DEF Stat, DropPending
    <3>2. QED
      BY <3>1 DEF PassSees, Transfers
  <2>3. CASE Hash \/ EnsureFolder
    <3>1. /\ pc \in {"hash", "folder"} /\ UNCHANGED <<file, info>>
          /\ sum' = file.c \/ (pc = "folder" /\ UNCHANGED sum)
      BY <2>3 DEF Hash, EnsureFolder
    <3>2. QED
      BY <1>3, <3>1 DEF ContentInv, PassSees
  <2>4. QED
    BY <2>1, <2>2, <2>3
<1>5. RecordContent(con)'
  BY <1>1, <1>2, <1>3, RecordDropped DEF RecordContent, Transfers
<1>6. QED
  BY <1>1, <1>3, <1>4, <1>5, PassContent

\* A session is resumed only when it was made for the file just hashed.
LEMMA ChooseContent ==
    ASSUME SInv, ContentInv, ChoosePending
    PROVE  ContentInv'
<1>1. PICK con \in [Sessions -> Contents] : SessionContent(con) /\ RecordContent(con)
  BY DEF ContentInv, OneContentEach
<1>2. mem \in States /\ sum = file.c
  BY DEF SInv, TypeOK, ClientTypeOK, ContentInv, PassSees, ChoosePending
<1>3. mem'.pending \in {mem.pending, NoPending} /\ disk' = disk
  BY <1>2, ForgetType DEF ChoosePending, DropPending
<1>4. PassSees'
  <2>1. ~waiting
    BY NotWaiting DEF ChoosePending, Calls, Drops
  <2>2. QED
    BY <2>1 DEF ChoosePending, DropPending, ContentInv, PassSees, Transfers
<1>5. pc' \in Transfers => con[cur'.s] = file.c /\ cur'.n = Size[file.c]
  <2>1. CASE pc' = "resume"
    <3>1. /\ mem.pending # NoPending /\ Resumable
          /\ cur' = [s |-> mem.pending.s, n |-> mem.pending.n]
      BY <2>1 DEF ChoosePending, DropPending
    <3>2. mem.pending.s # None
      BY <3>1, NoneAssumption DEF SInv, ClientShape
    <3>3. QED
      BY <1>1, <1>2, <3>1, <3>2 DEF RecordContent, RecordOf, Resumable
  <2>2. CASE pc' # "resume"
    BY <2>2 DEF ChoosePending, DropPending, Transfers
  <2>3. QED
    BY <2>1, <2>2
<1>6. RecordContent(con)'
  BY <1>1, <1>3, <1>5, RecordDropped DEF RecordContent, ChoosePending
<1>7. QED
  BY <1>1, <1>4, <1>6, PassContent DEF ChoosePending

LEMMA PersistContent ==
    ASSUME SInv, ContentInv, Persist
    PROVE  ContentInv'
<1>1. PICK con \in [Sessions -> Contents] : SessionContent(con) /\ RecordContent(con)
  BY DEF ContentInv, OneContentEach
<1>2. mem'.pending \in {mem.pending, NoPending} /\ disk' \in {mem, disk}
  <2>1. mem \in States
    BY DEF SInv, TypeOK, ClientTypeOK
  <2>2. QED
    BY <2>1, ForgetType DEF Persist, DropPending
<1>3. PassSees'
  BY DEF Persist, DropPending, ContentInv, PassSees, Transfers
<1>4. pc' \in Transfers => pc \in Transfers /\ cur' = cur
  BY DEF Persist, DropPending, Transfers
<1>5. RecordContent(con)'
  BY <1>1, <1>2, <1>4, RecordDropped DEF RecordContent, Persist
<1>6. QED
  BY <1>1, <1>3, <1>5, PassContent DEF Persist

\* The file still has as many chunks as the session.
LEMMA ResumeContent ==
    ASSUME SInv, ContentInv, Resume
    PROVE  ContentInv'
<1>1. PICK con \in [Sessions -> Contents] : SessionContent(con) /\ RecordContent(con)
  BY DEF ContentInv, OneContentEach
<1>2. pc' = "status" /\ UNCHANGED mem
  BY <1>1 DEF Resume, RecordContent, Transfers, ChunkCount
<1>3. PassSees'
  BY <1>2 DEF Resume, ContentInv, PassSees, Transfers
<1>4. RecordContent(con)'
  BY <1>1, <1>2, RecordDropped DEF RecordContent, Resume, Transfers
<1>5. QED
  BY <1>1, <1>3, <1>4, PassContent DEF Resume

LEMMA SaveContent ==
    ASSUME SInv, ContentInv, Save
    PROVE  ContentInv'
<1>1. PICK con \in [Sessions -> Contents] : SessionContent(con) /\ RecordContent(con)
  BY DEF ContentInv, OneContentEach
<1>2. mem' = mem /\ disk' \in {mem, disk} /\ pc' = "idle"
  BY DEF Save
<1>3. PassSees'
  BY <1>2 DEF PassSees, Transfers
<1>4. RecordContent(con)'
  BY <1>1, <1>2, RecordDropped DEF RecordContent, Transfers
<1>5. QED
  BY <1>1, <1>3, <1>4, PassContent DEF Save

\* A request carries the content of its session.
LEMMA SendContent ==
    ASSUME SInv, ContentInv, Send
    PROVE  ContentInv'
<1>1. PICK con \in [Sessions -> Contents] : SessionContent(con) /\ RecordContent(con)
  BY DEF ContentInv, OneContentEach
<1>2. PICK h \in Handlers, r \in Requests :
        /\ handler[h] = Idle /\ handler' = [handler EXCEPT ![h] = r] /\ r = TheRequest
        /\ call' = h /\ listening' = {h} /\ waiting' = TRUE
  BY SendEffect
<1>3. /\ r.kind = KindOf(pc) /\ r.s = (IF pc = "init" THEN None ELSE cur.s)
      /\ r.i = IF pc = "init" THEN Size[file.c] ELSE IF pc = "send" THEN next ELSE 0
      /\ r.c = IF pc = "send" THEN file.c ELSE None
      /\ r.step = IF pc = "init" THEN "run" ELSE "load"
  BY <1>2, Requested DEF Send
<1>4. file.c \in Contents /\ pc \in Calls
  BY DEF Send, SInv, TypeOK, ClientTypeOK
<1>5. RequestContent(r, con)
  BY <1>1, <1>3, <1>4, CallKinds DEF RequestContent, RecordContent, Transfers
<1>6. handler'[h] = r /\ \A g \in Handlers : g # h => handler'[g] = handler[g]
  BY <1>2 DEF SInv, TypeOK, ServerTypeOK
<1>7. SessionContent(con)'
  BY <1>1, <1>5, <1>6 DEF SessionContent, Send
<1>8. cur' = IF pc = "init" THEN [s |-> None, n |-> Size[file.c]] ELSE cur
  BY DEF Send, ChunkCount
<1>9. RecordContent(con)'
  BY <1>1, <1>8 DEF RecordContent, Send, Transfers
<1>10. PassSees'
  BY <1>8 DEF ContentInv, PassSees, Send
<1>11. NoMixedFile'
  BY DEF ContentInv, NoMixedFile, Send
<1>12. QED
  BY <1>7, <1>9, <1>10, <1>11, OneContentNext DEF ContentInv

\* What the client may do with an answer, but for the id of a new session.
LEMMA AnswerPass ==
    ASSUME SInv, NEW code, NEW s, NEW g, pc \in Calls, OnAnswer(code, s, g),
           ~(pc = "init" /\ code = "ok")
    PROVE  /\ mem'.pending \in {mem.pending, NoPending} /\ UNCHANGED cur
           /\ pc' \in Transfers \cup {"init", "save", "failed"}
           /\ pc' \in Transfers => pc \in Transfers
           /\ pc' = "init" => pc \in Transfers \cup {"drop_restart"}
<1>1. mem' \in {mem, [mem EXCEPT !.pending = NoPending], AfterUpload}
  BY DEF OnAnswer, Recheck, SessionGone
<1>2. mem'.pending \in {mem.pending, NoPending}
  <2>1. mem \in States
    BY DEF SInv, TypeOK, ClientTypeOK
  <2>2. AfterUpload.pending = NoPending
    BY <2>1 DEF AfterUpload, States
  <2>3. QED
    BY <1>1, <2>1, <2>2, ForgetType
<1>3. ASSUME NEW received, NEW after, Advance(received, after)
      PROVE  pc' \in {"complete", "send"}
  BY <1>3 DEF Advance
<1>4. UNCHANGED cur
  BY DEF OnAnswer, Recheck, SessionGone
<1>5. CASE pc \in Drops
  BY <1>5 DEF OnAnswer, Drops, Transfers
<1>6. CASE pc \notin Drops
  <2>1. CASE pc = "recheck"
    <3>1. pc' \in {"complete", "send", "failed"}
      <4>1. CASE next \in got'
        BY <1>3, <1>6, <2>1, <4>1 DEF OnAnswer, Recheck
      <4>2. CASE next \notin got'
        BY <1>6, <2>1, <4>2 DEF OnAnswer, Recheck
      <4>3. QED
        BY <4>1, <4>2
    <3>2. QED
      BY <1>2, <1>4, <2>1, <3>1 DEF Transfers
  <2>2. CASE pc # "recheck"
    BY <1>2, <1>3, <1>4, <1>6, <2>2 DEF OnAnswer, SessionGone, Calls, Transfers
  <2>3. QED
    BY <2>1, <2>2
<1>7. QED
  BY <1>2, <1>4, <1>5, <1>6

LEMMA HandlersLeft ==
    ASSUME SInv, HangUp \/ UNCHANGED handler
    PROVE  \A h \in Handlers : handler'[h] \in {handler[h], Idle}
  BY DEF HangUp, SInv, TypeOK, ServerTypeOK

LEMMA AnswerPassContent ==
    ASSUME SInv, ContentInv, NEW code, NEW s, NEW g, pc \in Calls, OnAnswer(code, s, g),
           ~(pc = "init" /\ code = "ok"), HangUp \/ (~waiting /\ UNCHANGED <<handler, waiting>>),
           UNCHANGED <<total, parts, accepted, file, disk, info, sum>>
    PROVE  ContentInv'
<1>1. PICK con \in [Sessions -> Contents] : SessionContent(con) /\ RecordContent(con)
  BY DEF ContentInv, OneContentEach
<1>2. /\ mem'.pending \in {mem.pending, NoPending} /\ UNCHANGED cur
      /\ pc' \in Transfers \cup {"init", "save", "failed"}
      /\ pc' \in Transfers => pc \in Transfers
      /\ pc' = "init" => pc \in Transfers \cup {"drop_restart"}
  BY AnswerPass
<1>3. ~waiting'
  BY DEF HangUp
<1>4. PassSees'
  BY <1>2, <1>3 DEF ContentInv, PassSees, Calls, Drops, Transfers
<1>5. RecordContent(con)'
  BY <1>1, <1>2, RecordDropped DEF RecordContent
<1>6. QED
  BY <1>1, <1>4, <1>5, HandlersLeft, PassContent

\* The client is told of a session that is empty and has the file's number of chunks.
LEMMA StartContent ==
    ASSUME SInv, ContentInv, ReadAnswer, pc = "init", handler[call].code = "ok"
    PROVE  ContentInv'
<1>1. PICK con \in [Sessions -> Contents] : SessionContent(con) /\ RecordContent(con)
  BY DEF ContentInv, OneContentEach
<1>2. /\ waiting /\ call \in Handlers /\ handler[call] # Idle /\ handler[call] \in Requests
      /\ handler[call].step = "done" /\ RequestShape(handler[call])
      /\ handler[call].kind = "init" /\ HangUp
      /\ OnAnswer("ok", handler[call].s, handler[call].got)
      /\ cur = [s |-> None, n |-> handler[call].i]
      /\ UNCHANGED <<total, parts, accepted, file, disk, info, sum>>
  <2>1. /\ waiting /\ call \in Handlers /\ handler[call] # Idle /\ handler[call].step = "done"
        /\ handler[call].kind = KindOf(pc) /\ pc \in Calls
        /\ cur = [s |-> None, n |-> handler[call].i]
    BY DEF ReadAnswer, SInv, Calling
  <2>2. handler[call] \in Requests /\ RequestShape(handler[call])
    BY <2>1 DEF SInv, TypeOK, ServerTypeOK, HandlerShapes
  <2>3. handler[call].kind = "init"
    BY <2>1, CallKinds
  <2>4. QED
    BY <2>1, <2>2, <2>3 DEF ReadAnswer
<1>3. PICK s \in Sessions : s = handler[call].s
  BY <1>2 DEF RequestShape
<1>4. /\ cur' = [cur EXCEPT !.s = s] /\ pc' = "persist"
      /\ mem' = [mem EXCEPT !.pending =
                   [s |-> s, n |-> cur.n, size |-> info.size, sum |-> sum]]
  BY <1>2, <1>3 DEF OnAnswer, Drops
<1>5. /\ info.size = Size[file.c] /\ sum = file.c /\ cur.n = Size[file.c]
      /\ file.c \in Contents
  BY <1>2 DEF ContentInv, PassSees, SInv, TypeOK, ClientTypeOK
<1>6. /\ Unknown(s) /\ total[s] = Size[file.c] /\ parts[s] = NoParts
      /\ \A g \in Handlers : handler[g] # Idle /\ handler[g].s = s => g = call
  <2>1. s # None /\ handler[call].i = cur.n
    BY <1>2, NoneAssumption
  <2>2. QED
    BY <1>2, <1>3, <1>5, <2>1 DEF SInv, FreshSessions
<1>7. PICK new \in [Sessions -> Contents] : new = [con EXCEPT ![s] = file.c]
  BY <1>5
<1>8. new[s] = file.c /\ \A x \in Sessions : x # s => new[x] = con[x]
  BY <1>7
<1>9. SessionContent(new)
  <2>1. \A x \in Sessions : /\ total[x] \in {0, Size[new[x]]}
                            /\ \A i \in Chunks : parts[x][i] \in {None, new[x]}
    BY <1>1, <1>6, <1>8 DEF SessionContent, NoParts
  <2>2. ASSUME NEW h \in Handlers, handler[h] # Idle
        PROVE  RequestContent(handler[h], new)
    <3>1. PICK q \in Requests : q = handler[h]
      BY <2>2 DEF SInv, TypeOK, ServerTypeOK
    <3>2. RequestContent(q, con) /\ RequestShape(q)
      BY <1>1, <2>2, <3>1 DEF SessionContent, SInv, HandlerShapes
    <3>3. CASE h = call
      BY <1>2, <3>1, <3>2, <3>3 DEF RequestContent
    <3>4. CASE h # call
      <4>1. q.s # s
        BY <1>6, <2>2, <3>1, <3>4
      <4>2. q.kind # "init" => new[q.s] = con[q.s]
        BY <1>8, <3>2, <4>1 DEF RequestShape
      <4>3. q.step \in {"assemble", "enqueue"} \/ q.kind = "part" => q.kind # "init"
        BY <3>2 DEF RequestShape, StepsOf
      <4>4. RequestContent(q, new)
        BY <3>2, <4>2, <4>3 DEF RequestContent
      <4>5. QED
        BY <3>1, <4>4
    <3>5. QED
      BY <3>3, <3>4
  <2>3. QED
    BY <2>1, <2>2 DEF SessionContent
<1>10. PassSees'
  BY <1>2, <1>4, <1>5 DEF ContentInv, PassSees
<1>11. RecordContent(new)'
  <2>1. /\ cur'.s = s /\ cur'.n = cur.n
        /\ mem'.pending = [s |-> s, n |-> cur.n, size |-> info.size, sum |-> sum]
    BY <1>4 DEF SInv, TypeOK, ClientTypeOK, States
  <2>2. disk.pending.s \in Sessions \cup {None} /\ disk.pending.s # s
    BY <1>6, SessionTypes DEF SInv, TypeOK, Unknown
  <2>3. RecordOf(disk.pending, new)
    BY <1>1, <1>8, <2>2 DEF RecordContent, RecordOf
  <2>4. QED
    BY <1>2, <1>5, <1>8, <2>1, <2>3 DEF RecordContent, RecordOf
<1>12. QED
  BY <1>2, <1>9, <1>10, <1>11, HandlersLeft, PassContent

LEMMA ReadAnswerContent ==
    ASSUME SInv, ContentInv, ReadAnswer
    PROVE  ContentInv'
<1>1. CASE pc = "init" /\ handler[call].code = "ok"
  BY <1>1, StartContent
<1>2. CASE ~(pc = "init" /\ handler[call].code = "ok")
  <2>1. pc \in Calls
    BY DEF ReadAnswer, SInv, Calling
  <2>2. PICK code, s, g : code = handler[call].code /\ s = handler[call].s /\ g = handler[call].got
    OBVIOUS
  <2>3. OnAnswer(code, s, g) /\ ~(pc = "init" /\ code = "ok")
    BY <1>2, <2>2 DEF ReadAnswer
  <2>4. HangUp /\ UNCHANGED <<total, parts, accepted, file, disk, info, sum>>
    BY DEF ReadAnswer
  <2>5. QED
    BY <2>1, <2>3, <2>4, AnswerPassContent
<1>3. QED
  BY <1>1, <1>2

LEMMA LossContent ==
    ASSUME SInv, ContentInv, LoseAnswer \/ LoseRequest
    PROVE  ContentInv'
<1>1. /\ pc \in Calls /\ OnAnswer("error", None, {})
      /\ HangUp \/ (~waiting /\ UNCHANGED <<handler, waiting>>)
      /\ UNCHANGED <<total, parts, accepted, file, disk, info, sum>>
  BY DEF LoseAnswer, LoseRequest, SInv, Calling
<1>2. QED
  BY <1>1, AnswerPassContent

LEMMA CrashContent ==
    ASSUME SInv, ContentInv, Crash
    PROVE  ContentInv'
<1>1. PICK con \in [Sessions -> Contents] : SessionContent(con) /\ RecordContent(con)
  BY DEF ContentInv, OneContentEach
<1>2. /\ pc' = "off" /\ mem' = disk /\ UNCHANGED <<total, parts, accepted, file, disk>>
      /\ HangUp \/ UNCHANGED handler
  BY DEF Crash
<1>3. PassSees'
  BY <1>2 DEF PassSees, Transfers
<1>4. RecordContent(con)'
  BY <1>1, <1>2, RecordDropped DEF RecordContent, Transfers
<1>5. QED
  BY <1>1, <1>2, <1>3, <1>4, HandlersLeft, PassContent

LEMMA EditContent ==
    ASSUME EditPolicy # "any", SInv, ContentInv, Edit
    PROVE  ContentInv'
<1>1. PICK con \in [Sessions -> Contents] : SessionContent(con) /\ RecordContent(con)
  BY DEF ContentInv, OneContentEach
<1>2. /\ pc' = pc /\ pc \in {"off", "idle"}
      /\ UNCHANGED <<total, parts, accepted, handler, mem, disk>>
  BY DEF Edit
<1>3. PassSees'
  BY <1>2 DEF PassSees, Transfers
<1>4. RecordContent(con)'
  BY <1>1, <1>2, RecordDropped DEF RecordContent, Transfers
<1>5. QED
  BY <1>1, <1>2, <1>3, <1>4, PassContent

LEMMA StillContent ==
    ASSUME ContentInv, UNCHANGED <<total, parts, accepted, handler, file, disk, mem, pc, waiting,
                                   info, sum, cur>>
    PROVE  ContentInv'
<1>1. PICK con \in [Sessions -> Contents] : SessionContent(con) /\ RecordContent(con)
  BY DEF ContentInv, OneContentEach
<1>2. SessionContent(con)' /\ RecordContent(con)'
  BY <1>1 DEF SessionContent, RecordContent
<1>3. QED
  BY <1>2, OneContentNext DEF ContentInv, PassSees, NoMixedFile

LEMMA InitContentInv == Init => ContentInv
<1> SUFFICES ASSUME Init PROVE ContentInv
  OBVIOUS
<1>1. PICK con \in [Sessions -> Contents] : con = [s \in Sessions |-> file.c]
  BY DEF Init
<1>2. SessionContent(con) /\ RecordContent(con)
  BY <1>1 DEF Init, ServerInit, SessionContent, RecordContent, RecordOf, NoPending, NoParts,
              Transfers
<1>3. PassSees /\ NoMixedFile
  BY DEF Init, ServerInit, PassSees, NoMixedFile, Transfers
<1>4. QED
  BY <1>2, <1>3 DEF ContentInv, OneContentEach

LEMMA NextContent ==
    ASSUME EditPolicy # "any", SInv, ContentInv, [Next]_vars
    PROVE  ContentInv'
<1>1. CASE ClientStep
  BY <1>1, BeginContent, ChooseContent, PersistContent, ResumeContent, SaveContent,
     SendContent, ReadAnswerContent DEF ClientStep
<1>2. CASE LoseAnswer \/ LoseRequest \/ Crash \/ Edit
  BY <1>2, LossContent, CrashContent, EditContent
<1>3. CASE DeleteFolder \/ UNCHANGED vars
  BY <1>3, StillContent DEF DeleteFolder, vars
<1>4. CASE (\E h \in Handlers : ServerStep(h) /\ UNCHANGED clientVars) \/ ServerFault
  <2>1. ClientKept
    BY <1>4 DEF ClientKept, ServerFault, ServerStep, LoadSession, InitSession, SaveChunk,
                ReportStatus, AppendChunk, RecordUpload, DiscardSession, HandlerFails, ServerExits
  <2>2. QED
    BY <1>4, <2>1, ServerContent DEF ServerFault
<1>5. QED
  BY <1>1, <1>2, <1>3, <1>4 DEF Next

LEMMA SessionContents ==
    ASSUME EditPolicy # "any"
    PROVE  Spec => []ContentInv
<1>1. Init => ContentInv
  BY InitContentInv
<1>2. SInv /\ ContentInv /\ [Next]_vars => ContentInv'
  BY NextContent
<1>3. QED
  BY <1>1, <1>2, Structure, PTL DEF Spec

\* NoMixedFile: when the file is not written during a pass, a file the server records
\* is one the user had, whatever is lost, delayed or fails (chunk_handler.go, Assemble).
THEOREM RecordedFileIsWhole ==
    ASSUME EditPolicy # "any"
    PROVE  Spec => []NoMixedFile
<1>1. ContentInv => NoMixedFile
  BY DEF ContentInv
<1>2. QED
  BY <1>1, SessionContents, PTL

\* ResumedSessionMatches: a stored session is resumed only when the chunks the server
\* has are those of the file just hashed (resumable, state.go).
THEOREM ResumesSameContent ==
    ASSUME EditPolicy # "any"
    PROVE  Spec => []ResumedSessionMatches
<1>1. SInv /\ ContentInv => ResumedSessionMatches
  <2> SUFFICES ASSUME SInv, ContentInv, pc = "status", NEW i \in Chunks
               PROVE  parts[cur.s][i] \in {None, sum}
    BY DEF ResumedSessionMatches
  <2>1. PICK con \in [Sessions -> Contents] : SessionContent(con) /\ RecordContent(con)
    BY DEF ContentInv, OneContentEach
  <2>2. cur.s \in Sessions /\ con[cur.s] = file.c /\ sum = file.c
    BY <2>1 DEF SInv, ClientShape, ContentInv, PassSees, RecordContent, Transfers
  <2>3. QED
    BY <2>1, <2>2 DEF SessionContent
<1>2. QED
  BY <1>1, SessionContents, Structure, PTL


-----------------------------------------------------------------------------
(* The client's record of the session it works on *)

LEMMA AnswerRecords ==
    ASSUME SInv, Recorded, NEW code, NEW s, NEW g, pc \in Calls, OnAnswer(code, s, g),
           UNCHANGED disk
    PROVE  Recorded'
<1>1. mem \in States /\ cur \in [s : Sessions \cup {None}, n : 0..MaxChunks]
  BY DEF SInv, TypeOK, ClientTypeOK
<1>2. CASE pc = "init" /\ code = "ok"
  <2>1. /\ cur' = [cur EXCEPT !.s = s] /\ pc' = "persist"
        /\ mem' = [mem EXCEPT !.pending =
                     [s |-> s, n |-> cur.n, size |-> info.size, sum |-> sum]]
    BY <1>2 DEF OnAnswer, Drops
  <2>2. cur'.s = s /\ mem'.pending.s = s
    BY <1>1, <2>1 DEF States
  <2>3. QED
    BY <2>1, <2>2 DEF Recorded, Transfers, Drops
<1>3. CASE ~(pc = "init" /\ code = "ok")
  <2>1. /\ UNCHANGED cur /\ pc' \in Transfers \cup {"init", "save", "failed"}
        /\ pc' \in Transfers => pc \in Transfers
    BY <1>3, AnswerPass
  <2>2. pc' \in Transfers => mem' = mem
    BY <1>3, <2>1 DEF OnAnswer, Recheck, SessionGone, Transfers, Drops
  <2>3. pc' = "init" => mem'.pending = NoPending
    <3>1. CASE pc \in Drops
      BY <3>1 DEF OnAnswer, Recorded, Drops
    <3>2. CASE pc \in {"status", "send", "complete"} /\ code = "gone"
      BY <1>1, <3>2, ForgetType DEF OnAnswer, SessionGone, Drops
    <3>3. CASE pc \notin Drops /\ ~(pc \in {"status", "send", "complete"} /\ code = "gone")
      BY <1>3, <3>3 DEF OnAnswer, Recheck, Advance, Calls
    <3>4. QED
      BY <3>1, <3>2, <3>3
  <2>4. QED
    BY <2>1, <2>2, <2>3 DEF Recorded, Transfers, Drops
<1>4. QED
  BY <1>2, <1>3

LEMMA NextRecords ==
    ASSUME SInv, Recorded, [Next]_vars
    PROVE  Recorded'
<1>1. mem \in States /\ disk \in States
  BY DEF SInv, TypeOK, ClientTypeOK
<1>2. CASE Boot \/ EnsureFolder \/ Save \/ Crash
  BY <1>2 DEF Boot, EnsureFolder, Save, Crash, Recorded, Transfers, Drops
<1>3. CASE Stat \/ Hash \/ ChoosePending \/ Persist \/ Resume
  <2>1. ASSUME NEW state \in States, NEW drop, NEW otherwise, DropPending(state, drop, otherwise)
        PROVE  mem'.pending = NoPending /\ pc' \in {drop, otherwise}
    BY <2>1, ForgetType DEF DropPending
  <2>2. CASE Stat
    BY <1>1, <2>1, <2>2 DEF Stat, Recorded, Transfers, Drops
  <2>3. CASE Hash
    <3>1. [mem EXCEPT !.files = [mtime |-> info.mtime, sum |-> file.c]] \in States
      BY <1>1 DEF SInv, TypeOK, ClientTypeOK, States
    <3>2. pc' = "folder" \/ (mem'.pending = NoPending /\ pc' \in {"drop_skip", "save"})
      BY <2>1, <2>3, <3>1 DEF Hash
    <3>3. QED
      BY <3>2 DEF Recorded, Transfers, Drops
  <2>4. CASE ChoosePending
    <3>1. \/ pc' = "resume" /\ mem'.pending.s = cur'.s
          \/ mem'.pending = NoPending /\ pc' \in {"drop_restart", "init"}
      BY <1>1, <2>1, <2>4 DEF ChoosePending
    <3>2. QED
      BY <3>1 DEF Recorded, Transfers, Drops
  <2>5. CASE Persist
    <3>1. \/ pc' = "resume" /\ UNCHANGED <<mem, cur>>
          \/ mem'.pending = NoPending /\ pc' \in {"drop_unsaved", "failed"}
      BY <1>1, <2>1, <2>5 DEF Persist
    <3>2. QED
      BY <2>5, <3>1 DEF Persist, Recorded, Transfers, Drops
  <2>6. CASE Resume
    <3>1. UNCHANGED cur /\ (\/ pc' \in {"status", "save"} /\ UNCHANGED mem
                            \/ pc' = "init" /\ mem'.pending = NoPending)
      BY <1>1, <2>6, ForgetType DEF Resume, SessionGone
    <3>2. QED
      BY <2>6, <3>1 DEF Resume, Recorded, Transfers, Drops
  <2>7. QED
    BY <1>3, <2>2, <2>3, <2>4, <2>5, <2>6
<1>4. CASE Send
  BY <1>4 DEF Send, Recorded, Transfers, Drops
<1>5. CASE ReadAnswer \/ LoseAnswer \/ LoseRequest
  <2>1. \E code, s, g : OnAnswer(code, s, g)
    BY <1>5 DEF ReadAnswer, LoseAnswer, LoseRequest
  <2>2. pc \in Calls /\ UNCHANGED disk
    BY <1>5 DEF ReadAnswer, LoseAnswer, LoseRequest, SInv, Calling
  <2>3. QED
    BY <2>1, <2>2, AnswerRecords
<1>6. CASE UNCHANGED <<pc, mem, disk, cur>>
  BY <1>6 DEF Recorded
<1>7. QED
  BY <1>2, <1>3, <1>4, <1>5, <1>6
     DEF Next, ClientStep, Edit, DeleteFolder, ServerFault, vars

LEMMA RecordedAlways == Spec => []Recorded
<1>1. Init => Recorded
  BY DEF Init, Recorded, Transfers, Drops
<1>2. SInv /\ Recorded /\ [Next]_vars => Recorded'
  BY NextRecords
<1>3. QED
  BY <1>1, <1>2, Structure, PTL DEF Spec


-----------------------------------------------------------------------------
(* Deliveries *)

LEMMA SubsetCard ==
    ASSUME NEW S, IsFiniteSet(S), NEW T \in SUBSET S
    PROVE  IsFiniteSet(T) /\ Cardinality(T) \in Nat /\ Cardinality(S) \in Nat
           /\ Cardinality(T) <= Cardinality(S)
  BY FS_Subset, FS_CardinalityType

LEMMA OneMoreCard ==
    ASSUME NEW S, IsFiniteSet(S), NEW x, NEW T \in SUBSET (S \cup {x})
    PROVE  IsFiniteSet(T) /\ Cardinality(T) \in Nat /\ Cardinality(S) \in Nat
           /\ Cardinality(T) <= Cardinality(S) + 1
<1>1. IsFiniteSet(S \cup {x}) /\ Cardinality(S) \in Nat /\ Cardinality(S \cup {x}) \in Nat
      /\ Cardinality(S \cup {x}) <= Cardinality(S) + 1
  BY FS_AddElement, FS_CardinalityType
<1>2. QED
  BY <1>1, SubsetCard

LEMMA OneLessCard ==
    ASSUME NEW S, IsFiniteSet(S), NEW x \in S, NEW T \in SUBSET (S \ {x})
    PROVE  IsFiniteSet(T) /\ Cardinality(T) \in Nat /\ Cardinality(S) \in Nat
           /\ Cardinality(T) + 1 <= Cardinality(S)
<1>1. IsFiniteSet(S \ {x}) /\ Cardinality(S \ {x}) = Cardinality(S) - 1
      /\ Cardinality(S) \in Nat /\ Cardinality(S \ {x}) \in Nat
  BY FS_RemoveElement, FS_CardinalityType
<1>2. QED
  BY <1>1, SubsetCard

LEMMA DueType == Due \in 0..2 /\ Due' \in 0..2
  BY DEF Due, Bit

LEMMA CountTypes ==
    ASSUME SInv
    PROVE  recorded \in Nat /\ file.mtime \in Nat /\ faults \in Nat
  BY ClientAssumption DEF SInv, TypeOK, ServerTypeOK, ClientTypeOK

LEMMA NextCountTypes ==
    ASSUME SInv'
    PROVE  recorded' \in Nat /\ file'.mtime \in Nat /\ faults' \in Nat
  BY ClientAssumption DEF SInv, TypeOK, ServerTypeOK, ClientTypeOK

\* The bound is kept when nothing more is on its way, or a fault pays for it.
LEMMA DeliveryKept ==
    ASSUME SInv, SInv', DeliveryInv, Late' \subseteq Late, recorded' = recorded,
           Due' + file.mtime + faults <= Due + file'.mtime + faults'
    PROVE  DeliveryInv'
<1>1. IsFiniteSet(Late') /\ Cardinality(Late') \in Nat /\ Cardinality(Late) \in Nat
      /\ Cardinality(Late') <= Cardinality(Late)
  BY SubsetCard DEF DeliveryInv
<1>2. /\ recorded' \in Nat /\ file'.mtime \in Nat /\ faults' \in Nat
      /\ recorded \in Nat /\ file.mtime \in Nat /\ faults \in Nat
  BY CountTypes, NextCountTypes
<1>3. Due \in 0..2 /\ Due' \in 0..2
  BY DueType
<1>4. QED
  BY <1>1, <1>2, <1>3 DEF DeliveryInv

LEMMA DeliveryLeft ==
    ASSUME SInv, SInv', DeliveryInv, NEW h \in Handlers, Late' \subseteq Late \cup {h},
           recorded' = recorded, file' = file, faults' = faults + 1, Due' <= Due
    PROVE  DeliveryInv'
<1>1. IsFiniteSet(Late') /\ Cardinality(Late') \in Nat /\ Cardinality(Late) \in Nat
      /\ Cardinality(Late') <= Cardinality(Late) + 1
  BY OneMoreCard DEF DeliveryInv
<1>2. recorded \in Nat /\ file.mtime \in Nat /\ faults \in Nat
  BY CountTypes
<1>3. Due \in 0..2 /\ Due' \in 0..2
  BY DueType
<1>4. QED
  BY <1>1, <1>2, <1>3 DEF DeliveryInv

LEMMA OneDelivered ==
    ASSUME NEW r \in Nat, NEW c \in Nat, NEW d \in 0..2, NEW cc \in Nat, NEW dd \in 0..2,
           cc <= c, dd + 1 <= d
    PROVE  r + 1 + cc + dd <= r + c + d
  OBVIOUS

LEMMA DeliveryMade ==
    ASSUME SInv, SInv', DeliveryInv, NEW h \in Handlers, recorded' = recorded + 1,
           file' = file, faults' = faults,
           \/ h \in Late /\ Late' \subseteq Late \ {h} /\ Due' <= Due
           \/ Late' \subseteq Late /\ Due' + 1 <= Due
    PROVE  DeliveryInv'
<1>1. recorded \in Nat /\ file.mtime \in Nat /\ faults \in Nat
  BY CountTypes
<1>2. Due \in 0..2 /\ Due' \in 0..2
  BY DueType
<1>3. CASE h \in Late /\ Late' \subseteq Late \ {h} /\ Due' <= Due
  <2>1. IsFiniteSet(Late') /\ Cardinality(Late') \in Nat /\ Cardinality(Late) \in Nat
        /\ Cardinality(Late') + 1 <= Cardinality(Late)
    BY <1>3, OneLessCard DEF DeliveryInv
  <2>2. QED
    BY <1>1, <1>2, <1>3, <2>1 DEF DeliveryInv
<1>4. CASE Late' \subseteq Late /\ Due' + 1 <= Due
  <2>1. IsFiniteSet(Late') /\ Cardinality(Late') \in Nat /\ Cardinality(Late) \in Nat
        /\ Cardinality(Late') <= Cardinality(Late)
    BY <1>4, SubsetCard DEF DeliveryInv
  <2>2. recorded + 1 + Cardinality(Late') + Due' <= recorded + Cardinality(Late) + Due
    BY <1>1, <1>2, <1>4, <2>1, OneDelivered
  <2>3. QED
    BY <1>1, <1>2, <2>1, <2>2 DEF DeliveryInv
<1>5. QED
  BY <1>3, <1>4

\* What is left to deliver on each side of the pass.
LEMMA DueQuiet ==
    /\ pc \in Quiet => Due = Bit(mem.files.mtime # file.mtime)
    /\ pc' \in Quiet => Due' = Bit(mem'.files.mtime # file'.mtime)
  BY DEF Due

LEMMA DueBusy ==
    ASSUME pc \notin Quiet, ~Delivered
    PROVE  Due = 1 + Bit(info.mtime # file.mtime)
  BY DEF Due, Bit

LEMMA LateSame ==
    ASSUME UNCHANGED <<handler, listening>>
    PROVE  Late' = Late
  BY DEF Late

\* A step of the client that ends no call and leaves the file alone.
LEMMA DeliveryLocal ==
    ASSUME SInv, SInv', DeliveryInv, UNCHANGED <<handler, listening, recorded, file>>,
           Due' <= Due, faults' = faults \/ faults' = faults + 1
    PROVE  DeliveryInv'
<1>1. Late' \subseteq Late
  BY LateSame
<1>2. file.mtime \in Nat /\ faults \in Nat /\ Due \in 0..2 /\ Due' \in 0..2
  BY CountTypes, DueType
<1>3. Due' + file.mtime + faults <= Due + file'.mtime + faults'
  BY <1>2
<1>4. QED
  BY <1>1, <1>3, DeliveryKept

LEMMA PassDelivery ==
    ASSUME SInv, SInv', Recorded, DeliveryInv,
           \/ Boot \/ Stat \/ Hash \/ EnsureFolder \/ ChoosePending \/ Persist \/ Resume \/ Save
    PROVE  DeliveryInv'
<1>1. /\ UNCHANGED <<handler, listening, recorded, file, waiting>>
      /\ faults' = faults \/ faults' = faults + 1
  BY DEF Boot, Stat, Hash, EnsureFolder, ChoosePending, Persist, Resume, Save, Fault, NoFault
<1>2. pc # "complete" /\ ~Delivered
  BY DEF Boot, Stat, Hash, EnsureFolder, ChoosePending, Persist, Resume, Save, Delivered
<1>3. mem \in States /\ disk \in States
  BY DEF SInv, TypeOK, ClientTypeOK
<1>4. ASSUME NEW state \in States, NEW drop, NEW otherwise, DropPending(state, drop, otherwise)
      PROVE  mem'.files = state.files /\ pc' \in {drop, otherwise}
  BY <1>4, ForgetType DEF DropPending
<1>5. CASE Boot
  <2>1. pc \in Quiet /\ pc' \in Quiet /\ mem' = mem
    BY <1>5 DEF Boot, Recorded, Quiet
  <2>2. QED
    BY <1>1, <2>1, DueQuiet, DueType, DeliveryLocal
<1>6. CASE Stat
  <2>1. CASE FastUnchanged
    <3>1. pc' \in Quiet /\ mem'.files.mtime = file.mtime
      BY <1>3, <1>4, <1>6, <2>1 DEF Stat, FastUnchanged, Quiet
    <3>2. Due' = 0
      BY <1>1, <3>1, DueQuiet DEF Due, Bit
    <3>3. QED
      BY <1>1, <3>2, DueType, DeliveryLocal
  <2>2. CASE ~FastUnchanged
    <3>1. /\ pc' = "hash" /\ info' = [size |-> Size[file.c], mtime |-> file.mtime]
          /\ pc = "idle" /\ mem.files.mtime # file.mtime
      BY <1>6, <2>2 DEF Stat, FastUnchanged
    <3>2. Due = 1
      BY <3>1 DEF Due, Bit, Quiet
    <3>3. Due' = 1
      BY <1>1, <3>1 DEF Due, Bit, Quiet, Delivered
    <3>4. QED
      BY <1>1, <3>2, <3>3, DeliveryLocal
  <2>3. QED
    BY <2>1, <2>2
<1>7. CASE Hash
  <2>1. pc = "hash" /\ info' = info
    BY <1>7 DEF Hash
  <2>2. Due = 1 + Bit(info.mtime # file.mtime)
    BY <1>2, <2>1, DueBusy DEF Quiet
  <2>3. CASE mem.files.sum = file.c
    <3>1. [mem EXCEPT !.files = [mtime |-> info.mtime, sum |-> file.c]] \in States
      BY <1>3 DEF SInv, TypeOK, ClientTypeOK, States
    <3>2. pc' \in Quiet /\ mem'.files.mtime = info.mtime
      BY <1>3, <1>4, <1>7, <2>3, <3>1 DEF Hash, Quiet, States
    <3>3. Due' = Bit(info.mtime # file.mtime)
      BY <1>1, <3>2 DEF Due
    <3>4. Due' <= Due
      BY <2>2, <3>3 DEF Bit
    <3>5. QED
      BY <1>1, <3>4, DeliveryLocal
  <2>4. CASE mem.files.sum # file.c
    <3>1. pc' = "folder"
      BY <1>7, <2>4 DEF Hash
    <3>2. Due' = 1 + Bit(info.mtime # file.mtime)
      BY <1>1, <2>1, <3>1 DEF Due, Quiet, Delivered, Bit
    <3>3. QED
      BY <1>1, <2>2, <3>2, DueType, DeliveryLocal
  <2>5. QED
    BY <2>3, <2>4
<1>8. CASE EnsureFolder \/ ChoosePending \/ Persist \/ Resume
  <2>1. pc \notin Quiet /\ info' = info
    BY <1>8 DEF EnsureFolder, ChoosePending, Persist, Resume, Quiet
  <2>2. Due = 1 + Bit(info.mtime # file.mtime)
    BY <1>2, <2>1, DueBusy
  <2>3. pc' # "complete"
    BY <1>3, <1>4, <1>8
       DEF EnsureFolder, ChoosePending, Persist, Resume, SessionGone, DropPending
  <2>4. Due' <= Due
    BY <1>1, <2>1, <2>2, <2>3 DEF Due, Bit, Delivered
  <2>5. QED
    BY <1>1, <2>4, DeliveryLocal
<1>9. CASE Save
  <2>1. pc \in Quiet /\ pc' \in Quiet /\ mem' = mem
    BY <1>9 DEF Save, Quiet
  <2>2. QED
    BY <1>1, <2>1, DueQuiet, DueType, DeliveryLocal
<1>10. QED
  BY <1>5, <1>6, <1>7, <1>8, <1>9

LEMMA SendDelivery ==
    ASSUME SInv, SInv', DeliveryInv, Send
    PROVE  DeliveryInv'
<1>1. PICK h \in Handlers, r \in Requests :
        /\ handler[h] = Idle /\ handler' = [handler EXCEPT ![h] = r] /\ r = TheRequest
        /\ call' = h /\ listening' = {h} /\ waiting' = TRUE
  BY SendEffect
<1>2. handler'[h] = r /\ \A g \in Handlers : g # h => handler'[g] = handler[g]
  BY <1>1 DEF SInv, TypeOK, ServerTypeOK
<1>3. listening = {} /\ ~waiting /\ UNCHANGED <<pc, mem, info, file, recorded, faults>>
  BY DEF Send, SInv, Calling
<1>4. Late' \subseteq Late
  BY <1>1, <1>2, <1>3 DEF Late
<1>5. r.step \in {"run", "load"}
  BY <1>1, Requested DEF Send
<1>6. ~Delivered /\ ~Delivered'
  BY <1>1, <1>2, <1>3, <1>5 DEF Delivered
<1>7. Due' = Due
  BY <1>3, <1>6 DEF Due
<1>8. Due' + file.mtime + faults <= Due + file'.mtime + faults'
  BY <1>3, <1>7, CountTypes, DueType
<1>9. QED
  BY <1>3, <1>4, <1>8, DeliveryKept

\* What is due after an answer, or an error in its place.
LEMMA AnswerDue ==
    ASSUME SInv, SInv', NEW code, NEW s, NEW g, pc \in Calls, OnAnswer(code, s, g), ~waiting',
           UNCHANGED <<file, info>>, Delivered => code = "ok" \/ (pc' \in Quiet)
    PROVE  /\ Delivered \/ Due' <= Due
           /\ Delivered /\ code = "ok" => Due' <= Due
           /\ pc = "complete" => Due' <= Due + 1
<1>1. mem \in States /\ ~Delivered'
  BY DEF SInv, TypeOK, ClientTypeOK, Delivered
<1>2. CASE pc = "complete" /\ code = "ok"
  <2>1. mem' = AfterUpload /\ pc' = "save"
    BY <1>2 DEF OnAnswer, Drops
  <2>2. mem'.files.mtime = info.mtime
    BY <1>1, <2>1 DEF AfterUpload, States
  <2>3. Due' = Bit(info.mtime # file.mtime)
    BY <2>1, <2>2 DEF Due, Quiet
  <2>4. QED
    BY <1>2, <2>3 DEF Due, Bit, Quiet
<1>3. CASE ~(pc = "complete" /\ code = "ok") /\ pc \notin Quiet
  <2>1. ~Delivered => Due = 1 + Bit(info.mtime # file.mtime)
    BY <1>3, DueBusy
  <2>2. Due' = Bit(mem'.files.mtime # file.mtime) \/ Due' = 1 + Bit(info.mtime # file.mtime)
    BY <1>1 DEF Due, Bit
  <2>3. Delivered => pc' \in Quiet
    BY <1>3 DEF Delivered
  <2>4. pc' \in Quiet => Due' = Bit(mem'.files.mtime # file.mtime)
    BY DEF Due
  <2>5. ~(Delivered /\ code = "ok")
    BY <1>3 DEF Delivered
  <2>6. QED
    BY <2>1, <2>2, <2>3, <2>4, <2>5, DueType DEF Bit
<1>4. CASE pc \in Quiet
  <2>1. pc \in {"drop_skip", "drop_unsaved"}
    BY <1>4 DEF Calls, Drops, Quiet
  <2>2. pc' \in {"save", "failed"} /\ UNCHANGED mem
    BY <2>1 DEF OnAnswer, Drops
  <2>3. Due' = Due
    BY <1>4, <2>2 DEF Due, Quiet
  <2>4. QED
    BY <2>1, <2>3, DueType
<1>5. QED
  BY <1>2, <1>3, <1>4

LEMMA HangUpLate ==
    ASSUME SInv, waiting, HangUp
    PROVE  /\ call \in Handlers
           /\ Late' \subseteq Late \cup {call}
           /\ handler[call].step \in {"done", "discard"} => Late' \subseteq Late
           /\ pc # "complete" => Late' \subseteq Late
<1>1. /\ call \in Handlers /\ listening = {call} /\ listening' = {} /\ handler[call] # Idle
      /\ pc \in Calls /\ handler[call].kind = KindOf(pc)
  BY DEF SInv, Calling, HangUp
<1>2. \A g \in Handlers :
        handler'[g] = IF g = call /\ handler[g].step = "done" THEN Idle ELSE handler[g]
  BY <1>1 DEF HangUp, SInv, TypeOK, ServerTypeOK
<1>3. pc # "complete" => handler[call].kind # "complete"
  BY <1>1, CallKinds
<1>4. Late' \subseteq Late \cup {call}
  BY <1>1, <1>2 DEF Late
<1>5. call \in Late' => handler[call].kind = "complete" /\ handler[call].step \notin {"done", "discard"}
  BY <1>1, <1>2 DEF Late
<1>6. QED
  BY <1>1, <1>3, <1>4, <1>5

LEMMA ReadAnswerDelivery ==
    ASSUME SInv, SInv', DeliveryInv, ReadAnswer
    PROVE  DeliveryInv'
<1>1. /\ waiting /\ HangUp /\ handler[call].step = "done" /\ ~waiting'
      /\ UNCHANGED <<recorded, file, info, faults>> /\ pc \in Calls
  BY DEF ReadAnswer, HangUp, SInv, Calling
<1>2. PICK code, s, g : code = handler[call].code /\ s = handler[call].s /\ g = handler[call].got
  OBVIOUS
<1>3. OnAnswer(code, s, g)
  BY <1>2 DEF ReadAnswer
<1>4. Delivered => code = "ok"
  BY <1>1, <1>2 DEF Delivered
<1>5. Due' <= Due
  BY <1>1, <1>3, <1>4, AnswerDue
<1>6. Late' \subseteq Late
  BY <1>1, HangUpLate
<1>7. Due' + file.mtime + faults <= Due + file'.mtime + faults'
  BY <1>1, <1>5, CountTypes, DueType
<1>8. QED
  BY <1>1, <1>6, <1>7, DeliveryKept

LEMMA LoseAnswerDelivery ==
    ASSUME SInv, SInv', DeliveryInv, LoseAnswer
    PROVE  DeliveryInv'
<1>1. /\ waiting /\ HangUp /\ ~waiting' /\ OnAnswer("error", None, {}) /\ pc \in Calls
      /\ UNCHANGED <<recorded, file, info>> /\ faults' = faults + 1
  BY DEF LoseAnswer, HangUp, Fault, SInv, Calling
<1>2. Delivered => pc' \in Quiet
  BY <1>1 DEF Delivered, OnAnswer, Drops, Quiet
<1>3. /\ Delivered \/ Due' <= Due
      /\ pc = "complete" => Due' <= Due + 1
  BY <1>1, <1>2, AnswerDue
<1>4. CASE Delivered
  <2>1. Late' \subseteq Late
    BY <1>1, <1>4, HangUpLate DEF Delivered
  <2>2. Due' + file.mtime + faults <= Due + file'.mtime + faults'
    BY <1>1, <1>3, <1>4, CountTypes, DueType DEF Delivered
  <2>3. QED
    BY <1>1, <2>1, <2>2, DeliveryKept
<1>5. CASE ~Delivered
  BY <1>1, <1>3, <1>5, HangUpLate, DeliveryLeft
<1>6. QED
  BY <1>4, <1>5

LEMMA LoseRequestDelivery ==
    ASSUME SInv, SInv', DeliveryInv, LoseRequest
    PROVE  DeliveryInv'
<1>1. /\ ~waiting /\ ~waiting' /\ OnAnswer("error", None, {}) /\ pc \in Calls
      /\ UNCHANGED <<recorded, file, info, handler, listening>> /\ faults' = faults + 1
  BY DEF LoseRequest, Fault
<1>2. ~Delivered
  BY <1>1 DEF Delivered
<1>3. Due' <= Due
  BY <1>1, <1>2, AnswerDue
<1>4. QED
  BY <1>1, <1>3, DeliveryLocal

LEMMA CrashDelivery ==
    ASSUME SInv, SInv', DeliveryInv, Crash
    PROVE  DeliveryInv'
<1>1. /\ pc' = "off" /\ faults' = faults + 1 /\ UNCHANGED <<recorded, file>>
  BY DEF Crash, Fault
<1>2. Due' \in {0, 1} /\ Due \in 0..2
  BY <1>1, DueType DEF Due, Bit, Quiet
<1>3. CASE waiting /\ pc = "complete" /\ ~Delivered
  <2>1. Due' <= Due
    BY <1>2, <1>3 DEF Due, Bit, Quiet
  <2>2. HangUp
    BY <1>3 DEF Crash
  <2>3. QED
    BY <1>1, <1>3, <2>1, <2>2, HangUpLate, DeliveryLeft
<1>4. CASE ~(waiting /\ pc = "complete" /\ ~Delivered)
  <2>1. Late' \subseteq Late
    <3>1. CASE waiting
      BY <1>4, <3>1, HangUpLate DEF Crash, Delivered
    <3>2. CASE ~waiting
      BY <3>2, LateSame DEF Crash
    <3>3. QED
      BY <3>1, <3>2
  <2>2. Due' + file.mtime + faults <= Due + file'.mtime + faults'
    BY <1>1, <1>2, CountTypes
  <2>3. QED
    BY <1>1, <2>1, <2>2, DeliveryKept
<1>5. QED
  BY <1>3, <1>4

LEMMA EditDelivery ==
    ASSUME SInv, SInv', DeliveryInv, Edit
    PROVE  DeliveryInv'
<1>1. /\ UNCHANGED <<handler, listening, recorded, faults, pc, mem, info, waiting, call>>
      /\ file'.mtime = file.mtime + 1
  BY DEF Edit
<1>2. Delivered' = Delivered
  BY <1>1 DEF Delivered
<1>3. Due' <= Due + 1
  BY <1>1, <1>2 DEF Due, Bit
<1>4. Due' + file.mtime + faults <= Due + file'.mtime + faults'
  BY <1>1, <1>3, CountTypes, DueType
<1>5. Late' \subseteq Late
  BY <1>1, LateSame
<1>6. QED
  BY <1>1, <1>4, <1>5, DeliveryKept

\* No request becomes a late one by a step of a handler.
LEMMA MovesLate ==
    ASSUME SInv, NEW h \in Handlers, ServerStep(h) \/ HandlerFails(h), UNCHANGED listening
    PROVE  /\ Late' \subseteq Late
           /\ RecordUpload(h) => Late' \subseteq Late \ {h}
<1>1. CASE InitSession(h)
  <2>1. /\ handler[h] # Idle /\ handler[h].kind = "init" /\ handler[h] \in Requests
    BY <1>1, ServesType DEF InitSession, Serves
  <2>2. \A g \in Handlers : g # h => handler'[g] = handler[g]
    BY <1>1 DEF InitSession, Answer, SInv, TypeOK, ServerTypeOK
  <2>3. handler'[h] = Idle \/ handler'[h].kind = "init"
    <3>1. \E s \in Sessions \cup {None}, code \in {"ok", "gone"} : Answer(h, code, s, {})
      BY <1>1 DEF InitSession, SInv, TypeOK, ServerTypeOK
    <3>2. PICK s \in Sessions \cup {None}, code \in {"ok", "gone"} : Answer(h, code, s, {})
      BY <3>1
    <3>3. \E r \in Requests \cup {Idle} :
                /\ handler' = [handler EXCEPT ![h] = r]
                /\ r = IF h \in listening THEN Done(handler[h], code, s, {}) ELSE Idle
      BY <2>1, <3>2, AnswerEffect DEF SInv, TypeOK, Codes
    <3>4. PICK r \in Requests \cup {Idle} :
                /\ handler' = [handler EXCEPT ![h] = r]
                /\ r = IF h \in listening THEN Done(handler[h], code, s, {}) ELSE Idle
      BY <3>3
    <3>5. Done(handler[h], code, s, {}).kind = handler[h].kind
      BY <2>1, DoneType DEF Codes
    <3>6. handler'[h] = r
      BY <3>4 DEF SInv, TypeOK, ServerTypeOK
    <3>7. QED
      BY <2>1, <3>4, <3>5, <3>6
  <2>4. QED
    BY <1>1, <2>1, <2>2, <2>3, ServesType DEF Late, InitSession, RecordUpload, Serves
<1>2. CASE ~InitSession(h)
  <2>1. PICK r \in Requests \cup {Idle} : Moves(h, r)
    BY <1>2, HandlerMoves
  <2>2. handler'[h] = r /\ \A g \in Handlers : g # h => handler'[g] = handler[g]
    BY <2>1 DEF Moves, SInv, TypeOK, ServerTypeOK
  <2>3. handler[h] # Idle /\ handler[h] \in Requests /\ RequestShape(handler[h])
    BY <2>1, IdleType DEF Moves, SInv, HandlerShapes
  <2>4. r # Idle => r.kind = handler[h].kind
    BY <2>1 DEF Moves
  <2>5. handler[h].kind = "complete" => handler[h].step \in {"load", "assemble", "enqueue", "discard", "done"}
    BY <2>3 DEF RequestShape, StepsOf
  <2>6. handler[h].step \in {"discard", "done"} => r = Idle \/ r.step = "done"
    <3>1. CASE handler[h].step = "discard"
      <4>1. DiscardSession(h)
        BY <3>1 DEF ServerStep, LoadSession, InitSession, SaveChunk, ReportStatus, AppendChunk,
                    RecordUpload, HandlerFails, Serves
      <4>2. QED
        BY <2>2, <4>1 DEF DiscardSession, Answer, SInv, TypeOK, ServerTypeOK, Requests, Done
    <3>2. CASE handler[h].step = "done"
      BY <3>2 DEF ServerStep, LoadSession, InitSession, SaveChunk, ReportStatus, AppendChunk,
                  RecordUpload, DiscardSession, HandlerFails, Serves
    <3>3. QED
      BY <3>1, <3>2
  <2>7. Late' \subseteq Late
    BY <2>2, <2>3, <2>4, <2>5, <2>6 DEF Late
  <2>8. RecordUpload(h) => r # Idle /\ r.step = "discard"
    <3>1. SUFFICES ASSUME RecordUpload(h) PROVE r # Idle /\ r.step = "discard"
      OBVIOUS
    <3>2. handler'[h] = [handler[h] EXCEPT !.step = "discard"]
      BY <3>1, ProceedEffect, <2>3 DEF RecordUpload, SInv, TypeOK, ServerTypeOK, Steps
    <3>3. [handler[h] EXCEPT !.step = "discard"] \in Requests
          /\ [handler[h] EXCEPT !.step = "discard"].step = "discard"
      BY <2>3, StepSet DEF Steps
    <3>4. QED
      BY <2>2, <3>2, <3>3, IdleType
  <2>9. QED
    BY <2>2, <2>7, <2>8 DEF Late
<1>3. QED
  BY <1>1, <1>2


\* Once the file of this pass is recorded, the client is told so, or there is a fault.
LEMMA StaysDelivered ==
    ASSUME SInv, ClientKept, NEW h \in Handlers, ServerStep(h) \/ HandlerFails(h), Delivered
    PROVE  Delivered'
<1>1. /\ waiting /\ call \in Handlers /\ call \in listening /\ handler[call] # Idle
      /\ pc = "complete" /\ handler[call] \in Requests
      /\ handler[call].step \in {"discard", "done"}
      /\ UNCHANGED <<waiting, call, pc>>
  BY DEF Delivered, SInv, Calling, TypeOK, ServerTypeOK, ClientKept
<1>2. CASE h = call
  <2>1. handler[h].step = "discard" /\ DiscardSession(h)
    BY <1>1, <1>2 DEF ServerStep, LoadSession, InitSession, SaveChunk, ReportStatus, AppendChunk,
       RecordUpload, DiscardSession, HandlerFails, Serves
  <2>2. Answer(h, "ok", handler[h].s, {})
    BY <2>1 DEF DiscardSession
  <2>3. handler[h].s \in Sessions \cup {None}
    BY <1>1, <1>2, RequestType
  <2>4. PICK r \in Requests \cup {Idle} :
          /\ handler' = [handler EXCEPT ![h] = r]
          /\ r = IF h \in listening THEN Done(handler[h], "ok", handler[h].s, {}) ELSE Idle
    BY <1>1, <1>2, <2>2, <2>3, AnswerEffect DEF SInv, TypeOK, Codes
  <2>5. handler'[h] = Done(handler[h], "ok", handler[h].s, {})
    BY <1>1, <1>2, <2>4 DEF SInv, TypeOK, ServerTypeOK
  <2>6. handler'[h].step = "done" /\ handler'[h].code = "ok"
    BY <1>1, <1>2, <2>3, <2>5, DoneType DEF Codes
  <2>7. QED
    BY <1>1, <1>2, <2>6 DEF Delivered
<1>3. CASE h # call
  <2>1. handler'[call] = handler[call]
    <3>1. CASE InitSession(h)
      BY <1>1, <1>3, <3>1 DEF InitSession, Answer, SInv, TypeOK, ServerTypeOK
    <3>2. CASE ~InitSession(h)
      BY <1>1, <1>3, <3>2, HandlerMoves DEF Moves, SInv, TypeOK, ServerTypeOK
    <3>3. QED
      BY <3>1, <3>2
  <2>2. QED
    BY <1>1, <2>1 DEF Delivered
<1>4. QED
  BY <1>2, <1>3

LEMMA RecordDelivery ==
    ASSUME SInv, SInv', DeliveryInv, ClientKept, NEW h \in Handlers, RecordUpload(h),
           faults' = faults
    PROVE  DeliveryInv'
<1>1. /\ handler[h] # Idle /\ handler[h].kind = "complete" /\ handler[h].step = "enqueue"
      /\ recorded' = recorded + 1 /\ handler[h] \in Requests
      /\ UNCHANGED <<pc, waiting, call, file, mem, info, listening>>
  BY ServesType DEF RecordUpload, Serves, ClientKept
<1>2. ServerStep(h)
  BY DEF ServerStep
<1>3. Late' \subseteq Late /\ Late' \subseteq Late \ {h}
  BY <1>1, <1>2, MovesLate
<1>4. CASE h \in listening
  <2>1. waiting /\ call = h /\ pc = "complete"
    <3>1. waiting /\ call = h /\ pc \in Calls /\ KindOf(pc) = "complete"
      BY <1>1, <1>4 DEF SInv, Calling
    <3>2. QED
      BY <3>1, CallKinds
  <2>2. ~Delivered
    BY <1>1, <2>1 DEF Delivered
  <2>3. handler'[h].step = "discard"
    <3>1. handler'[h] = [handler[h] EXCEPT !.step = "discard"]
      BY ProceedEffect, <1>1 DEF RecordUpload, SInv, TypeOK, ServerTypeOK, Steps
    <3>2. QED
      BY <1>1, <3>1, StepSet DEF Steps
  <2>4. Delivered'
    BY <1>1, <2>1, <2>3 DEF Delivered
  <2>5. Due' + 1 <= Due
    BY <1>1, <2>1, <2>2, <2>4 DEF Due, Bit, Quiet
  <2>6. QED
    BY <1>1, <1>3, <2>5, DeliveryMade
<1>5. CASE h \notin listening
  <2>1. h \in Late
    BY <1>1, <1>5 DEF Late
  <2>2. Delivered => Delivered'
    BY <1>2, StaysDelivered
  <2>3. Due' <= Due
    BY <1>1, <2>2 DEF Due, Bit
  <2>4. QED
    BY <1>1, <1>3, <2>1, <2>3, DeliveryMade
<1>6. QED
  BY <1>4, <1>5

LEMMA ServerDelivery ==
    ASSUME SInv, SInv', DeliveryInv, ClientKept, faults' = faults,
           NEW h \in Handlers, ServerStep(h)
    PROVE  DeliveryInv'
<1>1. CASE RecordUpload(h)
  BY <1>1, RecordDelivery
<1>2. CASE ~RecordUpload(h)
  <2>1. recorded' = recorded /\ UNCHANGED <<pc, waiting, call, file, mem, info, listening>>
    BY <1>2 DEF ServerStep, LoadSession, InitSession, SaveChunk, ReportStatus, AppendChunk,
                DiscardSession, ClientKept
  <2>2. Late' \subseteq Late
    BY <2>1, MovesLate
  <2>3. Delivered => Delivered'
    BY StaysDelivered
  <2>4. Due' <= Due
    BY <2>1, <2>3 DEF Due, Bit
  <2>5. Due' + file.mtime + faults <= Due + file'.mtime + faults'
    BY <2>1, <2>4, CountTypes, DueType
  <2>6. QED
    BY <2>1, <2>2, <2>5, DeliveryKept
<1>3. QED
  BY <1>1, <1>2

LEMMA ServerFaultDelivery ==
    ASSUME SInv, SInv', DeliveryInv, ServerFault
    PROVE  DeliveryInv'
<1>1. /\ recorded' = recorded /\ UNCHANGED <<pc, waiting, call, file, mem, info, listening>>
      /\ faults' = faults + 1
  BY DEF ServerFault, HandlerFails, ServerExits, Fault
<1>2. Late' \subseteq Late
  <2>1. CASE ServerExits
    BY <2>1, ExitsEffect DEF Late, ServerExits
  <2>2. ASSUME NEW h \in Handlers, HandlerFails(h)
        PROVE  Late' \subseteq Late
    BY <1>1, <2>2, MovesLate
  <2>3. QED
    BY <2>1, <2>2 DEF ServerFault
<1>3. Due' <= Due + 1
  <2>1. CASE pc \in Quiet
    BY <1>1, <2>1, DueQuiet, DueType
  <2>2. CASE pc \notin Quiet
    BY <1>1, <2>2 DEF Due, Bit
  <2>3. QED
    BY <2>1, <2>2
<1>4. Due' + file.mtime + faults <= Due + file'.mtime + faults'
  BY <1>1, <1>3, CountTypes, DueType
<1>5. QED
  BY <1>1, <1>2, <1>4, DeliveryKept

LEMMA StillDelivery ==
    ASSUME DeliveryInv, UNCHANGED <<handler, listening, recorded, faults, file, pc, mem, info,
                                    waiting, call>>
    PROVE  DeliveryInv'
<1>1. Late' = Late /\ Delivered' = Delivered
  BY DEF Late, Delivered
<1>2. Due' = Due
  BY <1>1 DEF Due
<1>3. QED
  BY <1>1, <1>2 DEF DeliveryInv

LEMMA NextDelivery ==
    ASSUME SInv, Recorded, DeliveryInv, [Next]_vars
    PROVE  DeliveryInv'
<1>1. SInv'
  BY NextSInv
<1>2. CASE ClientStep
  BY <1>1, <1>2, PassDelivery, SendDelivery, ReadAnswerDelivery DEF ClientStep
<1>3. CASE LoseAnswer \/ LoseRequest \/ Crash \/ Edit
  BY <1>1, <1>3, LoseAnswerDelivery, LoseRequestDelivery, CrashDelivery, EditDelivery
<1>4. CASE DeleteFolder \/ UNCHANGED vars
  BY <1>4, StillDelivery DEF DeleteFolder, vars
<1>5. CASE \E h \in Handlers : ServerStep(h) /\ UNCHANGED clientVars
  <2>1. PICK h \in Handlers : ServerStep(h) /\ UNCHANGED clientVars
    BY <1>5
  <2>2. ClientKept /\ faults' = faults
    BY <2>1 DEF ClientKept, ServerStep, LoadSession, InitSession, SaveChunk, ReportStatus,
                AppendChunk, RecordUpload, DiscardSession
  <2>3. QED
    BY <1>1, <2>1, <2>2, ServerDelivery
<1>6. CASE ServerFault
  BY <1>1, <1>6, ServerFaultDelivery
<1>7. QED
  BY <1>2, <1>3, <1>4, <1>5, <1>6 DEF Next

LEMMA InitDelivery == Init => DeliveryInv
<1> SUFFICES ASSUME Init PROVE DeliveryInv
  OBVIOUS
<1>1. Late = {}
  BY DEF Init, ServerInit, Late
<1>2. IsFiniteSet(Late) /\ Cardinality(Late) = 0
  BY <1>1, FS_EmptySet
<1>3. Due = 1 /\ recorded = 0 /\ file.mtime = 1 /\ faults = 0
  BY DEF Init, ServerInit, Due, Bit, Quiet, NoFile
<1>4. QED
  BY <1>2, <1>3 DEF DeliveryInv

\* DeliveriesBounded: a file is sent again only because it was written or because of a
\* fault, whenever it is written and whatever fails; what a pass or a request left behind
\* may still have recorded is counted with what was (uploadOne, chunk_handler.go).
THEOREM DeliveriesAreBounded == Spec => []DeliveriesBounded
<1>1. Init => DeliveryInv
  BY InitDelivery
<1>2. SInv /\ Recorded /\ DeliveryInv /\ [Next]_vars => DeliveryInv'
  BY NextDelivery
<1>3. SInv /\ DeliveryInv => DeliveriesBounded
  <2> SUFFICES ASSUME SInv, DeliveryInv PROVE DeliveriesBounded
    OBVIOUS
  <2>1. recorded \in Nat /\ Cardinality(Late) \in Nat /\ Due \in 0..2
    BY CountTypes, DueType, FS_CardinalityType DEF DeliveryInv
  <2>2. file.mtime \in Nat /\ faults \in Nat
    BY CountTypes
  <2>3. QED
    BY <2>1, <2>2 DEF DeliveryInv, DeliveriesBounded
<1>4. QED
  BY <1>1, <1>2, <1>3, Structure, RecordedAlways, PTL DEF Spec


-----------------------------------------------------------------------------
(* Sessions the client has given up *)

LEMMA LeakKept ==
    ASSUME SInv, SInv', LeakInv, Lost' \subseteq Lost, Ghosts' \subseteq Ghosts,
           leaks' \in {leaks, leaks + 1}, ClosedAnswers'
    PROVE  LeakInv'
<1>1. /\ IsFiniteSet(Lost') /\ Cardinality(Lost') \in Nat /\ Cardinality(Lost) \in Nat
      /\ Cardinality(Lost') <= Cardinality(Lost)
  BY SubsetCard DEF LeakInv
<1>2. /\ IsFiniteSet(Ghosts') /\ Cardinality(Ghosts') \in Nat /\ Cardinality(Ghosts) \in Nat
      /\ Cardinality(Ghosts') <= Cardinality(Ghosts)
  BY SubsetCard DEF LeakInv
<1>3. leaks \in Nat
  BY DEF SInv, TypeOK, ClientTypeOK
<1>4. QED
  BY <1>1, <1>2, <1>3 DEF LeakInv

LEMMA LeakOne ==
    ASSUME SInv, SInv', LeakInv, leaks' = leaks + 1, ClosedAnswers', NEW x,
           \/ Lost' \subseteq Lost \cup {x} /\ Ghosts' \subseteq Ghosts
           \/ Lost' \subseteq Lost /\ Ghosts' \subseteq Ghosts \cup {x}
    PROVE  LeakInv'
<1>1. leaks \in Nat
  BY DEF SInv, TypeOK, ClientTypeOK
<1>2. CASE Lost' \subseteq Lost \cup {x} /\ Ghosts' \subseteq Ghosts
  <2>1. /\ IsFiniteSet(Lost') /\ Cardinality(Lost') \in Nat /\ Cardinality(Lost) \in Nat
        /\ Cardinality(Lost') <= Cardinality(Lost) + 1
    BY <1>2, OneMoreCard DEF LeakInv
  <2>2. /\ IsFiniteSet(Ghosts') /\ Cardinality(Ghosts') \in Nat /\ Cardinality(Ghosts) \in Nat
        /\ Cardinality(Ghosts') <= Cardinality(Ghosts)
    BY <1>2, SubsetCard DEF LeakInv
  <2>3. QED
    BY <1>1, <2>1, <2>2 DEF LeakInv
<1>3. CASE Lost' \subseteq Lost /\ Ghosts' \subseteq Ghosts \cup {x}
  <2>1. /\ IsFiniteSet(Lost') /\ Cardinality(Lost') \in Nat /\ Cardinality(Lost) \in Nat
        /\ Cardinality(Lost') <= Cardinality(Lost)
    BY <1>3, SubsetCard DEF LeakInv
  <2>2. /\ IsFiniteSet(Ghosts') /\ Cardinality(Ghosts') \in Nat /\ Cardinality(Ghosts) \in Nat
        /\ Cardinality(Ghosts') <= Cardinality(Ghosts) + 1
    BY <1>3, OneMoreCard DEF LeakInv
  <2>3. QED
    BY <1>1, <2>1, <2>2 DEF LeakInv
<1>4. QED
  BY <1>2, <1>3

\* A request without a client opens a session no one is told of.
LEMMA GhostOpens ==
    ASSUME SInv, SInv', LeakInv, leaks' \in {leaks, leaks + 1}, ClosedAnswers', NEW h \in Ghosts, NEW s,
           Lost' \subseteq Lost \cup {s}, Ghosts' \subseteq Ghosts \ {h}
    PROVE  LeakInv'
<1>1. /\ IsFiniteSet(Lost') /\ Cardinality(Lost') \in Nat /\ Cardinality(Lost) \in Nat
      /\ Cardinality(Lost') <= Cardinality(Lost) + 1
  BY OneMoreCard DEF LeakInv
<1>2. /\ IsFiniteSet(Ghosts') /\ Cardinality(Ghosts') \in Nat /\ Cardinality(Ghosts) \in Nat
      /\ Cardinality(Ghosts') + 1 <= Cardinality(Ghosts)
  BY OneLessCard DEF LeakInv
<1>3. leaks \in Nat
  BY DEF SInv, TypeOK, ClientTypeOK
<1>4. QED
  BY <1>1, <1>2, <1>3 DEF LeakInv

\* Closed answers stay true: a session is never opened again.
LEMMA ClosedKept ==
    ASSUME SInv, ClosedAnswers, UNCHANGED total,
           \A h \in Handlers : \/ handler'[h] \in {handler[h], Idle}
                               \/ handler'[h] # Idle /\ handler'[h].step # "done"
                               \/ handler'[h] # Idle /\ handler'[h].code = "error"
    PROVE  ClosedAnswers'
  BY DEF ClosedAnswers

LEMMA SameHeld ==
    ASSUME UNCHANGED <<total, handler, listening, mem, pc, cur, waiting, call>>
    PROVE  Lost' = Lost /\ Ghosts' = Ghosts
<1>1. ASSUME NEW s \in Sessions
      PROVE  Held(s)' <=> Held(s)
  BY DEF Held
<1>2. QED
  BY <1>1 DEF Lost, Ghosts, IsOpen

\* An init answer that tells of a session is the one the client waits for.
LEMMA ToldOnce ==
    ASSUME SInv, NEW h \in Handlers, handler[h] # Idle, handler[h].kind = "init",
           handler[h].s \in Sessions
    PROVE  handler[h].step = "done" /\ waiting /\ h = call /\ pc = "init"
<1>1. handler[h].step = "done"
  BY NoneAssumption DEF SInv, HandlerShapes, RequestShape, StepsOf
<1>2. waiting /\ h = call /\ pc \in Calls /\ KindOf(pc) = "init"
  BY <1>1 DEF SInv, HandlerShapes, Calling
<1>3. QED
  BY <1>1, <1>2, CallKinds

\* A session stays with the client that stays with its record.
LEMMA LostLocal ==
    ASSUME SInv, ~waiting, ~waiting', UNCHANGED <<total, handler, listening>>,
           mem'.pending.s = mem.pending.s \/ mem.pending.s \notin Sessions
              \/ (pc' \in Drops /\ cur'.s = mem.pending.s),
           pc \in Drops => pc' \in Drops /\ cur' = cur
    PROVE  Lost' \subseteq Lost /\ Ghosts' = Ghosts
<1>1. ASSUME NEW s \in Sessions, Held(s)
      PROVE  Held(s)'
  BY <1>1 DEF Held
<1>2. QED
  BY <1>1 DEF Lost, IsOpen, Ghosts

LEMMA PassLeak ==
    ASSUME SInv, SInv', Recorded, LeakInv,
           Boot \/ Stat \/ Hash \/ EnsureFolder \/ ChoosePending \/ Persist \/ Save
    PROVE  LeakInv'
<1>1. /\ UNCHANGED <<total, handler, listening, waiting>>
      /\ leaks' = leaks
  BY DEF Boot, Stat, Hash, EnsureFolder, ChoosePending, Persist, Save, Fault, NoFault
<1>2. pc \notin Drops /\ ~waiting
  <2>1. pc \notin Calls
    BY DEF Boot, Stat, Hash, EnsureFolder, ChoosePending, Persist, Save, Calls, Drops
  <2>2. QED
    BY <2>1, NotWaiting DEF Calls
<1>3. mem \in States /\ (mem.pending = NoPending \/ mem.pending.s \in Sessions) /\ ClientTypeOK
  BY DEF SInv, TypeOK, ClientTypeOK, ClientShape
<1>4. ASSUME NEW state \in States, NEW drop \in Drops, NEW otherwise,
             DropPending(state, drop, otherwise), state.pending = mem.pending
      PROVE  \/ mem.pending.s \notin Sessions
             \/ (pc' \in Drops /\ cur'.s = mem.pending.s)
  <2>1. IF mem.pending = NoPending THEN pc' = otherwise ELSE pc' = drop /\ cur'.s = mem.pending.s
    BY <1>3, <1>4, DropEffect
  <2>2. NoPending.s = None /\ None \notin Sessions
    BY NoneAssumption DEF NoPending
  <2>3. QED
    BY <2>1, <2>2
<1>5. \/ mem'.pending.s = mem.pending.s
      \/ mem.pending.s \notin Sessions
      \/ (pc' \in Drops /\ cur'.s = mem.pending.s)
  <2>1. CASE Boot \/ EnsureFolder \/ Save
    BY <2>1 DEF Boot, EnsureFolder, Save, Recorded
  <2>2. CASE Stat \/ ChoosePending \/ Persist
    BY <1>3, <1>4, <2>2 DEF Stat, ChoosePending, Persist, Drops
  <2>3. CASE Hash
    <3>1. PICK state : state = [mem EXCEPT !.files = [mtime |-> info.mtime, sum |-> file.c]]
      OBVIOUS
    <3>2. state \in States /\ state.pending = mem.pending
      BY <1>3, <3>1 DEF ClientTypeOK, States
    <3>3. mem' = mem \/ DropPending(state, "drop_skip", "save")
      BY <2>3, <3>1 DEF Hash
    <3>4. QED
      BY <1>4, <3>2, <3>3 DEF Drops
  <2>4. QED
    BY <2>1, <2>2, <2>3
<1>6. Lost' \subseteq Lost /\ Ghosts' = Ghosts
  BY <1>1, <1>2, <1>5, LostLocal
<1>7. ClosedAnswers'
  BY <1>1, ClosedKept DEF LeakInv
<1>8. QED
  BY <1>1, <1>6, <1>7, LeakKept

\* A file that changed its number of chunks makes the client forget the session.
LEMMA ResumeLeak ==
    ASSUME SInv, SInv', Recorded, LeakInv, Resume
    PROVE  LeakInv'
<1>1. /\ UNCHANGED <<total, handler, listening, waiting, cur>> /\ pc = "resume"
  BY DEF Resume
<1>2. pc \notin Drops /\ ~waiting
  BY <1>1, NotWaiting DEF Calls, Drops
<1>3. ClosedAnswers'
  BY <1>1, ClosedKept DEF LeakInv
<1>4. CASE UNCHANGED mem
  <2>1. Lost' \subseteq Lost /\ Ghosts' = Ghosts
    BY <1>1, <1>2, <1>4, LostLocal
  <2>2. leaks' \in {leaks, leaks + 1}
    BY DEF Resume
  <2>3. QED
    BY <1>3, <2>1, <2>2, LeakKept
<1>5. CASE ~UNCHANGED mem
  <2>1. leaks' = leaks + 1
    BY <1>5 DEF Resume, SessionGone
  <2>2. ASSUME NEW s \in Sessions, Held(s), s # mem.pending.s
        PROVE  Held(s)'
    BY <1>1, <1>2, <2>2 DEF Held
  <2>3. Lost' \subseteq Lost \cup {mem.pending.s} /\ Ghosts' = Ghosts
    BY <1>1, <2>2 DEF Lost, Ghosts, IsOpen
  <2>4. QED
    BY <1>3, <2>1, <2>3, LeakOne
<1>6. QED
  BY <1>4, <1>5

LEMMA SendLeak ==
    ASSUME SInv, SInv', LeakInv, Send
    PROVE  LeakInv'
<1>1. PICK h \in Handlers, r \in Requests :
        /\ handler[h] = Idle /\ handler' = [handler EXCEPT ![h] = r] /\ r = TheRequest
        /\ call' = h /\ listening' = {h} /\ waiting' = TRUE
  BY SendEffect
<1>2. handler'[h] = r /\ \A g \in Handlers : g # h => handler'[g] = handler[g]
  BY <1>1 DEF SInv, TypeOK, ServerTypeOK
<1>3. /\ listening = {} /\ ~waiting /\ UNCHANGED <<pc, mem, total, leaks>>
      /\ pc # "init" => cur' = cur
  BY DEF Send, SInv, Calling
<1>4. r.code = "none" /\ r.step \in {"run", "load"} /\ r # Idle
  BY <1>1, Requested, IdleType DEF Send
<1>5. ClosedAnswers'
  BY <1>2, <1>3, <1>4, ClosedKept DEF LeakInv
<1>6. ASSUME NEW s \in Sessions, Held(s)
      PROVE  Held(s)'
  <2>1. CASE mem.pending.s = s
    BY <1>3, <2>1 DEF Held
  <2>2. CASE pc \in Drops /\ cur.s = s
    BY <1>1, <1>2, <1>3, <1>4, <2>2 DEF Held, Drops
  <2>3. CASE \E g \in Handlers : /\ handler[g] # Idle /\ handler[g].kind = "init"
                                 /\ handler[g].s = s /\ handler[g].code = "ok"
    BY <1>3, <2>3, ToldOnce
  <2>4. QED
    BY <1>6, <2>1, <2>2, <2>3 DEF Held
<1>7. Lost' \subseteq Lost
  BY <1>3, <1>6 DEF Lost, IsOpen
<1>8. Ghosts' \subseteq Ghosts
  BY <1>1, <1>2, <1>3 DEF Ghosts
<1>9. QED
  BY <1>3, <1>5, <1>7, <1>8, LeakKept

\* The call is over: an init still running goes on without a client.
LEMMA HangUpGhosts ==
    ASSUME SInv, waiting, HangUp
    PROVE  /\ Ghosts' \subseteq Ghosts \cup {call}
           /\ pc # "init" \/ handler[call].step = "done" => Ghosts' \subseteq Ghosts
           /\ ClosedAnswers /\ UNCHANGED total => ClosedAnswers'
           /\ \A g \in Handlers : handler'[g] \in {handler[g], Idle}
           /\ \A g \in Handlers : g # call => handler'[g] = handler[g]
<1>1. /\ call \in Handlers /\ listening = {call} /\ listening' = {} /\ handler[call] # Idle
      /\ pc \in Calls /\ handler[call].kind = KindOf(pc)
  BY DEF SInv, Calling, HangUp
<1>2. \A g \in Handlers :
        handler'[g] = IF g = call /\ handler[g].step = "done" THEN Idle ELSE handler[g]
  BY <1>1 DEF HangUp, SInv, TypeOK, ServerTypeOK
<1>3. Ghosts' \subseteq Ghosts \cup {call}
  BY <1>1, <1>2 DEF Ghosts
<1>4. call \in Ghosts' => pc = "init" /\ handler[call].step # "done"
  BY <1>1, <1>2, CallKinds DEF Ghosts
<1>5. ClosedAnswers /\ UNCHANGED total => ClosedAnswers'
  BY <1>2, ClosedKept
<1>6. QED
  BY <1>2, <1>3, <1>4, <1>5

\* A session is lost with the end of a call only when the call told of it, was to
\* drop it, or made the client forget it.
LEMMA AnswerLost ==
    ASSUME SInv, ~waiting' \/ UNCHANGED <<waiting, call>>, UNCHANGED total,
           \A g \in Handlers : g # call => handler'[g] = handler[g],
           NEW s \in Sessions, Held(s), ~Held(s)'
    PROVE  \/ s = mem.pending.s /\ mem'.pending.s # s
           \/ pc \in Drops /\ s = cur.s /\ ~(waiting /\ handler[call].code = "error")
           \/ pc = "init" /\ waiting /\ s = handler[call].s /\ handler[call].code = "ok"
              /\ handler[call].step = "done"
  BY ToldOnce DEF Held

LEMMA ReadAnswerLeak ==
    ASSUME SInv, SInv', Recorded, LeakInv, ReadAnswer
    PROVE  LeakInv'
<1>1. /\ waiting /\ HangUp /\ handler[call].step = "done" /\ ~waiting' /\ pc \in Calls
      /\ call \in Handlers /\ handler[call] # Idle /\ handler[call] \in Requests
      /\ handler[call].kind = KindOf(pc) /\ RequestShape(handler[call])
      /\ pc # "init" => handler[call].s = cur.s
      /\ UNCHANGED <<total, leaks, disk>>
  BY DEF ReadAnswer, HangUp, SInv, Calling, TypeOK, ServerTypeOK, HandlerShapes
<1>2. PICK code, s, g : code = handler[call].code /\ s = handler[call].s /\ g = handler[call].got
  OBVIOUS
<1>3. OnAnswer(code, s, g) /\ code \in {"ok", "gone", "error"}
  BY <1>1, <1>2, RequestType DEF ReadAnswer, RequestShape, Codes
<1>4. ASSUME NEW x \in Sessions, Held(x), ~Held(x)'
      PROVE  total[x] = 0
  <2>1. \/ x = mem.pending.s /\ mem'.pending.s # x
        \/ pc \in Drops /\ x = cur.s /\ ~(waiting /\ code = "error")
        \/ pc = "init" /\ x = s /\ code = "ok"
    BY <1>1, <1>2, <1>4, HangUpGhosts, AnswerLost
  <2>2. CASE pc = "init"
    <3>1. mem.pending.s = None /\ x # None
      BY <2>2, NoneAssumption DEF Recorded, NoPending
    <3>2. x = s /\ code = "ok"
      BY <2>1, <2>2, <3>1 DEF Drops
    <3>3. mem' = [mem EXCEPT !.pending =
                    [s |-> s, n |-> cur.n, size |-> info.size, sum |-> sum]]
      BY <1>3, <2>2, <3>2 DEF OnAnswer, Drops
    <3>4. mem'.pending.s = x
      BY <3>2, <3>3 DEF SInv, TypeOK, ClientTypeOK, States
    <3>5. QED
      BY <1>4, <3>4 DEF Held
  <2>3. CASE pc \in Drops
    <3>1. mem.pending.s = None /\ x # None
      BY <2>3, NoneAssumption DEF Recorded, NoPending
    <3>2. x = cur.s /\ code # "error"
      BY <1>1, <2>1, <2>3, <3>1 DEF Drops
    <3>3. handler[call].kind = "abort" /\ handler[call].s = x
      BY <1>1, <2>3, <3>2, CallKinds DEF Drops
    <3>4. QED
      BY <1>1, <1>2, <1>3, <3>2, <3>3 DEF LeakInv, ClosedAnswers
  <2>4. CASE pc \notin Drops \cup {"init"}
    <3>1. x = mem.pending.s /\ mem' # mem
      BY <2>1, <2>4
    <3>2. code = "gone" \/ (code = "ok" /\ pc = "complete")
      BY <1>3, <2>4, <3>1 DEF OnAnswer, Recheck
    <3>3. x = cur.s /\ handler[call].s = x
      BY <1>1, <2>4, <3>1 DEF Recorded, Transfers, Calls
    <3>4. handler[call].kind # "init" /\ (pc = "complete" => handler[call].kind = "complete")
      BY <1>1, <2>4, CallKinds
    <3>5. QED
      BY <1>1, <1>2, <3>2, <3>3, <3>4 DEF LeakInv, ClosedAnswers
  <2>5. QED
    BY <2>2, <2>3, <2>4
<1>5. Lost' \subseteq Lost
  BY <1>1, <1>4 DEF Lost, IsOpen
<1>6. Ghosts' \subseteq Ghosts /\ ClosedAnswers'
  BY <1>1, HangUpGhosts DEF LeakInv
<1>7. QED
  BY <1>1, <1>5, <1>6, LeakKept

\* What an error in the place of an answer makes the client lose.
LEMMA ErrorLost ==
    ASSUME SInv, Recorded, pc \in Calls, OnAnswer("error", None, {}), ~waiting',
           UNCHANGED total,
           \A g \in Handlers : g # call => handler'[g] = handler[g],
           NEW s \in Sessions, Held(s), ~Held(s)'
    PROVE  \/ pc \in Drops /\ s = cur.s
           \/ pc = "init" /\ waiting /\ s = handler[call].s /\ handler[call].step = "done"
<1>1. mem' = mem
  BY DEF OnAnswer, Recheck
<1>2. QED
  BY <1>1, AnswerLost

LEMMA LoseAnswerLeak ==
    ASSUME SInv, SInv', Recorded, LeakInv, LoseAnswer
    PROVE  LeakInv'
<1>1. /\ waiting /\ HangUp /\ ~waiting' /\ pc \in Calls /\ OnAnswer("error", None, {})
      /\ UNCHANGED total /\ leaks' = IF pc \in {"init"} \cup Drops THEN leaks + 1 ELSE leaks
  BY DEF LoseAnswer, HangUp, SInv, Calling, Fault
<1>2. ClosedAnswers'
  BY <1>1, HangUpGhosts DEF LeakInv
<1>3. ASSUME NEW s \in Sessions, s \in Lost' \ Lost
      PROVE  \/ pc \in Drops /\ s = cur.s
             \/ pc = "init" /\ s = handler[call].s /\ handler[call].step = "done"
  <2>1. Held(s) /\ ~Held(s)'
    BY <1>1, <1>3 DEF Lost, IsOpen
  <2>2. QED
    BY <1>1, <2>1, HangUpGhosts, ErrorLost
<1>4. CASE pc \in Drops
  <2>1. Lost' \subseteq Lost \cup {cur.s}
    BY <1>3, <1>4 DEF Lost, Drops
  <2>2. Ghosts' \subseteq Ghosts
    BY <1>1, <1>4, HangUpGhosts DEF Drops
  <2>3. QED
    BY <1>1, <1>2, <1>4, <2>1, <2>2, LeakOne
<1>5. CASE pc = "init" /\ handler[call].step = "done"
  <2>1. Lost' \subseteq Lost \cup {handler[call].s}
    BY <1>3, <1>5 DEF Lost, Drops
  <2>2. Ghosts' \subseteq Ghosts
    BY <1>1, <1>5, HangUpGhosts
  <2>3. QED
    BY <1>1, <1>2, <1>5, <2>1, <2>2, LeakOne
<1>6. CASE pc = "init" /\ handler[call].step # "done"
  <2>1. Lost' \subseteq Lost
    BY <1>3, <1>6 DEF Lost, Drops
  <2>2. Ghosts' \subseteq Ghosts \cup {call}
    BY <1>1, HangUpGhosts
  <2>3. QED
    BY <1>1, <1>2, <1>6, <2>1, <2>2, LeakOne
<1>7. CASE pc \notin {"init"} \cup Drops
  <2>1. Lost' \subseteq Lost
    BY <1>3, <1>7 DEF Lost
  <2>2. Ghosts' \subseteq Ghosts
    BY <1>1, <1>7, HangUpGhosts
  <2>3. QED
    BY <1>1, <1>2, <1>7, <2>1, <2>2, LeakKept
<1>8. QED
  BY <1>4, <1>5, <1>6, <1>7

LEMMA LoseRequestLeak ==
    ASSUME SInv, SInv', Recorded, LeakInv, LoseRequest
    PROVE  LeakInv'
<1>1. /\ ~waiting /\ ~waiting' /\ pc \in Calls /\ OnAnswer("error", None, {})
      /\ UNCHANGED <<total, handler, listening>>
      /\ leaks' = IF pc \in Drops THEN leaks + 1 ELSE leaks
  BY DEF LoseRequest, Fault
<1>2. ClosedAnswers' /\ Ghosts' = Ghosts
  BY <1>1, ClosedKept DEF LeakInv, Ghosts
<1>3. ASSUME NEW s \in Sessions, s \in Lost' \ Lost
      PROVE  pc \in Drops /\ s = cur.s
  <2>1. Held(s) /\ ~Held(s)'
    BY <1>1, <1>3 DEF Lost, IsOpen
  <2>2. QED
    BY <1>1, <2>1, ErrorLost
<1>4. CASE pc \in Drops
  <2>1. Lost' \subseteq Lost \cup {cur.s}
    BY <1>3 DEF Lost
  <2>2. QED
    BY <1>1, <1>2, <1>4, <2>1, LeakOne
<1>5. CASE pc \notin Drops
  <2>1. Lost' \subseteq Lost
    BY <1>3, <1>5 DEF Lost
  <2>2. QED
    BY <1>1, <1>2, <1>5, <2>1, LeakKept
<1>6. QED
  BY <1>4, <1>5

LEMMA CrashLeak ==
    ASSUME SInv, SInv', Recorded, LeakInv, Crash
    PROVE  LeakInv'
<1>1. /\ ~waiting' /\ UNCHANGED total /\ mem' = disk /\ pc' = "off"
      /\ IF waiting THEN HangUp ELSE UNCHANGED <<listening, handler>>
      /\ leaks' = IF pc \in {"init"} \cup Drops \/ mem.pending # disk.pending
                  THEN leaks + 1 ELSE leaks
  BY DEF Crash, HangUp, Fault
<1>2. /\ ClosedAnswers' /\ Ghosts' \subseteq Ghosts \cup {call}
      /\ pc # "init" \/ ~waiting \/ handler[call].step = "done" => Ghosts' \subseteq Ghosts
      /\ \A g \in Handlers : g # call => handler'[g] = handler[g]
  <2>1. CASE waiting
    BY <1>1, <2>1, HangUpGhosts DEF LeakInv
  <2>2. CASE ~waiting
    BY <1>1, <2>2, ClosedKept DEF LeakInv, Ghosts
  <2>3. QED
    BY <2>1, <2>2
<1>3. ASSUME NEW s \in Sessions, s \in Lost' \ Lost
      PROVE  \/ s = mem.pending.s /\ mem.pending # disk.pending
             \/ pc \in Drops /\ s = cur.s
             \/ pc = "init" /\ waiting /\ s = handler[call].s /\ handler[call].step = "done"
  <2>1. Held(s) /\ ~Held(s)'
    BY <1>1, <1>3 DEF Lost, IsOpen
  <2>2. QED
    BY <1>1, <1>2, <2>1, AnswerLost
<1>4. pc \in {"init"} \cup Drops => mem.pending.s \notin Sessions
  BY NoneAssumption DEF Recorded, NoPending
<1>5. CASE pc \in Drops
  <2>1. Lost' \subseteq Lost \cup {cur.s}
    BY <1>3, <1>4, <1>5 DEF Lost, Drops
  <2>2. QED
    BY <1>1, <1>2, <1>5, <2>1, LeakOne DEF Drops
<1>6. CASE pc = "init" /\ waiting /\ handler[call].step # "done"
  <2>1. Lost' \subseteq Lost
    BY <1>3, <1>4, <1>6 DEF Lost, Drops
  <2>2. QED
    BY <1>1, <1>2, <1>6, <2>1, LeakOne
<1>7. CASE pc = "init" /\ (~waiting \/ handler[call].step = "done")
  <2>1. Lost' \subseteq Lost \cup {handler[call].s}
    BY <1>3, <1>4, <1>7 DEF Lost, Drops
  <2>2. QED
    BY <1>1, <1>2, <1>7, <2>1, LeakOne
<1>8. CASE pc \notin {"init"} \cup Drops
  <2>1. Ghosts' \subseteq Ghosts
    BY <1>2, <1>8
  <2>2. CASE mem.pending # disk.pending
    <3>1. Lost' \subseteq Lost \cup {mem.pending.s}
      BY <1>3, <1>8 DEF Lost
    <3>2. QED
      BY <1>1, <1>2, <2>1, <2>2, <3>1, LeakOne
  <2>3. CASE mem.pending = disk.pending
    <3>1. Lost' \subseteq Lost
      BY <1>3, <1>8, <2>3 DEF Lost
    <3>2. QED
      BY <1>1, <1>2, <1>8, <2>1, <2>3, <3>1, LeakKept
  <2>4. QED
    BY <2>2, <2>3
<1>9. QED
  BY <1>5, <1>6, <1>7, <1>8

LEMMA StepFrame ==
    ASSUME SInv, NEW h \in Handlers, ServerStep(h) \/ HandlerFails(h)
    PROVE  /\ handler[h] # Idle /\ handler[h] \in Requests /\ RequestShape(handler[h])
           /\ handler[h].step # "done"
           /\ \A g \in Handlers : g # h => handler'[g] = handler[g]
<1>1. handler[h] # Idle /\ handler[h].step # "done"
  BY ServesType DEF ServerStep, LoadSession, InitSession, SaveChunk, ReportStatus, AppendChunk,
                    RecordUpload, DiscardSession, HandlerFails, Serves
<1>2. handler[h] \in Requests /\ RequestShape(handler[h])
  BY <1>1 DEF SInv, TypeOK, ServerTypeOK, HandlerShapes
<1>3. CASE InitSession(h)
  BY <1>1, <1>2, <1>3 DEF InitSession, Answer, SInv, TypeOK, ServerTypeOK
<1>4. CASE ~InitSession(h)
  <2>1. PICK r \in Requests \cup {Idle} : Moves(h, r)
    BY <1>4, HandlerMoves
  <2>2. QED
    BY <1>1, <1>2, <2>1 DEF Moves, SInv, TypeOK, ServerTypeOK
<1>5. QED
  BY <1>3, <1>4

LEMMA AnswerGives ==
    ASSUME SInv, NEW h \in Handlers, handler[h] # Idle, NEW code \in Codes,
           NEW s \in Sessions \cup {None}, NEW g \in SUBSET Chunks, Answer(h, code, s, g)
    PROVE  handler'[h] # Idle => /\ handler'[h].step = "done" /\ handler'[h].code = code
                                 /\ handler'[h].s = s /\ handler'[h].kind = handler[h].kind
<1>1. /\ handler[h] \in Requests
      /\ \E r \in Requests \cup {Idle} :
           /\ handler' = [handler EXCEPT ![h] = r]
           /\ r = IF h \in listening THEN Done(handler[h], code, s, g) ELSE Idle
  BY AnswerEffect DEF SInv, TypeOK
<1>2. handler'[h] = IF h \in listening THEN Done(handler[h], code, s, g) ELSE Idle
  BY <1>1 DEF SInv, TypeOK, ServerTypeOK
<1>3. QED
  BY <1>1, <1>2, DoneType

\* An abort does not fail while the server runs.
LEMMA AbortAnswer ==
    ASSUME SInv, NEW h \in Handlers, ServerStep(h) \/ HandlerFails(h),
           handler[h].kind = "abort", handler[h].code # "error"
    PROVE  handler'[h] = Idle \/ handler'[h].code # "error"
<1>1. handler[h] # Idle /\ handler[h] \in Requests /\ RequestShape(handler[h])
  BY StepFrame
<1>2. handler[h].s \in Sessions \cup {None}
  BY <1>1, RequestType
<1>3. \/ \E code \in {"gone", "ok"} : Answer(h, code, handler[h].s, {})
      \/ Proceed(h, "discard")
  BY <1>1 DEF ServerStep, LoadSession, InitSession, SaveChunk, ReportStatus, AppendChunk,
              RecordUpload, DiscardSession, HandlerFails, Serves
<1>4. ASSUME NEW code \in {"gone", "ok"}, Answer(h, code, handler[h].s, {})
      PROVE  handler'[h] = Idle \/ handler'[h].code # "error"
  <2>1. code \in Codes /\ {} \in SUBSET Chunks
    BY DEF Codes
  <2>2. QED
    BY <1>1, <1>2, <1>4, <2>1, AnswerGives
<1>5. CASE Proceed(h, "discard")
  <2>1. handler'[h] = [handler[h] EXCEPT !.step = "discard"]
    BY <1>5 DEF Proceed, SInv, TypeOK, ServerTypeOK
  <2>2. QED
    BY <1>1, <2>1, StepSet DEF Steps
<1>6. QED
  BY <1>3, <1>4, <1>5

LEMMA KindKept ==
    ASSUME SInv, NEW h \in Handlers, ServerStep(h) \/ HandlerFails(h), handler'[h] # Idle
    PROVE  handler'[h].kind = handler[h].kind
<1>1. CASE InitSession(h)
  <2>1. /\ handler[h] # Idle /\ handler[h] \in Requests
    BY StepFrame
  <2>2. \E s \in Sessions \cup {None}, code \in {"ok", "gone"} : Answer(h, code, s, {})
    BY <1>1 DEF InitSession, SInv, TypeOK, ServerTypeOK
  <2>3. PICK s \in Sessions \cup {None}, code \in {"ok", "gone"} : Answer(h, code, s, {})
    BY <2>2
  <2>4. code \in Codes /\ {} \in SUBSET Chunks
    BY DEF Codes
  <2>5. QED
    BY <2>1, <2>3, <2>4, AnswerGives
<1>2. CASE ~InitSession(h)
  <2>1. PICK r \in Requests \cup {Idle} : Moves(h, r)
    BY <1>2, HandlerMoves
  <2>2. QED
    BY <2>1 DEF Moves, SInv, TypeOK, ServerTypeOK
<1>3. QED
  BY <1>1, <1>2

LEMMA HeldKept ==
    ASSUME SInv, ClientKept, NEW h \in Handlers, ServerStep(h) \/ HandlerFails(h),
           NEW s \in Sessions, Held(s)
    PROVE  Held(s)'
<1>1. CASE mem.pending.s = s
  BY <1>1 DEF Held, ClientKept
<1>2. CASE pc \in Drops /\ cur.s = s /\ ~(waiting /\ handler[call].code = "error")
  <2>1. waiting => handler[call].kind = "abort" /\ call \in Handlers
    BY <1>2 DEF SInv, Calling, KindOf, Drops
  <2>2. waiting => handler'[call] # Idle
    <3>1. SInv => (waiting => handler[call] # Idle /\ call \in listening)
      BY DEF SInv, Calling
    <3>2. waiting /\ call = h => handler'[h] # Idle
      <4>1. ASSUME waiting, call = h, InitSession(h)
            PROVE  FALSE
        BY <2>1, <4>1 DEF InitSession, Serves
      <4>2. ASSUME waiting, call = h, ~InitSession(h)
            PROVE  handler'[h] # Idle
        <5>1. PICK r \in Requests \cup {Idle} : Moves(h, r)
          BY <4>2, HandlerMoves
        <5>2. QED
          BY <3>1, <4>2, <5>1 DEF Moves, SInv, TypeOK, ServerTypeOK
      <4>3. QED
        BY <4>1, <4>2
    <3>3. QED
      BY <2>1, <3>1, <3>2, StepFrame
  <2>3. ~(waiting /\ handler'[call].code = "error")
    BY <1>2, <2>1, <2>2, StepFrame, AbortAnswer
  <2>4. QED
    BY <1>2, <2>3 DEF Held, ClientKept
<1>3. CASE \E g \in Handlers : /\ handler[g] # Idle /\ handler[g].kind = "init"
                               /\ handler[g].s = s /\ handler[g].code = "ok"
  <2>1. PICK g \in Handlers : /\ handler[g] # Idle /\ handler[g].kind = "init"
                              /\ handler[g].s = s /\ handler[g].code = "ok"
    BY <1>3
  <2>2. handler'[g] = handler[g]
    BY <2>1, ToldOnce, StepFrame
  <2>3. QED
    BY <2>1, <2>2 DEF Held
<1>4. QED
  BY <1>1, <1>2, <1>3 DEF Held

\* No handler opens a session but InitSession's, and none forgets one.
LEMMA MovesLost ==
    ASSUME SInv, ClientKept, NEW h \in Handlers, ServerStep(h) \/ HandlerFails(h),
           ~InitSession(h)
    PROVE  Lost' \subseteq Lost /\ Ghosts' \subseteq Ghosts
<1>1. PICK r \in Requests \cup {Idle} : Moves(h, r)
  BY HandlerMoves
<1>2. SessionsKept(h)
  BY HandlerMoves
<1>3. Lost' \subseteq Lost
  BY <1>2, HeldKept DEF Lost, IsOpen, SessionsKept
<1>4. handler'[h] = r /\ \A g \in Handlers : g # h => handler'[g] = handler[g]
  BY <1>1, StepFrame DEF Moves, SInv, TypeOK, ServerTypeOK
<1>5. h \in Ghosts' => h \in Ghosts
  <2>1. SUFFICES ASSUME h \in Ghosts' PROVE h \in Ghosts
    OBVIOUS
  <2>2. r # Idle /\ r.kind = "init" /\ handler[h].kind = "init" /\ h \notin listening
    BY <1>1, <1>4, <2>1 DEF Ghosts, Moves, ClientKept
  <2>3. handler[h].step = "run"
    BY <2>2, StepFrame DEF RequestShape, StepsOf
  <2>4. QED
    BY <2>2, <2>3, StepFrame DEF Ghosts
<1>6. QED
  BY <1>3, <1>4, <1>5 DEF Ghosts, ClientKept

\* What the server says of a session is so.
LEMMA MovesClosed ==
    ASSUME SInv, ClientKept, ClosedAnswers, NEW h \in Handlers, ServerStep(h) \/ HandlerFails(h),
           ~InitSession(h)
    PROVE  ClosedAnswers'
<1>1. handler[h] # Idle /\ handler[h] \in Requests /\ RequestShape(handler[h])
      /\ \A g \in Handlers : g # h => handler'[g] = handler[g]
  BY StepFrame
<1>2. SessionsKept(h)
  BY HandlerMoves
<1>3. handler[h].s \in Sessions \cup {None}
  BY <1>1, RequestType
<1>4. ASSUME NEW g \in Handlers, g # h, handler'[g] # Idle, handler'[g].step = "done",
             handler'[g].kind # "init",
             \/ handler'[g].code = "gone"
             \/ handler'[g].code = "ok" /\ handler'[g].kind \in {"complete", "abort"}
      PROVE  total'[handler'[g].s] = 0
  <2>1. handler'[g] = handler[g] /\ handler[g].s \in Sessions
    BY <1>1, <1>4 DEF SInv, HandlerShapes, RequestShape
  <2>2. total[handler[g].s] = 0
    BY <1>4, <2>1 DEF ClosedAnswers
  <2>3. QED
    BY <1>2, <2>1, <2>2 DEF SessionsKept
<1>5. ASSUME handler'[h] # Idle, handler'[h].step = "done", handler'[h].kind # "init",
             \/ handler'[h].code = "gone"
             \/ handler'[h].code = "ok" /\ handler'[h].kind \in {"complete", "abort"}
      PROVE  total'[handler'[h].s] = 0
  <2>1. PICK r \in Requests \cup {Idle} : Moves(h, r)
    BY HandlerMoves
  <2>2. /\ handler'[h] = r /\ r # Idle /\ r.kind = handler[h].kind /\ r.s = handler[h].s
        /\ handler[h].kind # "init" /\ handler[h].s \in Sessions
    BY <1>1, <1>5, <2>1 DEF Moves, SInv, TypeOK, ServerTypeOK, RequestShape
  <2>3. ASSUME NEW code \in Codes, NEW g \in SUBSET Chunks, Answer(h, code, handler[h].s, g)
        PROVE  handler'[h].code = code
    BY <1>1, <1>3, <1>5, <2>3, AnswerGives
  <2>4. CASE LoadSession(h)
    <3>1. CASE IsOpen(handler[h].s)
      <4>1. \E step \in Steps \ {"done"} : Proceed(h, step)
        BY <2>4, <3>1 DEF LoadSession, Steps
      <4>2. PICK step \in Steps \ {"done"} : Proceed(h, step)
        BY <4>1
      <4>3. handler'[h] = [handler[h] EXCEPT !.step = step]
        BY <4>2 DEF Proceed, SInv, TypeOK, ServerTypeOK
      <4>4. handler'[h].step = step
        BY <1>1, <4>3, StepSet
      <4>5. QED
        BY <1>5, <4>4
    <3>2. CASE ~IsOpen(handler[h].s)
      <4>1. total[handler[h].s] \in Nat /\ UNCHANGED total
        BY <2>2, <2>4 DEF LoadSession, SInv, TypeOK, ServerTypeOK
      <4>2. QED
        BY <2>2, <3>2, <4>1 DEF IsOpen
    <3>3. QED
      BY <3>1, <3>2
  <2>5. CASE DiscardSession(h)
    BY <2>2, <2>5 DEF DiscardSession, SInv, TypeOK, ServerTypeOK
  <2>6. CASE Errs(h)
    BY <1>5, <2>3, <2>6 DEF Errs, Codes
  <2>7. CASE (SaveChunk(h) \/ AppendChunk(h)) /\ ~Errs(h)
    <3>1. CASE SaveChunk(h)
      BY <1>5, <2>2, <2>3, <2>7, <3>1 DEF SaveChunk, Serves, Codes
    <3>2. CASE AppendChunk(h)
      <4>1. PICK m \in 0..MaxChunks, n \in Chunks, s \in Sessions, c \in Contents, q \in Requests :
              AppendsTo(h, m, n, s, c, q)
        BY <2>7, <3>2, AppendEffect
      <4>2. handler'[h].step # "done"
        BY <4>1 DEF AppendsTo, SInv, TypeOK, ServerTypeOK
      <4>3. QED
        BY <1>5, <4>2
    <3>3. QED
      BY <2>7, <3>1, <3>2
  <2>8. CASE ReportStatus(h)
    <3>1. total[handler[h].s] \in 0..MaxChunks
      BY <2>2 DEF SInv, TypeOK, ServerTypeOK
    <3>2. Received(handler[h].s) \in SUBSET Chunks
      BY <3>1, SizeAssumption DEF Received, Chunks
    <3>3. QED
      BY <1>5, <2>2, <2>3, <2>8, <3>2 DEF ReportStatus, Serves, Codes
  <2>9. CASE RecordUpload(h)
    <3>1. handler'[h] = [handler[h] EXCEPT !.step = "discard"]
      BY <2>9 DEF RecordUpload, Proceed, SInv, TypeOK, ServerTypeOK
    <3>2. handler'[h].step = "discard"
      BY <1>1, <3>1, StepSet DEF Steps
    <3>3. QED
      BY <1>5, <3>2
  <2>10. QED
    BY <2>4, <2>5, <2>6, <2>7, <2>8, <2>9 DEF ServerStep, HandlerFails
<1>6. QED
  BY <1>4, <1>5 DEF ClosedAnswers

LEMMA InitSessionLeak ==
    ASSUME SInv, SInv', LeakInv, ClientKept, leaks' \in {leaks, leaks + 1},
           NEW h \in Handlers, InitSession(h)
    PROVE  LeakInv'
<1>1. /\ handler[h] # Idle /\ handler[h] \in Requests /\ handler[h].kind = "init"
      /\ handler[h].step = "run" /\ ServerStep(h)
      /\ \A g \in Handlers : g # h => handler'[g] = handler[g]
  BY ServesType, StepFrame DEF InitSession, Serves, ServerStep
<1>2. PICK code \in {"ok", "gone"}, s \in Sessions \cup {None} :
        /\ Answer(h, code, s, {}) /\ (s \in Sessions => code = "ok")
        /\ \A x \in Sessions : x # s => total'[x] = total[x]
        /\ \A g \in Handlers : g # h /\ handler[g] # Idle /\ handler[g].kind # "init" => handler[g].s # s
  <2>1. CASE folder
    <3>1. PICK s \in unused : /\ total' = [total EXCEPT ![s] = handler[h].i]
                              /\ Answer(h, "ok", s, {})
      BY <2>1 DEF InitSession
    <3>2. /\ s \in Sessions
          /\ \A x \in Sessions : x # s => total'[x] = total[x]
          /\ \A g \in Handlers : handler[g] # Idle => handler[g].s # s
      BY <3>1 DEF SInv, TypeOK, ServerTypeOK, FreshSessions
    <3>3. QED
      BY <3>1, <3>2
  <2>2. CASE ~folder
    <3>1. Answer(h, "gone", None, {}) /\ UNCHANGED total
      BY <2>2 DEF InitSession
    <3>2. \A g \in Handlers : handler[g] # Idle /\ handler[g].kind # "init" => handler[g].s # None
      BY NoneAssumption DEF SInv, HandlerShapes, RequestShape
    <3>3. QED
      BY <3>1, <3>2, NoneAssumption
  <2>3. QED
    BY <2>1, <2>2
<1>3. PICK r \in Requests \cup {Idle} :
        /\ handler' = [handler EXCEPT ![h] = r]
        /\ r = IF h \in listening THEN Done(handler[h], code, s, {}) ELSE Idle
  BY <1>1, <1>2, AnswerEffect DEF SInv, TypeOK, Codes
<1>4. handler'[h] = r
  BY <1>3 DEF SInv, TypeOK, ServerTypeOK
<1>5. h \in listening => /\ r # Idle /\ r.kind = "init" /\ r.s = s /\ r.code = code
                         /\ r.step = "done"
  <2>1. code \in Codes /\ {} \in SUBSET Chunks
    BY <1>2 DEF Codes
  <2>2. QED
    BY <1>1, <1>3, <2>1, DoneType, IdleType
<1>6. ClosedAnswers'
  <2>1. ASSUME NEW g \in Handlers, handler'[g] # Idle, handler'[g].step = "done",
               handler'[g].kind # "init",
               \/ handler'[g].code = "gone"
               \/ handler'[g].code = "ok" /\ handler'[g].kind \in {"complete", "abort"}
        PROVE  total'[handler'[g].s] = 0
    <3>1. g # h
      BY <1>3, <1>4, <1>5, <2>1
    <3>2. handler'[g] = handler[g]
      BY <1>1, <3>1
    <3>3. handler[g].s \in Sessions /\ handler[g].s # s
      BY <1>2, <2>1, <3>1, <3>2 DEF SInv, HandlerShapes, RequestShape
    <3>4. total[handler[g].s] = 0
      BY <2>1, <3>2 DEF LeakInv, ClosedAnswers
    <3>5. QED
      BY <1>2, <3>2, <3>3, <3>4
  <2>2. QED
    BY <2>1 DEF ClosedAnswers
<1>7. \A g \in Handlers : g \in Ghosts' => g \in Ghosts /\ g # h
  BY <1>1, <1>3, <1>4, <1>5 DEF Ghosts, ClientKept
<1>8. ASSUME NEW x \in Sessions, x \in Lost', x \notin Lost
      PROVE  x = s /\ ~Held(s)' /\ code = "ok"
  <2>1. ~Held(x) /\ ~Held(x)'
    BY <1>1, <1>8, HeldKept DEF Lost, IsOpen
  <2>2. ~IsOpen(x) /\ IsOpen(x)'
    BY <1>8, <2>1 DEF Lost
  <2>3. x = s
    BY <1>2, <2>2 DEF IsOpen
  <2>4. QED
    BY <1>2, <2>1, <2>2, <2>3
<1>9. CASE h \in listening
  <2>1. code = "ok" /\ s \in Sessions => Held(s)'
    BY <1>4, <1>5, <1>9 DEF Held
  <2>2. Lost' \subseteq Lost
    BY <1>8, <2>1 DEF Lost
  <2>3. QED
    BY <1>6, <1>7, <2>2, LeakKept DEF Ghosts
<1>10. CASE h \notin listening
  <2>1. h \in Ghosts /\ Ghosts' \subseteq Ghosts \ {h}
    BY <1>1, <1>7, <1>10 DEF Ghosts
  <2>2. Lost' \subseteq Lost \cup {s}
    BY <1>8 DEF Lost
  <2>3. QED
    BY <1>6, <2>1, <2>2, GhostOpens
<1>11. QED
  BY <1>9, <1>10

\* The server exits: an open session is lost with the answer that told of it, or with
\* the abort that did not reach it.
LEMMA ExitsLeak ==
    ASSUME SInv, SInv', LeakInv, ClientKept, ServerExits,
           leaks' = IF waiting /\ pc \in {"init"} \cup Drops THEN leaks + 1 ELSE leaks
    PROVE  LeakInv'
<1>1. UNCHANGED <<total, mem, pc, cur, waiting, call, listening>>
  BY DEF ServerExits, ClientKept
<1>2. ClosedAnswers'
  <2>1. \A h \in Handlers : \/ handler'[h] = Idle
                            \/ handler'[h] # Idle /\ handler'[h].code = "error"
    BY ExitsEffect, IdleType
  <2>2. QED
    BY <1>1, <2>1, ClosedKept DEF LeakInv
<1>3. Ghosts' \subseteq Ghosts
  BY <1>1, ExitsEffect DEF Ghosts
<1>4. ASSUME NEW s \in Sessions, s \in Lost', s \notin Lost
      PROVE  /\ waiting /\ pc \in {"init"} \cup Drops
             /\ s = IF pc = "init" THEN handler[call].s ELSE cur.s
  <2>1. Held(s) /\ ~Held(s)'
    BY <1>1, <1>4 DEF Lost, IsOpen
  <2>2. mem.pending.s # s
    BY <1>1, <2>1 DEF Held
  <2>3. CASE pc \in Drops /\ cur.s = s
    BY <1>1, <2>1, <2>3 DEF Held, Drops
  <2>4. CASE \E g \in Handlers : /\ handler[g] # Idle /\ handler[g].kind = "init"
                                 /\ handler[g].s = s /\ handler[g].code = "ok"
    BY <2>4, ToldOnce
  <2>5. QED
    BY <2>1, <2>2, <2>3, <2>4 DEF Held
<1>5. CASE waiting /\ pc \in {"init"} \cup Drops
  <2>1. PICK x : x = IF pc = "init" THEN handler[call].s ELSE cur.s
    OBVIOUS
  <2>2. Lost' \subseteq Lost \cup {x}
    BY <1>4, <2>1 DEF Lost
  <2>3. QED
    BY <1>2, <1>3, <1>5, <2>2, LeakOne
<1>6. CASE ~(waiting /\ pc \in {"init"} \cup Drops)
  <2>1. Lost' \subseteq Lost
    BY <1>4, <1>6 DEF Lost
  <2>2. QED
    BY <1>2, <1>3, <1>6, <2>1, LeakKept
<1>7. QED
  BY <1>5, <1>6

LEMMA ServerLeak ==
    ASSUME SInv, SInv', LeakInv, ClientKept, leaks' \in {leaks, leaks + 1},
           NEW h \in Handlers, ServerStep(h) \/ HandlerFails(h)
    PROVE  LeakInv'
<1>1. CASE InitSession(h)
  BY <1>1, InitSessionLeak
<1>2. CASE ~InitSession(h)
  BY <1>2, MovesLost, MovesClosed, LeakKept DEF LeakInv
<1>3. QED
  BY <1>1, <1>2

LEMMA StillLeak ==
    ASSUME SInv, SInv', LeakInv,
           UNCHANGED <<total, handler, listening, mem, pc, cur, waiting, call, leaks>>
    PROVE  LeakInv'
  BY SameHeld, ClosedKept, LeakKept DEF LeakInv

LEMMA NextLeak ==
    ASSUME SInv, Recorded, LeakInv, [Next]_vars
    PROVE  LeakInv'
<1>1. SInv'
  BY NextSInv
<1>2. CASE ClientStep
  BY <1>1, <1>2, PassLeak, ResumeLeak, SendLeak, ReadAnswerLeak DEF ClientStep
<1>3. CASE LoseAnswer \/ LoseRequest \/ Crash
  BY <1>1, <1>3, LoseAnswerLeak, LoseRequestLeak, CrashLeak
<1>4. CASE Edit \/ DeleteFolder \/ UNCHANGED vars
  BY <1>1, <1>4, StillLeak DEF Edit, DeleteFolder, vars
<1>5. CASE \E h \in Handlers : ServerStep(h) /\ UNCHANGED clientVars
  <2>1. PICK h \in Handlers : ServerStep(h) /\ UNCHANGED clientVars
    BY <1>5
  <2>2. ClientKept /\ leaks' = leaks
    BY <2>1 DEF ClientKept, ServerStep, LoadSession, InitSession, SaveChunk, ReportStatus,
                AppendChunk, RecordUpload, DiscardSession
  <2>3. QED
    BY <1>1, <2>1, <2>2, ServerLeak
<1>6. CASE ServerFault
  <2>1. /\ ClientKept /\ leaks' \in {leaks, leaks + 1}
        /\ leaks' = IF waiting /\ pc \in {"init"} \cup Drops THEN leaks + 1 ELSE leaks
    BY <1>6 DEF ServerFault, HandlerFails, ServerExits, Fault, ClientKept
  <2>2. CASE ServerExits
    BY <1>1, <2>1, <2>2, ExitsLeak
  <2>3. ASSUME NEW h \in Handlers, HandlerFails(h)
        PROVE  LeakInv'
    BY <1>1, <2>1, <2>3, ServerLeak
  <2>4. QED
    BY <1>6, <2>2, <2>3 DEF ServerFault
<1>7. QED
  BY <1>2, <1>3, <1>4, <1>5, <1>6 DEF Next

LEMMA InitLeak == Init => LeakInv
<1> SUFFICES ASSUME Init PROVE LeakInv
  OBVIOUS
<1>1. Lost = {} /\ Ghosts = {} /\ leaks = 0
  BY DEF Init, ServerInit, Lost, IsOpen, Ghosts
<1>2. ClosedAnswers
  BY DEF Init, ServerInit, ClosedAnswers
<1>3. QED
  BY <1>1, <1>2, FS_EmptySet DEF LeakInv

\* OrphansBounded: whenever the file is written and whatever fails, no more sessions are
\* forgotten on the server than there were occasions to forget one; a request for a
\* session that outlived its client is counted before it opens one (discardPending,
\* ResumeChunkedUpload, InitChunkUploadHandler).
THEOREM OrphansAreBounded == Spec => []OrphansBounded
<1>1. Init => LeakInv
  BY InitLeak
<1>2. SInv /\ Recorded /\ LeakInv /\ [Next]_vars => LeakInv'
  BY NextLeak
<1>3. SInv /\ LeakInv => OrphansBounded
  <2> SUFFICES ASSUME SInv, LeakInv PROVE OrphansBounded
    OBVIOUS
  <2>1. Orphans \subseteq Lost
    BY DEF Orphans, Lost, Held
  <2>2. /\ Cardinality(Orphans) \in Nat /\ Cardinality(Lost) \in Nat
        /\ Cardinality(Orphans) <= Cardinality(Lost)
    BY <2>1, SubsetCard DEF LeakInv
  <2>3. Cardinality(Ghosts) \in Nat /\ leaks \in Nat
    BY FS_CardinalityType DEF LeakInv, SInv, TypeOK, ClientTypeOK
  <2>4. QED
    BY <2>2, <2>3 DEF LeakInv, OrphansBounded
<1>4. QED
  BY <1>1, <1>2, <1>3, Structure, RecordedAlways, PTL DEF Spec


-----------------------------------------------------------------------------
(* What the client believes, for requests that do not outlive their client *)

LEMMA BeliefTypes ==
    ASSUME SInv
    PROVE  /\ mem.files.mtime \in Nat /\ disk.files.mtime \in Nat /\ info.mtime \in Nat
           /\ file.mtime \in Nat /\ file.c \in Contents /\ mem \in States /\ disk \in States
           /\ mem.files \in [mtime : Nat, sum : Contents \cup {None}]
  BY DEF SInv, TypeOK, ClientTypeOK, States

LEMMA RestedHandlers ==
    ASSUME SInv, NobodyLate, ~waiting
    PROVE  \A h \in Handlers : handler[h] = Idle
  BY DEF SInv, Calling, NobodyLate

\* The call is over and so is its request.
LEMMA HungUpHandlers ==
    ASSUME SInv, NobodyLate, waiting, handler[call].step = "done", HangUp
    PROVE  NobodyLate' /\ Told'
<1>1. call \in Handlers /\ listening = {call} /\ handler' = [handler EXCEPT ![call] = Idle]
  BY DEF SInv, Calling, HangUp
<1>2. \A h \in Handlers : handler'[h] = Idle
  BY <1>1 DEF SInv, TypeOK, ServerTypeOK, NobodyLate
<1>3. QED
  BY <1>2 DEF NobodyLate, Told

\* A step of the client that takes up no call.
LEMMA RecordsKept ==
    ASSUME SInv, BeliefInv, UNCHANGED <<file, accepted>>, NobodyLate', Told',
           info'.mtime \in {0, info.mtime, file.mtime},
           mem'.files \in {mem.files, disk.files} \/ TrueRecord(mem.files)',
           disk'.files \in {mem.files, disk.files}
    PROVE  BeliefInv'
<1>1. info'.mtime <= file.mtime
  BY BeliefTypes DEF BeliefInv
<1>2. TrueRecord(mem.files)' /\ TrueRecord(disk.files)'
  BY DEF BeliefInv, TrueRecord
<1>3. QED
  BY <1>1, <1>2 DEF BeliefInv

LEMMA PassBelief ==
    ASSUME SInv, Recorded, BeliefInv,
           \/ Boot \/ Stat \/ Hash \/ EnsureFolder \/ ChoosePending \/ Persist \/ Resume \/ Save
    PROVE  BeliefInv'
<1>1. UNCHANGED <<handler, listening, file, accepted>>
  BY DEF Boot, Stat, Hash, EnsureFolder, ChoosePending, Persist, Resume, Save
<1>2. NobodyLate' /\ Told'
  BY <1>1 DEF BeliefInv, NobodyLate, Told
<1>3. ASSUME NEW state \in States, NEW drop, NEW otherwise, DropPending(state, drop, otherwise)
      PROVE  mem'.files = state.files
  BY <1>3, ForgetType DEF DropPending
<1>4. CASE Boot \/ EnsureFolder \/ Save
  <2>1. /\ mem' \in {mem, disk} /\ disk' \in {mem, disk}
        /\ info' = info \/ info' = [size |-> 0, mtime |-> 0]
    BY <1>4 DEF Boot, EnsureFolder, Save
  <2>2. QED
    BY <1>1, <1>2, <2>1, RecordsKept
<1>5. CASE Stat
  <2>1. mem'.files = mem.files /\ disk' = disk /\ info'.mtime = file.mtime
    BY <1>3, <1>5, BeliefTypes DEF Stat
  <2>2. QED
    BY <1>1, <1>2, <2>1, RecordsKept
<1>6. CASE Hash
  <2>1. info' = info /\ disk' = disk
    BY <1>6 DEF Hash
  <2>2. CASE mem.files.sum = file.c
    <3>1. [mem EXCEPT !.files = [mtime |-> info.mtime, sum |-> file.c]] \in States
      BY BeliefTypes DEF States
    <3>2. mem'.files = [mtime |-> info.mtime, sum |-> file.c]
      BY <1>3, <1>6, <2>2, <3>1, BeliefTypes DEF Hash, States
    <3>3. TrueRecord(mem.files)'
      BY <1>1, <2>2, <3>2 DEF TrueRecord, BeliefInv
    <3>4. QED
      BY <1>1, <1>2, <2>1, <3>3, RecordsKept
  <2>3. CASE mem.files.sum # file.c
    <3>1. mem' = mem
      BY <1>6, <2>3 DEF Hash
    <3>2. QED
      BY <1>1, <1>2, <2>1, <3>1, RecordsKept
  <2>4. QED
    BY <2>2, <2>3
<1>7. CASE ChoosePending \/ Persist \/ Resume
  <2>1. info' = info /\ disk' \in {mem, disk}
    BY <1>7 DEF ChoosePending, Persist, Resume
  <2>2. mem'.files = mem.files
    BY <1>3, <1>7, BeliefTypes, ForgetType DEF ChoosePending, Persist, Resume, SessionGone
  <2>3. QED
    BY <1>1, <1>2, <2>1, <2>2, RecordsKept
<1>8. QED
  BY <1>4, <1>5, <1>6, <1>7

LEMMA SendBelief ==
    ASSUME SInv, BeliefInv, Send
    PROVE  BeliefInv'
<1>1. PICK h \in Handlers, r \in Requests :
        /\ handler[h] = Idle /\ handler' = [handler EXCEPT ![h] = r] /\ r = TheRequest
        /\ call' = h /\ listening' = {h} /\ waiting' = TRUE
  BY SendEffect
<1>2. ~waiting /\ pc \in Calls /\ UNCHANGED <<file, accepted, mem, disk, info>>
  BY DEF Send
<1>3. handler'[h] = r /\ \A g \in Handlers : g # h => handler'[g] = Idle
  BY <1>1, <1>2, RestedHandlers DEF BeliefInv, SInv, TypeOK, ServerTypeOK
<1>4. r.step \in {"run", "load"}
  BY <1>1, <1>2, Requested
<1>5. NobodyLate' /\ Told'
  BY <1>1, <1>3, <1>4 DEF NobodyLate, Told
<1>6. QED
  BY <1>2, <1>5, RecordsKept

LEMMA AnswerFiles ==
    ASSUME SInv, pc \in Calls, NEW code, NEW s, NEW g, OnAnswer(code, s, g)
    PROVE  \/ mem'.files = mem.files
           \/ /\ pc = "complete" /\ code = "ok"
              /\ mem'.files = [mtime |-> info.mtime, sum |-> sum]
<1>1. mem \in States
  BY BeliefTypes
<1>2. CASE pc = "init"
  BY <1>1, <1>2 DEF OnAnswer, States, Drops
<1>3. CASE pc = "complete" /\ code = "ok"
  BY <1>1, <1>3 DEF OnAnswer, AfterUpload, States, Drops
<1>4. CASE pc # "init" /\ ~(pc = "complete" /\ code = "ok")
  <2>1. mem' = mem \/ mem' = [mem EXCEPT !.pending = NoPending]
    BY <1>4 DEF OnAnswer, Recheck, SessionGone
  <2>2. QED
    BY <1>1, <2>1 DEF States
<1>5. QED
  BY <1>2, <1>3, <1>4

LEMMA ReadAnswerBelief ==
    ASSUME SInv, ContentInv, BeliefInv, ReadAnswer
    PROVE  BeliefInv'
<1>1. /\ waiting /\ handler[call].step = "done" /\ HangUp /\ pc \in Calls
      /\ call \in Handlers /\ handler[call] # Idle /\ handler[call].kind = KindOf(pc)
      /\ OnAnswer(handler[call].code, handler[call].s, handler[call].got)
      /\ UNCHANGED <<file, accepted, disk, info>>
  BY DEF ReadAnswer, SInv, Calling
<1>2. NobodyLate' /\ Told'
  BY <1>1, HungUpHandlers DEF BeliefInv
<1>3. mem'.files = mem.files \/ TrueRecord(mem.files)'
  <2>1. PICK code, s, g : /\ code = handler[call].code /\ s = handler[call].s
                          /\ g = handler[call].got
    OBVIOUS
  <2>2. \/ mem'.files = mem.files
        \/ /\ pc = "complete" /\ code = "ok"
           /\ mem'.files = [mtime |-> info.mtime, sum |-> sum]
    BY <1>1, <2>1, AnswerFiles
  <2>3. ASSUME pc = "complete", code = "ok",
               mem'.files = [mtime |-> info.mtime, sum |-> sum]
        PROVE  TrueRecord(mem.files)'
    <3>1. accepted = Whole(file.c)
      <4>1. handler[call].kind = "complete" /\ handler[call].code = "ok"
        BY <1>1, <2>1, <2>3, CallKinds
      <4>2. QED
        BY <1>1, <4>1 DEF BeliefInv, Told
    <3>2. sum = file.c
      BY <2>3 DEF ContentInv, PassSees, Transfers
    <3>3. QED
      BY <1>1, <2>3, <3>1, <3>2 DEF TrueRecord, BeliefInv, Whole
  <2>4. QED
    BY <2>2, <2>3
<1>4. QED
  BY <1>1, <1>2, <1>3, RecordsKept

LEMMA LossBelief ==
    ASSUME LateRequests = FALSE, SInv, BeliefInv, LoseAnswer \/ LoseRequest \/ Crash
    PROVE  BeliefInv'
<1>1. UNCHANGED <<file, accepted, disk>>
  BY DEF LoseAnswer, LoseRequest, Crash
<1>2. NobodyLate' /\ Told'
  <2>1. CASE waiting
    <3>1. handler[call].step = "done" /\ HangUp
      BY <2>1 DEF LoseAnswer, LoseRequest, Crash, MayHangUp
    <3>2. QED
      BY <2>1, <3>1, HungUpHandlers DEF BeliefInv
  <2>2. CASE ~waiting
    <3>1. UNCHANGED <<handler, listening>>
      BY <2>2 DEF LoseAnswer, LoseRequest, Crash
    <3>2. QED
      BY <1>1, <3>1 DEF BeliefInv, NobodyLate, Told
  <2>3. QED
    BY <2>1, <2>2
<1>3. info' = info \/ info' = [size |-> 0, mtime |-> 0]
  BY DEF LoseAnswer, LoseRequest, Crash
<1>4. mem' = disk \/ mem'.files = mem.files
  <2>1. CASE Crash
    BY <2>1 DEF Crash
  <2>2. CASE LoseAnswer \/ LoseRequest
    <3>1. pc \in Calls /\ OnAnswer("error", None, {})
      BY <2>2 DEF LoseAnswer, LoseRequest, SInv, Calling
    <3>2. QED
      BY <3>1, AnswerFiles
  <2>3. QED
    BY <2>1, <2>2
<1>5. QED
  BY <1>1, <1>2, <1>3, <1>4, RecordsKept

\* A write that does not bring back what the state file names.
LEMMA EditBelief ==
    ASSUME EditPolicy = "forward", SInv, BeliefInv, Edit
    PROVE  BeliefInv'
<1>1. /\ pc \in {"off", "idle"} /\ UNCHANGED <<handler, listening, accepted, mem, disk, info>>
  BY DEF Edit
<1>2. PICK c \in Contents : /\ c = file.c \/ c \notin {mem.files.sum, disk.files.sum}
                            /\ file' = [c |-> c, mtime |-> file.mtime + 1]
  BY DEF Edit
<1>3. \A h \in Handlers : handler[h] = Idle
  <2>1. ~waiting
    BY <1>1, NotWaiting DEF Calls, Drops
  <2>2. QED
    BY <2>1, RestedHandlers DEF BeliefInv
<1>4. NobodyLate' /\ Told'
  BY <1>1, <1>3 DEF NobodyLate, Told
<1>5. info'.mtime <= file'.mtime /\ TrueRecord(mem.files)' /\ TrueRecord(disk.files)'
  <2>1. ASSUME NEW n \in Nat, n <= file.mtime
        PROVE  n <= file.mtime + 1 /\ n # file.mtime + 1
    BY <2>1, BeliefTypes
  <2>2. QED
    BY <1>1, <1>2, <2>1, BeliefTypes DEF BeliefInv, TrueRecord
<1>6. QED
  BY <1>4, <1>5 DEF BeliefInv

\* What is recorded is the file of the client that waits.
LEMMA RecordBelief ==
    ASSUME SInv, ContentInv, BeliefInv, ClientKept, NEW h \in Handlers, RecordUpload(h)
    PROVE  BeliefInv'
<1>1. /\ handler[h] # Idle /\ handler[h].kind = "complete" /\ handler[h].step = "enqueue"
      /\ accepted' = handler[h].buf
      /\ \A g \in Handlers : g # h => handler'[g] = handler[g]
  BY ServesType, StepFrame DEF RecordUpload, Serves, ServerStep
<1>2. waiting /\ call = h /\ pc = "complete" /\ handler[h].s = cur.s
  <2>1. h \in listening
    BY <1>1 DEF BeliefInv, NobodyLate
  <2>2. waiting /\ call = h /\ pc \in Calls /\ KindOf(pc) = "complete"
    BY <1>1, <2>1 DEF SInv, Calling
  <2>3. pc = "complete"
    BY <2>2, CallKinds
  <2>4. QED
    BY <2>2, <2>3 DEF SInv, Calling
<1>3. PICK con \in [Sessions -> Contents] : SessionContent(con) /\ RecordContent(con)
  BY DEF ContentInv, OneContentEach
<1>4. accepted' = Whole(file.c)
  BY <1>1, <1>2, <1>3 DEF SessionContent, RequestContent, RecordContent, Transfers
<1>5. UNCHANGED <<file, mem, disk, info, listening>>
  BY DEF ClientKept
<1>6. NobodyLate' /\ Told'
  <2>1. \A g \in Handlers : handler'[g] # Idle => handler[g] # Idle
    BY <1>1
  <2>2. QED
    BY <1>4, <1>5, <2>1 DEF BeliefInv, NobodyLate, Told, Whole
<1>7. TrueRecord(mem.files)' /\ TrueRecord(disk.files)'
  BY <1>4, <1>5 DEF BeliefInv, TrueRecord, Whole
<1>8. QED
  BY <1>5, <1>6, <1>7 DEF BeliefInv

LEMMA ServerBelief ==
    ASSUME SInv, BeliefInv, ClientKept, NEW h \in Handlers, ServerStep(h) \/ HandlerFails(h),
           ~RecordUpload(h)
    PROVE  BeliefInv'
<1>1. UNCHANGED <<file, mem, disk, info, listening, accepted>>
  BY DEF ClientKept, ServerStep, LoadSession, InitSession, SaveChunk, ReportStatus,
         AppendChunk, DiscardSession, HandlerFails
<1>2. /\ handler[h] # Idle /\ handler[h] \in Requests /\ handler[h].step # "done"
      /\ \A g \in Handlers : g # h => handler'[g] = handler[g]
  BY StepFrame
<1>3. NobodyLate'
  BY <1>1, <1>2 DEF BeliefInv, NobodyLate
<1>4. ASSUME handler'[h] # Idle, handler'[h].kind = "complete",
             \/ handler'[h].step = "discard"
             \/ handler'[h].step = "done" /\ handler'[h].code = "ok"
      PROVE  accepted = Whole(file.c)
  <2>1. handler[h].kind = "complete"
    BY <1>2, <1>4, KindKept
  <2>2. handler[h].s \in Sessions \cup {None}
    BY <1>2, RequestType
  <2>3. CASE DiscardSession(h)
    BY <1>2, <2>1, <2>3 DEF DiscardSession, BeliefInv, Told
  <2>4. CASE LoadSession(h) /\ IsOpen(handler[h].s)
    <3>1. handler'[h] = [handler[h] EXCEPT !.step = "assemble"]
      BY <2>1, <2>4 DEF LoadSession, Proceed, SInv, TypeOK, ServerTypeOK
    <3>2. handler'[h].step = "assemble"
      BY <1>2, <3>1, StepSet DEF Steps
    <3>3. QED
      BY <1>4, <3>2
  <2>5. CASE \E code \in {"gone", "error"} : Answer(h, code, handler[h].s, {})
    <3>1. PICK code \in {"gone", "error"} : Answer(h, code, handler[h].s, {})
      BY <2>5
    <3>2. handler'[h] # Idle => handler'[h].code = code /\ handler'[h].step = "done"
      <4>1. code \in Codes /\ {} \in SUBSET Chunks
        BY DEF Codes
      <4>2. QED
        BY <1>2, <2>2, <3>1, <4>1, AnswerGives
    <3>3. QED
      BY <1>4, <3>2
  <2>6. CASE AppendChunk(h) /\ ~Errs(h)
    <3>1. PICK m \in 0..MaxChunks, n \in Chunks, s \in Sessions, c \in Contents, q \in Requests :
            AppendsTo(h, m, n, s, c, q)
      BY <2>6, AppendEffect
    <3>2. handler'[h].step \in {"assemble", "enqueue"}
      BY <3>1 DEF AppendsTo, SInv, TypeOK, ServerTypeOK
    <3>3. QED
      BY <1>4, <3>2
  <2>7. QED
    BY <2>1, <2>3, <2>4, <2>5, <2>6
       DEF ServerStep, HandlerFails, LoadSession, InitSession, SaveChunk, ReportStatus,
           AppendChunk, Errs, Serves
<1>5. Told'
  BY <1>1, <1>2, <1>4 DEF BeliefInv, Told
<1>6. QED
  BY <1>1, <1>3, <1>5, RecordsKept

LEMMA ExitsBelief ==
    ASSUME SInv, BeliefInv, ClientKept, ServerExits
    PROVE  BeliefInv'
<1>1. UNCHANGED <<file, mem, disk, info, listening, accepted>>
  BY DEF ClientKept, ServerExits
<1>2. NobodyLate' /\ Told'
  BY <1>1, ExitsEffect DEF NobodyLate, Told
<1>3. QED
  BY <1>1, <1>2, RecordsKept

LEMMA NextBelief ==
    ASSUME LateRequests = FALSE, EditPolicy = "forward", SInv, ContentInv, Recorded, BeliefInv,
           [Next]_vars
    PROVE  BeliefInv'
<1>1. CASE ClientStep
  BY <1>1, PassBelief, SendBelief, ReadAnswerBelief DEF ClientStep
<1>2. CASE LoseAnswer \/ LoseRequest \/ Crash \/ Edit
  BY <1>2, LossBelief, EditBelief
<1>3. CASE DeleteFolder \/ UNCHANGED vars
  <2>1. UNCHANGED <<file, mem, disk, info, listening, accepted, handler>>
    BY <1>3 DEF DeleteFolder, vars
  <2>2. QED
    BY <2>1 DEF BeliefInv, NobodyLate, Told, TrueRecord, Whole
<1>4. CASE (\E h \in Handlers : ServerStep(h) /\ UNCHANGED clientVars) \/ ServerFault
  <2>1. ClientKept
    BY <1>4 DEF ClientKept, ServerFault, ServerStep, LoadSession, InitSession, SaveChunk,
                ReportStatus, AppendChunk, RecordUpload, DiscardSession, HandlerFails, ServerExits
  <2>2. QED
    BY <1>4, <2>1, RecordBelief, ServerBelief, ExitsBelief DEF ServerFault
<1>5. QED
  BY <1>1, <1>2, <1>3, <1>4 DEF Next

LEMMA InitBelief == Init => BeliefInv
<1> SUFFICES ASSUME Init PROVE BeliefInv
  OBVIOUS
<1>1. NobodyLate /\ Told
  BY DEF Init, ServerInit, NobodyLate, Told
<1>2. /\ file.mtime = 1 /\ info.mtime = 0 /\ file.c \in Contents
      /\ mem.files = NoFile /\ disk.files = NoFile
  BY DEF Init
<1>3. NoFile.mtime = 0 /\ NoFile.sum = None
  BY DEF NoFile
<1>4. file.c # None
  BY <1>2, NoneAssumption
<1>5. QED
  BY <1>1, <1>2, <1>3, <1>4 DEF BeliefInv, TrueRecord

\* RecordedIsDelivered: when no request outlives its client and the user does not bring
\* back what the state file names, the file the client takes for uploaded is what the
\* server recorded last, whatever else is lost or fails (uploadOne, syncer.go).
THEOREM BeliefIsTrue ==
    ASSUME LateRequests = FALSE, EditPolicy = "forward"
    PROVE  Spec => []RecordedIsDelivered
<1>1. Init => BeliefInv
  BY InitBelief
<1>2. SInv /\ ContentInv /\ Recorded /\ BeliefInv /\ [Next]_vars => BeliefInv'
  BY NextBelief
<1>3. BeliefInv => RecordedIsDelivered
  BY DEF BeliefInv, TrueRecord, RecordedIsDelivered, Believed
<1>4. Spec => []ContentInv
  BY SessionContents
<1>5. QED
  BY <1>1, <1>2, <1>3, <1>4, Structure, RecordedAlways, PTL DEF Spec

=============================================================================
