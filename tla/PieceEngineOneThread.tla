------------------------ MODULE PieceEngineOneThread ------------------------
(***************************************************************************)
(* What a step of PieceEngine keeps on one I/O thread: the critical        *)
(* sections exclude each other, the piece goes on in its lifecycle, and a  *)
(* connection stays up until the download is over unless a socket fails.   *)
(***************************************************************************)
EXTENDS PieceEngineSteps

(* A handler that has hashed piece h.piece and not yet settled its status. *)
Hashed(h) == h.do \in {"write", "return"}

Settling(h) == h.do \in {"write", "finish", "return"}

Uninterrupted(h) == h.do \in {"write", "finish"}

(* One coroutine at a time is inside a section that does not suspend. *)
Exclusive ==
  /\ \A f \in Fillers : \A c, d \in fill[f] : c = d
  /\ \A f, g \in Fillers : fill[f] # {} /\ fill[g] # {} => f = g
  /\ \A x \in Peers : \A h, g \in handler[x] : h = g
  /\ \A x \in Peers : \A h \in handler[x] : Uninterrupted(h) =>
       /\ \A f \in Fillers : fill[f] = {}
       /\ \A y \in Peers : \A g \in handler[y] : Uninterrupted(g) => x = y

(* What a fill has checked still holds when it commits. *)
CheckedNeeded == \A f \in Fillers : \A c \in fill[f] : status[c[1]] = "Needed"

(* After signal_shutdown no piece is in progress and no fill comes back. *)
Stopped ==
  shutdown => /\ \A f \in Fillers : fill[f] = {}
              /\ \A p \in Pieces : ~prog[p].live

SkippedIdle == \A p \in Pieces : status[p] = "Skipped" => ~prog[p].live

(* A piece that a handler has hashed stays full, so no second handler hashes it, and
   it is neither Have nor Skipped yet. *)
HashedOnce ==
  /\ \A x \in Peers : \A h \in handler[x] : Hashed(h) =>
       /\ status[h.piece] \in {"Needed", "InProgress"}
       /\ shutdown \/ (prog[h.piece].live /\ prog[h.piece].received = Blocks)
  /\ \A x, y \in Peers : \A h \in handler[x], g \in handler[y] :
       Settling(h) /\ Settling(g) /\ h.piece = g.piece => x = y

OneThread == Exclusive /\ CheckedNeeded /\ Stopped /\ SkippedIdle /\ HashedOnce

(* The step leaves alone which pieces have an entry and which blocks they received. *)
Kept ==
  /\ shutdown' = shutdown
  /\ \A p \in Pieces : prog'[p].live = prog[p].live /\ prog'[p].received = prog[p].received

(* ensure_resume_piece_download only touches the flag of an entry. *)
LEMMA EnsureResumeKeeps ==
  ASSUME NEW pr \in [Pieces -> Progress], NEW S, EnsureResume(pr, S)
  PROVE  \A p \in Pieces : prog'[p].live = pr[p].live /\ prog'[p].received = pr[p].received
BY DEF EnsureResume, Progress

(* Changing owners, timers and rejections of an entry keeps it live and its received
   blocks. *)
LEMMA EntryKeeps ==
  ASSUME NEW obj \in Progress, NEW x, NEW b \in Blocks
  PROVE  /\ Owned(obj, b, x).live = obj.live
         /\ Owned(obj, b, x).received = obj.received
         /\ Armed(obj, b).live = obj.live
         /\ Armed(obj, b).received = obj.received
         /\ RejectedBy(obj, b, x).live = obj.live
         /\ RejectedBy(obj, b, x).received = obj.received
         /\ Withdrawn(obj, b).live = obj.live
         /\ Withdrawn(obj, b).received = obj.received
BY DEF Owned, Armed, RejectedBy, Withdrawn, Progress

(* So does taking a peer, or all owners, out of it. *)
LEMMA OwnersKeep ==
  ASSUME NEW obj \in Progress, NEW x
  PROVE  /\ WithoutOwner(obj, x).live = obj.live
         /\ WithoutOwner(obj, x).received = obj.received
         /\ [obj EXCEPT !.owners = x].live = obj.live
         /\ [obj EXCEPT !.owners = x].received = obj.received
BY DEF WithoutOwner, Progress

(* record_request_sent keeps every entry live and its received blocks. *)
LEMMA RequestSentKeeps ==
  ASSUME TypeOK, NEW r \in Requests, prog' = WithRequestSent(r)
  PROVE  \A p \in Pieces : prog'[p].live = prog[p].live /\ prog'[p].received = prog[p].received
<1> DEFINE x == r[1]
           q == r[2]
           b == r[3]
           new == Armed(Owned(prog[q], b, x), b)
<1>1. x \in Peers /\ q \in Pieces /\ b \in Blocks /\ prog[q] \in Progress
  BY DEF Requests, TypeOK
<1>2. new.live = prog[q].live /\ new.received = prog[q].received
  <2>1. Owned(prog[q], b, x) \in Progress
    BY Zenon, <1>1, FieldType
  <2> QED BY <1>1, <2>1, EntryKeeps
<1>3. prog' \in {prog, [prog EXCEPT ![q] = new]}
  BY DEF WithRequestSent
<1> HIDE DEF new
<1> QED BY <1>1, <1>2, <1>3 DEF TypeOK

(* A step that is no PieceStep checks a fill, stops the engine, or keeps the entries. *)
LEMMA QuietSteps ==
  ASSUME TypeOK, [Next]_vars, ~PieceStep
  PROVE  \/ \E f \in Fillers, p \in Pieces, x \in Peers : FillCheck(f, p, x)
         \/ Stop
         \/ Kept /\ UNCHANGED fill
<1> DEFINE Goal == Kept /\ UNCHANGED fill
<1> USE DEF modeVars, taskVars, progVars
<1>1. CASE Fill
  BY <1>1 DEF Fill, PieceStep
<1>2. ASSUME NEW r \in Requests,
             SendQueued(r) \/ SendWritten(r) \/ SendFailed(r) \/ RecordSent(r)
      PROVE  Goal
  <2>1. CASE prog' = WithRequestSent(r)
    BY <1>2, <2>1, RequestSentKeeps
    DEF SendQueued, SendWritten, SendFailed, RecordSent, Kept
  <2> QED BY <1>2, <2>1 DEF SendQueued, SendWritten, SendFailed, RecordSent, Kept
<1>3. ASSUME NEW x \in Peers, Receive(x) PROVE Goal
  <2>1. ASSUME NEW p \in Pieces, NEW b \in Blocks,
               DeliverLate(x, p, b) \/ DeliverDuplicate(x, p, b)
        PROVE  Goal
    BY <2>1 DEF DeliverLate, DeliverDuplicate, Kept
  <2>2. CASE Choke(x)
    <3> DEFINE pr == [p \in Pieces |->
                        IF prog[p].live THEN WithoutOwner(prog[p], x) ELSE prog[p]]
               S == {p \in Pieces : Of(x, pending) # {} \/ Missing(pr[p]) # {}}
    <3>1. pr \in [Pieces -> Progress]
      BY WithoutOwnerType DEF TypeOK
    <3>2. EnsureResume(pr, S)
      BY <2>2 DEF Choke
    <3>3. \A p \in Pieces : pr[p].live = prog[p].live /\ pr[p].received = prog[p].received
      BY OwnersKeep DEF TypeOK
    <3> QED BY <2>2, <3>1, <3>2, <3>3, EnsureResumeKeeps DEF Choke, Kept
  <2>3. CASE Unchoke(x)
    <3>1. PICK resume_all \in BOOLEAN :
                 EnsureResume(prog, IF resume_all THEN InProgress ELSE {})
      BY <2>3 DEF Unchoke
    <3> QED BY <2>3, <3>1, EnsureResumeKeeps DEF Unchoke, Kept, TypeOK
  <2>4. CASE ChokeDropQueue(x) \/ SocketFails(x) \/ RemoveConnection(x) \/ Connect(x)
    BY <2>4 DEF ChokeDropQueue, SocketFails, RemoveConnection, Connect, Kept
  <2>5. CASE Disconnect(x)
    <3> DEFINE pr == [p \in Pieces |->
                 IF ~prog[p].live THEN prog[p]
                 ELSE [WithoutOwner(prog[p], x) EXCEPT
                         !.rejected = [b \in Blocks |-> @[b] \ {x}]]]
    <3>1. \A o \in Progress :
            LET n == [o EXCEPT !.rejected = [b \in Blocks |-> @[b] \ {x}]] IN
            n \in Progress /\ n.live = o.live /\ n.received = o.received
      BY DEF Progress
    <3>2. pr \in [Pieces -> Progress]
      BY <3>1, WithoutOwnerType DEF TypeOK
    <3>3. PICK S : EnsureResume(pr, S)
      BY Zenon, <2>5 DEF Disconnect
    <3>4. \A p \in Pieces : pr[p].live = prog[p].live /\ pr[p].received = prog[p].received
      <4> TAKE p \in Pieces
      <4>1. prog[p] \in Progress
        BY DEF TypeOK
      <4>2. WithoutOwner(prog[p], x) \in Progress
        BY <4>1, WithoutOwnerType
      <4> QED BY <3>1, <4>1, <4>2, OwnersKeep
    <3>5. UNCHANGED <<shutdown, fill>>
      BY <2>5 DEF Disconnect
    <3> QED BY Zenon, <3>2, <3>3, <3>4, <3>5, EnsureResumeKeeps DEF Kept
  <2> HIDE DEF Goal
  <2> QED BY <1>3, <2>1, <2>2, <2>3, <2>4, <2>5 DEF Receive, PieceStep
<1>4. ASSUME NEW p \in Pieces, ResumePass(p) PROVE Goal
  <2>1. PICK own : prog' \in {prog, [prog EXCEPT ![p] = [prog[p] EXCEPT !.owners = own]]}
    BY Zenon, <1>4 DEF ResumePass
  <2>2. Kept
    BY <1>4, <2>1, OwnersKeep DEF ResumePass, Kept, TypeOK
  <2> QED BY <1>4, <2>2 DEF ResumePass
<1>5. ASSUME NEW p \in Pieces, ResumeExit(p) PROVE Goal
  <2> DEFINE new == [prog[p] EXCEPT !.resuming = FALSE]
  <2>1. new.live = prog[p].live /\ new.received = prog[p].received
    BY DEF TypeOK, Progress
  <2>2. prog' = [prog EXCEPT ![p] = new] /\ UNCHANGED <<shutdown, fill>>
    BY <1>5 DEF ResumeExit
  <2> HIDE DEF new
  <2> QED BY <2>1, <2>2 DEF Kept, TypeOK
<1>6. ASSUME NEW p \in Pieces, NEW b \in Blocks, BlockTimeout(p, b) PROVE Goal
  <2> DEFINE cleared == Withdrawn(prog[p], b)
             new(to) == [cleared EXCEPT !.owners[b] = to]
  <2>1. cleared \in Progress /\ cleared.live = prog[p].live /\ cleared.received = prog[p].received
    BY Zenon, EntryKeeps, EntryType DEF TypeOK
  <2>2. PICK to \in SUBSET Peers, S \in SUBSET Pieces : EnsureResume([prog EXCEPT ![p] = new(to)], S)
    BY Zenon, <1>6 DEF BlockTimeout, Picks, Available
  <2>3. new(to) \in Progress /\ new(to).live = prog[p].live /\ new(to).received = prog[p].received
    BY Zenon, <2>1, FieldType DEF Progress
  <2> HIDE DEF new
  <2>4. [prog EXCEPT ![p] = new(to)] \in [Pieces -> Progress]
    BY <2>3 DEF TypeOK
  <2> DEFINE pr == [prog EXCEPT ![p] = new(to)]
  <2>5. \A q \in Pieces : pr[q].live = prog[q].live /\ pr[q].received = prog[q].received
    BY <2>3 DEF TypeOK
  <2>6. UNCHANGED <<shutdown, fill>>
    BY <1>6 DEF BlockTimeout
  <2> HIDE DEF pr
  <2>7. \A q \in Pieces : prog'[q].live = pr[q].live /\ prog'[q].received = pr[q].received
    BY Zenon, <2>2, <2>4, EnsureResumeKeeps DEF pr
  <2> QED BY <2>5, <2>6, <2>7 DEF Kept
<1>7. ASSUME NEW p \in Pieces, NEW y \in Peers, TailRequest(p, y) PROVE Goal
  <2>1. PICK b \in Blocks : prog' = [prog EXCEPT ![p] = Owned(prog[p], b, y)]
    BY Zenon, <1>7 DEF TailRequest
  <2> DEFINE new == Owned(prog[p], b, y)
  <2>2. new.live = prog[p].live /\ new.received = prog[p].received
    BY EntryKeeps DEF TypeOK
  <2>3. prog' = [prog EXCEPT ![p] = new] /\ UNCHANGED <<shutdown, fill>>
    BY Zenon, <1>7, <2>1 DEF TailRequest
  <2> HIDE DEF new
  <2> QED BY <2>2, <2>3 DEF Kept, TypeOK
<1>8. ASSUME NEW stalled \in BOOLEAN, EnterEndgame(stalled) PROVE Goal
  BY <1>8 DEF EnterEndgame, Kept
<1>9. CASE Broadcast \/ StopClose
  BY <1>9 DEF Broadcast, StopClose, Kept
<1>10. CASE UNCHANGED vars
  BY <1>10 DEF vars, Kept
<1> QED
  BY <1>1, <1>2, <1>3, <1>4, <1>5, <1>6, <1>7, <1>8, <1>9, <1>10 DEF Next, Send, Manage
-----------------------------------------------------------------------------
(* OneThread is inductive. *)

(* Where CanRun guards a step on one thread, nobody is inside a section. *)
LEMMA OneThreadCanRun ==
  ASSUME ~MultiThreaded, CanRun
  PROVE  /\ \A f \in Fillers : fill[f] = {}
         /\ \A x \in Peers : \A h \in handler[x] : ~Uninterrupted(h)
BY DEF CanRun, MidSection, Uninterrupted

(* A step that keeps the entries, the statuses and the fills, and leaves a handler
   idle, with a rejection or with the final flush, keeps OneThread. *)
LEMMA OneThreadKept ==
  ASSUME TypeOK, OneThread, Kept, UNCHANGED <<status, fill>>,
         \A x \in Peers : \/ handler'[x] = handler[x]
                          \/ handler'[x] = {}
                          \/ \E h : handler'[x] = {h} /\ ~Settling(h)
  PROVE  OneThread'
<1>1. \A x \in Peers : \A h \in handler'[x] : Settling(h) => h \in handler[x]
  OBVIOUS
<1>2. Exclusive'
  BY <1>1 DEF OneThread, Exclusive, Uninterrupted, Settling
<1>3. CheckedNeeded'
  BY DEF OneThread, CheckedNeeded
<1>4. Stopped' /\ SkippedIdle'
  BY DEF OneThread, Stopped, SkippedIdle, Kept
<1>5. HashedOnce'
  <2>1. \A x \in Peers : \A h \in handler'[x] : Hashed(h) =>
          h \in handler[x] /\ h.piece \in Pieces
    BY <1>1 DEF Hashed, Settling, TypeOK, Step
  <2> QED BY <1>1, <2>1 DEF OneThread, HashedOnce, Kept
<1> QED BY <1>2, <1>3, <1>4, <1>5 DEF OneThread

(* A check starts only when no other section is open. *)
LEMMA OneThreadFillCheck ==
  ASSUME ~MultiThreaded, TypeOK, OneThread,
         NEW f \in Fillers, NEW p \in Pieces, NEW x \in Peers, FillCheck(f, p, x)
  PROVE  OneThread'
<1> USE DEF pieceVars, modeVars, netVars, connVars, progVars
<1>1. /\ \A g \in Fillers : fill[g] = {}
      /\ \A y \in Peers : \A h \in handler[y] : ~Uninterrupted(h)
  BY OneThreadCanRun DEF FillCheck
<1>2. /\ fill'[f] = {<<p, x>>} /\ \A g \in Fillers : g # f => fill'[g] = {}
      /\ UNCHANGED <<status, handler, prog, shutdown>>
      /\ status[p] = "Needed" /\ ~shutdown
  BY <1>1 DEF FillCheck, TypeOK
<1>3. Exclusive'
  BY <1>1, <1>2 DEF OneThread, Exclusive
<1>4. CheckedNeeded'
  BY <1>2 DEF CheckedNeeded
<1>5. Stopped' /\ SkippedIdle' /\ HashedOnce'
  BY <1>2 DEF OneThread, Stopped, SkippedIdle, HashedOnce
<1> QED BY <1>3, <1>4, <1>5 DEF OneThread

(* The shutdown drops the entries between two sections. *)
LEMMA OneThreadStop ==
  ASSUME ~MultiThreaded, TypeOK, OneThread, Stop
  PROVE  OneThread'
<1> USE DEF pieceVars, modeVars, netVars, connVars, taskVars
<1>1. \A g \in Fillers : fill[g] = {}
  BY OneThreadCanRun DEF Stop
<1>2. /\ UNCHANGED <<status, fill, handler>> /\ shutdown'
      /\ \A p \in Pieces : ~prog'[p].live
  BY DEF Stop, NoProg
<1>3. Exclusive' /\ CheckedNeeded'
  BY <1>2 DEF OneThread, Exclusive, CheckedNeeded
<1>4. Stopped' /\ SkippedIdle'
  BY <1>1, <1>2 DEF Stopped, SkippedIdle
<1>5. HashedOnce'
  BY <1>2 DEF OneThread, HashedOnce
<1> QED BY <1>3, <1>4, <1>5 DEF OneThread

(* The commit finds the piece as it was checked and keeps the blocks of its entry. *)
LEMMA OneThreadFillCommit ==
  ASSUME TypeOK, OneThread,
         NEW f \in Fillers, NEW p \in Pieces, NEW x \in Peers, FillCommit(f, p, x)
  PROVE  OneThread'
<1> USE DEF modeVars
<1>1. fill[f] # {} /\ ~shutdown /\ status[p] = "Needed"
  BY DEF FillCommit, OneThread, Stopped, CheckedNeeded
<1>2. \A g \in Fillers : fill'[g] = {}
  BY <1>1 DEF FillCommit, OneThread, Exclusive, TypeOK
<1>3. \A y \in Peers : \A h \in handler[y] : ~Uninterrupted(h)
  BY <1>1 DEF OneThread, Exclusive
<1>4. /\ UNCHANGED <<handler, shutdown>>
      /\ status' = [status EXCEPT ![p] = "InProgress"]
  BY DEF FillCommit
<1>5. \A q \in Pieces : prog[q].live =>
        prog'[q].live /\ prog'[q].received = prog[q].received
  BY OwnersKeep DEF FillCommit, TypeOK
<1>6. \A q \in Pieces : q # p => prog'[q] = prog[q]
  BY DEF FillCommit, TypeOK
<1>7. Exclusive'
  BY <1>2, <1>3, <1>4 DEF OneThread, Exclusive
<1>8. CheckedNeeded' /\ Stopped'
  BY Zenon, <1>1, <1>2, <1>4 DEF CheckedNeeded, Stopped
<1>9. SkippedIdle'
  BY <1>4, <1>6 DEF OneThread, SkippedIdle, TypeOK
<1>10. HashedOnce'
  <2>1. ASSUME NEW y \in Peers, NEW h \in handler'[y], Hashed(h)
        PROVE  /\ status'[h.piece] \in {"Needed", "InProgress"}
               /\ shutdown' \/ (prog'[h.piece].live /\ prog'[h.piece].received = Blocks)
    <3>1. h \in handler[y] /\ h.piece \in Pieces
      BY <1>4, HandlerBlocks
    <3>2. /\ status[h.piece] \in {"Needed", "InProgress"}
          /\ prog[h.piece].live /\ prog[h.piece].received = Blocks
      BY <1>1, <2>1, <3>1 DEF OneThread, HashedOnce
    <3>3. status'[h.piece] \in {status[h.piece], "InProgress"}
      BY <1>4, <3>1 DEF TypeOK
    <3> QED BY <1>5, <3>1, <3>2, <3>3
  <2> QED BY <1>4, <2>1 DEF OneThread, HashedOnce
<1> QED BY <1>7, <1>8, <1>9, <1>10 DEF OneThread
(* The handler that stores the last block becomes the only one settling the piece:
   one that hashed it before would have left the piece full, or off the table. *)
LEMMA OneThreadDeliverBlock ==
  ASSUME ~MultiThreaded, TypeOK, OneThread,
         NEW x \in Peers, NEW p \in Pieces, NEW b \in Blocks, NEW good \in BOOLEAN,
         DeliverBlock(x, p, b, good)
  PROVE  OneThread'
<1> USE DEF pieceVars, modeVars, netVars, connVars
<1> DEFINE new == Stored(prog[p], b, good)
           got == IF endgame THEN Withdrawn(new, b) ELSE new
<1>1. got \in Progress /\ got.live = prog[p].live /\ got.received = prog[p].received \union {b}
  <2>1. new \in Progress /\ new.live = prog[p].live /\ new.received = prog[p].received \union {b}
    <3>1. prog[p] \in Progress
      BY DEF TypeOK
    <3>2. new.live = prog[p].live /\ new.received = prog[p].received \union {b}
      BY <3>1 DEF Stored, Progress
    <3> QED BY <3>1, <3>2, EntryType
  <2> HIDE DEF new
  <2> QED BY Zenon, <2>1, EntryType, EntryKeeps
<1>2. EnsureResume([prog EXCEPT ![p] = got], {p})
  BY Zenon DEF DeliverBlock
<1> HIDE DEF got
<1>3. /\ \A q \in Pieces : prog'[q].live = prog[q].live
      /\ \A q \in Pieces : q # p => prog'[q].received = prog[q].received
      /\ prog'[p].received = got.received
  <2>1. [prog EXCEPT ![p] = got] \in [Pieces -> Progress]
    BY Zenon, <1>1 DEF TypeOK
  <2> QED BY Zenon, <1>1, <1>2, <2>1, EnsureResumeKeeps DEF TypeOK
<1>4. /\ \A f \in Fillers : fill[f] = {}
      /\ \A y \in Peers : \A h \in handler[y] : ~Uninterrupted(h)
  BY Zenon, OneThreadCanRun DEF DeliverBlock, CanHandle
<1>5. /\ UNCHANGED <<status, fill, shutdown>>
      /\ status[p] # "Have" /\ prog[p].live /\ b \notin prog[p].received
      /\ handler' = [handler EXCEPT ![x] =
                       IF got.received = Blocks THEN Verdict(p, b, got) ELSE {}]
  BY Zenon DEF DeliverBlock, got
<1>6. ~shutdown /\ status[p] \in {"Needed", "InProgress"}
  BY Zenon, <1>5 DEF OneThread, Stopped, SkippedIdle, TypeOK
<1>7. ASSUME NEW y \in Peers, NEW h \in handler[y], Settling(h) PROVE h.piece # p
  <2>1. Hashed(h)
    BY <1>4, <1>7 DEF Settling, Hashed, Uninterrupted
  <2>2. prog[h.piece].received = Blocks
    BY Zenon, <1>6, <2>1 DEF OneThread, HashedOnce
  <2> QED BY Zenon, <1>5, <2>2
<1>8. \A h \in handler'[x] : h.piece = p /\ got.received = Blocks
  <2>1. handler'[x] = IF got.received = Blocks THEN Verdict(p, b, got) ELSE {}
    BY Zenon, <1>5 DEF TypeOK
  <2>2. \A h \in Verdict(p, b, got) : h.piece = p
    BY ToDoIsOneStep DEF Verdict
  <2> QED BY <2>1, <2>2
<1>9. \A y \in Peers : y # x => handler'[y] = handler[y]
  BY Zenon, <1>5 DEF TypeOK
<1>10. \A g, h \in handler'[x] : g = h
  BY Zenon, <1>5 DEF Verdict, ToDo, TypeOK
<1>11. Exclusive'
  <2>1. \A f \in Fillers : fill'[f] = {}
    BY Zenon, <1>4, <1>5
  <2>2. ASSUME NEW y \in Peers, NEW g \in handler'[y], NEW h \in handler'[y] PROVE g = h
    BY <1>9, <1>10 DEF OneThread, Exclusive
  <2>3. ASSUME NEW y \in Peers, NEW g \in handler'[y], Uninterrupted(g) PROVE y = x
    BY <1>4, <1>9, <2>3
  <2> QED BY Zenon, <2>1, <2>2, <2>3 DEF Exclusive
<1>12. CheckedNeeded' /\ Stopped' /\ SkippedIdle'
  BY Zenon, <1>3, <1>4, <1>5 DEF OneThread, CheckedNeeded, Stopped, SkippedIdle
<1>13. HashedOnce'
  <2>1. \A y \in Peers : y # x => \A h \in handler[y] : h.piece \in Pieces
    BY DEF TypeOK, Step
  <2>2. ASSUME NEW y \in Peers, NEW h \in handler'[y], Hashed(h)
        PROVE  /\ status'[h.piece] \in {"Needed", "InProgress"}
               /\ shutdown' \/ (prog'[h.piece].live /\ prog'[h.piece].received = Blocks)
    <3>1. CASE y = x
      BY Zenon, <1>3, <1>5, <1>6, <1>8, <3>1
    <3>2. CASE y # x
      <4>1. h \in handler[y] /\ h.piece # p /\ h.piece \in Pieces
        BY <1>7, <1>9, <2>1, <2>2, <3>2 DEF Hashed, Settling
      <4> QED BY Zenon, <1>3, <1>5, <2>2, <4>1 DEF OneThread, HashedOnce
    <3> QED BY Zenon, <3>1, <3>2
  <2>3. ASSUME NEW y \in Peers, NEW z \in Peers, NEW h \in handler'[y], NEW g \in handler'[z],
               Settling(h), Settling(g), h.piece = g.piece
        PROVE  y = z
    BY Zenon, <1>7, <1>8, <1>9, <2>3 DEF OneThread, HashedOnce
  <2> QED BY Zenon, <2>2, <2>3 DEF HashedOnce
<1> QED BY <1>11, <1>12, <1>13 DEF OneThread

(* Writing the piece settles its status; no other handler settles the same piece. *)
LEMMA OneThreadCompletePiece ==
  ASSUME TypeOK, OneThread, NEW x \in Peers, NEW h \in handler[x], CompletePiece(x, h)
  PROVE  OneThread'
<1> USE DEF netVars, connVars, progVars
<1>1. h.piece \in Pieces /\ Settling(h) /\ Uninterrupted(h)
  BY HandlerBlocks DEF CompletePiece, Settling, Uninterrupted
<1>2. /\ \A f \in Fillers : fill[f] = {}
      /\ \A y \in Peers : \A g \in handler[y] : Uninterrupted(g) => x = y
  BY Zenon, <1>1 DEF OneThread, Exclusive
<1>3. /\ UNCHANGED <<fill, prog, shutdown>>
      /\ status' = [status EXCEPT ![h.piece] = "Have"]
      /\ \A g \in handler'[x] : g.do = "finish" /\ g.piece = h.piece
      /\ \A g, k \in handler'[x] : g = k
      /\ \A y \in Peers : y # x => handler'[y] = handler[y]
  <2> DEFINE S == ToDo("finish", h.piece, h.block, h.bad)
  <2>1. /\ UNCHANGED <<fill, prog, shutdown>>
        /\ status' = [status EXCEPT ![h.piece] = "Have"]
        /\ handler' = [handler EXCEPT ![x] = S]
    BY DEF CompletePiece
  <2>2. (\A g \in S : g.do = "finish" /\ g.piece = h.piece) /\ (\A g, k \in S : g = k)
    BY Zenon, ToDoIsOneStep
  <2> HIDE DEF S
  <2> QED BY <2>1, <2>2 DEF TypeOK
<1>4. Exclusive'
  <2>1. \A f \in Fillers : fill'[f] = {}
    BY <1>2, <1>3
  <2>2. ASSUME NEW y \in Peers, NEW g \in handler'[y], NEW k \in handler'[y] PROVE g = k
    BY <1>3 DEF OneThread, Exclusive
  <2>3. ASSUME NEW y \in Peers, NEW g \in handler'[y], Uninterrupted(g) PROVE y = x
    BY Zenon, <1>2, <1>3, <2>3
  <2> QED BY <2>1, <2>2, <2>3 DEF Exclusive
<1>5. CheckedNeeded' /\ Stopped' /\ SkippedIdle'
  BY Zenon, <1>1, <1>2, <1>3 DEF OneThread, CheckedNeeded, Stopped, SkippedIdle, TypeOK
<1>6. \A y \in Peers : y # x => \A g \in handler[y] : Settling(g) => g.piece # h.piece
  BY Zenon, <1>1 DEF OneThread, HashedOnce
<1>7. HashedOnce'
  <2>1. \A y \in Peers : \A g \in handler[y] : g.piece \in Pieces
    BY HandlerBlocks
  <2>2. ASSUME NEW y \in Peers, NEW g \in handler'[y], Hashed(g)
        PROVE  /\ status'[g.piece] \in {"Needed", "InProgress"}
               /\ shutdown' \/ (prog'[g.piece].live /\ prog'[g.piece].received = Blocks)
    <3>1. y # x
      BY <1>3, <2>2 DEF Hashed
    <3>2. g \in handler[y] /\ g.piece # h.piece
      BY Zenon, <1>3, <1>6, <2>2, <3>1 DEF Hashed, Settling
    <3> QED BY Zenon, <1>3, <2>1, <2>2, <3>2 DEF OneThread, HashedOnce, TypeOK
  <2>3. ASSUME NEW y \in Peers, NEW z \in Peers, NEW g \in handler'[y], NEW k \in handler'[z],
               Settling(g), Settling(k), g.piece = k.piece
        PROVE  y = z
    <3>1. CASE y # x /\ z # x
      BY Zenon, <1>3, <2>3, <3>1 DEF OneThread, HashedOnce
    <3>2. CASE y = x
      BY <1>3, <1>6, <2>3, <3>2
    <3>3. CASE z = x
      BY <1>3, <1>6, <2>3, <3>3
    <3> QED BY <3>1, <3>2, <3>3
  <2> QED BY Zenon, <2>2, <2>3 DEF HashedOnce
<1> QED BY <1>4, <1>5, <1>7 DEF OneThread

(* Dropping the entry of the settled piece takes nothing from another handler. *)
LEMMA OneThreadDropEntry ==
  ASSUME TypeOK, OneThread, NEW x \in Peers, NEW h \in handler[x], Settling(h),
         UNCHANGED <<fill, shutdown>>,
         prog' = [prog EXCEPT ![h.piece] = NoProg],
         \/ status' = status
         \/ status' = [status EXCEPT ![h.piece] = "Needed"] /\ \A f \in Fillers : fill[f] = {},
         \A g \in handler'[x] : ~Settling(g),
         \A g, k \in handler'[x] : g = k,
         \A y \in Peers : y # x => handler'[y] = handler[y]
  PROVE  OneThread'
<1>1. h.piece \in Pieces
  BY HandlerBlocks
<1>2. \A y \in Peers : y # x => \A g \in handler[y] : Settling(g) => g.piece # h.piece
  BY DEF OneThread, HashedOnce
<1>3. /\ ~prog'[h.piece].live
      /\ \A q \in Pieces : q # h.piece => prog'[q] = prog[q] /\ status'[q] = status[q]
  BY Zenon, <1>1 DEF NoProg, TypeOK
<1>4. Exclusive'
  <2>1. ASSUME NEW y \in Peers, NEW g \in handler'[y], Uninterrupted(g)
        PROVE  y # x /\ g \in handler[y]
    BY <2>1 DEF Settling, Uninterrupted
  <2>2. ASSUME NEW y \in Peers, NEW g \in handler'[y], NEW k \in handler'[y] PROVE g = k
    BY Zenon DEF OneThread, Exclusive
  <2> QED BY Zenon, <2>1, <2>2 DEF OneThread, Exclusive
<1>5. CheckedNeeded'
  BY Zenon DEF OneThread, CheckedNeeded, TypeOK
<1>6. Stopped' /\ SkippedIdle'
  BY <1>3 DEF OneThread, Stopped, SkippedIdle
<1>7. HashedOnce'
  <2>1. ASSUME NEW y \in Peers, NEW g \in handler'[y], Settling(g)
        PROVE  g \in handler[y] /\ g.piece # h.piece /\ g.piece \in Pieces
    <3>1. y # x
      BY <2>1
    <3>2. g \in handler[y]
      BY <3>1
    <3> QED BY Zenon, <1>2, <2>1, <3>1, <3>2, HandlerBlocks
  <2>2. ASSUME NEW y \in Peers, NEW g \in handler'[y], Hashed(g)
        PROVE  /\ status'[g.piece] \in {"Needed", "InProgress"}
               /\ shutdown' \/ (prog'[g.piece].live /\ prog'[g.piece].received = Blocks)
    <3>1. g \in handler[y] /\ g.piece # h.piece /\ g.piece \in Pieces
      BY <2>1, <2>2 DEF Hashed, Settling
    <3>2. /\ status[g.piece] \in {"Needed", "InProgress"}
          /\ shutdown \/ (prog[g.piece].live /\ prog[g.piece].received = Blocks)
      BY Zenon, <2>2, <3>1 DEF OneThread, HashedOnce
    <3> QED BY <1>3, <3>1, <3>2
  <2>3. ASSUME NEW y \in Peers, NEW z \in Peers, NEW g \in handler'[y], NEW k \in handler'[z],
               Settling(g), Settling(k), g.piece = k.piece
        PROVE  y = z
    <3>1. g \in handler[y] /\ k \in handler[z]
      BY <2>1, <2>3
    <3> QED BY <2>3, <3>1 DEF OneThread, HashedOnce
  <2> QED BY <2>2, <2>3 DEF HashedOnce
<1> QED BY <1>4, <1>5, <1>6, <1>7 DEF OneThread
(* OneThread is inductive when the engine runs on one thread. *)
LEMMA NextOneThread ==
  ASSUME ~MultiThreaded, TypeOK, OneThread, [Next]_vars
  PROVE  OneThread'
<1> USE DEF pieceVars, modeVars, netVars, connVars, taskVars, progVars
<1>1. CASE ~PieceStep
  <2>1. UNCHANGED <<status, handler>>
    BY <1>1, PieceSteps
  <2>2. CASE Kept /\ UNCHANGED fill
    BY <2>1, <2>2, OneThreadKept
  <2> QED BY <1>1, <2>2, QuietSteps, OneThreadFillCheck, OneThreadStop
<1>2. ASSUME NEW f \in Fillers, NEW p \in Pieces, NEW x \in Peers, FillCommit(f, p, x)
      PROVE  OneThread'
  BY <1>2, OneThreadFillCommit
<1>3. ASSUME NEW x \in Peers, NEW p \in Pieces, NEW b \in Blocks, NEW good \in BOOLEAN,
             DeliverBlock(x, p, b, good)
      PROVE  OneThread'
  BY <1>3, OneThreadDeliverBlock
<1>4. ASSUME NEW x \in Peers, NEW p \in Pieces, NEW b \in Blocks, RejectBlock(x, p, b)
      PROVE  OneThread'
  <2> DEFINE obj == [prog[p] EXCEPT !.owners[b] = @ \ {x}]
             new == IF obj.owners[b] = {} THEN Withdrawn(obj, b) ELSE obj
  <2>1. prog[p] \in Progress
    BY DEF TypeOK
  <2>2. obj \in Progress /\ obj.live = prog[p].live /\ obj.received = prog[p].received
    BY <2>1 DEF Progress
  <2> HIDE DEF obj
  <2>3. new.live = prog[p].live /\ new.received = prog[p].received
    BY Zenon, <2>2, EntryKeeps
  <2>4. prog' \in {prog, [prog EXCEPT ![p] = new]} /\ UNCHANGED <<status, fill, shutdown>>
    BY <1>4 DEF RejectBlock, obj
  <2> HIDE DEF new
  <2>5. Kept
    BY <2>3, <2>4 DEF Kept, TypeOK
  <2>6. \A y \in Peers : \/ handler'[y] = handler[y]
                         \/ \E h : handler'[y] = {h} /\ ~Settling(h)
    <3> DEFINE s == [do |-> "reject", piece |-> p, block |-> b, bad |-> {}]
    <3>1. handler' \in {handler, [handler EXCEPT ![x] = {s}]}
      BY <1>4 DEF RejectBlock, ToDo
    <3>2. ~Settling(s)
      BY DEF Settling
    <3> HIDE DEF s
    <3> QED BY <3>1, <3>2 DEF TypeOK
  <2> QED BY Zenon, <2>4, <2>5, <2>6, OneThreadKept
<1>5. ASSUME NEW x \in Peers, NEW h \in handler[x], CompletePiece(x, h) PROVE OneThread'
  BY Zenon, <1>5, OneThreadCompletePiece
<1>6. ASSUME NEW x \in Peers, NEW h \in handler[x], FinishPiece(x, h) PROVE OneThread'
  <2>1. /\ Settling(h) /\ UNCHANGED <<fill, shutdown, status>>
        /\ prog' = [prog EXCEPT ![h.piece] = NoProg]
        /\ \A g \in handler'[x] : ~Settling(g)
        /\ \A g, k \in handler'[x] : g = k
        /\ \A y \in Peers : y # x => handler'[y] = handler[y]
    <3> DEFINE S == IF AllPieces THEN ToDo("flush", h.piece, h.block, h.bad) ELSE {}
    <3>1. /\ Settling(h) /\ UNCHANGED <<fill, shutdown, status>>
          /\ prog' = [prog EXCEPT ![h.piece] = NoProg]
          /\ handler' = [handler EXCEPT ![x] = S]
      BY <1>6 DEF FinishPiece, Settling
    <3>2. (\A g \in S : g.do = "flush") /\ (\A g, k \in S : g = k)
      <4>1. CASE AllPieces
        BY <4>1, ToDoIsOneStep
      <4>2. CASE ~AllPieces
        BY <4>2
      <4> QED BY Zenon, <4>1, <4>2
    <3> HIDE DEF S
    <3>3. handler'[x] = S /\ \A y \in Peers : y # x => handler'[y] = handler[y]
      BY <3>1 DEF TypeOK
    <3> QED BY <3>1, <3>2, <3>3 DEF Settling
  <2> QED BY Zenon, <2>1, OneThreadDropEntry
<1>7. ASSUME NEW x \in Peers, NEW h \in handler[x], Finalize(x, h) PROVE OneThread'
  <2>1. /\ Kept /\ UNCHANGED <<status, fill>>
        /\ \A y \in Peers : handler'[y] = handler[y] \/ handler'[y] = {}
    BY <1>7 DEF Finalize, Kept, TypeOK
  <2> QED BY <2>1, OneThreadKept
<1>8. ASSUME NEW x \in Peers, NEW h \in handler[x], ReturnPieceToQueue(x, h) PROVE OneThread'
  <2>1. /\ Settling(h) /\ UNCHANGED <<fill, shutdown>>
        /\ prog' = [prog EXCEPT ![h.piece] = NoProg]
        /\ status' = [status EXCEPT ![h.piece] = "Needed"]
        /\ handler'[x] = {}
        /\ \A y \in Peers : y # x => handler'[y] = handler[y]
    BY <1>8 DEF ReturnPieceToQueue, Settling, TypeOK
  <2>2. \A f \in Fillers : fill[f] = {}
    BY Zenon, <1>8, OneThreadCanRun DEF ReturnPieceToQueue
  <2> QED BY Zenon, <2>1, <2>2, OneThreadDropEntry
<1>9. ASSUME NEW x \in Peers, NEW h \in handler[x], RecordRejection(x, h) PROVE OneThread'
  <2> DEFINE p == h.piece
             pr == IF prog[p].live
                   THEN [prog EXCEPT ![p] = RejectedBy(@, h.block, x)] ELSE prog
  <2>1. p \in Pieces /\ h.block \in Blocks
    BY DEF TypeOK, Step
  <2>2. pr \in [Pieces -> Progress]
    BY Zenon, <2>1, FieldType DEF TypeOK
  <2>3. \A q \in Pieces : pr[q].live = prog[q].live /\ pr[q].received = prog[q].received
    <3>1. prog[p] \in Progress
      BY <2>1 DEF TypeOK
    <3>2. /\ RejectedBy(prog[p], h.block, x).live = prog[p].live
          /\ RejectedBy(prog[p], h.block, x).received = prog[p].received
      BY Zenon, <2>1, <3>1, EntryKeeps
    <3>3. pr = prog \/ pr = [prog EXCEPT ![p] = RejectedBy(prog[p], h.block, x)]
      BY Zenon
    <3> HIDE DEF pr, p
    <3> QED BY <2>1, <3>2, <3>3 DEF TypeOK
  <2>4. EnsureResume(pr, {p})
    BY <1>9 DEF RecordRejection
  <2> HIDE DEF pr
  <2>5. /\ Kept /\ UNCHANGED <<status, fill>>
        /\ \A y \in Peers : handler'[y] = handler[y] \/ handler'[y] = {}
    BY Zenon, <1>9, <2>2, <2>3, <2>4, EnsureResumeKeeps DEF RecordRejection, Kept, TypeOK
  <2> QED BY <2>5, OneThreadKept
<1> QED BY Zenon, <1>1, <1>2, <1>3, <1>4, <1>5, <1>6, <1>7, <1>8, <1>9 DEF PieceStep

(* A download starts with nobody inside a section. *)
LEMMA InitOneThread == Init => OneThread
<1> SUFFICES ASSUME Init PROVE OneThread
  OBVIOUS
<1>1. Exclusive /\ CheckedNeeded /\ Stopped /\ HashedOnce
  BY DEF Init, Exclusive, CheckedNeeded, Stopped, HashedOnce
<1>2. SkippedIdle
  BY DEF Init, SkippedIdle
<1> QED BY <1>1, <1>2 DEF OneThread

-----------------------------------------------------------------------------
(* The refinement. *)

(* The two modules count with the same operator. *)
LEMMA SameCardinality == ASSUME NEW S PROVE Lifecycle!Cardinality(S) = Cardinality(S)
BY DEF Cardinality, Lifecycle!Cardinality

(* Every step of the engine is a step of the lifecycle or changes nothing of it. *)
LEMMA LifecycleStep ==
  ASSUME TypeOK, OneThread, [Next]_vars
  PROVE  [Lifecycle!LNext]_(Lifecycle!lifecycle)
<1> DEFINE Goal == [Lifecycle!LNext]_(Lifecycle!lifecycle)
<1> SUFFICES Goal
  OBVIOUS
<1> USE DEF pieceVars, modeVars, netVars, connVars, taskVars, progVars
<1>1. ASSUME UNCHANGED pieceVars PROVE Goal
  BY <1>1 DEF Lifecycle!lifecycle
<1>2. ASSUME NEW f \in Fillers, NEW p \in Pieces, NEW x \in Peers, FillCommit(f, p, x)
      PROVE  Goal
  <2>1. status[p] = "Needed"
    BY <1>2 DEF FillCommit, OneThread, CheckedNeeded
  <2>2. Lifecycle!Start(p)
    BY <1>2, <2>1 DEF FillCommit, Lifecycle!Start
  <2> QED BY <2>2 DEF Lifecycle!LNext
<1>3. ASSUME NEW x \in Peers, NEW h \in handler[x], CompletePiece(x, h) PROVE Goal
  <2>1. h.piece \in Pieces
    BY DEF TypeOK, Step
  <2>2. status[h.piece] \in {"Needed", "InProgress"}
    BY <1>3 DEF CompletePiece, OneThread, HashedOnce, Hashed
  <2>3. Lifecycle!Acquire(h.piece)
    BY <1>3, <2>2 DEF CompletePiece, Lifecycle!Acquire
  <2> QED BY <2>1, <2>3 DEF Lifecycle!LNext
<1>4. ASSUME NEW x \in Peers, NEW h \in handler[x], FinishPiece(x, h) PROVE Goal
  <2>1. CASE AllPieces
    <3>1. complete' = TRUE
      BY Zenon, <1>4, <2>1 DEF FinishPiece
    <3>2. Lifecycle!Complete
      BY <1>4, <2>1, <3>1, SameCardinality DEF FinishPiece, AllPieces, Lifecycle!Complete
    <3> QED BY <3>2 DEF Lifecycle!LNext
  <2>2. CASE ~AllPieces
    <3>1. complete' = complete
      BY <1>4, <2>2 DEF FinishPiece, TypeOK
    <3> QED BY <1>1, <1>4, <3>1 DEF FinishPiece
  <2> QED BY <2>1, <2>2
<1>5. ASSUME NEW x \in Peers, NEW h \in handler[x], ReturnPieceToQueue(x, h) PROVE Goal
  <2>1. h.piece \in Pieces
    BY DEF TypeOK, Step
  <2>2. status[h.piece] \in {"Needed", "InProgress"}
    BY <1>5 DEF ReturnPieceToQueue, OneThread, HashedOnce, Hashed
  <2>3. CASE status[h.piece] = "InProgress"
    <3>1. Lifecycle!Requeue(h.piece)
      BY <1>5, <2>3 DEF ReturnPieceToQueue, Lifecycle!Requeue
    <3> QED BY <2>1, <3>1 DEF Lifecycle!LNext
  <2>4. CASE status[h.piece] = "Needed"
    <3>1. status' = status
      <4>1. status \in [Pieces -> {"Needed", "InProgress", "Have", "Skipped"}]
        BY DEF TypeOK
      <4>2. status' = [status EXCEPT ![h.piece] = "Needed"]
        BY <1>5 DEF ReturnPieceToQueue
      <4> QED BY <2>1, <2>4, <4>1, <4>2
    <3> QED BY <1>1, <1>5, <3>1 DEF ReturnPieceToQueue
  <2> QED BY <2>2, <2>3, <2>4
<1>6. ASSUME NEW x \in Peers, NEW p \in Pieces, NEW b \in Blocks, NEW good \in BOOLEAN,
             DeliverBlock(x, p, b, good)
      PROVE  UNCHANGED pieceVars
  BY Zenon, <1>6 DEF DeliverBlock
<1>7. ASSUME NEW x \in Peers, NEW p \in Pieces, NEW b \in Blocks, RejectBlock(x, p, b)
      PROVE  UNCHANGED pieceVars
  BY <1>7 DEF RejectBlock
<1>8. ASSUME NEW x \in Peers, NEW h \in handler[x], Finalize(x, h) \/ RecordRejection(x, h)
      PROVE  UNCHANGED pieceVars
  BY <1>8 DEF Finalize, RecordRejection
<1>9. CASE ~PieceStep
  BY <1>1, <1>9, PieceSteps
<1> HIDE DEF Goal
<1> QED BY Zenon, <1>1, <1>2, <1>3, <1>4, <1>5, <1>6, <1>7, <1>8, <1>9 DEF PieceStep

-----------------------------------------------------------------------------
(* What keeps a piece in progress from being stranded.  PiecesCovered is not inductive: it
   says that some missing block is looked after, and a step that takes that one away must
   leave another.  Registered adds that every owner of a missing block is still to be asked
   or has the block's timer armed, so a piece without a block to place is covered.
   ChokeSettled is about the two halves of a CHOKE. *)

(* The requests that a coroutine is sending or that wait in a connection's queue. *)
Asked == sends \union pending

(* Every owner of a missing block is still to be asked, or the block's timer runs. *)
Registered(p) ==
  \A b \in Blocks \ prog[p].received : \A x \in prog[p].owners[b] :
    b \in prog[p].armed \/ <<x, p, b>> \in Asked

Rejecting(p) == \E x \in Peers : \E h \in handler[x] : h.do = "reject" /\ h.piece = p

(* What PiecesCovered says of one piece while no connection is lost. *)
Held(p) ==
  \/ prog[p].received = Blocks
  \/ \E b \in Blocks \ prog[p].received :
       b \in prog[p].armed \/ \E x \in Peers : <<x, p, b>> \in Asked
  \/ resumers[p].run > 0
  \/ Rejecting(p)

Sound(p) ==
  prog[p].live /\ ~shutdown =>
    /\ status[p] # "Have" => Registered(p)
    /\ status[p] = "InProgress" => Held(p)

AllHave == \A p \in Pieces : status[p] = "Have"

(* Without a socket that fails, connections only close when the download is over. *)
Connected ==
  /\ sent = {} /\ disconnects = 0
  /\ (\A x \in Peers : conn[x] = "up") \/ shutdown \/ AllHave
  /\ \A x \in Peers : \A h \in handler[x] : h.do = "flush" => AllHave

(* Before a CHOKE drops the queue of a peer, the peer is out of every entry and, if
   there is something to drop, every entry has a resumer. *)
ChokeSettled ==
  \A x \in Peers : choking[x] = "dropping" =>
    /\ \A f \in Fillers : fill[f] = {}
    /\ \A p \in Pieces : prog[p].live =>
         /\ \A b \in Blocks : x \notin prog[p].owners[b]
         /\ Of(x, pending) # {} => resumers[p].run > 0

Steady ==
  /\ TypeOK /\ OneThread /\ FlagHasResumer /\ CompletedCountsHave
  /\ Connected /\ ChokeSettled
  /\ \A p \in Pieces : Sound(p)

(* The step does not touch what piece p is judged by. *)
Untouched(p) ==
  /\ prog'[p].live => prog[p].live
  /\ prog'[p].received = prog[p].received
  /\ prog'[p].armed = prog[p].armed
  /\ prog'[p].owners = prog[p].owners

(* The step loses no request, resumer or rejection of piece p. *)
Unlost(p) ==
  /\ \A x \in Peers, b \in Blocks : <<x, p, b>> \in Asked => <<x, p, b>> \in Asked'
  /\ resumers[p].run > 0 => resumers'[p].run > 0
  /\ Rejecting(p) => Rejecting(p)'

(* Such a step keeps the piece sound. *)
LEMMA StillSound ==
  ASSUME TypeOK, NEW p \in Pieces, Sound(p), Untouched(p), Unlost(p),
         status'[p] = status[p], shutdown => shutdown'
  PROVE  Sound(p)'
<1>1. prog[p].owners \in [Blocks -> SUBSET Peers]
  BY DEF TypeOK, Progress
<1>2. Registered(p) => Registered(p)'
  BY Zenon, <1>1 DEF Registered, Untouched, Unlost
<1>3. Held(p) => Held(p)'
  BY Zenon DEF Held, Untouched, Unlost
<1> QED BY Zenon, <1>2, <1>3 DEF Sound, Untouched

(* An entry with no block to place, whose owners are registered, waits for nothing or
   for a block that is asked for or has its timer armed. *)
LEMMA OwnersAreAsked ==
  ASSUME NEW obj \in Progress, NEW A, NEW p, Missing(obj) = {},
         \A b \in Blocks \ obj.received : \A x \in obj.owners[b] :
           b \in obj.armed \/ <<x, p, b>> \in A
  PROVE  \/ obj.received = Blocks
         \/ \E b \in Blocks \ obj.received :
              b \in obj.armed \/ \E x \in Peers : <<x, p, b>> \in A
<1>1. obj.owners \in [Blocks -> SUBSET Peers] /\ obj.received \subseteq Blocks
  BY DEF Progress
<1>2. SUFFICES ASSUME obj.received # Blocks
               PROVE  \E b \in Blocks \ obj.received :
                        b \in obj.armed \/ \E x \in Peers : <<x, p, b>> \in A
  OBVIOUS
<1>3. PICK b \in Blocks : b \notin obj.received
  BY <1>1, <1>2
<1>4. PICK x \in Peers : x \in obj.owners[b]
  BY <1>1, <1>3 DEF Missing
<1> QED BY <1>3, <1>4

(* ensure_resume_piece_download changes nothing of an entry but its flag, and only adds
   resumers; a piece whose flag was down gets one. *)
LEMMA EnsureResumeAdds ==
  ASSUME TypeOK, NEW pr \in [Pieces -> Progress], NEW S, EnsureResume(pr, S), NEW p \in Pieces
  PROVE  /\ prog'[p].live = pr[p].live
         /\ prog'[p].received = pr[p].received
         /\ prog'[p].armed = pr[p].armed
         /\ prog'[p].owners = pr[p].owners
         /\ resumers[p].run > 0 => resumers'[p].run > 0
         /\ p \in S /\ pr[p].live /\ ~shutdown /\ ~pr[p].resuming => resumers'[p].run > 0
<1>1. pr[p] \in Progress /\ resumers[p] \in [run : Nat, exiting : Nat]
  BY DEF TypeOK
<1>2. CASE p \in Resumable(pr, S)
  <2> DEFINE new == [pr[p] EXCEPT !.resuming = TRUE]
             more == [resumers[p] EXCEPT !.run = @ + 1]
  <2>1. prog'[p] = new /\ resumers'[p] = more
    BY <1>2 DEF EnsureResume
  <2>2. /\ new.live = pr[p].live /\ new.received = pr[p].received
        /\ new.armed = pr[p].armed /\ new.owners = pr[p].owners
    BY <1>1 DEF Progress
  <2>3. more.run > 0
    BY <1>1
  <2> HIDE DEF new, more
  <2> QED BY Zenon, <2>1, <2>2, <2>3
<1>3. CASE p \notin Resumable(pr, S)
  <2>1. prog'[p] = pr[p] /\ resumers'[p] = resumers[p]
    BY <1>3 DEF EnsureResume
  <2> QED BY <1>3, <2>1 DEF Resumable
<1> QED BY Zenon, <1>2, <1>3

(* On one thread the piece has a resumer afterwards in any case: a flag that is up
   belongs to one that has not begun to exit. *)
LEMMA EnsureResumeRuns ==
  ASSUME ~MultiThreaded, TypeOK, FlagHasResumer, CanRun, ~shutdown,
         NEW pr \in [Pieces -> Progress], NEW S, EnsureResume(pr, S),
         NEW p \in Pieces, p \in S, pr[p].live, pr[p].resuming => prog[p].resuming
  PROVE  resumers'[p].run > 0
<1>1. resumers[p] \in [run : Nat, exiting : Nat]
  BY DEF TypeOK
<1>2. ~(resumers[p].exiting > 0)
  BY Zenon DEF CanRun, MidSection
<1>3. prog[p].resuming => resumers[p].run + resumers[p].exiting > 0
  BY Zenon DEF FlagHasResumer
<1> DEFINE run == resumers[p].run
           exiting == resumers[p].exiting
<1>4. run \in Nat /\ exiting \in Nat
  BY Zenon, <1>1
<1> HIDE DEF run, exiting
<1>5. ~(exiting > 0) /\ run + exiting > 0 => run > 0
  BY <1>4
<1>6. prog[p].resuming => resumers[p].run > 0
  BY Zenon, <1>2, <1>3, <1>5 DEF run, exiting
<1> QED BY Zenon, <1>6, EnsureResumeAdds

(* Freeing the pipeline loses no request but the cancelled ones. *)
LEMMA FreePipelineAsks ==
  ASSUME NEW answered, NEW cancelled, NEW spawned, FreePipeline(answered, cancelled, spawned)
  PROVE  /\ \A r : r \in Asked /\ r \notin cancelled => r \in Asked'
         /\ spawned \subseteq Asked'
BY DEF FreePipeline, Asked

(* Where CanRun guards a step on one thread, no CHOKE is half done. *)
LEMMA NobodyDropping ==
  ASSUME ~MultiThreaded, CanRun, NEW x \in Peers
  PROVE  choking[x] # "dropping"
BY DEF CanRun, MidSection

(* The steps that open or close a connection. *)
ConnStep ==
  \/ \E x \in Peers :
       \/ SocketFails(x) \/ Disconnect(x) \/ RemoveConnection(x) \/ Connect(x)
       \/ \E h \in handler[x] : Finalize(x, h)
  \/ StopClose

(* All other steps leave the connections alone. *)
LEMMA ConnSteps ==
  ASSUME [Next]_vars, ~ConnStep
  PROVE  UNCHANGED <<conn, disconnects>>
<1> DEFINE Quiet == UNCHANGED <<conn, disconnects>>
<1> USE DEF connVars
<1>1. CASE Fill
  BY <1>1 DEF Fill, FillCheck, FillCommit
<1>2. CASE Send
  BY Zenon, <1>2 DEF Send, SendQueued, SendWritten, SendFailed, RecordSent
<1>3. ASSUME NEW x \in Peers, Receive(x) PROVE Quiet
  <2>1. ASSUME NEW p \in Pieces, NEW b \in Blocks,
               DeliverLate(x, p, b) \/ DeliverDuplicate(x, p, b)
        PROVE  Quiet
    BY Zenon, <2>1 DEF DeliverLate, DeliverDuplicate
  <2>2. ASSUME NEW p \in Pieces, NEW b \in Blocks, NEW good \in BOOLEAN,
               DeliverBlock(x, p, b, good)
        PROVE  Quiet
    BY Zenon, <2>2 DEF DeliverBlock
  <2>3. ASSUME NEW p \in Pieces, NEW b \in Blocks, RejectBlock(x, p, b) PROVE Quiet
    BY <2>3 DEF RejectBlock
  <2>4. ASSUME NEW h \in handler[x],
               \/ CompletePiece(x, h) \/ FinishPiece(x, h)
               \/ ReturnPieceToQueue(x, h) \/ RecordRejection(x, h)
        PROVE  Quiet
    BY Zenon, <2>4 DEF CompletePiece, FinishPiece, ReturnPieceToQueue, RecordRejection
  <2>5. CASE Choke(x) \/ ChokeDropQueue(x) \/ Unchoke(x)
    BY Zenon, <2>5 DEF Choke, ChokeDropQueue, Unchoke
  <2> HIDE DEF Quiet
  <2> QED BY Zenon, <1>3, <2>1, <2>2, <2>3, <2>4, <2>5 DEF Receive, ConnStep
<1>4. ASSUME Manage PROVE Quiet
  <2>1. ASSUME NEW p \in Pieces, ResumePass(p) \/ ResumeExit(p) PROVE Quiet
    BY <2>1 DEF ResumePass, ResumeExit
  <2>2. ASSUME NEW p \in Pieces, NEW b \in Blocks, BlockTimeout(p, b) PROVE Quiet
    BY <2>2 DEF BlockTimeout
  <2>3. ASSUME NEW p \in Pieces, NEW y \in Peers, TailRequest(p, y) PROVE Quiet
    BY Zenon, <2>3 DEF TailRequest
  <2>4. ASSUME NEW stalled \in BOOLEAN, EnterEndgame(stalled) PROVE Quiet
    BY <2>4 DEF EnterEndgame
  <2>5. CASE Broadcast
    BY <2>5 DEF Broadcast
  <2> HIDE DEF Quiet
  <2> QED BY <1>4, <2>1, <2>2, <2>3, <2>4, <2>5 DEF Manage
<1>5. CASE Stop
  BY <1>5 DEF Stop
<1>6. CASE UNCHANGED vars
  BY <1>6 DEF vars
<1> QED BY Zenon, <1>1, <1>2, <1>3, <1>4, <1>5, <1>6 DEF Next, ConnStep

(* On one thread no step leaves a record_request_sent for later. *)
LEMMA NothingSent ==
  ASSUME ~MultiThreaded, sent = {}, [Next]_vars
  PROVE  sent' = {}
<1> USE DEF netVars
<1>1. CASE Fill
  BY <1>1 DEF Fill, FillCheck, FillCommit
<1>2. CASE Send
  BY Zenon, <1>2 DEF Send, SendQueued, SendWritten, SendFailed, RecordSent
<1>3. ASSUME NEW x \in Peers, Receive(x) PROVE sent' = {}
  <2>1. ASSUME NEW p \in Pieces, NEW b \in Blocks,
               DeliverLate(x, p, b) \/ DeliverDuplicate(x, p, b) \/ RejectBlock(x, p, b)
        PROVE  sent' = {}
    BY <2>1 DEF DeliverLate, DeliverDuplicate, RejectBlock
  <2>2. ASSUME NEW p \in Pieces, NEW b \in Blocks, NEW good \in BOOLEAN,
               DeliverBlock(x, p, b, good)
        PROVE  sent' = {}
    BY Zenon, <2>2 DEF DeliverBlock
  <2>3. ASSUME NEW h \in handler[x],
               \/ CompletePiece(x, h) \/ FinishPiece(x, h) \/ Finalize(x, h)
               \/ ReturnPieceToQueue(x, h) \/ RecordRejection(x, h)
        PROVE  sent' = {}
    BY Zenon, <2>3 DEF CompletePiece, FinishPiece, Finalize, ReturnPieceToQueue, RecordRejection
  <2>4. CASE Choke(x) \/ ChokeDropQueue(x) \/ Unchoke(x)
    BY Zenon, <2>4 DEF Choke, ChokeDropQueue, Unchoke
  <2>5. CASE SocketFails(x) \/ Disconnect(x) \/ RemoveConnection(x) \/ Connect(x)
    BY Zenon, <2>5 DEF SocketFails, Disconnect, RemoveConnection, Connect
  <2> QED BY Zenon, <1>3, <2>1, <2>2, <2>3, <2>4, <2>5 DEF Receive
<1>4. CASE Manage
  <2>1. ASSUME NEW p \in Pieces, ResumePass(p) \/ ResumeExit(p) PROVE sent' = {}
    BY <2>1 DEF ResumePass, ResumeExit
  <2>2. ASSUME NEW p \in Pieces, NEW b \in Blocks, BlockTimeout(p, b) PROVE sent' = {}
    BY <2>2 DEF BlockTimeout
  <2>3. ASSUME NEW p \in Pieces, NEW y \in Peers, TailRequest(p, y) PROVE sent' = {}
    BY Zenon, <2>3 DEF TailRequest
  <2>4. ASSUME NEW stalled \in BOOLEAN, EnterEndgame(stalled) PROVE sent' = {}
    BY <2>4 DEF EnterEndgame
  <2>5. CASE Broadcast
    BY <2>5 DEF Broadcast
  <2> QED BY <1>4, <2>1, <2>2, <2>3, <2>4, <2>5 DEF Manage
<1>5. CASE Stop \/ StopClose
  BY <1>5 DEF Stop, StopClose
<1>6. CASE UNCHANGED vars
  BY <1>6 DEF vars
<1> QED BY <1>1, <1>2, <1>3, <1>4, <1>5, <1>6 DEF Next

(* A stopped engine stays stopped, and a piece that is Have stays so. *)
LEMMA OverIsOver ==
  ASSUME TypeOK, OneThread, [Next]_vars
  PROVE  (shutdown => shutdown') /\ (AllHave => AllHave')
<1>1. AllHave => AllHave'
  <2>1. CASE UNCHANGED Lifecycle!lifecycle
    BY <2>1 DEF Lifecycle!lifecycle, AllHave
  <2>2. CASE Lifecycle!LNext
    BY <2>2 DEF Lifecycle!LNext, Lifecycle!Complete, Lifecycle!Start, Lifecycle!Requeue,
                Lifecycle!Acquire, AllHave
  <2> QED BY <2>1, <2>2, LifecycleStep
<1>2. shutdown => shutdown'
  <2>1. CASE PieceStep
    <3> USE DEF modeVars
    <3>1. ASSUME NEW f \in Fillers, NEW p \in Pieces, NEW x \in Peers, FillCommit(f, p, x)
          PROVE  shutdown' = shutdown
      BY <3>1 DEF FillCommit
    <3>2. ASSUME NEW x \in Peers, NEW p \in Pieces, NEW b \in Blocks,
                 RejectBlock(x, p, b) \/ \E good \in BOOLEAN : DeliverBlock(x, p, b, good)
          PROVE  shutdown' = shutdown
      BY Zenon, <3>2 DEF DeliverBlock, RejectBlock
    <3>3. ASSUME NEW x \in Peers, NEW h \in handler[x],
                 \/ CompletePiece(x, h) \/ FinishPiece(x, h) \/ Finalize(x, h)
                 \/ ReturnPieceToQueue(x, h) \/ RecordRejection(x, h)
          PROVE  shutdown' = shutdown
      BY Zenon, <3>3 DEF CompletePiece, FinishPiece, Finalize, ReturnPieceToQueue, RecordRejection
    <3> QED BY Zenon, <2>1, <3>1, <3>2, <3>3 DEF PieceStep
  <2>2. CASE ~PieceStep
    BY Zenon, <2>2, QuietSteps DEF FillCheck, Stop, Kept, modeVars
  <2> QED BY <2>1, <2>2
<1> QED BY <1>1, <1>2

(* On one thread a step either waits until nobody is inside a section, or is the next
   step of a section; a CHOKE is the only step that opens one with a queue to drop. *)
LEMMA SectionSteps ==
  ASSUME [Next]_vars
  PROVE  \/ CanRun /\ \/ UNCHANGED choking
                      \/ \E x \in Peers : Choke(x) \/ Unchoke(x) \/ Connect(x)
         \/ \E f \in Fillers, p \in Pieces, x \in Peers : FillCommit(f, p, x)
         \/ \E r \in Requests : RecordSent(r)
         \/ \E x \in Peers : SocketFails(x) \/ ChokeDropQueue(x)
         \/ \E x \in Peers : \E h \in handler[x] : CompletePiece(x, h) \/ FinishPiece(x, h)
         \/ \E p \in Pieces : ResumeExit(p)
         \/ UNCHANGED vars
<1> DEFINE Goal == CanRun /\ UNCHANGED choking
<1> USE DEF connVars
<1>1. ASSUME NEW f \in Fillers, NEW p \in Pieces, NEW x \in Peers, FillCheck(f, p, x) PROVE Goal
  BY <1>1 DEF FillCheck
<1>2. ASSUME NEW r \in Requests, SendQueued(r) \/ SendWritten(r) \/ SendFailed(r) PROVE Goal
  BY Zenon, <1>2 DEF SendQueued, SendWritten, SendFailed
<1>3. ASSUME NEW x \in Peers, NEW p \in Pieces, NEW b \in Blocks,
             \/ DeliverLate(x, p, b) \/ DeliverDuplicate(x, p, b) \/ RejectBlock(x, p, b)
             \/ \E good \in BOOLEAN : DeliverBlock(x, p, b, good)
      PROVE  Goal
  BY Zenon, <1>3 DEF DeliverLate, DeliverDuplicate, RejectBlock, DeliverBlock, CanHandle
<1>4. ASSUME NEW x \in Peers, NEW h \in handler[x],
             Finalize(x, h) \/ ReturnPieceToQueue(x, h) \/ RecordRejection(x, h)
      PROVE  Goal
  BY Zenon, <1>4 DEF Finalize, ReturnPieceToQueue, RecordRejection
<1>5. ASSUME NEW x \in Peers, Choke(x) \/ Unchoke(x) \/ Connect(x) PROVE CanRun
  BY Zenon, <1>5 DEF Choke, Unchoke, Connect, CanHandle
<1>6. ASSUME NEW x \in Peers, Disconnect(x) \/ RemoveConnection(x) PROVE Goal
  BY <1>6 DEF Disconnect, RemoveConnection
<1>7. ASSUME NEW p \in Pieces,
             \/ ResumePass(p) \/ \E b \in Blocks : BlockTimeout(p, b)
             \/ \E y \in Peers : TailRequest(p, y)
      PROVE  Goal
  BY Zenon, <1>7 DEF ResumePass, BlockTimeout, TailRequest
<1>8. ASSUME NEW stalled \in BOOLEAN, EnterEndgame(stalled) PROVE Goal
  BY <1>8 DEF EnterEndgame
<1>9. ASSUME Broadcast \/ Stop \/ StopClose PROVE Goal
  BY Zenon, <1>9 DEF Broadcast, Stop, StopClose
<1>10. ASSUME NEW x \in Peers, Receive(x)
       PROVE  \/ Goal \/ (CanRun /\ (Choke(x) \/ Unchoke(x) \/ Connect(x)))
              \/ SocketFails(x) \/ ChokeDropQueue(x)
              \/ \E h \in handler[x] : CompletePiece(x, h) \/ FinishPiece(x, h)
  <2> HIDE DEF Goal
  <2> QED BY Zenon, <1>3, <1>4, <1>5, <1>6, <1>10 DEF Receive
<1>11. ASSUME Manage PROVE Goal \/ \E p \in Pieces : ResumeExit(p)
  <2> HIDE DEF Goal
  <2> QED BY <1>7, <1>8, <1>9, <1>11 DEF Manage
<1>12. ASSUME Fill \/ Send
       PROVE  \/ Goal \/ \E f \in Fillers, p \in Pieces, x \in Peers : FillCommit(f, p, x)
              \/ \E r \in Requests : RecordSent(r)
  <2> HIDE DEF Goal
  <2> QED BY <1>1, <1>2, <1>12 DEF Fill, Send
<1> QED BY Zenon, <1>9, <1>10, <1>11, <1>12 DEF Next

(* CHOKE takes the peer out of every entry before it drops the queue. *)
LEMMA ChokeSettles ==
  ASSUME ~MultiThreaded, TypeOK, OneThread, FlagHasResumer, NEW x \in Peers, Choke(x)
  PROVE  ChokeSettled'
<1> DEFINE pr == [p \in Pieces |->
                    IF prog[p].live THEN WithoutOwner(prog[p], x) ELSE prog[p]]
           S == {p \in Pieces : Of(x, pending) # {} \/ Missing(pr[p]) # {}}
<1>1. pr \in [Pieces -> Progress]
  BY WithoutOwnerType DEF TypeOK
<1>2. /\ EnsureResume(pr, S) /\ choking' = [choking EXCEPT ![x] = "dropping"]
      /\ CanRun /\ UNCHANGED <<fill, pending, shutdown>>
  BY Zenon DEF Choke, CanHandle, netVars, taskVars, modeVars
<1>3. \A f \in Fillers : fill'[f] = {}
  BY Zenon, <1>2, OneThreadCanRun
<1>4. ASSUME NEW y \in Peers, choking'[y] = "dropping" PROVE y = x
  BY <1>2, <1>4, NobodyDropping DEF TypeOK
<1>5. ASSUME NEW p \in Pieces, prog'[p].live
      PROVE  /\ \A b \in Blocks : x \notin prog'[p].owners[b]
             /\ Of(x, pending') # {} => resumers'[p].run > 0
  <2>1. pr[p].live /\ prog'[p].owners = pr[p].owners
    BY Zenon, <1>1, <1>2, <1>5, EnsureResumeAdds
  <2>2. prog[p] \in Progress
    BY DEF TypeOK
  <2>3. prog[p].live /\ pr[p] = WithoutOwner(prog[p], x)
    BY <2>1, <2>2, OwnersKeep
  <2>4. pr[p].owners = [b \in Blocks |-> prog[p].owners[b] \ {x}]
    BY <2>2, <2>3 DEF WithoutOwner, Progress
  <2>5. pr[p].resuming => prog[p].resuming
    BY <2>2, <2>3, WithoutOwnerFits DEF Fit
  <2>6. ASSUME Of(x, pending') # {} PROVE resumers'[p].run > 0
    <3>1. p \in S
      BY <1>2, <2>6 DEF Of
    <3>2. ~shutdown
      BY <2>3 DEF OneThread, Stopped
    <3> HIDE DEF pr, S
    <3> QED BY Zenon, <1>1, <1>2, <2>1, <2>5, <3>1, <3>2, EnsureResumeRuns
  <2> QED BY Zenon, <2>1, <2>4, <2>6
<1> QED BY Zenon, <1>2, <1>3, <1>4, <1>5 DEF ChokeSettled

(* ChokeSettled is inductive: between the two halves of a CHOKE only the sections of
   others can end. *)
LEMMA NextChokeSettled ==
  ASSUME ~MultiThreaded, MaxDisconnects = 0, Steady, [Next]_vars
  PROVE  ChokeSettled'
<1> USE DEF Steady, connVars, netVars, taskVars, progVars
<1>1. ASSUME UNCHANGED fill, pending' \subseteq pending,
             \A y \in Peers : choking'[y] = "dropping" => choking[y] = "dropping",
             \A p \in Pieces : /\ prog'[p].live => prog[p].live
                               /\ prog'[p].live => prog'[p].owners = prog[p].owners
                               /\ resumers'[p].run = resumers[p].run
      PROVE  ChokeSettled'
  <2>1. \A x \in Peers : Of(x, pending') # {} => Of(x, pending) # {}
    BY Zenon, <1>1 DEF Of
  <2> QED BY Zenon, <1>1, <2>1 DEF ChokeSettled
<1>2. ASSUME CanRun, UNCHANGED choking PROVE ChokeSettled'
  BY Zenon, <1>2, NobodyDropping DEF ChokeSettled
<1>3. ASSUME NEW x \in Peers, CanRun, Unchoke(x) \/ Connect(x) PROVE ChokeSettled'
  <2>1. choking \in [Peers -> {"yes", "no", "dropping"}]
    BY DEF TypeOK
  <2>2. choking' = [choking EXCEPT ![x] = "no"] \/ choking' = [choking EXCEPT ![x] = "yes"]
    BY Zenon, <1>3 DEF Unchoke, Connect
  <2>3. \A y \in Peers : choking'[y] # "dropping"
    BY Zenon, <1>3, <2>1, <2>2, NobodyDropping
  <2> QED BY Zenon, <2>3 DEF ChokeSettled
<1>4. ASSUME NEW x \in Peers, Choke(x) PROVE ChokeSettled'
  BY <1>4, ChokeSettles
<1>5. ASSUME NEW f \in Fillers, NEW p \in Pieces, NEW x \in Peers, FillCommit(f, p, x)
      PROVE  ChokeSettled'
  <2>1. fill[f] # {} /\ UNCHANGED choking
    BY <1>5 DEF FillCommit
  <2> QED BY Zenon, <2>1 DEF ChokeSettled
<1>6. ASSUME NEW r \in Requests, RecordSent(r) PROVE ChokeSettled'
  BY Zenon, <1>6 DEF RecordSent, Connected
<1>7. ASSUME NEW x \in Peers, SocketFails(x) PROVE ChokeSettled'
  BY <1>7 DEF SocketFails, Connected
<1>8. ASSUME NEW x \in Peers, ChokeDropQueue(x) PROVE ChokeSettled'
  <2>1. /\ UNCHANGED <<fill, prog, resumers>> /\ pending' \subseteq pending
        /\ \A y \in Peers : choking'[y] = "dropping" => choking[y] = "dropping"
    BY <1>8 DEF ChokeDropQueue, TypeOK
  <2> QED BY Zenon, <1>1, <2>1
<1>9. ASSUME NEW x \in Peers, NEW h \in handler[x], CompletePiece(x, h) PROVE ChokeSettled'
  BY Zenon, <1>1, <1>9 DEF CompletePiece
<1>10. ASSUME NEW x \in Peers, NEW h \in handler[x], FinishPiece(x, h) PROVE ChokeSettled'
  <2>1. /\ UNCHANGED <<fill, pending, choking, resumers>>
        /\ prog' = [prog EXCEPT ![h.piece] = NoProg]
    BY <1>10 DEF FinishPiece
  <2>2. ~NoProg.live
    BY Zenon DEF NoProg
  <2>3. \A p \in Pieces : prog'[p] = prog[p] \/ prog'[p] = NoProg
    BY <2>1 DEF TypeOK
  <2> QED BY Zenon, <1>1, <2>1, <2>2, <2>3
<1>11. ASSUME NEW p \in Pieces, ResumeExit(p) PROVE ChokeSettled'
  <2> DEFINE new == [prog[p] EXCEPT !.resuming = FALSE]
             less == [resumers[p] EXCEPT !.exiting = @ - 1]
  <2>1. /\ UNCHANGED <<fill, pending, choking>>
        /\ prog' = [prog EXCEPT ![p] = new] /\ resumers' = [resumers EXCEPT ![p] = less]
    BY <1>11 DEF ResumeExit
  <2>2. /\ new.live = prog[p].live /\ new.owners = prog[p].owners
        /\ less.run = resumers[p].run
    BY DEF TypeOK, Progress
  <2> HIDE DEF new, less
  <2>3. \A q \in Pieces : /\ prog'[q].live = prog[q].live /\ prog'[q].owners = prog[q].owners
                          /\ resumers'[q].run = resumers[q].run
    BY <2>1, <2>2 DEF TypeOK
  <2> QED BY <1>1, <2>1, <2>3
<1>12. ASSUME UNCHANGED vars PROVE ChokeSettled'
  BY Zenon, <1>1, <1>12 DEF vars
<1> HIDE DEF Steady
<1> QED BY Zenon, <1>2, <1>3, <1>4, <1>5, <1>6, <1>7, <1>8, <1>9, <1>10, <1>11, <1>12, SectionSteps
=============================================================================
