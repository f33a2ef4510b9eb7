-------------------------- MODULE PieceEngineProofs --------------------------
(***************************************************************************)
(* What PieceEngine guarantees, for any number of pieces, blocks, peers    *)
(* and fills: with any number of threads its types, the hash of every      *)
(* piece it has and its timers; on one I/O thread that it implements       *)
(* PieceLifecycle, counts its pieces and, while no socket fails, never     *)
(* strands a piece in progress.                                            *)
(***************************************************************************)
EXTENDS PieceEngineOneThread, FiniteSetTheorems

(* The initial states are well typed. *)
LEMMA InitTypeOK == Init => TypeOK
<1> SUFFICES ASSUME Init PROVE TypeOK
  OBVIOUS
<1>1. status \in [Pieces -> {"Needed", "InProgress", "Have", "Skipped"}]
  BY DEF Init
<1>2. completed \in Nat
  <2>1. IsFiniteSet(HavePieces)
    BY EngineAssumption, FS_Subset DEF HavePieces
  <2> QED BY <2>1, FS_CardinalityType DEF Init
<1>3. prog \in [Pieces -> Progress]
  BY ProgType DEF Init
<1>4. disk \in [Pieces -> SUBSET Blocks]
  BY DEF Init
<1> QED BY Zenon, <1>1, <1>2, <1>3, <1>4 DEF Init, TypeOK

(* The type invariant, for every instance and any number of threads. *)
THEOREM TypeCorrect == Spec => []TypeOK
BY InitTypeOK, NextTypeOK, PTL DEF Spec

(* With any number of threads, peers and fills, corrupt blocks and restored bits
   without data: a piece is only ever marked Have with the data of the torrent. *)
THEOREM OnlyHashedDataIsKept == Spec => []HaveIsGood
<1>1. Init => HaveIsGood /\ WriteIsGood
  BY DEF Init, HaveIsGood, WriteIsGood
<1> QED BY <1>1, TypeCorrect, NextHaveIsGood, PTL DEF Spec

(* With any number of threads, resume_task_active is only up while a resumer exists
   that will lower it. *)
THEOREM FlagsAreLowered == Spec => []FlagHasResumer
BY InitTimers, TypeCorrect, NextTimers, PTL DEF Spec, Timers

(* With any number of threads, an armed block timer has an owner to cancel. *)
THEOREM TimersHaveOwners == Spec => []ArmedHasOwner
BY InitTimers, TypeCorrect, NextTimers, PTL DEF Spec, Timers

(* On one I/O thread the engine implements the lifecycle: whatever the peers, the
   timeouts and the shutdown do, a piece goes from Needed to InProgress and back or
   to Have, is counted once when it gets there, and the torrent completes only when
   every piece is counted. *)
THEOREM EngineImplementsLifecycle ==
  ASSUME ~MultiThreaded
  PROVE  Spec => ImplementsLifecycle
<1>1. Init => Lifecycle!LInit
  <2> SUFFICES ASSUME Init PROVE Lifecycle!LInit
    OBVIOUS
  <2>1. status \in [Pieces -> {"Needed", "Have", "Skipped"}]
    BY DEF Init
  <2>2. completed = Cardinality(Lifecycle!HavePieces)
    BY DEF Init, HavePieces, Lifecycle!HavePieces
  <2>3. complete = FALSE
    BY DEF Init
  <2> QED BY <2>1, <2>2, <2>3, SameCardinality DEF Lifecycle!LInit
<1>2. TypeOK /\ OneThread /\ [Next]_vars => OneThread'
  BY NextOneThread
<1>3. TypeOK /\ OneThread /\ [Next]_vars => [Lifecycle!LNext]_(Lifecycle!lifecycle)
  BY LifecycleStep
<1> QED BY <1>1, <1>2, <1>3, InitOneThread, TypeCorrect, PTL
        DEF Spec, ImplementsLifecycle, Lifecycle!LSpec

(* The counter is exact in every state of the lifecycle, hence of the engine on one
   I/O thread: the last piece makes completed_pieces() reach num_pieces(). *)
THEOREM EngineCountsHave ==
  ASSUME ~MultiThreaded
  PROVE  Spec => []CompletedCountsHave
<1>1. Init => CompletedCountsHave
  BY DEF Init, CompletedCountsHave
<1>2. ASSUME TypeOK, CompletedCountsHave, [Lifecycle!LNext]_(Lifecycle!lifecycle)
      PROVE  CompletedCountsHave'
  <2>1. IsFiniteSet(HavePieces)
    BY EngineAssumption, FS_Subset DEF HavePieces
  <2>2. ASSUME NEW p \in Pieces, Lifecycle!Start(p) \/ Lifecycle!Requeue(p)
        PROVE  CompletedCountsHave'
    <3>0. \A q \in Pieces : status'[q] = "Have" <=> status[q] = "Have"
      BY <1>2, <2>2 DEF Lifecycle!Start, Lifecycle!Requeue, TypeOK
    <3>1. HavePieces' = HavePieces
      BY <3>0 DEF HavePieces
    <3>2. completed' = completed
      BY <2>2 DEF Lifecycle!Start, Lifecycle!Requeue
    <3> QED BY <1>2, <3>1, <3>2 DEF CompletedCountsHave
  <2>3. ASSUME NEW p \in Pieces, Lifecycle!Acquire(p) PROVE CompletedCountsHave'
    <3>1. HavePieces' = HavePieces \union {p} /\ p \notin HavePieces
      BY <1>2, <2>3 DEF Lifecycle!Acquire, HavePieces, TypeOK
    <3>2. Cardinality(HavePieces') = Cardinality(HavePieces) + 1
      BY Zenon, <2>1, <3>1, FS_AddElement
    <3> QED BY <1>2, <2>3, <3>2 DEF CompletedCountsHave, Lifecycle!Acquire
  <2>4. CASE Lifecycle!Complete \/ UNCHANGED Lifecycle!lifecycle
    <3>1. UNCHANGED <<status, completed>>
      BY <2>4 DEF Lifecycle!Complete, Lifecycle!lifecycle
    <3> QED BY <1>2, <3>1 DEF CompletedCountsHave, HavePieces
  <2> QED BY <1>2, <2>2, <2>3, <2>4 DEF Lifecycle!LNext
<1>3. TypeOK /\ CompletedCountsHave /\ OneThread /\ [Next]_vars
        => OneThread' /\ CompletedCountsHave'
  BY <1>2, NextOneThread, LifecycleStep
<1> QED BY <1>1, <1>3, InitOneThread, TypeCorrect, PTL DEF Spec

-----------------------------------------------------------------------------
(* Pieces stay covered. *)

(* The final flush is only started by the handler that found all pieces there. *)
LEMMA FlushAtTheEnd ==
  ASSUME TypeOK, OneThread, CompletedCountsHave, Connected, [Next]_vars,
         NEW x \in Peers, NEW h \in handler'[x], h.do = "flush"
  PROVE  AllHave'
<1> USE DEF pieceVars
<1>1. CASE h \in handler[x]
  BY <1>1, OverIsOver DEF Connected
<1>2. CASE h \notin handler[x]
  <2>1. PieceStep
    BY <1>2, PieceSteps
  <2>2. ASSUME NEW y \in Peers, NEW S, handler' = [handler EXCEPT ![y] = S],
               \A g \in S : g.do # "flush"
        PROVE  FALSE
    BY <1>2, <2>2 DEF TypeOK
  <2>3. ASSUME NEW f \in Fillers, NEW p \in Pieces, NEW y \in Peers, FillCommit(f, p, y)
        PROVE  FALSE
    BY <1>2, <2>3 DEF FillCommit
  <2>4. ASSUME NEW y \in Peers, NEW p \in Pieces, NEW b \in Blocks, NEW good \in BOOLEAN,
               DeliverBlock(y, p, b, good)
        PROVE  FALSE
    <3>1. PICK got : handler' = [handler EXCEPT ![y] =
                                   IF got.received = Blocks THEN Verdict(p, b, got) ELSE {}]
      BY Zenon, <2>4 DEF DeliverBlock
    <3> DEFINE S == IF got.received = Blocks THEN Verdict(p, b, got) ELSE {}
    <3>2. \A g \in S : g.do # "flush"
      BY ToDoIsOneStep DEF Verdict
    <3>3. handler' = [handler EXCEPT ![y] = S]
      BY <3>1
    <3> HIDE DEF S
    <3> QED BY Zenon, <2>2, <3>2, <3>3
  <2>5. ASSUME NEW y \in Peers, NEW p \in Pieces, NEW b \in Blocks, RejectBlock(y, p, b)
        PROVE  FALSE
    <3>1. handler' \in {handler, [handler EXCEPT ![y] = ToDo("reject", p, b, {})]}
      BY <2>5 DEF RejectBlock
    <3>2. \A g \in ToDo("reject", p, b, {}) : g.do # "flush"
      BY ToDoIsOneStep
    <3> QED BY <1>2, <2>2, <3>1, <3>2
  <2>6. ASSUME NEW y \in Peers, NEW g \in handler[y], CompletePiece(y, g) PROVE FALSE
    <3>1. handler' = [handler EXCEPT ![y] = ToDo("finish", g.piece, g.block, g.bad)]
      BY <2>6 DEF CompletePiece
    <3>2. \A k \in ToDo("finish", g.piece, g.block, g.bad) : k.do # "flush"
      BY ToDoIsOneStep
    <3> QED BY Zenon, <2>2, <3>1, <3>2
  <2>7. ASSUME NEW y \in Peers, NEW g \in handler[y],
               Finalize(y, g) \/ ReturnPieceToQueue(y, g) \/ RecordRejection(y, g)
        PROVE  FALSE
    <3> DEFINE S == {}
    <3>1. handler' = [handler EXCEPT ![y] = S]
      BY <2>7 DEF Finalize, ReturnPieceToQueue, RecordRejection
    <3>2. \A k \in S : k.do # "flush"
      OBVIOUS
    <3> HIDE DEF S
    <3> QED BY Zenon, <2>2, <3>1, <3>2
  <2>8. ASSUME NEW y \in Peers, NEW g \in handler[y], FinishPiece(y, g) PROVE AllHave'
    <3>1. AllPieces
      <4>1. CASE ~AllPieces
        <5> DEFINE S == {}
        <5>1. handler' = [handler EXCEPT ![y] = S]
          BY <2>8, <4>1 DEF FinishPiece
        <5>2. \A k \in S : k.do # "flush"
          OBVIOUS
        <5> HIDE DEF S
        <5> QED BY Zenon, <2>2, <5>1, <5>2
      <4> QED BY <4>1
    <3>2. HavePieces \in SUBSET Pieces
      BY DEF HavePieces
    <3>3. HavePieces = Pieces
      BY Zenon, <3>1, <3>2, EngineAssumption, FS_Subset DEF AllPieces, CompletedCountsHave
    <3>4. status' = status
      BY <2>8 DEF FinishPiece
    <3> QED BY <3>3, <3>4 DEF HavePieces, AllHave
  <2> QED BY <2>1, <2>3, <2>4, <2>5, <2>6, <2>7, <2>8 DEF PieceStep
<1> QED BY <1>1, <1>2

(* Without a socket that fails, no connection is lost before the end. *)
LEMMA NextConnected ==
  ASSUME ~MultiThreaded, MaxDisconnects = 0, TypeOK, OneThread, CompletedCountsHave, Connected,
         [Next]_vars
  PROVE  Connected'
<1> DEFINE Up == \A x \in Peers : conn[x] = "up"
<1>1. sent' = {}
  BY NothingSent DEF Connected
<1>2. \A x \in Peers : \A h \in handler'[x] : h.do = "flush" => AllHave'
  BY FlushAtTheEnd
<1>3. \A x \in Peers : ~SocketFails(x)
  BY DEF SocketFails, Connected
<1>4. disconnects' = 0
  <2>1. CASE ConnStep
    BY Zenon, <1>3, <2>1 DEF ConnStep, Disconnect, RemoveConnection, Connect, Finalize, StopClose,
                      connVars, Connected
  <2> QED BY <2>1, ConnSteps DEF Connected
<1>5. Up' \/ shutdown' \/ AllHave'
  <2>1. CASE ~ConnStep
    BY <2>1, ConnSteps, OverIsOver DEF Connected
  <2>2. ASSUME NEW x \in Peers, conn[x] # "up" PROVE shutdown' \/ AllHave'
    BY <2>2, OverIsOver DEF Connected
  <2>3. ASSUME NEW x \in Peers, Disconnect(x) \/ RemoveConnection(x) \/ Connect(x)
        PROVE  shutdown' \/ AllHave'
    BY Zenon, <2>2, <2>3 DEF Disconnect, RemoveConnection, Connect
  <2>4. ASSUME NEW x \in Peers, NEW h \in handler[x], Finalize(x, h)
        PROVE  AllHave'
    BY <2>4, OverIsOver DEF Finalize, Connected
  <2>5. CASE StopClose
    BY <2>5, OverIsOver DEF StopClose
  <2> QED BY <1>3, <2>1, <2>3, <2>4, <2>5 DEF ConnStep
<1> QED BY <1>1, <1>2, <1>4, <1>5 DEF Connected

(* A step on one entry, of piece p, keeps all others sound. *)
LEMMA OthersSound ==
  ASSUME Steady, NEW p \in Pieces, shutdown => shutdown',
         \A q \in Pieces : q # p => /\ Untouched(q) /\ status'[q] = status[q]
                                    /\ Unlost(q),
         Sound(p)'
  PROVE  \A q \in Pieces : Sound(q)'
<1> TAKE q \in Pieces
<1>1. CASE q # p
  BY <1>1, StillSound DEF Steady
<1> QED BY <1>1

(* A fill asks a peer for every block. *)
LEMMA FillCommitSound ==
  ASSUME Steady, NEW f \in Fillers, NEW p \in Pieces, NEW x \in Peers, FillCommit(f, p, x)
  PROVE  \A q \in Pieces : Sound(q)'
<1> USE DEF Steady
<1> DEFINE obj == IF prog[p].live THEN prog[p] ELSE FreshProgress
           new == [obj EXCEPT !.owners = [b \in Blocks |-> obj.owners[b] \union {x}]]
<1>1. /\ <<p, x>> \in fill[f]
      /\ status' = [status EXCEPT ![p] = "InProgress"]
      /\ prog' = [prog EXCEPT ![p] = new]
      /\ sends' = sends \union ({x} \X {p} \X Blocks)
      /\ UNCHANGED <<pending, resumers, handler, shutdown>>
  BY DEF FillCommit, modeVars
<1>2. status[p] = "Needed"
  BY <1>1 DEF OneThread, CheckedNeeded
<1>3. obj \in Progress
  BY ProgType DEF TypeOK
<1>4. obj.live /\ (prog[p].live => obj = prog[p])
       /\ (~prog[p].live => \A b \in Blocks : obj.owners[b] = {})
  BY DEF FreshProgress, NoProg
<1> HIDE DEF obj
<1>5. /\ new.received = obj.received /\ new.armed = obj.armed
      /\ \A b \in Blocks : new.owners[b] = obj.owners[b] \union {x}
  BY <1>3 DEF Progress
<1>6. prog'[p] = new /\ \A q \in Pieces : q # p => prog'[q] = prog[q]
  BY <1>1 DEF TypeOK
<1> HIDE DEF new
<1>7. (\A r : r \in Asked => r \in Asked') /\ \A b \in Blocks : <<x, p, b>> \in Asked'
  BY <1>1 DEF Asked
<1>8. Sound(p)'
  <2>1. SUFFICES ASSUME ~shutdown PROVE Registered(p)' /\ Held(p)'
    BY <1>1 DEF Sound
  <2>2. prog[p].live => Registered(p)
    BY <1>2, <2>1 DEF Sound
  <2>3. Registered(p)'
    BY <1>4, <1>5, <1>6, <1>7, <2>2 DEF Registered
  <2>4. Held(p)'
    <3>1. obj.received \subseteq Blocks
      BY <1>3 DEF Progress
    <3>2. prog'[p].received \subseteq Blocks
      BY <3>1, <1>5, <1>6
    <3> QED BY Zenon, <1>7, <3>2 DEF Held
  <2> QED BY <2>3, <2>4
<1>9. \A q \in Pieces : q # p => Untouched(q) /\ status'[q] = status[q] /\ Unlost(q)
  BY <1>1, <1>6, <1>7 DEF Untouched, Unlost, Rejecting, TypeOK
<1> QED BY <1>1, <1>8, <1>9, OthersSound

(* record_request_sent arms the timer of the block it was called for. *)
LEMMA SendSound ==
  ASSUME ~MultiThreaded, Steady, NEW r \in Requests,
         SendQueued(r) \/ SendWritten(r) \/ SendFailed(r) \/ RecordSent(r)
  PROVE  \A q \in Pieces : Sound(q)'
<1> USE DEF Steady, pieceVars, modeVars, taskVars, progVars, connVars
<1>1. CASE SendQueued(r)
  <2>1. /\ \A s : s \in Asked => s \in Asked'
        /\ UNCHANGED <<prog, resumers, handler, status, shutdown>>
    BY <1>1 DEF SendQueued, Asked
  <2> QED BY <2>1, StillSound DEF Untouched, Unlost, Rejecting
<1>2. CASE SendFailed(r)
  <2>1. /\ conn[r[1]] # "up" /\ r[1] \in Peers
        /\ UNCHANGED <<status, shutdown>>
    BY <1>2 DEF SendFailed, Requests
  <2>2. shutdown \/ AllHave
    BY <2>1 DEF Connected
  <2> QED BY <2>1, <2>2 DEF Sound, AllHave
<1>3. CASE RecordSent(r)
  BY <1>3 DEF RecordSent, Connected
<1>4. CASE SendWritten(r)
  <2> DEFINE x == r[1]
             p == r[2]
             b == r[3]
             new == Armed(Owned(prog[p], b, x), b)
  <2>1. /\ x \in Peers /\ p \in Pieces /\ b \in Blocks /\ r = <<x, p, b>>
        /\ prog[p] \in Progress
    BY DEF Requests, TypeOK
  <2>2. /\ sends' = sends \ {r} /\ prog' = WithRequestSent(r)
        /\ UNCHANGED <<pending, resumers, handler, status, shutdown>>
    BY Zenon, <1>4 DEF SendWritten
  <2>3. /\ new.live = prog[p].live /\ new.received = prog[p].received
        /\ new.armed = prog[p].armed \union {b}
        /\ \A c \in Blocks : c # b => new.owners[c] = prog[p].owners[c]
    BY <2>1 DEF Armed, Owned, Progress
  <2>4. prog' = IF prog[p].live /\ b \notin prog[p].received THEN [prog EXCEPT ![p] = new]
                ELSE prog
    BY Zenon, <2>2 DEF WithRequestSent
  <2> HIDE DEF x, p, b, new
  <2>5. \A s : s # <<x, p, b>> /\ s \in Asked => s \in Asked'
    BY <2>1, <2>2 DEF Asked
  <2>6. \A q \in Pieces : q # p => Untouched(q) /\ status'[q] = status[q] /\ Unlost(q)
    BY Zenon, <2>1, <2>2, <2>4, <2>5 DEF Untouched, Unlost, Rejecting, TypeOK
  <2>7. Sound(p)'
    <3>1. CASE prog[p].live /\ b \notin prog[p].received
      <4>1. prog'[p] = new
        BY Zenon, <2>1, <2>4, <3>1 DEF TypeOK
      <4>2. b \in prog'[p].armed /\ b \in Blocks \ prog'[p].received
        BY Zenon, <2>1, <2>3, <3>1, <4>1
      <4>3. Registered(p) => Registered(p)'
        <5> SUFFICES ASSUME Registered(p), NEW c \in Blocks \ prog'[p].received,
                            NEW y \in prog'[p].owners[c]
                     PROVE  c \in prog'[p].armed \/ <<y, p, c>> \in Asked'
          BY DEF Registered
        <5>1. CASE c = b
          BY <4>2, <5>1
        <5>2. CASE c # b
          <6>1. c \in prog[p].armed \/ <<y, p, c>> \in Asked
            BY <2>3, <4>1, <5>2 DEF Registered
          <6> QED BY <2>3, <2>5, <4>1, <5>2, <6>1
        <5> QED BY Zenon, <5>1, <5>2
      <4>4. Held(p)'
        BY <4>2 DEF Held
      <4> QED BY Zenon, <2>1, <2>2, <3>1, <4>3, <4>4 DEF Sound
    <3>2. CASE ~(prog[p].live /\ b \notin prog[p].received)
      <4>1. prog' = prog
        BY <2>4, <3>2
      <4>2. prog[p].live => (Registered(p) => Registered(p)') /\ (Held(p) => Held(p)')
        BY Zenon, <2>1, <2>2, <2>5, <3>2, <4>1 DEF Registered, Held, Rejecting
      <4> QED BY <2>1, <2>2, <4>1, <4>2 DEF Sound
    <3> QED BY <3>1, <3>2
  <2> QED BY Zenon, <2>1, <2>2, <2>6, <2>7, OthersSound
<1> QED BY <1>1, <1>2, <1>3, <1>4

(* A handler that moves on loses no rejection but its own. *)
LEMMA RejectsKept ==
  ASSUME TypeOK, NEW x \in Peers, NEW H, handler' = [handler EXCEPT ![x] = H], NEW q,
         \A h \in handler[x] : ~(h.do = "reject" /\ h.piece = q)
  PROVE  Rejecting(q) => Rejecting(q)'
BY DEF Rejecting, TypeOK

(* A block of a piece that is there, or a second copy of a block, changes no entry; a
   CANCEL goes out only where nobody waits for the block. *)
LEMMA OldBlockSound ==
  ASSUME Steady, NEW x \in Peers, NEW p \in Pieces, NEW b \in Blocks,
         DeliverLate(x, p, b) \/ DeliverDuplicate(x, p, b)
  PROVE  \A q \in Pieces : Sound(q)'
<1> USE DEF Steady, pieceVars, modeVars, taskVars, progVars
<1>1. UNCHANGED <<prog, resumers, handler, status, shutdown>>
  BY DEF DeliverLate, DeliverDuplicate
<1>2. CASE DeliverLate(x, p, b)
  <2>1. /\ status[p] = "Have" \/ ~prog[p].live
        /\ \A r : r \in Asked /\ r # <<x, p, b>> => r \in Asked'
    BY Zenon, <1>2, FreePipelineAsks DEF DeliverLate
  <2>2. Sound(p)'
    BY Zenon, <1>1, <2>1 DEF Sound
  <2>3. \A q \in Pieces : q # p => Untouched(q) /\ status'[q] = status[q] /\ Unlost(q)
    BY Zenon, <1>1, <2>1 DEF Untouched, Unlost, Rejecting
  <2> QED BY <1>1, <2>2, <2>3, OthersSound
<1>3. CASE DeliverDuplicate(x, p, b)
  <2> DEFINE none == {}
  <2>1. FreePipeline({<<x, p, b>>}, none, {}) /\ \A r : r \notin none
    BY <1>3 DEF DeliverDuplicate
  <2> HIDE DEF none
  <2>2. \A r : r \in Asked => r \in Asked'
    BY <2>1, FreePipelineAsks
  <2> QED BY <1>1, <2>2, StillSound DEF Untouched, Unlost, Rejecting
<1> QED BY <1>2, <1>3

(* A stored block leaves its piece with a resumer. *)
LEMMA DeliverBlockSound ==
  ASSUME ~MultiThreaded, Steady, NEW x \in Peers, NEW p \in Pieces, NEW b \in Blocks,
         NEW good \in BOOLEAN, DeliverBlock(x, p, b, good)
  PROVE  \A q \in Pieces : Sound(q)'
<1> USE DEF Steady
<1> DEFINE new == Stored(prog[p], b, good)
           got == IF endgame THEN Withdrawn(new, b) ELSE new
           pr == [prog EXCEPT ![p] = got]
           S == {p}
           cancelled == IF endgame THEN CancelTargets(p, b) \ {<<x, p, b>>} ELSE {}
           H == IF got.received = Blocks THEN Verdict(p, b, got) ELSE {}
<1>1. /\ CanRun /\ handler[x] = {} /\ prog[p].live /\ status[p] # "Have"
      /\ FreePipeline({<<x, p, b>>}, cancelled, {})
      /\ EnsureResume(pr, S) /\ handler' = [handler EXCEPT ![x] = H]
      /\ UNCHANGED <<status, shutdown>>
  BY Zenon DEF DeliverBlock, CanHandle, pieceVars, modeVars
<1>2. prog[p] \in Progress
  BY DEF TypeOK
<1>3. got \in Progress
  BY <1>2, EntryType
<1>4. /\ got.live = prog[p].live /\ got.received = prog[p].received \union {b}
      /\ got.resuming = prog[p].resuming
      /\ \A c \in Blocks : c # b =>
           /\ got.owners[c] = prog[p].owners[c]
           /\ c \in prog[p].armed => c \in got.armed
  BY <1>2 DEF Stored, Withdrawn, Progress
<1> HIDE DEF got
<1>5. pr \in [Pieces -> Progress] /\ pr[p] = got /\ \A q \in Pieces : q # p => pr[q] = prog[q]
  BY <1>3 DEF TypeOK
<1>6. \A c \in cancelled : c[2] = p /\ c[3] = b
  BY DEF CancelTargets
<1> HIDE DEF pr, cancelled, H
<1>7. \A r : r \in Asked /\ r \notin cancelled => r \in Asked'
  BY Zenon, <1>1, FreePipelineAsks
<1>8. ~shutdown
  BY Zenon, <1>1 DEF OneThread, Stopped
<1>9. p \in S
  OBVIOUS
<1> HIDE DEF S
<1>10. resumers'[p].run > 0
  BY Zenon, <1>1, <1>4, <1>5, <1>8, <1>9, EnsureResumeRuns
<1>11. \A q \in Pieces : /\ prog'[q].live = pr[q].live /\ prog'[q].received = pr[q].received
                         /\ prog'[q].armed = pr[q].armed /\ prog'[q].owners = pr[q].owners
                         /\ resumers[q].run > 0 => resumers'[q].run > 0
  BY Zenon, <1>1, <1>5, EnsureResumeAdds
<1>12. \A q \in Pieces : q # p => Untouched(q) /\ status'[q] = status[q] /\ Unlost(q)
  <2> SUFFICES ASSUME NEW q \in Pieces, q # p
               PROVE  Untouched(q) /\ status'[q] = status[q] /\ Unlost(q)
    BY Zenon
  <2>1. \A y \in Peers, c \in Blocks : <<y, q, c>> \notin cancelled
    BY <1>6
  <2>2. Rejecting(q) => Rejecting(q)'
    BY Zenon, <1>1, RejectsKept
  <2> QED BY Zenon, <1>1, <1>5, <1>7, <1>11, <2>1, <2>2 DEF Untouched, Unlost
<1>13. Sound(p)'
  <2>1. Registered(p)'
    <3> SUFFICES ASSUME NEW c \in Blocks \ prog'[p].received, NEW y \in prog'[p].owners[c]
                 PROVE  c \in prog'[p].armed \/ <<y, p, c>> \in Asked'
      BY DEF Registered
    <3>1. c # b /\ c \notin prog[p].received /\ y \in prog[p].owners[c]
      BY <1>4, <1>5, <1>11
    <3>2. c \in prog[p].armed \/ <<y, p, c>> \in Asked
      BY <1>1, <1>8, <3>1 DEF Sound, Registered
    <3>3. <<y, p, c>> \notin cancelled
      BY <1>6, <3>1
    <3> QED BY <1>4, <1>5, <1>7, <1>11, <3>1, <3>2, <3>3
  <2> QED BY <1>10, <2>1 DEF Sound, Held
<1> QED BY Zenon, <1>1, <1>12, <1>13, OthersSound

(* A rejected block keeps its timer while it has owners, and the handler goes on to
   resume the piece. *)
LEMMA RejectBlockSound ==
  ASSUME Steady, NEW x \in Peers, NEW p \in Pieces, NEW b \in Blocks, RejectBlock(x, p, b)
  PROVE  \A q \in Pieces : Sound(q)'
<1> USE DEF Steady
<1> DEFINE obj == [prog[p] EXCEPT !.owners[b] = @ \ {x}]
           new == IF obj.owners[b] = {} THEN Withdrawn(obj, b) ELSE obj
           H == ToDo("reject", p, b, {})
           none == {}
<1>1. /\ handler[x] = {} /\ FreePipeline({<<x, p, b>>}, none, {}) /\ \A r : r \notin none
      /\ UNCHANGED <<resumers, status, shutdown>>
      /\ IF prog[p].live THEN prog' = [prog EXCEPT ![p] = new] /\ handler' = [handler EXCEPT ![x] = H]
         ELSE UNCHANGED <<prog, handler>>
  BY DEF RejectBlock, CanHandle, pieceVars, modeVars
<1> HIDE DEF none
<1>2. \A r : r \in Asked => r \in Asked'
  BY <1>1, FreePipelineAsks
<1>3. CASE ~prog[p].live
  <2>1. UNCHANGED <<prog, handler>>
    BY <1>1, <1>3
  <2> QED BY <1>1, <1>2, <2>1, StillSound DEF Untouched, Unlost, Rejecting
<1>4. CASE prog[p].live
  <2>1. prog[p] \in Progress
    BY DEF TypeOK
  <2>2. /\ new.received = prog[p].received
        /\ \A c \in Blocks : c # b => /\ new.owners[c] = prog[p].owners[c]
                                      /\ c \in prog[p].armed => c \in new.armed
        /\ \A y \in new.owners[b] : /\ y \in prog[p].owners[b]
                                    /\ b \in prog[p].armed => b \in new.armed
    BY <2>1 DEF Withdrawn, Progress
  <2> HIDE DEF new
  <2>3. prog' = [prog EXCEPT ![p] = new] /\ handler' = [handler EXCEPT ![x] = H]
    BY <1>1, <1>4
  <2>4. prog'[p] = new /\ \A q \in Pieces : q # p => prog'[q] = prog[q]
    BY <2>3 DEF TypeOK
  <2>5. \A q : Rejecting(q) => Rejecting(q)'
    <3> HIDE DEF H
    <3> QED BY Zenon, <1>1, <2>3, RejectsKept
  <2>6. Rejecting(p)'
    <3> DEFINE g == [do |-> "reject", piece |-> p, block |-> b, bad |-> {}]
    <3>1. handler'[x] = {g}
      BY <2>3 DEF ToDo, TypeOK
    <3>2. g.do = "reject" /\ g.piece = p
      OBVIOUS
    <3> HIDE DEF g
    <3> QED BY <3>1, <3>2 DEF Rejecting
  <2>7. \A q \in Pieces : q # p => Untouched(q) /\ status'[q] = status[q] /\ Unlost(q)
    BY Zenon, <1>1, <1>2, <2>4, <2>5 DEF Untouched, Unlost
  <2>8. Registered(p) => Registered(p)'
    BY <1>2, <2>2, <2>4 DEF Registered
  <2>9. Sound(p)'
    BY Zenon, <1>1, <1>4, <2>6, <2>8 DEF Sound, Held
  <2> QED BY <1>1, <2>7, <2>9, OthersSound
<1> QED BY <1>3, <1>4

(* A handler that finishes a piece, gives it up or shuts the download down drops the
   entry of that piece or no entry at all. *)
LEMMA SettleSound ==
  ASSUME Steady, NEW x \in Peers, NEW h \in handler[x],
         \/ CompletePiece(x, h) \/ FinishPiece(x, h) \/ Finalize(x, h)
         \/ ReturnPieceToQueue(x, h)
  PROVE  \A q \in Pieces : Sound(q)'
<1> USE DEF Steady, pieceVars, modeVars, netVars, progVars
<1> DEFINE p == h.piece
<1>1. /\ UNCHANGED <<resumers, sends, pending, shutdown>> /\ p \in Pieces
      /\ h.do \in {"write", "finish", "flush", "return"}
      /\ \/ (UNCHANGED prog /\ (UNCHANGED status \/ status' = [status EXCEPT ![p] = "Have"]))
         \/ (prog' = [prog EXCEPT ![p] = NoProg]
               /\ (UNCHANGED status \/ status' = [status EXCEPT ![p] = "Needed"]))
  BY DEF CompletePiece, FinishPiece, Finalize, ReturnPieceToQueue, TypeOK, Step
<1>2. PICK H : handler' = [handler EXCEPT ![x] = H]
  BY Zenon DEF CompletePiece, FinishPiece, Finalize, ReturnPieceToQueue
<1>3. \A g \in handler[x] : g.do # "reject"
  BY Zenon, <1>1 DEF OneThread, Exclusive
<1>4. \A q : Rejecting(q) => Rejecting(q)'
  BY Zenon, <1>2, <1>3, RejectsKept
<1>5. Asked' = Asked
  BY Zenon, <1>1 DEF Asked
<1>6. ~NoProg.live
  BY Zenon DEF NoProg
<1> HIDE DEF p
<1>7. \A q \in Pieces : q # p => Untouched(q) /\ status'[q] = status[q] /\ Unlost(q)
  BY <1>1, <1>4, <1>5 DEF Untouched, Unlost, TypeOK
<1>8. Sound(p)'
  <2>1. CASE prog' = [prog EXCEPT ![p] = NoProg]
    BY <1>1, <1>6, <2>1 DEF Sound, TypeOK
  <2>2. CASE UNCHANGED prog /\ status' = [status EXCEPT ![p] = "Have"]
    BY <1>1, <2>2 DEF Sound, TypeOK
  <2>3. CASE UNCHANGED <<prog, status>>
    BY Zenon, <1>1, <1>4, <1>5, <2>3, StillSound DEF Untouched, Unlost
  <2> QED BY Zenon, <1>1, <2>1, <2>2, <2>3
<1> QED BY <1>1, <1>7, <1>8, OthersSound

(* The rejection is replaced by a resumer. *)
LEMMA RecordRejectionSound ==
  ASSUME ~MultiThreaded, Steady, NEW x \in Peers, NEW h \in handler[x], RecordRejection(x, h)
  PROVE  \A q \in Pieces : Sound(q)'
<1> USE DEF Steady
<1> DEFINE p == h.piece
           new == RejectedBy(prog[p], h.block, x)
           pr == IF prog[p].live THEN [prog EXCEPT ![p] = new] ELSE prog
           S == {p}
           none == {}
<1>1. /\ CanRun /\ EnsureResume(pr, S) /\ handler' = [handler EXCEPT ![x] = none]
      /\ UNCHANGED <<sends, pending, status, shutdown>> /\ h.do = "reject"
  BY DEF RecordRejection, pieceVars, modeVars, netVars
<1>2. p \in Pieces /\ h.block \in Blocks /\ prog[p] \in Progress
  BY DEF TypeOK, Step
<1>3. new \in Progress
  BY Zenon, <1>2, FieldType
<1>4. /\ new.live = prog[p].live /\ new.received = prog[p].received
      /\ new.armed = prog[p].armed /\ new.owners = prog[p].owners
      /\ new.resuming = prog[p].resuming
  BY <1>2 DEF RejectedBy, Progress
<1>5. p \in S
  BY Zenon
<1>6. \A g \in handler[x] : g.piece = p
  BY Zenon DEF OneThread, Exclusive
<1> HIDE DEF p, new, S, none
<1>7. pr \in [Pieces -> Progress]
  BY <1>2, <1>3 DEF TypeOK
<1>8. \A q \in Pieces : /\ pr[q].live = prog[q].live /\ pr[q].received = prog[q].received
                        /\ pr[q].armed = prog[q].armed /\ pr[q].owners = prog[q].owners
                        /\ pr[q].resuming = prog[q].resuming
  BY <1>2, <1>4 DEF TypeOK
<1> HIDE DEF pr
<1>9. \A q \in Pieces : /\ prog'[q].live = prog[q].live /\ prog'[q].received = prog[q].received
                        /\ prog'[q].armed = prog[q].armed /\ prog'[q].owners = prog[q].owners
                        /\ resumers[q].run > 0 => resumers'[q].run > 0
  BY Zenon, <1>1, <1>7, <1>8, EnsureResumeAdds
<1>10. Asked' = Asked
  BY <1>1 DEF Asked
<1>11. \A q : q # p => (Rejecting(q) => Rejecting(q)')
  BY Zenon, <1>1, <1>6, RejectsKept
<1>12. \A q \in Pieces : q # p => Untouched(q) /\ status'[q] = status[q] /\ Unlost(q)
  BY Zenon, <1>1, <1>9, <1>10, <1>11 DEF Untouched, Unlost
<1>13. Sound(p)'
  <2> SUFFICES ASSUME prog[p].live, ~shutdown PROVE Sound(p)'
    BY Zenon, <1>1, <1>2, <1>9 DEF Sound
  <2>1. resumers'[p].run > 0
    BY Zenon, <1>1, <1>2, <1>5, <1>7, <1>8, EnsureResumeRuns
  <2>2. Registered(p) => Registered(p)'
    BY Zenon, <1>2, <1>9, <1>10 DEF Registered
  <2> QED BY Zenon, <1>1, <1>2, <2>1, <2>2 DEF Sound, Held
<1> QED BY Zenon, <1>1, <1>2, <1>12, <1>13, OthersSound

(* CHOKE resumes every piece it leaves with a block nobody is asked for. *)
LEMMA ChokeSound ==
  ASSUME ~MultiThreaded, Steady, TypeOK', NEW x \in Peers, Choke(x)
  PROVE  \A q \in Pieces : Sound(q)'
<1> USE DEF Steady
<1> DEFINE pr == [p \in Pieces |->
                    IF prog[p].live THEN WithoutOwner(prog[p], x) ELSE prog[p]]
           S == {p \in Pieces : Of(x, pending) # {} \/ Missing(pr[p]) # {}}
<1>1. pr \in [Pieces -> Progress]
  BY WithoutOwnerType DEF TypeOK
<1>2. /\ EnsureResume(pr, S) /\ CanRun
      /\ UNCHANGED <<sends, pending, handler, status, shutdown>>
  BY Zenon DEF Choke, CanHandle, netVars, taskVars, modeVars, pieceVars
<1>3. Asked' = Asked
  BY <1>2 DEF Asked
<1> SUFFICES ASSUME NEW p \in Pieces, prog'[p].live, ~shutdown PROVE Sound(p)'
  BY Zenon, <1>2 DEF Sound
<1>4. /\ pr[p].live /\ prog'[p].received = pr[p].received
      /\ prog'[p].armed = pr[p].armed /\ prog'[p].owners = pr[p].owners
  BY Zenon, <1>1, <1>2, EnsureResumeAdds
<1>5. prog[p] \in Progress /\ prog'[p] \in Progress
  BY Zenon DEF TypeOK
<1>6. prog[p].live /\ pr[p] = WithoutOwner(prog[p], x)
  BY <1>4, <1>5, OwnersKeep
<1>7. /\ pr[p].received = prog[p].received
      /\ \A b \in Blocks : pr[p].owners[b] = prog[p].owners[b] \ {x}
      /\ \A b \in Blocks : b \in prog[p].armed /\ pr[p].owners[b] # {} => b \in pr[p].armed
      /\ pr[p].resuming => prog[p].resuming
  BY <1>5, <1>6 DEF WithoutOwner, Progress
<1>8. Missing(pr[p]) # {} => p \in S
  BY Zenon
<1> HIDE DEF pr, S
<1>9. Registered(p) => Registered(p)'
  BY Zenon, <1>3, <1>4, <1>7 DEF Registered
<1>10. ASSUME status[p] = "InProgress" PROVE Held(p)'
  <2>1. CASE p \in S
    <3>1. resumers'[p].run > 0
      BY Zenon, <1>1, <1>2, <1>4, <1>7, <2>1, EnsureResumeRuns
    <3> QED BY Zenon, <3>1 DEF Held
  <2>2. CASE p \notin S
    <3>1. Missing(prog'[p]) = {}
      BY Zenon, <1>4, <1>8, <2>2 DEF Missing
    <3>2. Registered(p)'
      BY Zenon, <1>6, <1>9, <1>10 DEF Sound
    <3> QED BY Zenon, <1>5, <3>1, <3>2, OwnersAreAsked DEF Registered, Held
  <2> QED BY <2>1, <2>2
<1> QED BY Zenon, <1>2, <1>6, <1>9, <1>10 DEF Sound

(* What a CHOKE drops from the queue was nobody's registration any more, and every
   piece has a resumer if something is dropped. *)
LEMMA ChokeDropQueueSound ==
  ASSUME Steady, NEW x \in Peers, ChokeDropQueue(x)
  PROVE  \A q \in Pieces : Sound(q)'
<1> USE DEF Steady
<1>1. /\ choking[x] = "dropping" /\ pending' = pending \ Of(x, pending)
      /\ UNCHANGED <<sends, prog, resumers, handler, status, shutdown>>
  BY DEF ChokeDropQueue, pieceVars, modeVars, taskVars, progVars
<1> SUFFICES ASSUME NEW p \in Pieces, prog[p].live, ~shutdown PROVE Sound(p)'
  BY Zenon, <1>1 DEF Sound
<1>2. /\ \A b \in Blocks : x \notin prog[p].owners[b]
      /\ Of(x, pending) # {} => resumers[p].run > 0
  BY Zenon, <1>1 DEF ChokeSettled
<1>3. \A y, b : y # x /\ <<y, p, b>> \in Asked => <<y, p, b>> \in Asked'
  BY <1>1 DEF Asked, Of
<1>4. Registered(p) => Registered(p)'
  BY Zenon, <1>1, <1>2, <1>3 DEF Registered
<1>5. Held(p) => Held(p)'
  <2>1. CASE Of(x, pending) # {}
    BY Zenon, <1>1, <1>2, <2>1 DEF Held
  <2>2. CASE Of(x, pending) = {}
    <3>1. Asked' = Asked
      BY <1>1, <2>2 DEF Asked
    <3> QED BY Zenon, <1>1, <3>1 DEF Held, Rejecting
  <2> QED BY <2>1, <2>2
<1> QED BY Zenon, <1>1, <1>4, <1>5 DEF Sound

(* UNCHOKE moves requests from the queue to the socket. *)
LEMMA UnchokeSound ==
  ASSUME Steady, NEW x \in Peers, Unchoke(x)
  PROVE  \A q \in Pieces : Sound(q)'
<1> USE DEF Steady
<1>1. PICK S : EnsureResume(prog, S)
  BY DEF Unchoke
<1>2. UNCHANGED <<handler, status, shutdown>>
  BY DEF Unchoke, pieceVars, modeVars, taskVars
<1>3. \A r : r \in Asked => r \in Asked'
  BY DEF Unchoke, Asked
<1>4. prog \in [Pieces -> Progress]
  BY DEF TypeOK
<1>5. \A q \in Pieces : /\ prog'[q].live = prog[q].live /\ prog'[q].received = prog[q].received
                        /\ prog'[q].armed = prog[q].armed /\ prog'[q].owners = prog[q].owners
                        /\ resumers[q].run > 0 => resumers'[q].run > 0
  BY Zenon, <1>1, <1>4, EnsureResumeAdds
<1> QED BY Zenon, <1>2, <1>3, <1>5, StillSound DEF Untouched, Unlost, Rejecting

(* Connections are opened and closed only when nothing is left to cover. *)
LEMMA ConnectionSound ==
  ASSUME MaxDisconnects = 0, Steady, NEW x \in Peers,
         SocketFails(x) \/ Disconnect(x) \/ RemoveConnection(x) \/ Connect(x)
  PROVE  \A q \in Pieces : Sound(q)'
<1>1. Connected
  BY Zenon DEF Steady
<1>2. ~SocketFails(x)
  <2>1. disconnects = 0
    BY Zenon, <1>1 DEF Connected
  <2>2. SocketFails(x) => disconnects < MaxDisconnects
    BY Zenon DEF SocketFails
  <2> QED BY <2>1, <2>2
<1>3. ASSUME Disconnect(x) PROVE conn[x] # "up" /\ UNCHANGED <<status, shutdown>>
  BY Zenon, <1>3 DEF Disconnect, pieceVars, modeVars
<1>4. ASSUME RemoveConnection(x) PROVE conn[x] # "up" /\ UNCHANGED <<status, shutdown>>
  BY <1>4 DEF RemoveConnection, pieceVars, modeVars
<1>5. ASSUME Connect(x) PROVE conn[x] # "up" /\ UNCHANGED <<status, shutdown>>
  BY Zenon, <1>5 DEF Connect, pieceVars, modeVars
<1>6. conn[x] # "up" /\ UNCHANGED <<status, shutdown>>
  BY Zenon, <1>2, <1>3, <1>4, <1>5
<1> QED BY Zenon, <1>1, <1>6 DEF Connected, AllHave, Sound

(* A pass of the resumer that places a block asks for it; one that finds nothing to
   place leaves every missing block with a registered owner; any other stays. *)
LEMMA ResumePassSound ==
  ASSUME Steady, NEW p \in Pieces, ResumePass(p)
  PROVE  \A q \in Pieces : Sound(q)'
<1> USE DEF Steady
<1> DEFINE obj == prog[p]
           missing == IF obj.live /\ ~shutdown THEN Missing(obj) ELSE {}
<1>1. /\ resumers[p].run > 0
      /\ UNCHANGED <<pending, handler, status, shutdown>>
  BY DEF ResumePass, pieceVars, modeVars, taskVars
<1>2. PICK to \in [missing -> SUBSET Available] :
        /\ sends' = sends \union UNION {to[b] \X {p} \X {b} : b \in missing}
        /\ prog' = IF endgame THEN prog
                   ELSE [prog EXCEPT ![p] = [obj EXCEPT !.owners =
                           [b \in Blocks |-> IF b \in missing THEN to[b] ELSE obj.owners[b]]]]
        /\ IF missing = {} \/ \E b \in missing : to[b] # {}
           THEN resumers' = [resumers EXCEPT ![p].run = @ - 1, ![p].exiting = @ + 1]
           ELSE UNCHANGED resumers
  BY Zenon DEF ResumePass
<1> DEFINE own == [b \in Blocks |-> IF b \in missing THEN to[b] ELSE obj.owners[b]]
           new == [obj EXCEPT !.owners = own]
<1>3. obj \in Progress
  BY DEF TypeOK
<1>4. missing \subseteq Blocks /\ \A b \in missing : to[b] \subseteq Peers
  BY <1>2 DEF Missing, Available
<1>5. /\ new.live = obj.live /\ new.received = obj.received /\ new.armed = obj.armed
      /\ new.owners = own
  BY <1>3 DEF Progress
<1>6. /\ \A b \in missing : own[b] = to[b]
      /\ \A b \in Blocks \ missing : own[b] = obj.owners[b]
  BY Zenon, <1>4
<1>7. /\ \A r : r \in Asked => r \in Asked'
      /\ \A b \in missing : \A y \in to[b] : <<y, p, b>> \in Asked'
  BY <1>1, <1>2 DEF Asked
<1>8. prog' = IF endgame THEN prog ELSE [prog EXCEPT ![p] = new]
  BY <1>2
<1>9. \A q \in Pieces : q # p => Untouched(q) /\ status'[q] = status[q] /\ Unlost(q)
  <2>1. \A q \in Pieces : q # p => resumers'[q] = resumers[q]
    BY <1>2 DEF TypeOK
  <2>2. \A q \in Pieces : q # p => prog'[q] = prog[q]
    BY <1>8 DEF TypeOK
  <2> QED BY Zenon, <1>1, <1>7, <2>1, <2>2 DEF Untouched, Unlost, Rejecting
<1>10. prog'[p] = IF endgame THEN obj ELSE new
  BY <1>8 DEF TypeOK
<1>11. /\ prog'[p].live = obj.live /\ prog'[p].received = obj.received
       /\ prog'[p].armed = obj.armed
       /\ \A b \in Blocks \ missing : prog'[p].owners[b] = obj.owners[b]
       /\ \A b \in missing : \A y \in prog'[p].owners[b] : y \in to[b] \/ y \in obj.owners[b]
  BY <1>4, <1>5, <1>6, <1>10
<1> HIDE DEF own, new
<1>12. Sound(p)'
  <2> SUFFICES ASSUME obj.live, ~shutdown PROVE Sound(p)'
    BY Zenon, <1>1, <1>11 DEF Sound
  <2>1. Registered(p) => Registered(p)'
    BY Zenon, <1>7, <1>11 DEF Registered
  <2>2. ASSUME status[p] = "InProgress" PROVE Held(p)'
    <3>1. CASE missing = {}
      <4>1. Missing(obj) = {}
        BY <3>1
      <4>2. Registered(p)
        BY <2>2 DEF Sound
      <4> HIDE DEF missing
      <4>3. \/ obj.received = Blocks
            \/ \E b \in Blocks \ obj.received :
                 b \in obj.armed \/ \E x \in Peers : <<x, p, b>> \in Asked
        BY Zenon, <1>3, <4>1, <4>2, OwnersAreAsked DEF Registered
      <4> QED BY Zenon, <1>7, <1>11, <4>3 DEF Held
    <3>2. ASSUME NEW b \in missing, to[b] # {} PROVE Held(p)'
      <4>1. b \in Blocks \ prog'[p].received
        BY Zenon, <1>11, <3>2 DEF Missing
      <4>2. PICK y \in Peers : y \in to[b]
        BY Zenon, <1>4, <3>2
      <4>3. <<y, p, b>> \in Asked'
        BY Zenon, <1>7, <3>2, <4>2
      <4> QED BY Zenon, <4>1, <4>3 DEF Held
    <3>3. CASE ~(missing = {} \/ \E b \in missing : to[b] # {})
      <4>1. resumers' = resumers
        BY <1>2, <3>3
      <4> QED BY Zenon, <1>1, <4>1 DEF Held
    <3> QED BY <3>1, <3>2, <3>3
  <2> QED BY Zenon, <1>1, <2>1, <2>2 DEF Sound
<1> QED BY Zenon, <1>1, <1>9, <1>12, OthersSound

(* A timeout asks another peer for the block or resumes the piece. *)
LEMMA BlockTimeoutSound ==
  ASSUME ~MultiThreaded, Steady, NEW p \in Pieces, NEW b \in Blocks, BlockTimeout(p, b)
  PROVE  \A q \in Pieces : Sound(q)'
<1> USE DEF Steady
<1> DEFINE obj == prog[p]
           cleared == Withdrawn(obj, b)
           cancelled == CancelTargets(p, b)
<1>1. /\ CanRun /\ ~shutdown /\ obj.live /\ b \notin obj.received
      /\ UNCHANGED <<handler, status, shutdown>>
  BY DEF BlockTimeout, pieceVars, modeVars, taskVars
<1>2. PICK avoid : \E to \in Picks(cleared, b, avoid) :
        /\ FreePipeline({}, cancelled, to \X {p} \X {b})
        /\ EnsureResume([prog EXCEPT ![p] = [cleared EXCEPT !.owners[b] = to]],
                        IF to = {} THEN {p} ELSE {})
  BY Zenon DEF BlockTimeout
<1>3. PICK to \in Picks(cleared, b, avoid) :
        /\ FreePipeline({}, cancelled, to \X {p} \X {b})
        /\ EnsureResume([prog EXCEPT ![p] = [cleared EXCEPT !.owners[b] = to]],
                        IF to = {} THEN {p} ELSE {})
  BY Zenon, <1>2
<1>4. to \subseteq Peers
  BY <1>3 DEF Picks, Available
<1> DEFINE new == [cleared EXCEPT !.owners[b] = to]
           pr == [prog EXCEPT ![p] = new]
           S == IF to = {} THEN {p} ELSE {}
           spawned == to \X {p} \X {b}
<1>5. obj \in Progress
  BY Zenon DEF TypeOK
<1>6. cleared \in Progress
  BY Zenon, <1>5, EntryType
<1>7. new \in Progress
  BY Zenon, <1>4, <1>6, FieldType
<1>8. /\ cleared.live = obj.live /\ cleared.received = obj.received
      /\ cleared.armed = obj.armed \ {b} /\ cleared.resuming = obj.resuming
      /\ \A c \in Blocks : c # b => cleared.owners[c] = obj.owners[c]
  BY <1>5 DEF Withdrawn, Progress
<1> HIDE DEF cleared
<1>9. /\ new.live = obj.live /\ new.received = obj.received
      /\ new.armed = obj.armed \ {b} /\ new.resuming = obj.resuming
      /\ new.owners[b] = to
      /\ \A c \in Blocks : c # b => new.owners[c] = obj.owners[c]
  BY <1>6, <1>8 DEF Progress
<1> HIDE DEF new
<1>10. pr \in [Pieces -> Progress] /\ pr[p] = new /\ \A q \in Pieces : q # p => pr[q] = prog[q]
  BY Zenon, <1>7 DEF TypeOK
<1>11. \A c \in cancelled : c[2] = p /\ c[3] = b
  BY DEF CancelTargets
<1>12. (to = {} => p \in S) /\ (\A y \in to : <<y, p, b>> \in spawned)
       /\ EnsureResume(pr, S) /\ FreePipeline({}, cancelled, spawned)
  BY <1>3 DEF new
<1> HIDE DEF pr, S, cancelled, spawned
<1>13. (\A r : r \in Asked /\ r \notin cancelled => r \in Asked') /\ spawned \subseteq Asked'
  <2> DEFINE none == {}
  <2>1. FreePipeline(none, cancelled, spawned)
    BY Zenon, <1>12
  <2> HIDE DEF none
  <2> QED BY Zenon, <2>1, FreePipelineAsks
<1>14. \A q \in Pieces : /\ prog'[q].live = pr[q].live /\ prog'[q].received = pr[q].received
                         /\ prog'[q].armed = pr[q].armed /\ prog'[q].owners = pr[q].owners
                         /\ resumers[q].run > 0 => resumers'[q].run > 0
  BY Zenon, <1>10, <1>12, EnsureResumeAdds
<1>15. \A q \in Pieces : q # p => Untouched(q) /\ status'[q] = status[q] /\ Unlost(q)
  <2> SUFFICES ASSUME NEW q \in Pieces, q # p
               PROVE  Untouched(q) /\ status'[q] = status[q] /\ Unlost(q)
    BY Zenon
  <2>1. \A y \in Peers, c \in Blocks : <<y, q, c>> \notin cancelled
    BY Zenon, <1>11
  <2> QED BY Zenon, <1>1, <1>10, <1>13, <1>14, <2>1 DEF Untouched, Unlost, Rejecting
<1>16. Sound(p)'
  <2>1. Registered(p) => Registered(p)'
    <3> SUFFICES ASSUME Registered(p), NEW c \in Blocks \ prog'[p].received,
                        NEW y \in prog'[p].owners[c]
                 PROVE  c \in prog'[p].armed \/ <<y, p, c>> \in Asked'
      BY Zenon DEF Registered
    <3>1. CASE c = b
      BY Zenon, <1>9, <1>10, <1>12, <1>13, <1>14, <3>1
    <3>2. CASE c # b
      <4>1. c \in obj.armed \/ <<y, p, c>> \in Asked
        BY Zenon, <1>9, <1>10, <1>14, <3>2 DEF Registered
      <4>2. <<y, p, c>> \notin cancelled
        BY Zenon, <1>11, <3>2
      <4> QED BY Zenon, <1>9, <1>10, <1>13, <1>14, <3>2, <4>1, <4>2
    <3> QED BY Zenon, <3>1, <3>2
  <2>2. Held(p)'
    <3>1. CASE to = {}
      <4>1. resumers'[p].run > 0
        BY Zenon, <1>1, <1>9, <1>10, <1>12, <3>1, EnsureResumeRuns
      <4> QED BY Zenon, <4>1 DEF Held
    <3>2. CASE to # {}
      <4>1. PICK y \in Peers : y \in to
        BY <1>4, <3>2
      <4>2. <<y, p, b>> \in Asked' /\ b \in Blocks \ prog'[p].received
        BY Zenon, <1>1, <1>9, <1>10, <1>12, <1>13, <1>14, <4>1
      <4> QED BY Zenon, <4>2 DEF Held
    <3> QED BY Zenon, <3>1, <3>2
  <2> QED BY Zenon, <1>1, <2>1, <2>2 DEF Sound
<1> QED BY Zenon, <1>1, <1>15, <1>16, OthersSound

(* The tail scheduler registers a holder and asks it. *)
LEMMA TailRequestSound ==
  ASSUME Steady, NEW p \in Pieces, NEW y \in Peers, TailRequest(p, y)
  PROVE  \A q \in Pieces : Sound(q)'
<1> USE DEF Steady
<1>1. UNCHANGED <<pending, resumers, handler, status, shutdown>> /\ prog[p].live
  BY Zenon DEF TailRequest, pieceVars, modeVars, taskVars
<1>2. PICK b \in Blocks \ prog[p].received :
        prog' = [prog EXCEPT ![p] = Owned(@, b, y)] /\ sends' = sends \union {<<y, p, b>>}
  BY Zenon DEF TailRequest
<1> DEFINE new == Owned(prog[p], b, y)
<1>3. prog[p] \in Progress
  BY Zenon DEF TypeOK
<1>4. /\ new.received = prog[p].received /\ new.armed = prog[p].armed
      /\ new.owners[b] = prog[p].owners[b] \union {y}
      /\ \A c \in Blocks : c # b => new.owners[c] = prog[p].owners[c]
  BY <1>3 DEF Owned, Progress
<1>5. prog' = [prog EXCEPT ![p] = new]
  BY Zenon, <1>2
<1> HIDE DEF new
<1>6. prog'[p] = new /\ \A q \in Pieces : q # p => prog'[q] = prog[q]
  BY Zenon, <1>5 DEF TypeOK
<1>7. (\A r : r \in Asked => r \in Asked') /\ <<y, p, b>> \in Asked'
  BY Zenon, <1>1, <1>2 DEF Asked
<1>8. \A q \in Pieces : q # p => Untouched(q) /\ status'[q] = status[q] /\ Unlost(q)
  BY Zenon, <1>1, <1>6, <1>7 DEF Untouched, Unlost, Rejecting
<1>9. Sound(p)'
  <2>1. Registered(p) => Registered(p)'
    BY Zenon, <1>4, <1>6, <1>7 DEF Registered
  <2>2. Held(p)'
    BY Zenon, <1>4, <1>6, <1>7 DEF Held
  <2> QED BY Zenon, <1>1, <2>1, <2>2 DEF Sound
<1> QED BY Zenon, <1>1, <1>8, <1>9, OthersSound

(* A check of the status, the end of a resumer, the endgame and its broadcast touch
   no owner and no timer and withdraw nothing; stop() drops every entry. *)
LEMMA OtherStepsSound ==
  ASSUME Steady,
         \/ \E f \in Fillers, p \in Pieces, x \in Peers : FillCheck(f, p, x)
         \/ \E p \in Pieces : ResumeExit(p)
         \/ \E stalled \in BOOLEAN : EnterEndgame(stalled)
         \/ Broadcast \/ Stop \/ StopClose \/ UNCHANGED vars
  PROVE  \A q \in Pieces : Sound(q)'
<1> USE DEF Steady, pieceVars, modeVars, netVars, taskVars, progVars
<1>1. ASSUME UNCHANGED <<prog, resumers, handler, status, shutdown, pending>>,
             sends \subseteq sends'
      PROVE  \A q \in Pieces : Sound(q)'
  BY Zenon, <1>1, StillSound DEF Untouched, Unlost, Rejecting, Asked
<1>2. CASE \E f \in Fillers, p \in Pieces, x \in Peers : FillCheck(f, p, x)
  BY <1>1, <1>2 DEF FillCheck
<1>3. CASE \E stalled \in BOOLEAN : EnterEndgame(stalled)
  BY Zenon, <1>1, <1>3 DEF EnterEndgame
<1>4. CASE Broadcast \/ UNCHANGED vars
  BY Zenon, <1>1, <1>4 DEF Broadcast, vars
<1>5. CASE Stop \/ StopClose
  BY <1>5 DEF Stop, StopClose, Sound
<1>6. ASSUME NEW p \in Pieces, ResumeExit(p) PROVE \A q \in Pieces : Sound(q)'
  <2> DEFINE new == [prog[p] EXCEPT !.resuming = FALSE]
             less == [resumers[p] EXCEPT !.exiting = @ - 1]
  <2>1. /\ UNCHANGED <<sends, pending, handler, status, shutdown>>
        /\ prog' = [prog EXCEPT ![p] = new] /\ resumers' = [resumers EXCEPT ![p] = less]
    BY <1>6 DEF ResumeExit
  <2>2. /\ new.live = prog[p].live /\ new.received = prog[p].received
        /\ new.armed = prog[p].armed /\ new.owners = prog[p].owners
        /\ less.run = resumers[p].run
    BY DEF TypeOK, Progress
  <2> HIDE DEF new, less
  <2>3. \A q \in Pieces : /\ prog'[q].live = prog[q].live
                          /\ prog'[q].received = prog[q].received
                          /\ prog'[q].armed = prog[q].armed /\ prog'[q].owners = prog[q].owners
                          /\ resumers'[q].run = resumers[q].run
    BY <2>1, <2>2 DEF TypeOK
  <2> QED BY Zenon, <2>1, <2>3, StillSound DEF Untouched, Unlost, Rejecting, Asked
<1> QED BY <1>2, <1>3, <1>4, <1>5, <1>6

(* Every step. *)
LEMMA NextSound ==
  ASSUME ~MultiThreaded, MaxDisconnects = 0, Steady, TypeOK', [Next]_vars
  PROVE  \A q \in Pieces : Sound(q)'
<1> DEFINE Goal == \A q \in Pieces : Sound(q)'
<1>1. ASSUME NEW f \in Fillers, NEW p \in Pieces, NEW x \in Peers,
             FillCheck(f, p, x) \/ FillCommit(f, p, x)
      PROVE  Goal
  BY <1>1, FillCommitSound, OtherStepsSound
<1>2. ASSUME NEW r \in Requests,
             SendQueued(r) \/ SendWritten(r) \/ SendFailed(r) \/ RecordSent(r)
      PROVE  Goal
  BY <1>2, SendSound
<1>3. ASSUME NEW x \in Peers, Receive(x) PROVE Goal
  <2>1. ASSUME NEW p \in Pieces, NEW b \in Blocks,
               DeliverLate(x, p, b) \/ DeliverDuplicate(x, p, b)
        PROVE  Goal
    BY <2>1, OldBlockSound
  <2>2. ASSUME NEW p \in Pieces, NEW b \in Blocks, NEW good \in BOOLEAN,
               DeliverBlock(x, p, b, good)
        PROVE  Goal
    BY <2>2, DeliverBlockSound
  <2>3. ASSUME NEW p \in Pieces, NEW b \in Blocks, RejectBlock(x, p, b) PROVE Goal
    BY <2>3, RejectBlockSound
  <2>4. ASSUME NEW h \in handler[x],
               \/ CompletePiece(x, h) \/ FinishPiece(x, h) \/ Finalize(x, h)
               \/ ReturnPieceToQueue(x, h)
        PROVE  Goal
    BY Zenon, <2>4, SettleSound
  <2>5. ASSUME NEW h \in handler[x], RecordRejection(x, h) PROVE Goal
    BY Zenon, <2>5, RecordRejectionSound
  <2>6. CASE Choke(x)
    BY <2>6, ChokeSound
  <2>7. CASE ChokeDropQueue(x) \/ Unchoke(x)
    BY <2>7, ChokeDropQueueSound, UnchokeSound
  <2>8. CASE SocketFails(x) \/ Disconnect(x) \/ RemoveConnection(x) \/ Connect(x)
    BY <2>8, ConnectionSound
  <2> HIDE DEF Goal
  <2> QED BY Zenon, <1>3, <2>1, <2>2, <2>3, <2>4, <2>5, <2>6, <2>7, <2>8 DEF Receive
<1>4. ASSUME NEW p \in Pieces, ResumePass(p) \/ ResumeExit(p) PROVE Goal
  BY <1>4, ResumePassSound, OtherStepsSound
<1>5. ASSUME NEW p \in Pieces, NEW b \in Blocks, BlockTimeout(p, b) PROVE Goal
  BY <1>5, BlockTimeoutSound
<1>6. ASSUME NEW p \in Pieces, NEW y \in Peers, TailRequest(p, y) PROVE Goal
  BY <1>6, TailRequestSound
<1>7. ASSUME \/ \E stalled \in BOOLEAN : EnterEndgame(stalled)
             \/ Broadcast \/ Stop \/ StopClose \/ UNCHANGED vars
      PROVE  Goal
  BY <1>7, OtherStepsSound
<1> HIDE DEF Goal
<1>8. Goal
  BY Zenon, <1>1, <1>2, <1>3, <1>4, <1>5, <1>6, <1>7 DEF Next, Fill, Send, Manage
<1> QED BY <1>8 DEF Goal

(* At the start no entry has owners, and none is InProgress. *)
LEMMA InitSteady == Init => Connected /\ ChokeSettled /\ \A p \in Pieces : Sound(p)
<1> SUFFICES ASSUME Init PROVE Connected /\ ChokeSettled /\ \A p \in Pieces : Sound(p)
  OBVIOUS
<1>1. Connected /\ ChokeSettled
  BY Zenon DEF Init, Connected, ChokeSettled
<1>2. ASSUME NEW p \in Pieces PROVE Sound(p)
  <2>1. prog[p] \in {NoProg} \union {RestoredProgress(S) : S \in SUBSET Blocks \ {Blocks}}
    BY Zenon DEF Init
  <2>2. \A b \in Blocks : prog[p].owners[b] = {}
    <3>1. \A b \in Blocks : NoProg.owners[b] = {}
      BY Zenon DEF NoProg
    <3>2. \A S : RestoredProgress(S).owners = NoProg.owners
      BY DEF RestoredProgress, FreshProgress, NoProg
    <3> QED BY Zenon, <2>1, <3>1, <3>2
  <2>3. status[p] # "InProgress"
    BY Zenon DEF Init
  <2> QED BY Zenon, <2>2, <2>3 DEF Sound, Registered
<1> QED BY <1>1, <1>2

(* On one I/O thread, and while no socket fails, a piece in progress is never stranded:
   whatever is rejected, choked, timed out, corrupt, or asked for twice in the endgame,
   one of its missing blocks stays asked for, or a resumer looks after the piece. *)
THEOREM PiecesStayCovered ==
  ASSUME ~MultiThreaded, MaxDisconnects = 0
  PROVE  Spec => []PiecesCovered
<1> DEFINE Rest == Connected /\ ChokeSettled /\ \A p \in Pieces : Sound(p)
<1>1. Init => Rest
  BY InitSteady
<1>2. /\ TypeOK /\ OneThread /\ FlagHasResumer /\ CompletedCountsHave /\ Rest
      /\ [Next]_vars /\ TypeOK' /\ OneThread' /\ CompletedCountsHave'
      => Rest'
  <2> SUFFICES ASSUME TypeOK, OneThread, FlagHasResumer, CompletedCountsHave, Rest,
                      [Next]_vars, TypeOK', OneThread', CompletedCountsHave'
               PROVE  Rest'
    BY Zenon
  <2>1. Steady
    BY DEF Steady
  <2> QED BY Zenon, <2>1, NextConnected, NextChokeSettled, NextSound
<1>3. TypeOK /\ Rest => PiecesCovered
  <2> SUFFICES ASSUME TypeOK, Rest, NEW p \in InProgress, status[p] = "InProgress", ~shutdown
               PROVE  \/ Blocks \ prog[p].received = {}
                      \/ \E b \in Blocks \ prog[p].received : Covered(p, b)
                      \/ resumers[p].run > 0
                      \/ \E x \in Peers : \E h \in handler[x] :
                           h.do = "reject" /\ h.piece = p
    BY Zenon DEF PiecesCovered
  <2>1. Held(p)
    BY Zenon DEF InProgress, Sound
  <2> QED BY Zenon, <2>1 DEF Held, Rejecting, Covered, InFlight, Asked
<1>4. TypeOK /\ OneThread /\ [Next]_vars => OneThread'
  BY NextOneThread
<1> HIDE DEF Rest
<1> QED BY <1>1, <1>2, <1>3, <1>4, InitOneThread, TypeCorrect, FlagsAreLowered,
           EngineCountsHave, PTL DEF Spec
=============================================================================
