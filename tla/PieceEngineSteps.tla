-------------------------- MODULE PieceEngineSteps --------------------------
(***************************************************************************)
(* What a step of PieceEngine keeps, for any number of threads, pieces,    *)
(* blocks, peers and concurrent fills: the types, the hashed pieces, and   *)
(* the bookkeeping of timers and resumers.                                 *)
(***************************************************************************)
EXTENDS PieceEngine, TLAPS

(* A fresh entry, an absent one and one restored from resume data have the type of
   an InProgressPiece. *)
LEMMA ProgType ==
  /\ NoProg \in Progress
  /\ FreshProgress \in Progress
  /\ \A S \in SUBSET Blocks : RestoredProgress(S) \in Progress
<1>1. NoProg \in Progress
  BY DEF NoProg, Progress
<1>2. FreshProgress \in Progress
  BY Zenon, <1>1 DEF FreshProgress, NoProg, Progress
<1>3. ASSUME NEW S \in SUBSET Blocks PROVE RestoredProgress(S) \in Progress
  BY Zenon, <1>2, <1>3 DEF RestoredProgress, FreshProgress, NoProg, Progress
<1> QED BY <1>1, <1>2, <1>3

(* ensure_resume_piece_download keeps the types of the table and the resumers. *)
LEMMA EnsureResumeType ==
  ASSUME TypeOK, NEW pr \in [Pieces -> Progress], NEW S, EnsureResume(pr, S)
  PROVE  /\ prog' \in [Pieces -> Progress]
         /\ resumers' \in [Pieces -> [run : Nat, exiting : Nat]]
<1>1. \A p \in Pieces : [pr[p] EXCEPT !.resuming = TRUE] \in Progress
  BY Zenon DEF Progress
<1>2. \A p \in Pieces : [resumers[p] EXCEPT !.run = @ + 1] \in [run : Nat, exiting : Nat]
  BY DEF TypeOK
<1> QED BY <1>1, <1>2 DEF EnsureResume, TypeOK

(* Freeing pipeline room keeps the four request sets well typed. *)
LEMMA FreePipelineType ==
  ASSUME TypeOK, NEW answered, NEW cancelled, NEW spawned \in SUBSET Requests,
         FreePipeline(answered, cancelled, spawned)
  PROVE  sends' \subseteq Requests /\ pending' \subseteq Requests /\ wire' \subseteq Requests
BY DEF FreePipeline, Flushes, TypeOK

(* Clearing a peer out of an entry keeps its type. *)
LEMMA WithoutOwnerType ==
  ASSUME NEW obj \in Progress, NEW x
  PROVE  WithoutOwner(obj, x) \in Progress
BY Zenon DEF WithoutOwner, Progress

(* Storing a block and withdrawing its requests keep the type of an entry. *)
LEMMA EntryType ==
  ASSUME NEW obj \in Progress, NEW b \in Blocks, NEW good \in BOOLEAN
  PROVE  Stored(obj, b, good) \in Progress /\ Withdrawn(obj, b) \in Progress
BY Zenon DEF Stored, Withdrawn, Progress

(* Setting one field keeps the type of an entry. *)
LEMMA FieldType ==
  ASSUME NEW obj \in Progress
  PROVE  /\ [obj EXCEPT !.resuming = FALSE] \in Progress
         /\ \A own \in [Blocks -> SUBSET Peers] :
              /\ [obj EXCEPT !.owners = own] \in Progress
              /\ [obj EXCEPT !.rejected = own] \in Progress
         /\ \A b \in Blocks, T \in SUBSET Peers : [obj EXCEPT !.owners[b] = T] \in Progress
         /\ \A b \in Blocks, x \in Peers :
              Owned(obj, b, x) \in Progress /\ RejectedBy(obj, b, x) \in Progress
         /\ obj.owners \in [Blocks -> SUBSET Peers]
BY Zenon DEF Progress, Owned, RejectedBy

(* The step a handler takes after the hash is well typed. *)
LEMMA VerdictType ==
  ASSUME NEW obj \in Progress, NEW p \in Pieces, NEW b \in Blocks
  PROVE  Verdict(p, b, obj) \subseteq Step
BY DEF Verdict, ToDo, Step, Progress

(* record_request_sent keeps the type of the table. *)
LEMMA WithRequestSentType ==
  ASSUME TypeOK, NEW r \in Requests
  PROVE  WithRequestSent(r) \in [Pieces -> Progress]
<1> DEFINE x == r[1]
           p == r[2]
           b == r[3]
           own == Owned(prog[p], b, x)
           new == Armed(own, b)
<1>1. x \in Peers /\ p \in Pieces /\ b \in Blocks
  BY DEF Requests
<1>2. own \in Progress
  BY Zenon, <1>1, FieldType DEF TypeOK
<1>3. new \in Progress
  BY <1>1, <1>2 DEF Progress, Armed
<1>4. WithRequestSent(r) = IF prog[p].live /\ b \notin prog[p].received
                           THEN [prog EXCEPT ![p] = new] ELSE prog
  BY DEF WithRequestSent
<1> QED BY <1>1, <1>3, <1>4 DEF TypeOK

(* A request taken from one peer and given to another is a request. *)
LEMMA AskedAgain ==
  ASSUME NEW r \in Requests, NEW y \in Peers
  PROVE  <<y, r[2], r[3]>> \in Requests
BY DEF Requests

(* A handler has one step to take, the one it was left with. *)
LEMMA ToDoIsOneStep ==
  ASSUME NEW what, NEW p, NEW b, NEW bad
  PROVE  /\ \A g \in ToDo(what, p, b, bad) : g.do = what /\ g.piece = p
         /\ \A g, k \in ToDo(what, p, b, bad) : g = k
BY DEF ToDo

(* A handler works on a block of the torrent. *)
LEMMA HandlerBlocks ==
  ASSUME TypeOK, NEW x \in Peers, NEW h \in handler[x]
  PROVE  h \in Step /\ h.piece \in Pieces /\ h.block \in Blocks
<1>1. handler[x] \subseteq Step
  BY DEF TypeOK
<1> QED BY <1>1 DEF Step

(* Every step keeps the types. *)
LEMMA NextTypeOK == TypeOK /\ [Next]_vars => TypeOK'
<1> SUFFICES ASSUME TypeOK, [Next]_vars PROVE TypeOK'
  OBVIOUS
<1> USE DEF pieceVars, modeVars, netVars, connVars, taskVars, progVars
<1>1. ASSUME NEW f \in Fillers, NEW p \in Pieces, NEW x \in Peers, FillCheck(f, p, x)
      PROVE  TypeOK'
  BY <1>1 DEF FillCheck, TypeOK
<1>2. ASSUME NEW f \in Fillers, NEW p \in Pieces, NEW x \in Peers, FillCommit(f, p, x)
      PROVE  TypeOK'
  <2> DEFINE obj == IF prog[p].live THEN prog[p] ELSE FreshProgress
             new == [obj EXCEPT !.owners = [b \in Blocks |-> obj.owners[b] \union {x}]]
  <2>1. obj \in Progress
    BY ProgType DEF TypeOK
  <2>2. new \in Progress
    BY <2>1 DEF Progress
  <2>3. prog' \in [Pieces -> Progress]
    BY <1>2, <2>2 DEF FillCommit, TypeOK
  <2>4. sends' \subseteq Requests
    BY <1>2 DEF FillCommit, TypeOK, Requests
  <2> QED BY <1>2, <2>3, <2>4 DEF FillCommit, TypeOK
<1>3. ASSUME NEW r \in Requests, SendQueued(r) PROVE TypeOK'
  BY <1>3 DEF SendQueued, TypeOK
<1>4. ASSUME NEW r \in Requests, SendWritten(r) PROVE TypeOK'
  BY <1>4, WithRequestSentType DEF SendWritten, TypeOK
<1>5. ASSUME NEW r \in Requests, SendFailed(r) PROVE TypeOK'
  BY <1>5 DEF SendFailed, Flushes, TypeOK
<1>6. ASSUME NEW r \in Requests, RecordSent(r) PROVE TypeOK'
  BY <1>6, WithRequestSentType DEF RecordSent, TypeOK
<1>7. ASSUME NEW x \in Peers, NEW p \in Pieces, NEW b \in Blocks, DeliverLate(x, p, b)
      PROVE  TypeOK'
  <2>1. sends' \subseteq Requests /\ pending' \subseteq Requests /\ wire' \subseteq Requests
    BY <1>7, FreePipelineType DEF DeliverLate
  <2> QED BY <1>7, <2>1 DEF DeliverLate, TypeOK
<1>8. ASSUME NEW x \in Peers, NEW p \in Pieces, NEW b \in Blocks, DeliverDuplicate(x, p, b)
      PROVE  TypeOK'
  <2>1. sends' \subseteq Requests /\ pending' \subseteq Requests /\ wire' \subseteq Requests
    BY <1>8, FreePipelineType DEF DeliverDuplicate
  <2> QED BY <1>8, <2>1 DEF DeliverDuplicate, TypeOK
<1>9. ASSUME NEW x \in Peers, NEW p \in Pieces, NEW b \in Blocks, NEW good \in BOOLEAN,
             DeliverBlock(x, p, b, good)
      PROVE  TypeOK'
  <2> DEFINE new == Stored(prog[p], b, good)
             got == IF endgame THEN Withdrawn(new, b) ELSE new
  <2>1. got \in Progress
    BY EntryType DEF TypeOK
  <2>2. [prog EXCEPT ![p] = got] \in [Pieces -> Progress]
    BY <2>1 DEF TypeOK
  <2>3. EnsureResume([prog EXCEPT ![p] = got], {p})
    BY <1>9 DEF DeliverBlock
  <2>4. /\ prog' \in [Pieces -> Progress]
        /\ resumers' \in [Pieces -> [run : Nat, exiting : Nat]]
    BY Zenon, <2>2, <2>3, EnsureResumeType
  <2>5. sends' \subseteq Requests /\ pending' \subseteq Requests /\ wire' \subseteq Requests
    BY <1>9, FreePipelineType DEF DeliverBlock
  <2>6. Verdict(p, b, got) \subseteq Step
    BY <2>1, VerdictType
  <2>7. handler' \in [Peers -> SUBSET Step]
    BY <1>9, <2>6 DEF DeliverBlock, TypeOK
  <2> QED BY <1>9, <2>4, <2>5, <2>7 DEF DeliverBlock, TypeOK
<1>10. ASSUME NEW x \in Peers, NEW h \in handler[x], CompletePiece(x, h) PROVE TypeOK'
  <2>1. h \in Step
    BY DEF TypeOK
  <2>2. ToDo("finish", h.piece, h.block, h.bad) \subseteq Step
    BY <2>1 DEF Step, ToDo
  <2> QED BY <1>10, <2>1, <2>2 DEF CompletePiece, TypeOK, Step
<1>11. ASSUME NEW x \in Peers, NEW h \in handler[x], FinishPiece(x, h) PROVE TypeOK'
  <2>1. h \in Step
    BY DEF TypeOK
  <2>2. ToDo("flush", h.piece, h.block, h.bad) \subseteq Step
    BY <2>1 DEF Step, ToDo
  <2>3. complete' \in BOOLEAN
    BY <1>11 DEF FinishPiece, TypeOK
  <2>4. prog' \in [Pieces -> Progress]
    BY <1>11, <2>1, ProgType DEF FinishPiece, TypeOK, Step
  <2> QED BY <1>11, <2>2, <2>3, <2>4 DEF FinishPiece, TypeOK
<1>12. ASSUME NEW x \in Peers, NEW h \in handler[x], Finalize(x, h) PROVE TypeOK'
  BY <1>12 DEF Finalize, TypeOK
<1>13. ASSUME NEW x \in Peers, NEW h \in handler[x], ReturnPieceToQueue(x, h) PROVE TypeOK'
  <2>1. h \in Step
    BY DEF TypeOK
  <2>2. prog' \in [Pieces -> Progress]
    BY <1>13, <2>1, ProgType DEF ReturnPieceToQueue, TypeOK, Step
  <2> QED BY <1>13, <2>1, <2>2 DEF ReturnPieceToQueue, TypeOK, Step
<1>14. ASSUME NEW x \in Peers, NEW h \in handler[x], RecordRejection(x, h) PROVE TypeOK'
  <2> DEFINE p == h.piece
             pr == IF prog[p].live
                   THEN [prog EXCEPT ![p] = RejectedBy(@, h.block, x)] ELSE prog
  <2>1. h \in Step /\ p \in Pieces /\ h.block \in Blocks
    BY DEF TypeOK, Step
  <2>2. pr \in [Pieces -> Progress]
    BY Zenon, <2>1, FieldType DEF TypeOK
  <2>3. EnsureResume(pr, {p})
    BY <1>14 DEF RecordRejection
  <2>4. /\ prog' \in [Pieces -> Progress]
        /\ resumers' \in [Pieces -> [run : Nat, exiting : Nat]]
    BY <2>2, <2>3, EnsureResumeType
  <2> QED BY <1>14, <2>4 DEF RecordRejection, TypeOK
<1>15. ASSUME NEW x \in Peers, NEW p \in Pieces, NEW b \in Blocks, RejectBlock(x, p, b)
      PROVE  TypeOK'
  <2> DEFINE obj == [prog[p] EXCEPT !.owners[b] = @ \ {x}]
             new == IF obj.owners[b] = {} THEN Withdrawn(obj, b) ELSE obj
  <2>1. sends' \subseteq Requests /\ pending' \subseteq Requests /\ wire' \subseteq Requests
    BY <1>15, FreePipelineType DEF RejectBlock
  <2>2. obj \in Progress
    BY Zenon, FieldType DEF TypeOK
  <2>3. new \in Progress
    BY Zenon, <2>2, EntryType
  <2>4. ToDo("reject", p, b, {}) \subseteq Step
    BY DEF ToDo, Step
  <2>5. prog' \in [Pieces -> Progress]
    BY Zenon, <1>15, <2>3 DEF RejectBlock, TypeOK
  <2> QED BY <1>15, <2>1, <2>4, <2>5 DEF RejectBlock, TypeOK
<1>16. ASSUME NEW x \in Peers, Choke(x) PROVE TypeOK'
  <2> DEFINE pr == [p \in Pieces |->
                      IF prog[p].live THEN WithoutOwner(prog[p], x) ELSE prog[p]]
             S == {p \in Pieces : Of(x, pending) # {} \/ Missing(pr[p]) # {}}
  <2>1. pr \in [Pieces -> Progress]
    BY WithoutOwnerType DEF TypeOK
  <2>2. EnsureResume(pr, S)
    BY <1>16 DEF Choke
  <2>3. /\ prog' \in [Pieces -> Progress]
        /\ resumers' \in [Pieces -> [run : Nat, exiting : Nat]]
    BY <2>1, <2>2, EnsureResumeType
  <2>4. /\ UNCHANGED <<pieceVars, modeVars, netVars, conn, disconnects, taskVars>>
        /\ choking' = [choking EXCEPT ![x] = "dropping"] /\ faults' = faults + 1
    BY <1>16 DEF Choke
  <2> QED BY <2>3, <2>4 DEF TypeOK
<1>17. ASSUME NEW x \in Peers, ChokeDropQueue(x) PROVE TypeOK'
  BY <1>17 DEF ChokeDropQueue, TypeOK
<1>18. ASSUME NEW x \in Peers, Unchoke(x) PROVE TypeOK'
  <2>1. PICK resume_all \in BOOLEAN :
               EnsureResume(prog, IF resume_all THEN InProgress ELSE {})
    BY <1>18 DEF Unchoke
  <2>2. /\ prog' \in [Pieces -> Progress]
        /\ resumers' \in [Pieces -> [run : Nat, exiting : Nat]]
    BY <2>1, EnsureResumeType DEF TypeOK
  <2>3. sends' \subseteq Requests /\ pending' \subseteq Requests
    BY <1>18 DEF Unchoke, Of, TypeOK
  <2> QED BY <1>18, <2>2, <2>3 DEF Unchoke, TypeOK
<1>19. ASSUME NEW x \in Peers, SocketFails(x) PROVE TypeOK'
  BY <1>19 DEF SocketFails, TypeOK
<1>20. ASSUME NEW x \in Peers, Disconnect(x) PROVE TypeOK'
  <2> DEFINE pr == [p \in Pieces |->
               IF ~prog[p].live THEN prog[p]
               ELSE [WithoutOwner(prog[p], x) EXCEPT
                       !.rejected = [b \in Blocks |-> @[b] \ {x}]]]
             requeue == {r \in Of(x, pending) : /\ prog[r[2]].live
                                                /\ r[3] \notin prog[r[2]].received}
             others == {y \in Available \ {x} : conn[y] = "up"}
             homeless == IF others = {} THEN {r[2] : r \in requeue} ELSE {}
             S == {p \in Pieces : Missing(pr[p]) # {}} \union homeless
  <2>1. \A o \in Progress : [o EXCEPT !.rejected = [b \in Blocks |-> @[b] \ {x}]] \in Progress
    BY DEF Progress
  <2>2. pr \in [Pieces -> Progress]
    BY <2>1, WithoutOwnerType DEF TypeOK
  <2>3. EnsureResume(pr, S)
    BY Zenon, <1>20 DEF Disconnect
  <2>4. /\ prog' \in [Pieces -> Progress]
        /\ resumers' \in [Pieces -> [run : Nat, exiting : Nat]]
    BY Zenon, <2>2, <2>3, EnsureResumeType
  <2>5. PICK to \in [requeue -> others \union {x}] :
          sends' = sends \union {<<to[r], r[2], r[3]>> : r \in {r \in requeue : to[r] # x}}
    BY Zenon, <1>20 DEF Disconnect
  <2>6. \A r \in requeue : <<to[r], r[2], r[3]>> \in Requests
    <3> TAKE r \in requeue
    <3>1. r \in Requests
      BY Zenon DEF Of, TypeOK
    <3>2. to[r] \in Peers
      BY DEF Available
    <3> QED BY Zenon, <3>1, <3>2, AskedAgain
  <2>7. sends' \subseteq Requests
    <3> DEFINE T == {<<to[r], r[2], r[3]>> : r \in {r \in requeue : to[r] # x}}
    <3>1. T \subseteq Requests
      BY Zenon, <2>6
    <3>2. sends \subseteq Requests /\ sends' = sends \union T
      BY Zenon, <2>5 DEF TypeOK
    <3> HIDE DEF T
    <3> QED BY <3>1, <3>2
  <2>8. conn' \in [Peers -> {"up", "dead", "closing", "gone"}] /\ pending' \subseteq Requests
    BY Zenon, <1>20 DEF Disconnect, TypeOK
  <2> QED BY Zenon, <1>20, <2>4, <2>7, <2>8 DEF Disconnect, TypeOK
<1>21. ASSUME NEW x \in Peers, RemoveConnection(x) PROVE TypeOK'
  BY <1>21 DEF RemoveConnection, TypeOK
<1>22. ASSUME NEW x \in Peers, Connect(x) PROVE TypeOK'
  BY <1>22 DEF Connect, TypeOK
<1>23. ASSUME NEW p \in Pieces, ResumePass(p) PROVE TypeOK'
  <2> DEFINE obj == prog[p]
             missing == IF obj.live /\ ~shutdown THEN Missing(obj) ELSE {}
  <2>1. PICK to \in [missing -> SUBSET Available] :
          /\ sends' = sends \union UNION {to[b] \X {p} \X {b} : b \in missing}
          /\ prog' = IF endgame THEN prog
                     ELSE [prog EXCEPT ![p] = [obj EXCEPT !.owners =
                             [b \in Blocks |-> IF b \in missing THEN to[b] ELSE obj.owners[b]]]]
          /\ resumers' \in {resumers,
                            [resumers EXCEPT ![p].run = @ - 1, ![p].exiting = @ + 1]}
    BY Zenon, <1>23 DEF ResumePass
  <2>2. missing \subseteq Blocks
    BY DEF Missing
  <2>3. \A b \in missing : to[b] \subseteq Peers
    BY DEF Available
  <2>4. \A b \in missing : to[b] \X {p} \X {b} \subseteq Requests
    BY <2>2, <2>3 DEF Requests
  <2>5. sends' \subseteq Requests
    BY <2>1, <2>4 DEF TypeOK
  <2> DEFINE own == [b \in Blocks |-> IF b \in missing THEN to[b] ELSE obj.owners[b]]
  <2>6. own \in [Blocks -> SUBSET Peers]
    <3>1. obj.owners \in [Blocks -> SUBSET Peers]
      BY Zenon, FieldType DEF TypeOK
    <3> QED BY <2>2, <2>3, <3>1
  <2>7. [obj EXCEPT !.owners = own] \in Progress
    BY Zenon, <2>6, FieldType DEF TypeOK
  <2>8. prog' \in [Pieces -> Progress]
    BY <2>1, <2>7 DEF TypeOK
  <2>9. resumers[p].run \in Nat /\ resumers[p].run > 0 /\ resumers[p].exiting \in Nat
    BY <1>23 DEF ResumePass, TypeOK
  <2>10. resumers' \in [Pieces -> [run : Nat, exiting : Nat]]
    BY <2>1, <2>9 DEF TypeOK
  <2> QED BY <1>23, <2>5, <2>8, <2>10 DEF ResumePass, TypeOK
<1>24. ASSUME NEW p \in Pieces, ResumeExit(p) PROVE TypeOK'
  <2>1. prog' = [prog EXCEPT ![p] = [prog[p] EXCEPT !.resuming = FALSE]]
    BY <1>24 DEF ResumeExit, TypeOK
  <2>2. prog' \in [Pieces -> Progress]
    BY <2>1, FieldType DEF TypeOK
  <2>3. resumers' \in [Pieces -> [run : Nat, exiting : Nat]]
    BY <1>24 DEF ResumeExit, TypeOK
  <2> QED BY <1>24, <2>2, <2>3 DEF ResumeExit, TypeOK
<1>25. ASSUME NEW p \in Pieces, NEW b \in Blocks, BlockTimeout(p, b) PROVE TypeOK'
  <2> DEFINE obj == prog[p]
             cleared == Withdrawn(obj, b)
  <2>1. PICK avoid \in IF obj.owners[b] = {} THEN {{}} ELSE {{y} : y \in obj.owners[b]} :
        \E to \in Picks(cleared, b, avoid) :
          /\ FreePipeline({}, CancelTargets(p, b), to \X {p} \X {b})
          /\ EnsureResume([prog EXCEPT ![p] = [cleared EXCEPT !.owners[b] = to]],
                          IF to = {} THEN {p} ELSE {})
    BY Zenon, <1>25 DEF BlockTimeout
  <2>2. PICK to \in Picks(cleared, b, avoid) :
          /\ FreePipeline({}, CancelTargets(p, b), to \X {p} \X {b})
          /\ EnsureResume([prog EXCEPT ![p] = [cleared EXCEPT !.owners[b] = to]],
                          IF to = {} THEN {p} ELSE {})
    BY Zenon, <2>1
  <2>3. to \subseteq Peers
    BY DEF Picks, Available
  <2>4. cleared \in Progress
    BY Zenon, EntryType DEF TypeOK
  <2>5. [cleared EXCEPT !.owners[b] = to] \in Progress
    BY Zenon, <2>3, <2>4, FieldType
  <2>6. [prog EXCEPT ![p] = [cleared EXCEPT !.owners[b] = to]] \in [Pieces -> Progress]
    BY <2>5 DEF TypeOK
  <2>7. /\ prog' \in [Pieces -> Progress]
        /\ resumers' \in [Pieces -> [run : Nat, exiting : Nat]]
    BY Zenon, <2>2, <2>6, EnsureResumeType
  <2>8. to \X {p} \X {b} \subseteq Requests
    BY Zenon, <2>3 DEF Requests
  <2>9. sends' \subseteq Requests /\ pending' \subseteq Requests /\ wire' \subseteq Requests
    BY <2>2, <2>8, FreePipelineType
  <2> QED BY <1>25, <2>7, <2>9 DEF BlockTimeout, TypeOK
<1>26. ASSUME NEW p \in Pieces, NEW y \in Peers, TailRequest(p, y) PROVE TypeOK'
  <2>1. PICK b \in Blocks : /\ prog' = [prog EXCEPT ![p] = Owned(@, b, y)]
                            /\ sends' = sends \union {<<y, p, b>>}
    BY Zenon, <1>26 DEF TailRequest
  <2>2. prog' \in [Pieces -> Progress]
    BY Zenon, <2>1, FieldType DEF TypeOK
  <2>3. sends' \subseteq Requests
    BY <2>1 DEF TypeOK, Requests
  <2> QED BY Zenon, <1>26, <2>2, <2>3 DEF TailRequest, TypeOK
<1>27. ASSUME NEW stalled \in BOOLEAN, EnterEndgame(stalled) PROVE TypeOK'
  BY Zenon, <1>27 DEF EnterEndgame, TypeOK
<1>28. CASE Broadcast
  BY Zenon, <1>28 DEF Broadcast, TypeOK
<1>29. CASE Stop
  BY Zenon, <1>29, ProgType DEF Stop, TypeOK
<1>30. CASE StopClose
  BY Zenon, <1>30 DEF StopClose, TypeOK
<1>31. CASE UNCHANGED vars
  BY Zenon, <1>31 DEF vars, TypeOK
<1> QED
  BY <1>1, <1>2, <1>3, <1>4, <1>5, <1>6, <1>7, <1>8, <1>9, <1>10, <1>11, <1>12, <1>13,
     <1>14, <1>15, <1>16, <1>17, <1>18, <1>19, <1>20, <1>21, <1>22, <1>23, <1>24, <1>25,
     <1>26, <1>27, <1>28, <1>29, <1>30, <1>31
  DEF Next, Fill, Send, Receive, Manage

-----------------------------------------------------------------------------
(* Only hashed data becomes a Have piece. *)

(* A handler that is about to write holds a copy of the piece that passed its hash:
   the strengthening that makes HaveIsGood inductive. *)
WriteIsGood ==
  \A x \in Peers : \A h \in handler[x] : h.do = "write" => h.bad = {}

(* The steps that touch a piece's status, the counter, the disk or what a handler has
   left to do. *)
PieceStep ==
  \/ \E f \in Fillers, p \in Pieces, x \in Peers : FillCommit(f, p, x)
  \/ \E x \in Peers :
       \/ \E p \in Pieces, b \in Blocks :
            \/ \E good \in BOOLEAN : DeliverBlock(x, p, b, good)
            \/ RejectBlock(x, p, b)
       \/ \E h \in handler[x] :
            \/ CompletePiece(x, h) \/ FinishPiece(x, h) \/ Finalize(x, h)
            \/ ReturnPieceToQueue(x, h) \/ RecordRejection(x, h)

(* All other steps leave those alone. *)
LEMMA PieceSteps == [Next]_vars => PieceStep \/ UNCHANGED <<pieceVars, disk, handler>>
<1> SUFFICES ASSUME [Next]_vars, ~PieceStep PROVE UNCHANGED <<pieceVars, disk, handler>>
  OBVIOUS
<1> DEFINE Quiet == UNCHANGED <<pieceVars, disk, handler>>
<1> USE DEF modeVars, taskVars
<1>1. CASE Fill
  BY Zenon, <1>1 DEF Fill, FillCheck, PieceStep
<1>2. CASE Send
  BY Zenon, <1>2 DEF Send, SendQueued, SendWritten, SendFailed, RecordSent
<1>3. ASSUME NEW x \in Peers, Receive(x) PROVE Quiet
  <2>1. ASSUME NEW p \in Pieces, NEW b \in Blocks, DeliverLate(x, p, b) PROVE Quiet
    BY <2>1 DEF DeliverLate
  <2>2. ASSUME NEW p \in Pieces, NEW b \in Blocks, DeliverDuplicate(x, p, b) PROVE Quiet
    BY Zenon, <2>2 DEF DeliverDuplicate
  <2>3. CASE Choke(x) \/ ChokeDropQueue(x) \/ Unchoke(x)
    BY Zenon, <2>3 DEF Choke, ChokeDropQueue, Unchoke
  <2>4. CASE SocketFails(x) \/ RemoveConnection(x) \/ Connect(x)
    BY Zenon, <2>4 DEF SocketFails, RemoveConnection, Connect
  <2>5. CASE Disconnect(x)
    BY Zenon, <2>5 DEF Disconnect
  <2> HIDE DEF Quiet
  <2> QED BY Zenon, <1>3, <2>1, <2>2, <2>3, <2>4, <2>5 DEF Receive, PieceStep
<1>4. ASSUME Manage PROVE Quiet
  <2>1. ASSUME NEW p \in Pieces, ResumePass(p) \/ ResumeExit(p) PROVE Quiet
    BY <2>1 DEF ResumePass, ResumeExit
  <2>2. ASSUME NEW p \in Pieces, NEW b \in Blocks, BlockTimeout(p, b) PROVE Quiet
    BY <2>2 DEF BlockTimeout
  <2>3. ASSUME NEW p \in Pieces, NEW y \in Peers, TailRequest(p, y) PROVE Quiet
    BY Zenon, <2>3 DEF TailRequest
  <2>4. ASSUME NEW stalled \in BOOLEAN, EnterEndgame(stalled) PROVE Quiet
    BY <2>4 DEF EnterEndgame
  <2>5. CASE Broadcast
    BY Zenon, <2>5 DEF Broadcast
  <2> HIDE DEF Quiet
  <2> QED BY <1>4, <2>1, <2>2, <2>3, <2>4, <2>5 DEF Manage
<1>5. CASE Stop \/ StopClose
  BY Zenon, <1>5 DEF Stop, StopClose
<1>6. CASE UNCHANGED vars
  BY <1>6 DEF vars
<1> QED BY <1>1, <1>2, <1>3, <1>4, <1>5, <1>6 DEF Next

(* A handler is told to write only when the copy it hashed has no wrong block. *)
LEMMA VerdictIsGood ==
  ASSUME NEW p, NEW b, NEW got, NEW h \in Verdict(p, b, got), h.do = "write"
  PROVE  h.bad = {}
<1> DEFINE what == IF got.bad = {} THEN "write" ELSE "return"
<1>1. h = [do |-> what, piece |-> p, block |-> b, bad |-> got.bad]
  BY Zenon DEF Verdict, ToDo
<1>2. what = "write" /\ h.bad = got.bad
  BY Zenon, <1>1
<1> QED BY <1>2

(* Every step keeps the disk good: the only step that marks a piece Have writes the
   copy that was hashed, whatever happened to the entry since. *)
LEMMA NextHaveIsGood ==
  TypeOK /\ HaveIsGood /\ WriteIsGood /\ [Next]_vars => HaveIsGood' /\ WriteIsGood'
<1> SUFFICES ASSUME TypeOK, HaveIsGood, WriteIsGood, [Next]_vars
             PROVE  HaveIsGood' /\ WriteIsGood'
  OBVIOUS
<1> USE DEF pieceVars, modeVars, netVars, connVars, taskVars, progVars
<1>1. ASSUME UNCHANGED <<status, disk, handler>> PROVE HaveIsGood' /\ WriteIsGood'
  BY <1>1 DEF HaveIsGood, WriteIsGood
<1>2. ASSUME NEW f \in Fillers, NEW p \in Pieces, NEW x \in Peers, FillCommit(f, p, x)
      PROVE  HaveIsGood' /\ WriteIsGood'
  BY <1>2 DEF FillCommit, HaveIsGood, WriteIsGood, TypeOK
<1>3. ASSUME NEW x \in Peers, NEW p \in Pieces, NEW b \in Blocks, NEW good \in BOOLEAN,
             DeliverBlock(x, p, b, good)
      PROVE  HaveIsGood' /\ WriteIsGood'
  <2>1. PICK got : handler' = [handler EXCEPT ![x] =
                                 IF got.received = Blocks THEN Verdict(p, b, got) ELSE {}]
    BY Zenon, <1>3 DEF DeliverBlock
  <2>2. \A h \in Verdict(p, b, got) : h.do = "write" => h.bad = {}
    BY VerdictIsGood
  <2>3. WriteIsGood'
    BY <2>1, <2>2 DEF WriteIsGood, TypeOK
  <2> QED BY Zenon, <1>3, <2>3 DEF DeliverBlock, HaveIsGood
<1>4. ASSUME NEW x \in Peers, NEW h \in handler[x], CompletePiece(x, h)
      PROVE  HaveIsGood' /\ WriteIsGood'
  <2> DEFINE S == ToDo("finish", h.piece, h.block, h.bad)
  <2>1. /\ disk' = [disk EXCEPT ![h.piece] = h.bad]
        /\ status' = [status EXCEPT ![h.piece] = "Have"]
        /\ handler' = [handler EXCEPT ![x] = S]
        /\ h.bad = {}
    BY Zenon, <1>4 DEF CompletePiece, WriteIsGood
  <2>2. HaveIsGood'
    BY Zenon, <2>1, HandlerBlocks DEF HaveIsGood, TypeOK
  <2>3. WriteIsGood'
    <3>1. \A g \in S : g.do = "finish"
      BY ToDoIsOneStep
    <3> HIDE DEF S
    <3> QED BY Zenon, <2>1, <3>1 DEF WriteIsGood, TypeOK
  <2> QED BY <2>2, <2>3
<1>5. ASSUME NEW x \in Peers, NEW h \in handler[x], FinishPiece(x, h)
      PROVE  HaveIsGood' /\ WriteIsGood'
  <2> DEFINE S == IF AllPieces THEN ToDo("flush", h.piece, h.block, h.bad) ELSE {}
  <2>1. handler' = [handler EXCEPT ![x] = S] /\ UNCHANGED <<status, disk>>
    BY <1>5 DEF FinishPiece
  <2>2. \A g \in S : g.do = "flush"
    BY ToDoIsOneStep
  <2> HIDE DEF S
  <2>3. WriteIsGood'
    BY <2>1, <2>2 DEF WriteIsGood, TypeOK
  <2> QED BY <2>1, <2>3 DEF HaveIsGood
<1>6. ASSUME NEW x \in Peers, NEW h \in handler[x], Finalize(x, h)
      PROVE  HaveIsGood' /\ WriteIsGood'
  BY Zenon, <1>6 DEF Finalize, HaveIsGood, WriteIsGood, TypeOK
<1>7. ASSUME NEW x \in Peers, NEW h \in handler[x], ReturnPieceToQueue(x, h)
      PROVE  HaveIsGood' /\ WriteIsGood'
  BY Zenon, <1>7 DEF ReturnPieceToQueue, HaveIsGood, WriteIsGood, TypeOK
<1>8. ASSUME NEW x \in Peers, NEW h \in handler[x], RecordRejection(x, h)
      PROVE  HaveIsGood' /\ WriteIsGood'
  BY Zenon, <1>8 DEF RecordRejection, HaveIsGood, WriteIsGood, TypeOK
<1>9. ASSUME NEW x \in Peers, NEW p \in Pieces, NEW b \in Blocks, RejectBlock(x, p, b)
      PROVE  HaveIsGood' /\ WriteIsGood'
  BY <1>9 DEF RejectBlock, HaveIsGood, WriteIsGood, ToDo, TypeOK
<1> QED BY Zenon, <1>1, <1>2, <1>3, <1>4, <1>5, <1>6, <1>7, <1>8, <1>9, PieceSteps DEF PieceStep

-----------------------------------------------------------------------------
(* The bookkeeping of block requests and resumers. *)

(* Every armed timer of the entry has an owner behind it. *)
EntryCovered(obj) == \A b \in obj.armed \ obj.received : obj.owners[b] # {}

(* The entry may replace the old one without a resumer being spawned. *)
Fit(new, old) == EntryCovered(new) /\ (new.resuming => old.resuming)

(* An absent or a fresh entry fits anywhere. *)
LEMMA NewEntryFits == ASSUME NEW old PROVE Fit(NoProg, old) /\ Fit(FreshProgress, old)
BY DEF Fit, EntryCovered, NoProg, FreshProgress

(* So does the entry itself, after each of the updates of the engine. *)
LEMMA UpdateFits ==
  ASSUME NEW obj \in Progress, EntryCovered(obj), NEW b \in Blocks, NEW x \in Peers,
         NEW good \in BOOLEAN
  PROVE  /\ Fit(Stored(obj, b, good), obj)
         /\ Fit(Withdrawn(obj, b), obj)
         /\ Fit(Owned(obj, b, x), obj)
         /\ Fit(Armed(Owned(obj, b, x), b), obj)
         /\ Fit(RejectedBy(obj, b, x), obj)
<1> USE DEF Fit, EntryCovered, Progress
<1>1. Fit(Stored(obj, b, good), obj)
  BY DEF Stored
<1>2. Fit(Withdrawn(obj, b), obj)
  BY DEF Withdrawn
<1>3. Fit(Owned(obj, b, x), obj)
  BY DEF Owned
<1>4. Fit(Armed(Owned(obj, b, x), b), obj)
  <2>1. /\ Owned(obj, b, x).owners[b] = obj.owners[b] \union {x}
        /\ \A c \in Blocks : obj.owners[c] \subseteq Owned(obj, b, x).owners[c]
        /\ Owned(obj, b, x).armed = obj.armed /\ Owned(obj, b, x).received = obj.received
        /\ Owned(obj, b, x).resuming = obj.resuming
        /\ Owned(obj, b, x) \in Progress
    BY DEF Owned
  <2> DEFINE own == Owned(obj, b, x)
  <2> HIDE DEF own
  <2>2. /\ Armed(own, b).owners = own.owners /\ Armed(own, b).received = own.received
        /\ Armed(own, b).armed = own.armed \union {b} /\ Armed(own, b).resuming = own.resuming
    BY <2>1 DEF Armed, own
  <2> QED BY Zenon, <2>1, <2>2 DEF own
<1>5. Fit(RejectedBy(obj, b, x), obj)
  BY DEF RejectedBy
<1> QED BY Zenon, <1>1, <1>2, <1>3, <1>4, <1>5

(* Taking a peer out of an entry disarms what nobody owns any more. *)
LEMMA WithoutOwnerFits ==
  ASSUME NEW obj \in Progress, NEW x
  PROVE  Fit(WithoutOwner(obj, x), obj)
BY DEF Fit, EntryCovered, WithoutOwner, Progress

(* A step that only replaces entries by fitting ones keeps both invariants. *)
LEMMA FitSteps ==
  ASSUME TypeOK, FlagHasResumer, UNCHANGED resumers,
         \A p \in Pieces : Fit(prog'[p], prog[p])
  PROVE  FlagHasResumer' /\ ArmedHasOwner'
BY DEF FlagHasResumer, ArmedHasOwner, Fit, EntryCovered

(* ensure_resume_piece_download raises a flag together with spawning its resumer. *)
LEMMA EnsureResumeFits ==
  ASSUME TypeOK, FlagHasResumer, NEW pr \in [Pieces -> Progress], NEW S, EnsureResume(pr, S),
         \A p \in Pieces : Fit(pr[p], prog[p])
  PROVE  FlagHasResumer' /\ ArmedHasOwner'
<1>1. ASSUME NEW p \in Pieces, p \in Resumable(pr, S)
      PROVE  resumers'[p].run + resumers'[p].exiting > 0 /\ EntryCovered(prog'[p])
  <2>1. resumers[p].run \in Nat /\ resumers[p].exiting \in Nat
    BY DEF TypeOK
  <2>2. resumers'[p].run = resumers[p].run + 1 /\ resumers'[p].exiting = resumers[p].exiting
    BY <1>1 DEF EnsureResume, TypeOK
  <2>3. EntryCovered(prog'[p])
    <3> DEFINE new == [pr[p] EXCEPT !.resuming = TRUE]
    <3>1. prog'[p] = new
      BY <1>1 DEF EnsureResume
    <3>2. /\ new.live = pr[p].live /\ new.armed = pr[p].armed
          /\ new.received = pr[p].received /\ new.owners = pr[p].owners
      BY DEF Progress
    <3>3. EntryCovered(pr[p])
      BY DEF Fit
    <3> HIDE DEF new
    <3> QED BY <3>1, <3>2, <3>3 DEF EntryCovered
  <2> QED BY <2>1, <2>2, <2>3
<1>2. ASSUME NEW p \in Pieces, p \notin Resumable(pr, S)
      PROVE  resumers'[p] = resumers[p] /\ prog'[p] = pr[p]
  BY <1>2 DEF EnsureResume
<1> QED BY <1>1, <1>2 DEF FlagHasResumer, ArmedHasOwner, Fit, EntryCovered
Timers == FlagHasResumer /\ ArmedHasOwner

(* Every step keeps both invariants. *)
LEMMA NextTimers == TypeOK /\ Timers /\ [Next]_vars => Timers'
<1> SUFFICES ASSUME TypeOK, Timers, [Next]_vars PROVE FlagHasResumer' /\ ArmedHasOwner'
  BY DEF Timers
<1> DEFINE Goal == FlagHasResumer' /\ ArmedHasOwner'
<1>a. FlagHasResumer /\ \A p \in Pieces : prog[p] \in Progress /\ EntryCovered(prog[p])
  BY DEF Timers, ArmedHasOwner, EntryCovered, TypeOK
<1>b. \A p \in Pieces : Fit(prog[p], prog[p])
  BY <1>a DEF Fit
<1> USE DEF taskVars, progVars
<1>1. ASSUME UNCHANGED progVars PROVE Goal
  BY <1>1, <1>a, <1>b, FitSteps
<1>2. ASSUME NEW p \in Pieces, NEW new, Fit(new, prog[p]), UNCHANGED resumers,
             prog' \in {prog, [prog EXCEPT ![p] = new]}
      PROVE  Goal
  <2>1. \A q \in Pieces : Fit(prog'[q], prog[q])
    BY <1>2, <1>b DEF TypeOK
  <2> QED BY <1>2, <1>a, <2>1, FitSteps
<1>3. ASSUME NEW f \in Fillers, NEW p \in Pieces, NEW x \in Peers, FillCommit(f, p, x) PROVE Goal
  <2> DEFINE obj == IF prog[p].live THEN prog[p] ELSE FreshProgress
             new == [obj EXCEPT !.owners = [b \in Blocks |-> obj.owners[b] \union {x}]]
  <2>1. obj \in Progress /\ Fit(obj, prog[p])
    BY <1>a, <1>b, ProgType, NewEntryFits
  <2> HIDE DEF obj
  <2>2. Fit(new, prog[p])
    BY <2>1 DEF Fit, EntryCovered, Progress
  <2>3. prog' = [prog EXCEPT ![p] = new] /\ UNCHANGED resumers
    BY <1>3 DEF FillCommit, obj
  <2> HIDE DEF new
  <2> QED BY Zenon, <1>2, <2>2, <2>3
<1>4. ASSUME NEW r \in Requests,
             SendQueued(r) \/ SendWritten(r) \/ SendFailed(r) \/ RecordSent(r)
      PROVE  Goal
  <2> DEFINE new == Armed(Owned(prog[r[2]], r[3], r[1]), r[3])
  <2>1. r[1] \in Peers /\ r[2] \in Pieces /\ r[3] \in Blocks
    BY DEF Requests
  <2>2. Fit(new, prog[r[2]])
    BY Zenon, <1>a, <2>1, UpdateFits
  <2>3. WithRequestSent(r) \in {prog, [prog EXCEPT ![r[2]] = new]}
    BY DEF WithRequestSent
  <2>4. UNCHANGED resumers /\ prog' \in {prog, WithRequestSent(r)}
    BY Zenon, <1>4 DEF SendQueued, SendWritten, SendFailed, RecordSent
  <2> HIDE DEF new
  <2> QED BY <1>2, <2>1, <2>2, <2>3, <2>4
<1>5. ASSUME NEW x \in Peers, NEW p \in Pieces, NEW b \in Blocks, NEW good \in BOOLEAN,
             DeliverBlock(x, p, b, good)
      PROVE  Goal
  <2> DEFINE new == Stored(prog[p], b, good)
             got == IF endgame THEN Withdrawn(new, b) ELSE new
  <2>1. new \in Progress /\ Fit(new, prog[p])
    BY <1>a, EntryType, UpdateFits
  <2> HIDE DEF new
  <2>2. got \in Progress /\ Fit(got, prog[p])
    BY <2>1, EntryType, UpdateFits DEF Fit
  <2>3. EnsureResume([prog EXCEPT ![p] = got], {p})
    BY Zenon, <1>5 DEF DeliverBlock, new
  <2> HIDE DEF got
  <2>4. [prog EXCEPT ![p] = got] \in [Pieces -> Progress]
    BY <2>2 DEF TypeOK
  <2>5. \A q \in Pieces : Fit([prog EXCEPT ![p] = got][q], prog[q])
    BY <1>b, <2>2 DEF TypeOK
  <2> QED BY Zenon, <1>a, <2>3, <2>4, <2>5, EnsureResumeFits
<1>6. ASSUME NEW x \in Peers, NEW h \in handler[x],
             FinishPiece(x, h) \/ ReturnPieceToQueue(x, h)
      PROVE  Goal
  <2>1. h.piece \in Pieces
    BY DEF TypeOK, Step
  <2>2. prog' = [prog EXCEPT ![h.piece] = NoProg] /\ UNCHANGED resumers
    BY <1>6 DEF FinishPiece, ReturnPieceToQueue
  <2> QED BY Zenon, <1>2, <2>1, <2>2, NewEntryFits
<1>7. ASSUME NEW x \in Peers, NEW h \in handler[x], RecordRejection(x, h) PROVE Goal
  <2> DEFINE p == h.piece
             pr == IF prog[p].live
                   THEN [prog EXCEPT ![p] = RejectedBy(@, h.block, x)] ELSE prog
  <2>1. p \in Pieces /\ h.block \in Blocks
    BY DEF TypeOK, Step
  <2>2. pr \in [Pieces -> Progress]
    BY Zenon, <2>1, FieldType DEF TypeOK
  <2>3. \A q \in Pieces : Fit(pr[q], prog[q])
    BY <1>a, <1>b, <2>1, UpdateFits DEF TypeOK
  <2>4. EnsureResume(pr, {p})
    BY <1>7 DEF RecordRejection
  <2> HIDE DEF pr
  <2> QED BY Zenon, <1>a, <2>2, <2>3, <2>4, EnsureResumeFits
<1>8. ASSUME NEW x \in Peers, NEW p \in Pieces, NEW b \in Blocks, RejectBlock(x, p, b) PROVE Goal
  <2> DEFINE obj == [prog[p] EXCEPT !.owners[b] = @ \ {x}]
             new == IF obj.owners[b] = {} THEN Withdrawn(obj, b) ELSE obj
  <2>1. /\ obj \in Progress /\ obj.armed = prog[p].armed /\ obj.received = prog[p].received
        /\ obj.resuming = prog[p].resuming
        /\ \A c \in Blocks : c # b => obj.owners[c] = prog[p].owners[c]
    BY <1>a DEF Progress
  <2> HIDE DEF obj
  <2>2. Fit(new, prog[p])
    BY <1>a, <2>1 DEF Fit, EntryCovered, Withdrawn, Progress
  <2>3. prog' \in {prog, [prog EXCEPT ![p] = new]} /\ UNCHANGED resumers
    BY <1>8 DEF RejectBlock, obj
  <2> HIDE DEF new
  <2> QED BY <1>2, <2>2, <2>3
<1>9. ASSUME NEW x \in Peers, Choke(x) PROVE Goal
  <2> DEFINE pr == [p \in Pieces |->
                      IF prog[p].live THEN WithoutOwner(prog[p], x) ELSE prog[p]]
             S == {p \in Pieces : Of(x, pending) # {} \/ Missing(pr[p]) # {}}
  <2>1. pr \in [Pieces -> Progress] /\ \A p \in Pieces : Fit(pr[p], prog[p])
    BY <1>a, <1>b, WithoutOwnerType, WithoutOwnerFits
  <2>2. EnsureResume(pr, S)
    BY <1>9 DEF Choke
  <2> QED BY <1>a, <2>1, <2>2, EnsureResumeFits
<1>10. ASSUME NEW x \in Peers, Unchoke(x) PROVE Goal
  <2>1. PICK resume_all \in BOOLEAN :
               EnsureResume(prog, IF resume_all THEN InProgress ELSE {})
    BY <1>10 DEF Unchoke
  <2> QED BY Zenon, <1>a, <1>b, <2>1, EnsureResumeFits DEF TypeOK
<1>11. ASSUME NEW x \in Peers, Disconnect(x) PROVE Goal
  <2> DEFINE pr == [p \in Pieces |->
               IF ~prog[p].live THEN prog[p]
               ELSE [WithoutOwner(prog[p], x) EXCEPT
                       !.rejected = [b \in Blocks |-> @[b] \ {x}]]]
  <2>1. \A o \in Progress :
          LET n == [o EXCEPT !.rejected = [b \in Blocks |-> @[b] \ {x}]] IN
          /\ n \in Progress /\ n.armed = o.armed /\ n.received = o.received
          /\ n.owners = o.owners /\ n.resuming = o.resuming
    BY DEF Progress
  <2>2. ASSUME NEW p \in Pieces PROVE pr[p] \in Progress /\ Fit(pr[p], prog[p])
    <3>1. WithoutOwner(prog[p], x) \in Progress /\ Fit(WithoutOwner(prog[p], x), prog[p])
      BY <1>a, WithoutOwnerType, WithoutOwnerFits
    <3> QED BY <1>a, <1>b, <2>1, <3>1 DEF Fit, EntryCovered
  <2>3. PICK S : EnsureResume(pr, S)
    BY Zenon, <1>11 DEF Disconnect
  <2>4. pr \in [Pieces -> Progress]
    BY <2>2
  <2> HIDE DEF pr
  <2> QED BY <1>a, <2>2, <2>3, <2>4, EnsureResumeFits
<1>12. ASSUME NEW p \in Pieces, ResumePass(p) PROVE Goal
  <2> DEFINE obj == prog[p]
             missing == IF obj.live /\ ~shutdown THEN Missing(obj) ELSE {}
             own(to) == [b \in Blocks |-> IF b \in missing THEN to[b] ELSE obj.owners[b]]
             new(to) == [obj EXCEPT !.owners = own(to)]
  <2>1. PICK to \in [missing -> SUBSET Available] :
          /\ prog' = IF endgame THEN prog ELSE [prog EXCEPT ![p] = new(to)]
          /\ resumers' \in {resumers,
                            [resumers EXCEPT ![p].run = @ - 1, ![p].exiting = @ + 1]}
    BY Zenon, <1>12 DEF ResumePass
  <2>2. Fit(new(to), prog[p])
    <3>1. \A b \in Blocks : b \in missing => b \notin obj.armed \/ b \in obj.received
      BY <1>a DEF Missing, EntryCovered, Progress
    <3> HIDE DEF missing
    <3> QED BY <1>a, <3>1 DEF Fit, EntryCovered, Progress
  <2> HIDE DEF new
  <2>3. \A q \in Pieces : Fit(prog'[q], prog[q])
    BY <1>b, <2>1, <2>2 DEF TypeOK
  <2>4. \A q \in Pieces : resumers'[q].run + resumers'[q].exiting
                          = resumers[q].run + resumers[q].exiting
    BY <2>1 DEF TypeOK
  <2> QED BY Zenon, <1>a, <2>3, <2>4 DEF FlagHasResumer, ArmedHasOwner, Fit, EntryCovered
<1>13. ASSUME NEW p \in Pieces, ResumeExit(p) PROVE Goal
  <2> DEFINE new == [prog[p] EXCEPT !.resuming = FALSE]
  <2>1. Fit(new, prog[p]) /\ new.resuming = FALSE
    BY <1>a DEF Fit, EntryCovered, Progress
  <2>2. prog' = [prog EXCEPT ![p] = new]
    BY <1>13 DEF ResumeExit, TypeOK
  <2> HIDE DEF new
  <2>3. /\ ~prog'[p].resuming
        /\ \A q \in Pieces : Fit(prog'[q], prog[q])
        /\ \A q \in Pieces : q # p => resumers'[q] = resumers[q]
    BY Zenon, <1>13, <1>b, <2>1, <2>2 DEF ResumeExit, TypeOK
  <2> QED BY <1>a, <2>3 DEF FlagHasResumer, ArmedHasOwner, Fit, EntryCovered
<1>14. ASSUME NEW p \in Pieces, NEW b \in Blocks, BlockTimeout(p, b) PROVE Goal
  <2> DEFINE cleared == Withdrawn(prog[p], b)
             new(to) == [cleared EXCEPT !.owners[b] = to]
  <2>1. /\ cleared \in Progress /\ Fit(cleared, prog[p])
        /\ b \notin cleared.armed
    <3>1. cleared \in Progress
      BY Zenon, <1>a, EntryType
    <3>2. Fit(cleared, prog[p]) /\ b \notin cleared.armed
      BY <1>a DEF Fit, EntryCovered, Withdrawn, Progress
    <3> QED BY <3>1, <3>2
  <2>2. PICK to \in SUBSET Peers : \E S : EnsureResume([prog EXCEPT ![p] = new(to)], S)
    <3>1. \A avoid : Picks(cleared, b, avoid) \subseteq SUBSET Peers
      BY DEF Picks, Available
    <3> QED BY Zenon, <1>14, <3>1 DEF BlockTimeout
  <2> HIDE DEF cleared
  <2>3. new(to) \in Progress /\ Fit(new(to), prog[p])
    BY <2>1 DEF Fit, EntryCovered, Progress
  <2> HIDE DEF new
  <2>4. [prog EXCEPT ![p] = new(to)] \in [Pieces -> Progress]
    BY <2>3 DEF TypeOK
  <2>5. \A q \in Pieces : Fit([prog EXCEPT ![p] = new(to)][q], prog[q])
    BY <1>b, <2>3 DEF TypeOK
  <2> QED BY Zenon, <1>a, <2>2, <2>4, <2>5, EnsureResumeFits
<1>15. ASSUME NEW p \in Pieces, NEW y \in Peers, TailRequest(p, y) PROVE Goal
  <2>1. PICK b \in Blocks : prog' = [prog EXCEPT ![p] = Owned(@, b, y)] /\ UNCHANGED resumers
    BY Zenon, <1>15 DEF TailRequest
  <2>2. Fit(Owned(prog[p], b, y), prog[p])
    BY Zenon, <1>a, UpdateFits
  <2> QED BY Zenon, <1>2, <2>1, <2>2
<1>16. ASSUME Stop PROVE Goal
  <2>1. \A p \in Pieces : Fit(prog'[p], prog[p])
    BY <1>16, NewEntryFits DEF Stop
  <2> QED BY <1>16, <1>a, <2>1, FitSteps DEF Stop
<1>17. ASSUME UNCHANGED vars PROVE Goal
  BY <1>1, <1>17 DEF vars
<1>18. ASSUME Fill PROVE Goal
  BY <1>1, <1>3, <1>18 DEF Fill, FillCheck
<1>19. ASSUME NEW x \in Peers, Receive(x) PROVE Goal
  <2>1. ASSUME NEW p \in Pieces, NEW b \in Blocks,
               DeliverLate(x, p, b) \/ DeliverDuplicate(x, p, b)
        PROVE  Goal
    BY <1>1, <2>1 DEF DeliverLate, DeliverDuplicate
  <2>2. ASSUME NEW h \in handler[x], CompletePiece(x, h) \/ Finalize(x, h) PROVE Goal
    BY <1>1, <2>2 DEF CompletePiece, Finalize
  <2>3. CASE ChokeDropQueue(x) \/ SocketFails(x) \/ RemoveConnection(x) \/ Connect(x)
    BY Zenon, <1>1, <2>3 DEF ChokeDropQueue, SocketFails, RemoveConnection, Connect
  <2> HIDE DEF Goal
  <2> QED BY Zenon, <1>5, <1>6, <1>7, <1>8, <1>9, <1>10, <1>11, <1>19, <2>1, <2>2, <2>3 DEF Receive
<1>20. ASSUME NEW stalled \in BOOLEAN, EnterEndgame(stalled) PROVE Goal
  BY <1>1, <1>20 DEF EnterEndgame
<1>21. ASSUME Broadcast \/ StopClose PROVE Goal
  BY Zenon, <1>1, <1>21 DEF Broadcast, StopClose
<1> SUFFICES Goal
  OBVIOUS
<1> HIDE DEF Goal
<1> QED BY <1>4, <1>12, <1>13, <1>14, <1>15, <1>16, <1>17, <1>18, <1>19, <1>20, <1>21
        DEF Next, Send, Manage

(* A download starts with no flag up and no timer armed. *)
LEMMA InitTimers == Init => Timers
<1> SUFFICES ASSUME Init PROVE Timers
  OBVIOUS
<1>1. \A S : RestoredProgress(S).armed = {} /\ ~RestoredProgress(S).resuming
  BY DEF RestoredProgress, FreshProgress, NoProg
<1>2. NoProg.armed = {} /\ ~NoProg.resuming
  BY DEF NoProg
<1>3. prog \in [Pieces -> {NoProg} \union {RestoredProgress(S) : S \in SUBSET Blocks \ {Blocks}}]
  BY Zenon DEF Init
<1>4. \A p \in Pieces : prog[p].armed = {} /\ ~prog[p].resuming
  BY <1>1, <1>2, <1>3
<1> QED BY <1>4 DEF Timers, FlagHasResumer, ArmedHasOwner
=============================================================================
