--------------------------- MODULE PieceInventory ---------------------------
(***************************************************************************)
(* What the session knows of who has which piece: the bitfields of the     *)
(* connections, piece_availability_ and pieces_by_rarity_, and the         *)
(* inventories that are put off until a magnet link's metadata is there.   *)
(*                                                                         *)
(* Every access of PieceManager's tables takes its mutex by itself, so a   *)
(* handler that reads the old count, adds, reads the new count and moves   *)
(* the piece can be overtaken by a handler of another connection when the  *)
(* io_context runs on more than one thread.                                *)
(***************************************************************************)
EXTENDS Integers, FiniteSets, FiniteSetsExt

CONSTANTS Pieces,      \* 1..n
          Peers,
          Loop,        \* the loop of on_metadata_complete over the connections
          IoThreads,   \* threads that run the io_context
          Magnet,      \* the session starts without metadata
          Suspends,    \* on_metadata_complete waits for verify_pieces (Mode::Hybrid)
          KeepAlive,   \* the keep-alive loop may find the connection broken
          Wrap,        \* values of a counter; Wrap - 1 is also IN_PROGRESS_RARITY_GROUP_ID
          MaxReturns,  \* bound on return_piece_to_queue
          MaxRepeats   \* bound on the messages of a peer that named pieces before

VARIABLES meta,       \* "none", "loaded", "reconcile" or "done"
          sized,      \* piece_availability_ has its entries
          status, avail, groups,
          up,         \* connections whose message loop runs
          broken,     \* those whose socket the keep-alive loop has closed
          has,        \* the bitfield of each connection
          hint,       \* peer_has_all_hint_
          pending,    \* inventory_pending_metadata_
          interested, \* am_interested_
          job,        \* the handler each connection, and on_metadata_complete, is in
          todo,       \* connections on_metadata_complete has still to look at
          returns,
          repeats

vars == <<meta, sized, status, avail, groups, up, broken, has, hint, pending, interested, job,
          todo, returns, repeats>>

InventoryAssumption ==
  /\ IsFiniteSet(Peers) /\ Loop \notin Peers /\ IoThreads \in Nat \ {0} /\ Wrap \in Nat
  /\ MaxRepeats \in Nat /\ Wrap > Cardinality(Peers) + MaxRepeats + 1

InProgressGroup == Wrap - 1
Actors == Peers \cup {Loop}
Idle == [pc |-> "idle", peer |-> Loop, pieces |-> {}, by |-> 0, old |-> 0, new |-> 0,
         want |-> FALSE, list |-> FALSE]
(* A handler for peer p that is to count the pieces S by 1 or -1, of a whole inventory or of
   one message. *)
Job(p, S, by, list) ==
  [Idle EXCEPT !.pc = "next", !.peer = p, !.pieces = S, !.by = by, !.list = list]

(* A thread is free for handler a, or for another coroutine.  Nobody needs one while its
   message is being sent. *)
Busy == {a \in Actors : job[a].pc \notin {"idle", "sending"}}
MayRun(a) == Cardinality(Busy \ {a}) < IoThreads
FreeThread == Cardinality(Busy) < IoThreads

Init ==
  /\ meta = IF Magnet THEN "none" ELSE "done"
  /\ sized = ~Magnet
  /\ status = [i \in Pieces |-> "Needed"]
  /\ avail = [i \in Pieces |-> 0]
  /\ groups = [g \in 0..(Wrap - 1) |-> IF g = 0 /\ ~Magnet THEN Pieces ELSE {}]
  /\ up = {} /\ broken = {} /\ has = [p \in Peers |-> {}]
  /\ hint = {} /\ pending = {} /\ interested = {}
  /\ job = [a \in Actors |-> Idle]
  /\ todo = {} /\ returns = 0 /\ repeats = 0

(* piece_availability(i): 0 as long as the table has no entries. *)
Availability(i) == IF sized THEN avail[i] ELSE 0

(* update_piece_rarity. *)
Regroup(i, from, to) ==
  [g \in DOMAIN groups |-> IF g = to THEN groups[g] \cup {i}
                           ELSE IF g = from THEN groups[g] \ {i} ELSE groups[g]]

Known == meta # "none"

-----------------------------------------------------------------------------
(* A connection is added. *)
Connect(p) ==
  /\ p \notin up /\ job[p] = Idle /\ FreeThread
  /\ up' = up \cup {p} /\ has' = [has EXCEPT ![p] = {}]
  /\ hint' = hint \ {p} /\ pending' = pending \ {p} /\ interested' = interested \ {p}
  /\ UNCHANGED <<meta, sized, status, avail, groups, broken, job, todo, returns, repeats>>

(* Every message counts what it names, also what its peer has named and had counted before. *)
CountMessage(again) ==
  /\ again => repeats < MaxRepeats
  /\ repeats' = IF again THEN repeats + 1 ELSE repeats

(* on_peer_has_piece. *)
HavePiece(p, i) ==
  /\ p \in up \ broken /\ job[p] = Idle /\ FreeThread
  /\ IF Known
     THEN /\ has' = [has EXCEPT ![p] = @ \cup {i}]
          /\ job' = [job EXCEPT ![p] = Job(p, {i}, 1, FALSE)]
          /\ CountMessage(i \in has[p])
     ELSE UNCHANGED <<has, job, repeats>>
  /\ UNCHANGED <<meta, sized, status, avail, groups, up, broken, hint, pending, interested,
                 todo, returns>>

(* on_peer_bitfield and on_peer_has_all: S is what the message names.  It replaces what the
   peer named before, and nothing of that is taken back. *)
Inventory(p, S, all) ==
  /\ p \in up \ broken /\ job[p] = Idle /\ FreeThread
  /\ IF Known
     THEN /\ has' = [has EXCEPT ![p] = S]
          /\ job' = [job EXCEPT ![p] = Job(p, S, 1, TRUE)]
          /\ CountMessage(has[p] # {} /\ p \notin pending)
          /\ UNCHANGED <<hint, pending>>
     ELSE /\ has' = [has EXCEPT ![p] = IF all THEN @ ELSE S]
          /\ hint' = IF all THEN hint \cup {p} ELSE hint \ {p}
          /\ pending' = pending \cup {p}
          /\ UNCHANGED <<job, repeats>>
  /\ UNCHANGED <<meta, sized, status, avail, groups, up, broken, interested, todo, returns>>

(* A form of Disconnect that takes back every piece, not only those the peer had. *)
DisconnectTakesAll(p) ==
  /\ p \in up /\ job[p] = Idle /\ FreeThread
  /\ up' = up \ {p} /\ broken' = broken \ {p}
  /\ job' = [job EXCEPT ![p] = Job(p, IF Known THEN Pieces ELSE {}, -1, FALSE)]
  /\ UNCHANGED <<meta, sized, status, avail, groups, has, hint, pending, interested, todo,
                 returns, repeats>>

(* The message loop ends: on_disconnect takes back what the peer had. *)
Disconnect(p) ==
  /\ p \in up /\ job[p] = Idle /\ FreeThread
  /\ up' = up \ {p} /\ broken' = broken \ {p}
  /\ job' = [job EXCEPT ![p] = Job(p, IF Known THEN has[p] ELSE {}, -1, FALSE)]
  /\ UNCHANGED <<meta, sized, status, avail, groups, has, hint, pending, interested, todo,
                 returns, repeats>>

(* The keep-alive loop cannot send: it closes the socket and calls on_disconnect, and the
   message loop, whose read fails, is to call it again. *)
KeepAliveFails(p) ==
  /\ KeepAlive /\ p \in up \ broken /\ job[p] = Idle /\ FreeThread
  /\ broken' = broken \cup {p}
  /\ job' = [job EXCEPT ![p] = Job(p, IF Known THEN has[p] ELSE {}, -1, FALSE)]
  /\ UNCHANGED <<meta, sized, status, avail, groups, up, has, hint, pending, interested, todo,
                 returns, repeats>>

-----------------------------------------------------------------------------
(* One access of the tables after the other.  A piece we have only counts. *)
Added(i, by) == IF sized THEN [avail EXCEPT ![i] = (@ + by) % Wrap] ELSE avail

ReadOld(a) ==
  LET j == job[a]
      i == Min(j.pieces)
  IN /\ j.pc = "next" /\ j.pieces # {} /\ MayRun(a)
     /\ IF j.by = 1 /\ status[i] = "Have"
        THEN /\ avail' = Added(i, 1)
             /\ job' = [job EXCEPT ![a] = [j EXCEPT !.pieces = @ \ {i}]]
        ELSE /\ job' = [job EXCEPT ![a] = [j EXCEPT !.pc = "add", !.old = Availability(i)]]
             /\ UNCHANGED avail
     /\ UNCHANGED <<meta, sized, status, groups, up, broken, has, hint, pending, interested,
                    todo, returns, repeats>>

Add(a) ==
  LET j == job[a]
  IN /\ j.pc = "add" /\ MayRun(a)
     /\ avail' = Added(Min(j.pieces), j.by)
     /\ job' = [job EXCEPT ![a] = [j EXCEPT !.pc = "new"]]
     /\ UNCHANGED <<meta, sized, status, groups, up, broken, has, hint, pending, interested,
                    todo, returns, repeats>>

ReadNew(a) ==
  LET j == job[a]
  IN /\ j.pc = "new" /\ MayRun(a)
     /\ job' = [job EXCEPT ![a] = [j EXCEPT !.pc = "move", !.new = Availability(Min(j.pieces))]]
     /\ UNCHANGED <<meta, sized, status, avail, groups, up, broken, has, hint, pending,
                    interested, todo, returns, repeats>>

Move(a) ==
  LET j == job[a]
      i == Min(j.pieces)
  IN /\ j.pc = "move" /\ MayRun(a)
     /\ groups' = Regroup(i, j.old, j.new)
     /\ job' = [job EXCEPT ![a] = [j EXCEPT !.pc = "next", !.pieces = @ \ {i},
                                            !.want = @ \/ status[i] = "Needed"]]
     /\ UNCHANGED <<meta, sized, status, avail, up, broken, has, hint, pending, interested,
                    todo, returns, repeats>>

(* We tell the peer that we are interested, when it has something we need ... *)
Announce(a) ==
  LET j == job[a]
  IN /\ j.pc = "next" /\ j.pieces = {} /\ MayRun(a)
     /\ j.by = 1 /\ j.want /\ j.peer \notin interested
     /\ interested' = interested \cup {j.peer}
     /\ job' = [job EXCEPT ![a] = [j EXCEPT !.pc = "sending"]]
     /\ UNCHANGED <<meta, sized, status, avail, groups, up, broken, has, hint, pending, todo,
                    returns, repeats>>

(* ... and the handler ends. *)
Finish(a) ==
  LET j == job[a]
  IN /\ \/ j.pc = "sending" /\ FreeThread
        \/ /\ j.pc = "next" /\ j.pieces = {} /\ MayRun(a)
           /\ ~(j.by = 1 /\ j.want /\ j.peer \notin interested)
     /\ job' = [job EXCEPT ![a] = Idle]
     /\ pending' = IF j.list THEN pending \ {j.peer} ELSE pending
     /\ UNCHANGED <<meta, sized, status, avail, groups, up, broken, has, hint, interested,
                    todo, returns, repeats>>

-----------------------------------------------------------------------------
(* Where build_piece_rarity puts a piece. *)
Rarity(i) == CASE status[i] = "Have" -> 0
               [] status[i] = "InProgress" -> InProgressGroup
               [] OTHER -> avail[i]
Built == [g \in DOMAIN groups |-> {i \in Pieces : Rarity(i) = g}]

(* on_metadata_complete: load_metadata, and without a wait also build_piece_rarity and the
   list of connections ... *)
Load ==
  /\ meta = "none" /\ FreeThread
  /\ IF Suspends
     THEN meta' = "loaded" /\ UNCHANGED <<sized, groups, todo>>
     ELSE meta' = "reconcile" /\ sized' = TRUE /\ groups' = Built /\ todo' = up \ broken
  /\ UNCHANGED <<status, avail, up, broken, has, hint, pending, interested, job, returns,
                 repeats>>

(* ... which otherwise follow verify_pieces. *)
Verified ==
  /\ meta = "loaded" /\ FreeThread
  /\ meta' = "reconcile" /\ sized' = TRUE /\ groups' = Built /\ todo' = up \ broken
  /\ UNCHANGED <<status, avail, up, broken, has, hint, pending, interested, job, returns,
                 repeats>>

(* The loop over the connections handles the inventories that were put off. *)
Reconcile(p) ==
  /\ meta = "reconcile" /\ p \in todo /\ job[Loop] = Idle /\ FreeThread
  /\ todo' = todo \ {p}
  /\ IF p \in pending
     THEN LET S == IF p \in hint THEN Pieces ELSE has[p]
          IN /\ has' = [has EXCEPT ![p] = S]
             /\ job' = [job EXCEPT ![Loop] = Job(p, S, 1, TRUE)]
     ELSE UNCHANGED <<has, job>>
  /\ UNCHANGED <<meta, sized, status, avail, groups, up, broken, hint, pending, interested,
                 returns, repeats>>

Reconciled ==
  /\ meta = "reconcile" /\ todo = {} /\ job[Loop] = Idle /\ FreeThread
  /\ meta' = "done"
  /\ UNCHANGED <<sized, status, avail, groups, up, broken, has, hint, pending, interested, job,
                 todo, returns, repeats>>

-----------------------------------------------------------------------------
(* A piece is picked, completed or returned to the queue. *)
Pick(i) ==
  /\ meta = "done" /\ status[i] = "Needed" /\ FreeThread
  /\ status' = [status EXCEPT ![i] = "InProgress"]
  /\ groups' = Regroup(i, avail[i], InProgressGroup)
  /\ UNCHANGED <<meta, sized, avail, up, broken, has, hint, pending, interested, job, todo,
                 returns, repeats>>

Complete(i) ==
  /\ status[i] = "InProgress" /\ FreeThread
  /\ status' = [status EXCEPT ![i] = "Have"]
  /\ UNCHANGED <<meta, sized, avail, groups, up, broken, has, hint, pending, interested, job,
                 todo, returns, repeats>>

ReturnPiece(i) ==
  /\ status[i] = "InProgress" /\ FreeThread /\ returns < MaxReturns
  /\ status' = [status EXCEPT ![i] = "Needed"]
  /\ groups' = Regroup(i, InProgressGroup, avail[i])
  /\ returns' = returns + 1
  /\ UNCHANGED <<meta, sized, avail, up, broken, has, hint, pending, interested, job, todo,
                 repeats>>

Access(a) == ReadOld(a) \/ Add(a) \/ ReadNew(a) \/ Move(a) \/ Announce(a) \/ Finish(a)

Next ==
  \/ \E p \in Peers :
       \/ Connect(p) \/ Disconnect(p) \/ KeepAliveFails(p) \/ Reconcile(p)
       \/ \E i \in Pieces : HavePiece(p, i)
       \/ \E S \in SUBSET Pieces : Inventory(p, S, FALSE)
       \/ Inventory(p, Pieces, TRUE)
  \/ \E a \in Actors : Access(a)
  \/ Load \/ Verified \/ Reconciled
  \/ \E i \in Pieces : Pick(i) \/ Complete(i) \/ ReturnPiece(i)

Spec == Init /\ [][Next]_vars

-----------------------------------------------------------------------------
(* No handler is under way. *)
Quiet == meta = "done" /\ \A a \in Actors : job[a] = Idle

(* Every connected peer that has a piece is counted in its availability.  (A piece a peer named
   twice is counted twice, and taken back once.) *)
AvailabilityCovers ==
  Quiet => \A i \in Pieces : avail[i] >= Cardinality({p \in up : i \in has[p]})

(* An inventory that came before the metadata is taken account of when the metadata is
   complete: no connection is left with one that was put off, and the peers that have a
   piece we need have been told that we are interested.  (A piece in progress does not make
   us interested, so one that is returned may be one whose peers were not told.) *)
NobodyLeftPending ==
  Quiet => \A p \in up \ broken :
             /\ p \notin pending
             /\ (returns = 0 /\ \E i \in has[p] : status[i] = "Needed") => p \in interested
=============================================================================
