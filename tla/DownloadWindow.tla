--------------------------- MODULE DownloadWindow ---------------------------
(***************************************************************************)
(* The in-flight window of a download: PieceManager::downloader(), which   *)
(* wakes, counts, spawns fills and sleeps again, against the fills it      *)
(* spawned, the peers that unchoke and choke us, and the handlers that     *)
(* wake it.                                                                *)
(*                                                                         *)
(* A wake spawns "budget" fills, one for each proven peer that holds fewer *)
(* than MaxPiecesPerPrimary pieces, and "rotor" fills for the free slots   *)
(* of the window.  A fill is a coroutine of its own: it runs later, in any *)
(* order, and nothing it will claim is counted by the wakes before it.     *)
(* available_peers() never suspends, so a fill is one step here; two fills *)
(* that take the same piece on two threads are in PieceEngine, with the    *)
(* tail scheduler and the endgame, which the same loop calls.              *)
(*                                                                         *)
(* notify_one() is cancel_one() on the loop's timer: it wakes a loop that  *)
(* waits and is lost on one that is running or has set its timer and not   *)
(* yet begun to wait.                                                      *)
(***************************************************************************)
EXTENDS Integers, FiniteSets, FiniteSetsExt

CONSTANTS
  Pieces, Peers,
  Has,                  \* the pieces each peer has
  Restored,             \* pieces in progress in the resume data
  NoPeer,               \* no primary, no preference
  Absent,               \* not in in_progress_pieces_
  PiecesPerPeer,        \* kPiecesPerPeer, 4
  MinWindow,            \* the lower end of the clamp, 8
  MaxInFlightPieces,    \* kMaxInFlightPieces, 256
  MaxPiecesPerPrimary,  \* kMaxPiecesPerPrimary, 4
  MaxSpawnsPerWake,     \* kMaxSpawnsPerWake, 32
  MaxFills,             \* bound: fills spawned and not yet run
  MaxChokes,            \* bound: how often peers choke us
  MaxDemotions,         \* bound: rejects and demotions of primaries
  MaxThrows,            \* bound: exceptions in the loop
  MayStop               \* whether stop() may be called

VARIABLES
  status,     \* piece_status_
  primary,    \* in_progress_pieces_, with the primary_peer of each entry
  unchoked,   \* peers that do not choke us
  fresh,      \* peers that unchoked us within kFreshUnchokeWindow
  proven,     \* peers that delivered within kPrimaryEvidenceWindow
  fills,      \* fills spawned and not yet run, by preferred peer
  loop,       \* where the downloader is
  complete,   \* is_download_complete_
  stopped,    \* shutting_down_
  budget      \* what is left of the bounds

vars == <<status, primary, unchoked, fresh, proven, fills, loop, complete, stopped, budget>>

InMap == {p \in Pieces : primary[p] # Absent}
Needed == {p \in Pieces : status[p] = "Needed"}
AllHave == \A p \in Pieces : status[p] = "Have"
Pending == MapThenSumSet(LAMBDA x : fills[x], Peers \cup {NoPeer})
HeldBy(x) == {p \in Pieces : primary[p] = x}
Holders(p) == {x \in unchoked : p \in Has[x]}

Spend(kind) == budget[kind] > 0 /\ budget' = [budget EXCEPT ![kind] = @ - 1]

Init ==
  /\ status = [p \in Pieces |-> IF p \in Restored THEN "InProgress" ELSE "Needed"]
  /\ primary = [p \in Pieces |-> IF p \in Restored THEN NoPeer ELSE Absent]
  /\ unchoked = {} /\ fresh = {} /\ proven = {}
  /\ fills = [x \in Peers \cup {NoPeer} |-> 0]
  /\ loop = "running"
  /\ complete = FALSE /\ stopped = FALSE
  /\ budget = [chokes |-> MaxChokes, demotions |-> MaxDemotions, throws |-> MaxThrows]

-----------------------------------------------------------------------------
(* The downloader *)

(* max_in_progress_pieces of this wake. *)
Window ==
  LET wanted == (IF unchoked = {} THEN 1 ELSE Cardinality(unchoked)) * PiecesPerPeer
  IN  IF wanted < MinWindow THEN MinWindow
      ELSE IF wanted > MaxInFlightPieces THEN MaxInFlightPieces ELSE wanted

(* The proven primaries below their budget; the spawns stop at             *)
(* MaxSpawnsPerWake, and which of them are served then depends on the      *)
(* rotor, which every fill advances.                                       *)
Draining == {x \in proven : Cardinality(HeldBy(x)) \in 1 .. MaxPiecesPerPrimary - 1}
BudgetFills ==
  {B \in SUBSET Draining : Cardinality(B) = Min({Cardinality(Draining), MaxSpawnsPerWake})}

(* The free slots, no more than there are needed pieces and than the wake  *)
(* may still spawn; a negative count spawns nothing.                       *)
RotorFills(B) ==
  LET room == Window - Cardinality(InMap)
      slots == IF room > 0 THEN Min({room, Cardinality(Needed)}) ELSE 0
  IN  Max({0, Min({slots, MaxSpawnsPerWake - Cardinality(B)})})

Spawned(B, n) == [x \in Peers \cup {NoPeer} |->
                    fills[x] + (IF x = NoPeer THEN n ELSE IF x \in B THEN 1 ELSE 0)]

Leaves == complete \/ stopped

(* One pass of the loop, up to the timer set for the watchdog's second. *)
pass ==
  /\ loop = "running" /\ ~Leaves
  /\ \E B \in BudgetFills :
       /\ Pending + Cardinality(B) + RotorFills(B) <= MaxFills
       /\ fills' = Spawned(B, RotorFills(B))
  /\ loop' = "set"
  /\ UNCHANGED <<status, primary, unchoked, fresh, proven, complete, stopped, budget>>

leave ==
  /\ loop = "running" /\ Leaves
  /\ loop' = "left"
  /\ UNCHANGED <<status, primary, unchoked, fresh, proven, fills, complete, stopped, budget>>

(* An exception in the pass, before or after the budget fills: the loop    *)
(* spawns itself anew.                                                     *)
throws ==
  /\ loop = "running" /\ ~Leaves
  /\ Spend("throws")
  /\ \E B \in BudgetFills \cup {{}} :
       /\ Pending + Cardinality(B) <= MaxFills
       /\ fills' = Spawned(B, 0)
  /\ UNCHANGED <<status, primary, unchoked, fresh, proven, loop, complete, stopped>>

begins_to_wait ==
  /\ loop = "set"
  /\ loop' = "waiting"
  /\ UNCHANGED <<status, primary, unchoked, fresh, proven, fills, complete, stopped, budget>>

watchdog ==
  /\ loop = "waiting"
  /\ loop' = "running"
  /\ UNCHANGED <<status, primary, unchoked, fresh, proven, fills, complete, stopped, budget>>

notify_one == loop' = IF loop = "waiting" THEN "running" ELSE loop

-----------------------------------------------------------------------------
(* The fills *)

(* The primary of a piece: the preferred peer if it is available, else one *)
(* of the proven and fresh ones, else any.                                 *)
Primaries(p, pref) ==
  LET pool == Holders(p) \cap (proven \cup fresh)
  IN  IF pref \in Holders(p) THEN {pref}
      ELSE IF pool # {} THEN pool ELSE Holders(p)

Claimable == {p \in Needed : Holders(p) # {}}

(* request_one_piece and try_seed_to_primary, with try_piece_download: the *)
(* first needed piece that an unchoked peer has, in an order that rarity   *)
(* and a shuffle decide.  A fill without one ends, and so does one that    *)
(* finds the callbacks gone.                                               *)
runs_fill(pref) ==
  /\ fills[pref] > 0
  /\ fills' = [fills EXCEPT ![pref] = @ - 1]
  /\ IF stopped \/ Claimable = {}
     THEN UNCHANGED <<status, primary>>
     ELSE \E p \in Claimable : \E x \in Primaries(p, pref) :
            /\ status' = [status EXCEPT ![p] = "InProgress"]
            /\ primary' = [primary EXCEPT ![p] = x]
  /\ UNCHANGED <<unchoked, fresh, proven, loop, complete, stopped, budget>>

-----------------------------------------------------------------------------
(* The handlers *)

on_unchoke(x) ==
  /\ ~stopped /\ x \notin unchoked
  /\ unchoked' = unchoked \cup {x} /\ fresh' = fresh \cup {x}
  /\ notify_one
  /\ UNCHANGED <<status, primary, proven, fills, complete, stopped, budget>>

on_choke(x) ==
  /\ ~stopped /\ x \in unchoked /\ Spend("chokes")
  /\ unchoked' = unchoked \ {x}
  /\ UNCHANGED <<status, primary, fresh, proven, fills, loop, complete, stopped>>

(* A block of a piece in progress, from any peer that has it. *)
on_block(p, x) ==
  /\ ~stopped /\ status[p] = "InProgress" /\ p \in InMap /\ x \in Holders(p)
  /\ x \notin proven
  /\ proven' = proven \cup {x}
  /\ notify_one
  /\ UNCHANGED <<status, primary, unchoked, fresh, fills, complete, stopped, budget>>

(* The last block: the piece is verified, written and Have, and the loop   *)
(* is woken while its entry is still in the map.                           *)
completes(p) ==
  /\ ~stopped /\ status[p] = "InProgress" /\ p \in InMap /\ Holders(p) # {}
  /\ \E x \in Holders(p) : proven' = proven \cup {x}
  /\ status' = [status EXCEPT ![p] = "Have"]
  /\ notify_one
  /\ UNCHANGED <<primary, unchoked, fresh, fills, complete, stopped, budget>>

(* After the HAVE messages the entry goes, and nobody is told; with all    *)
(* pieces counted the download is complete.                                *)
remove_in_progress_piece(p) ==
  /\ ~stopped /\ status[p] = "Have" /\ p \in InMap
  /\ primary' = [primary EXCEPT ![p] = Absent]
  /\ complete' = (complete \/ AllHave)
  /\ UNCHANGED <<status, unchoked, fresh, proven, fills, loop, stopped, budget>>

(* A reject of the primary, or a resume pass that finds it unproven. *)
demoted(p) ==
  /\ ~stopped /\ p \in InMap /\ primary[p] \in Peers /\ Spend("demotions")
  /\ primary' = [primary EXCEPT ![p] = NoPeer]
  /\ notify_one \/ (primary[p] \notin proven /\ loop' = loop)
  /\ UNCHANGED <<status, unchoked, fresh, proven, fills, complete, stopped>>

(* 45 s after an unchoke, five minutes after a delivery. *)
expires(x) ==
  /\ \/ x \in fresh /\ fresh' = fresh \ {x} /\ proven' = proven
     \/ x \in proven /\ proven' = proven \ {x} /\ fresh' = fresh
  /\ UNCHANGED <<status, primary, unchoked, fills, loop, complete, stopped, budget>>

(* stop(): signal_shutdown empties the map and cancels the timer. *)
stop ==
  /\ MayStop /\ ~stopped
  /\ stopped' = TRUE
  /\ primary' = [p \in Pieces |-> Absent]
  /\ notify_one
  /\ UNCHANGED <<status, unchoked, fresh, proven, fills, complete, budget>>

-----------------------------------------------------------------------------
Downloader == pass \/ leave \/ begins_to_wait \/ watchdog
Fills == \E x \in Peers \cup {NoPeer} : runs_fill(x)
Handlers ==
  \/ \E x \in Peers : on_unchoke(x) \/ on_choke(x) \/ expires(x)
  \/ \E p \in Pieces, x \in Peers : on_block(p, x)
  \/ \E p \in Pieces : completes(p) \/ remove_in_progress_piece(p) \/ demoted(p)

Next == Downloader \/ throws \/ Fills \/ Handlers \/ stop

Spec == Init /\ [][Next]_vars

(* The io_context runs what is queued, timers fire, and a handler that has *)
(* marked a piece Have comes to its end; no peer has to deliver anything.  *)
FairSpec ==
  /\ Spec
  /\ WF_vars(Downloader) /\ \A x \in Peers \cup {NoPeer} : WF_vars(runs_fill(x))
  /\ \A p \in Pieces : WF_vars(remove_in_progress_piece(p))

-----------------------------------------------------------------------------
(* Properties *)

Over == complete \/ stopped

(* The loop has left if the download is over; it is over if every piece is *)
(* Have; else the window is full or no unchoked peer has a needed piece.   *)
WindowInUse ==
  /\ Over => loop = "left"
  /\ AllHave => Over
  /\ Over \/ Claimable = {} \/ Cardinality(InMap) >= Window
=============================================================================
