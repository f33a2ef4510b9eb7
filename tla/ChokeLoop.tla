----------------------------- MODULE ChokeLoop -----------------------------
(***************************************************************************)
(* PeerManager::choke_loop: which peers get an upload slot.  A pass runs   *)
(* on the timer, or when a connection or a change of interest pokes it; a  *)
(* new connection may be unchoked before its first pass.  The handlers run *)
(* on any thread, so they come between any two steps of the loop too; a    *)
(* pass is one step.                                                       *)
(***************************************************************************)
EXTENDS Integers, FiniteSets, FiniteSetsExt

CONSTANTS Peers,
          Slots,      \* kUnchokeSlots
          MaxRate,    \* bound on the bytes of a round, in units
          MaxChanges, \* bound: how often peers come, go or change their interest
          None

VARIABLES conns,      \* connections listed, by peer
          interested, \* peer_is_interested_
          choking,    \* am_choking_
          data,       \* last_data_received_: never, in the last minute, or before
          rate,       \* bytes of this round, down for a leecher and up for a seed
          optimistic, \* optimistically_unchoked_peer
          replaced,   \* its connection is gone, and the peer may have a new one
          counter,    \* choke_loop_counter_: 0, then modulo 3
          loop,       \* the loop arms its timer, waits, or is about to pass
          poke,       \* choke_poke_
          changes     \* comings, goings and changes of interest so far

vars == <<conns, interested, choking, data, rate, optimistic, replaced, counter, loop, poke,
          changes>>
peer == <<interested, choking, data, rate>>

SlotsAssumption == Slots \in Nat \ {0, 1} /\ None \notin Peers

Init ==
  /\ conns = {}
  /\ interested = {} /\ choking = Peers
  /\ data = [p \in Peers |-> "never"]
  /\ rate = [p \in Peers |-> 0]
  /\ optimistic = None /\ replaced = FALSE
  /\ counter = 0
  /\ loop = "top" /\ poke = FALSE /\ changes = 0

Changes == changes < MaxChanges /\ changes' = changes + 1

(* poke_choke_loop raises choke_poke_ and cancels the timer, which only a loop that
   waits on it notices. *)
Poke ==
  /\ poke' = TRUE
  /\ loop' = IF loop \in {"long", "short"} THEN "pass" ELSE loop

-----------------------------------------------------------------------------
(* handle_new_connection: add_connection, the fast start, the poke. *)
Join(p) ==
  /\ p \notin conns /\ Changes
  /\ conns' = conns \cup {p}
  /\ choking' = IF Cardinality(conns') <= Slots THEN choking \ {p} ELSE choking
  /\ Poke
  /\ UNCHANGED <<interested, data, rate, optimistic, replaced, counter>>

(* on_disconnect: the removal and the poke.  The flags go with the connection: those of
   a peer that is not connected have their initial values. *)
Leave(p) ==
  /\ p \in conns /\ Changes
  /\ conns' = conns \ {p}
  /\ interested' = interested \ {p}
  /\ choking' = choking \cup {p}
  /\ data' = [data EXCEPT ![p] = "never"]
  /\ rate' = [rate EXCEPT ![p] = 0]
  /\ Poke
  /\ replaced' = (replaced \/ p = optimistic)
  /\ UNCHANGED <<optimistic, counter>>

(* Interested and NotInterested, each with interest_change_hook_. *)
Interest(p) ==
  /\ p \in conns /\ Changes
  /\ interested' = IF p \in interested THEN interested \ {p} ELSE interested \cup {p}
  /\ Poke
  /\ UNCHANGED <<conns, choking, data, rate, optimistic, replaced, counter>>

(* A block from the peer. *)
Receive(p) ==
  /\ p \in conns /\ rate[p] < MaxRate
  /\ data' = [data EXCEPT ![p] = "fresh"]
  /\ rate' = [rate EXCEPT ![p] = @ + 1]
  /\ UNCHANGED <<conns, interested, choking, optimistic, replaced, counter, loop, poke, changes>>

(* A minute without data. *)
Age(p) ==
  /\ data[p] = "fresh"
  /\ data' = [data EXCEPT ![p] = "stale"]
  /\ UNCHANGED <<conns, interested, choking, rate, optimistic, replaced, counter, loop, poke,
                 changes>>

-----------------------------------------------------------------------------
(* choke_loop reads the poke and chooses how long to wait: not at all the first time,
   250 ms after a poke, the interval otherwise ... *)
Arm ==
  /\ loop = "top"
  /\ loop' = IF counter = 0 \/ poke THEN "toShort" ELSE "toLong"
  /\ poke' = FALSE
  /\ UNCHANGED <<conns, peer, optimistic, replaced, counter, changes>>

(* ... and waits ... *)
StartWait ==
  /\ loop \in {"toShort", "toLong"}
  /\ loop' = IF loop = "toShort" THEN "short" ELSE "long"
  /\ UNCHANGED <<conns, peer, optimistic, replaced, counter, poke, changes>>

(* ... until the timer fires. *)
TimerFires ==
  /\ loop \in {"short", "long"}
  /\ loop' = "pass"
  /\ UNCHANGED <<conns, peer, optimistic, replaced, counter, poke, changes>>

-----------------------------------------------------------------------------
(* One pass. *)

(* A form of Snubs that takes a peer that has sent nothing yet for one that snubs us. *)
SnubsNew(p) == data[p] # "fresh"

(* More than 60 s since the last data, if there was any. *)
Snubs(p) == data[p] = "stale"

(* Interested peers that are unchoked and have sent nothing for a minute: choked first,
   and left out of the rest of the pass. *)
AntiSnub == {p \in conns \cap interested : p \notin choking /\ Snubs(p)}

(* The vector `interested`. *)
Considered == (conns \cap interested) \ AntiSnub

(* One slot is kept for the optimistic unchoke. *)
RegularSlots == Slots - 1

(* The regular slots: the fastest peers that do not snub, in any order among equals. *)
Tops(set) ==
  LET able == {p \in set : ~Snubs(p)}
  IN {t \in SUBSET able :
        /\ Cardinality(t) = Min({RegularSlots, Cardinality(able)})
        /\ \A p \in t, q \in able \ t : rate[p] >= rate[q]}

(* What the optimistic slot does, given the regular slots and who is choked: the new
   optimistic peer, whether its connection is gone, the peers to unchoke, and who is
   choked after a rotation. *)
Choice(o, gone, to, choked) == [peer |-> o, gone |-> gone, to |-> to, choked |-> choked]
Keep(to, choked) == Choice(optimistic, replaced, to, choked)

Optimistic(top, choked, n) ==
  IF n = 3
  THEN LET rotated == IF optimistic \in conns \ top /\ ~replaced THEN choked \cup {optimistic}
                      ELSE choked
           candidates == {p \in Considered \cap rotated : ~Snubs(p)}
       IN IF candidates = {} THEN {Keep(top, rotated)}
          ELSE {Choice(o, FALSE, top \cup {o}, rotated) : o \in candidates}
  ELSE IF optimistic \in Considered
       THEN {Keep(top \cup {optimistic}, choked)}
       ELSE {Choice(None, FALSE, top, choked)}

Pass ==
  LET n == (counter % 3) + 1
      snubbed == choking \cup AntiSnub
  IN /\ loop = "pass"
     /\ loop' = "top"
     /\ counter' = n
     /\ IF Considered = {}
        THEN choking' = snubbed /\ UNCHANGED <<optimistic, replaced, rate>>
        ELSE \E top \in Tops(Considered) : \E c \in Optimistic(top, snubbed, n) :
               /\ optimistic' = c.peer /\ replaced' = c.gone
               /\ choking' = (c.choked \cup Considered) \ (c.to \cap Considered)
               /\ rate' = [p \in Peers |-> 0]
     /\ UNCHANGED <<conns, interested, data, poke, changes>>

-----------------------------------------------------------------------------
Loop == Arm \/ StartWait \/ TimerFires \/ Pass

Next ==
  \/ Loop
  \/ \E p \in Peers : Join(p) \/ Leave(p) \/ Interest(p) \/ Receive(p) \/ Age(p)

Spec == Init /\ [][Next]_vars

(* Timers fire and the loop goes on; peers need not do anything. *)
FairSpec == Spec /\ WF_vars(Loop)

-----------------------------------------------------------------------------
(* There are no more interested peers than slots, and p is one of them that sends data,
   or has never sent any. *)
Deserves(p) ==
  /\ p \in conns \cap interested
  /\ Cardinality(conns \cap interested) <= Slots
  /\ data[p] # "stale"

(* A peer that deserves a slot for good, once no peer comes, goes or changes its interest,
   is unchoked again and again: whatever the peers' rates, and though a poke that comes
   before the loop waits is lost on its timer, it gets a regular or the optimistic slot. *)
InterestedServed ==
  \A p \in Peers :
     <>[][FALSE]_<<conns, interested>> /\ <>[]Deserves(p) => []<>(p \notin choking)
=============================================================================
