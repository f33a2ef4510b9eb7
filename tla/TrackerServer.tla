---------------------------- MODULE TrackerServer ----------------------------
(***************************************************************************)
(* The tracker's table of peers, for one info hash: announces over HTTP    *)
(* and UDP, the clean-up loop, which also saves the table, and the process *)
(* being stopped, dying and starting again.  The tracker has one thread,   *)
(* so handlers do not overlap; only the death of the process can fall      *)
(* between the truncation of the state file and its writing.  The protocol *)
(* of UDP connection ids is in UdpAnnounce.                                *)
(***************************************************************************)
EXTENDS Integers, FiniteSets, FiniteSetsExt

CONSTANTS Peers,
          Interval,   \* interval_
          MaxTime     \* bound on the clock

VARIABLES peers_,     \* time of the last announce of each listed peer
          file,       \* the state file: is it there, is it whole, its peers
          now, cleanup_at,
          up, saving,
          said        \* what each peer last told this process, and when

vars == <<peers_, file, now, cleanup_at, up, saving, said>>

TrackerAssumption == Interval \in Nat \ {0} /\ MaxTime \in Nat

Unlisted == -1
Empty == [p \in Peers |-> Unlisted]
Listed == {p \in Peers : peers_[p] # Unlisted}
File(state, table) == [is |-> state, peers |-> table]
Nothing == [event |-> "none", at |-> 0]

Init ==
  /\ peers_ = Empty /\ file = File("none", Empty)
  /\ now = 0 /\ cleanup_at = 2 * Interval
  /\ up = TRUE /\ saving = FALSE
  /\ said = [p \in Peers |-> Nothing]

Busy == ~up \/ saving

(* Over HTTP a peer that says it has stopped is taken out. *)
handle_announce(p, event) ==
  /\ ~Busy
  /\ peers_' = [peers_ EXCEPT ![p] = IF event = "stopped" THEN Unlisted ELSE now]
  /\ said' = [said EXCEPT ![p] = [event |-> event, at |-> now]]
  /\ UNCHANGED <<file, now, cleanup_at, up, saving>>

(* Over UDP the event is not looked at. *)
handle_udp_request(p) ==
  /\ ~Busy
  /\ peers_' = [peers_ EXCEPT ![p] = now]
  /\ said' = [said EXCEPT ![p] = [event |-> "udp", at |-> now]]
  /\ UNCHANGED <<file, now, cleanup_at, up, saving>>

(* A form of Threshold with one interval. *)
ThresholdShort == now - Interval
Threshold == now - 2 * Interval

(* The clean-up loop takes out who was silent, and begins to save. *)
cleanup_loop ==
  /\ ~Busy /\ now = cleanup_at
  /\ peers_' = [p \in Peers |-> IF peers_[p] < Threshold THEN Unlisted ELSE peers_[p]]
  /\ file' = File("truncated", Empty) /\ saving' = TRUE
  /\ UNCHANGED <<now, cleanup_at, up, said>>

save_state ==
  /\ up /\ saving
  /\ file' = File("whole", peers_) /\ saving' = FALSE
  /\ cleanup_at' = now + 2 * Interval
  /\ UNCHANGED <<peers_, now, up, said>>

(* SIGINT and SIGTERM stop the io_context, and the process ends. *)
StopBySignal ==
  /\ ~Busy /\ up' = FALSE
  /\ UNCHANGED <<peers_, file, now, cleanup_at, saving, said>>

Crash ==
  /\ up /\ up' = FALSE /\ saving' = FALSE /\ peers_' = Empty
  /\ UNCHANGED <<file, now, cleanup_at, said>>

(* A start reads the file; one that is missing or not whole counts for     *)
(* nothing. *)
load_state ==
  /\ ~up /\ up' = TRUE
  /\ peers_' = IF file.is = "whole" THEN file.peers ELSE Empty
  /\ cleanup_at' = now + 2 * Interval
  /\ said' = [p \in Peers |-> Nothing]
  /\ UNCHANGED <<file, now, saving>>

(* The timer of the clean-up goes off in time. *)
Tick ==
  /\ now < MaxTime /\ ~saving /\ (up => now < cleanup_at)
  /\ now' = now + 1
  /\ UNCHANGED <<peers_, file, cleanup_at, up, saving, said>>

Next ==
  \/ \E p \in Peers, event \in {"started", "completed", "", "stopped"} : handle_announce(p, event)
  \/ \E p \in Peers : handle_udp_request(p)
  \/ cleanup_loop \/ save_state
  \/ StopBySignal \/ Crash \/ load_state \/ Tick

Spec == Init /\ [][Next]_vars

(* A peer that announced to this process within the last two intervals and *)
(* did not stop since is listed, whatever clean-ups there were. *)
ListsRecent ==
  up => \A p \in Peers :
          said[p].event \notin {"none", "stopped"} /\ now - said[p].at <= 2 * Interval
            => p \in Listed
=============================================================================
