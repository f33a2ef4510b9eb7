----------------------------- MODULE TrackerLoop -----------------------------
(***************************************************************************)
(* The tracker announces of a session: tracker_announce_loop, the announce *)
(* to all trackers at once, trackers added meanwhile, and stop().  The     *)
(* loop, add_tracker_url and the second half of stop() run on the strand   *)
(* of the session; the announces to single trackers and the first half of  *)
(* stop() do not.  With IoThreads = 1 a handler runs to its next co_await  *)
(* undisturbed; with more, the steps marked "mid-step" overlap with others.*)
(* A tracker that failed is passed over for a while.  UdpAnnounce.tla and  *)
(* HttpAnnounce.tla model what one announce does.                          *)
(***************************************************************************)
EXTENDS Integers, FiniteSets, FiniteSetsExt

CONSTANTS Trackers, First,  \* all trackers, and those known from the start
          Peers,
          Intervals,        \* what a tracker may ask for; 0 is "nothing"
          DefaultInterval,
          MaxPeerless,      \* 10 in the code
          Modes,            \* the modes of the session: "Seed", "Leech", "Hybrid"
          IoThreads,
          MaxCycles         \* bound on the announces of the loop

VARIABLES pc,          \* of the loop: top, announcing, arming, waiting, ended
          event, completed_event_sent, cycle,
          sent,        \* how often each event other than "" was announced
          mode, complete,
          tracker_clients,
          child,       \* the announce to each: none, spawned, running, cancelled, over
          outcomes,    \* the interval each answered with, -1 for no answer
          peers_dedup, \* peers taken up in this cycle
          connects,    \* connections started in this cycle, for each peer
          tracker_announce_interval, peerless_announces,
          wait,        \* what the timer is set to; 0 is the 60 s of a retry
          timer,       \* idle, armed, expired, aborted
          stop         \* idle, flagged, cancelled, finished

loop == <<event, completed_event_sent, cycle, sent>>
fanout == <<child, outcomes, peers_dedup, connects>>
waits == <<tracker_announce_interval, peerless_announces, wait>>
vars == <<pc, loop, mode, complete, tracker_clients, fanout, waits, timer, stop>>

LoopAssumption ==
  /\ First \subseteq Trackers /\ IoThreads \in Nat \ {0} /\ MaxCycles \in Nat
  /\ Modes \subseteq {"Seed", "Leech", "Hybrid"} /\ Intervals \subseteq Nat
  /\ DefaultInterval \in Nat /\ MaxPeerless \in Nat

Init ==
  /\ pc = "top" /\ event = "started" /\ completed_event_sent = FALSE /\ cycle = 0
  /\ sent = [e \in {"started", "completed"} |-> 0]
  /\ mode \in Modes /\ complete \in BOOLEAN
  /\ (mode = "Seed" => complete) /\ (mode = "Leech" => ~complete)
  /\ tracker_clients = First /\ child = [t \in Trackers |-> "none"]
  /\ outcomes = [t \in Trackers |-> -1]
  /\ peers_dedup = {} /\ connects = [p \in Peers |-> 0]
  /\ tracker_announce_interval = DefaultInterval /\ peerless_announces = 0 /\ wait = 0
  /\ timer = "idle" /\ stop = "idle"

(* A coroutine in the middle of a step keeps its thread. *)
MidStep ==
  (IF pc = "arming" THEN {"loop"} ELSE {}) \cup (IF stop = "flagged" THEN {"stop"} ELSE {})
FreeThread == Cardinality(MidStep) < IoThreads
FreeStrand == FreeThread /\ pc # "arming"

shutting_down == stop # "idle"

(* The event of this cycle, once the download is complete. *)
NextEvent ==
  IF complete /\ ~completed_event_sent /\ mode # "Seed" THEN "completed" ELSE event

(* The top of the loop: a leecher that is done announces no more. *)
EndLeech ==
  /\ FreeStrand /\ pc = "top" /\ complete /\ mode = "Leech"
  /\ pc' = "ended"
  /\ UNCHANGED <<loop, mode, complete, tracker_clients, fanout, waits, timer, stop>>

(* The top of the loop, up to the wait for the announces it has spawned. *)
Announce ==
  /\ FreeStrand /\ pc = "top" /\ ~(complete /\ mode = "Leech") /\ cycle < MaxCycles
  /\ event' = NextEvent
  /\ completed_event_sent' = (completed_event_sent \/ NextEvent = "completed")
  /\ sent' = [e \in DOMAIN sent |-> sent[e] + (IF e = NextEvent THEN 1 ELSE 0)]
  /\ cycle' = cycle + 1 /\ pc' = "announcing"
  /\ child' = [t \in Trackers |-> IF t \in tracker_clients THEN "spawned" ELSE "none"]
  /\ outcomes' = [t \in Trackers |-> -1]
  /\ peers_dedup' = {} /\ connects' = [p \in Peers |-> 0]
  /\ UNCHANGED <<mode, complete, tracker_clients, waits, timer, stop>>

(* A tracker in backoff is passed over. *)
StartOne(t) ==
  /\ FreeThread /\ child[t] = "spawned"
  /\ \E s \in {"running", "over"} : child' = [child EXCEPT ![t] = s]
  /\ UNCHANGED <<pc, loop, mode, complete, tracker_clients, outcomes, peers_dedup, connects,
                 waits, timer, stop>>

(* Peers another tracker has named in this cycle are left out. *)
NewPeers(S) == S \ peers_dedup

(* A tracker answers, with any peers but ourselves: those that are new get *)
(* connected to, unless they are connected already. *)
OneAnswers(t) ==
  /\ FreeThread /\ child[t] \in {"running", "cancelled"}
  /\ child' = [child EXCEPT ![t] = "over"]
  /\ \E i \in Intervals : outcomes' = [outcomes EXCEPT ![t] = i]
  /\ \E S \in SUBSET Peers : \E connected \in SUBSET S :
       /\ peers_dedup' = peers_dedup \cup S
       /\ connects' = [p \in Peers |->
                         connects[p] + (IF p \in NewPeers(S) \ connected THEN 1 ELSE 0)]
  /\ UNCHANGED <<pc, loop, mode, complete, tracker_clients, waits, timer, stop>>

OneFails(t) ==
  /\ FreeThread /\ child[t] \in {"running", "cancelled"}
  /\ child' = [child EXCEPT ![t] = "over"]
  /\ UNCHANGED <<pc, loop, mode, complete, tracker_clients, outcomes, peers_dedup, connects,
                 waits, timer, stop>>

(* The shortest interval asked for becomes that of the session. *)
MergeInterval(asked) == IF asked = {} THEN tracker_announce_interval ELSE Min(asked)

(* After the announces the loop looks at shutting_down_. *)
EndsAfterAnnounce == shutting_down

(* A form of NoEvent that leaves the event as it is. *)
SameEvent == event' = event

NoEvent == event' = ""

(* All announces are over: the intervals are merged, and the loop ends or  *)
(* goes on to set its timer. *)
AllOver ==
  /\ FreeStrand /\ pc = "announcing"
  /\ \A t \in Trackers : child[t] \in {"none", "over"}
  /\ tracker_announce_interval' =
       MergeInterval({outcomes[t] : t \in {u \in Trackers : outcomes[u] > 0}})
  /\ NoEvent /\ pc' = IF EndsAfterAnnounce THEN "ended" ELSE "arming"
  /\ UNCHANGED <<completed_event_sent, cycle, sent, mode, complete, tracker_clients, fanout,
                 peerless_announces, wait, timer, stop>>

(* Mid-step: with no peer to download from, the wait is short, MaxPeerless *)
(* times in a row at most. *)
Arm ==
  /\ pc = "arming" /\ pc' = "waiting" /\ timer' = "armed"
  /\ \/ /\ ~complete /\ peerless_announces < MaxPeerless
        /\ peerless_announces' = peerless_announces + 1 /\ wait' = 0
     \/ /\ peerless_announces' = 0 /\ wait' = tracker_announce_interval
  /\ UNCHANGED <<loop, mode, complete, tracker_clients, fanout, tracker_announce_interval, stop>>

Expire ==
  /\ timer = "armed" /\ timer' = "expired"
  /\ UNCHANGED <<pc, loop, mode, complete, tracker_clients, fanout, waits, stop>>

Wake ==
  /\ FreeStrand /\ pc = "waiting" /\ timer \in {"expired", "aborted"}
  /\ timer' = "idle"
  /\ pc' = IF timer = "aborted" /\ shutting_down THEN "ended" ELSE "top"
  /\ UNCHANGED <<loop, mode, complete, tracker_clients, fanout, waits, stop>>

CancelTimer == timer' = IF timer = "armed" THEN "aborted" ELSE timer

(* The tracker is new: it joins the first tier, and the loop is woken. *)
add_tracker_url(t) ==
  /\ FreeStrand /\ ~shutting_down /\ t \notin tracker_clients
  /\ tracker_clients' = tracker_clients \cup {t} /\ CancelTimer
  /\ UNCHANGED <<pc, loop, mode, complete, fanout, waits, stop>>

Complete ==
  /\ FreeThread /\ ~complete /\ complete' = TRUE
  /\ UNCHANGED <<pc, loop, mode, tracker_clients, fanout, waits, timer, stop>>

(* The first half of stop(): the flag, and, mid-step, the timers. *)
StopFlag ==
  /\ FreeThread /\ stop = "idle" /\ stop' = "flagged"
  /\ UNCHANGED <<pc, loop, mode, complete, tracker_clients, fanout, waits, timer>>

StopTimers ==
  /\ stop = "flagged" /\ stop' = "cancelled" /\ CancelTimer
  /\ UNCHANGED <<pc, loop, mode, complete, tracker_clients, fanout, waits>>

(* The second half, on the strand: every client is cancelled, and with it  *)
(* the announce it has running. *)
StopClients ==
  /\ FreeStrand /\ stop = "cancelled" /\ stop' = "finished"
  /\ child' = [t \in Trackers |->
                 IF t \in tracker_clients /\ child[t] = "running" THEN "cancelled" ELSE child[t]]
  /\ UNCHANGED <<pc, loop, mode, complete, tracker_clients, outcomes, peers_dedup, connects,
                 waits, timer>>

Next ==
  \/ EndLeech \/ Announce \/ AllOver \/ Arm \/ Expire \/ Wake \/ Complete
  \/ \E t \in Trackers : StartOne(t) \/ OneAnswers(t) \/ OneFails(t) \/ add_tracker_url(t)
  \/ StopFlag \/ StopTimers \/ StopClients

Spec == Init /\ [][Next]_vars

(* "started" and "completed" are announced at most once each, over all     *)
(* cycles, retries and wake-ups. *)
EventsOnce == \A e \in DOMAIN sent : sent[e] <= 1
=============================================================================
