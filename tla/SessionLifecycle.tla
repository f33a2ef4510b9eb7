------------------------- MODULE SessionLifecycle -------------------------
(* The life of one TorrentSession: run() initialises the session and spawns *)
(* its periodic coroutines, stop() raises the shutdown flag, cancels every  *)
(* timer, saves the progress and flushes the cache.  A timer's cancel()     *)
(* wakes a wait that is armed and is lost on one that is armed later, which *)
(* is what every loop's checks are about.                                   *)
(*                                                                          *)
(* A loop is "head" at its while condition, "work" in the body, "arm"       *)
(* between the last test of the flag and the wait, "wait" on its timer (or  *)
(* socket), "fired" or "aborted" once the wait is over and its handler is   *)
(* queued.  The tracker loop is modelled in TrackerLoop and the downloader  *)
(* in PieceEngine.                                                          *)
EXTENDS Naturals, FiniteSets

CONSTANTS Loops,        \* the loops this session runs
          EarlyStop,    \* stop() may start before run() has reached its wait
          OtherThread   \* stop() may run on another thread, between a loop's
                        \* last test of the flag and the wait that follows

SwitchAssumption == EarlyStop \in BOOLEAN /\ OtherThread \in BOOLEAN

Sockets    == {"accept", "lsdListen"}
Lsd        == {"lsdAnnounce", "lsdListen"}
TimeoutLoops == {"timeouts", "timeouts2"}   \* both wait on block_timeout_timer_

(* Loops that do a round before their first wait. *)
WorkFirst  == {"dht", "lsdAnnounce", "pex", "metadata", "discovered"} \cup TimeoutLoops
(* Loops that test the flag between the body and the wait. *)
TestsBeforeWait == {"dht", "pex", "metadata", "discovered"}
(* Loops that test the flag after the wait, whatever ended it. *)
TestsAfterWait  == {"lsdAnnounce", "lsdListen", "choke", "pex", "bans", "watchdog", "flush"}
(* Loops that return when their wait is aborted. *)
EndsOnAbort == {"lsdAnnounce", "lsdListen", "save", "pex", "metadata", "bans",
                "watchdog", "flush"} \cup TimeoutLoops
(* Loops that return when it is aborted by a shutdown and start over otherwise. *)
EndsOnStopAbort == {"dht", "discovered"}

VARIABLES run,       \* where run() is
          stop,      \* where stop() is
          shutting,  \* shutting_down_ of the session, its PeerManager and PieceManager
          lsd,       \* LsdDiscovery::running_
          pc,        \* where each loop is
          late       \* rounds a loop has begun since stop() told it to end (up to 2)

vars == <<run, stop, shutting, lsd, pc, late>>

Slots == Loops \cup (IF "timeouts" \in Loops THEN {"timeouts2"} ELSE {})

Init ==
    /\ run = "init"
    /\ stop = "none"
    /\ shutting = FALSE
    /\ lsd = FALSE
    /\ pc = [l \in Slots |-> "off"]
    /\ late = [l \in Slots |-> 0]

(* The flag a loop tests: LSD has its own, the flush loop FileManager's. *)
Flag(l) == CASE l \in Lsd    -> ~lsd
             [] l = "flush"  -> stop = "done"
             [] OTHER        -> shutting

---------------------------------------------------------------------------
(* run() *)

(* init() fails and run() returns. *)
init_fails ==
    /\ run = "init"
    /\ run' = "ended"
    /\ UNCHANGED <<stop, shutting, lsd, pc, late>>

(* init() is over: run() spawns the loops; LsdDiscovery::start() sets running_. *)
spawn_loops ==
    /\ run = "init"
    /\ run' = IF OtherThread THEN "starting" ELSE "waiting"
    /\ lsd' = (lsd \/ Lsd \cap Loops # {})
    /\ pc' = [l \in Slots |-> IF l \in Loops THEN "head" ELSE pc[l]]
    /\ UNCHANGED <<stop, shutting, late>>

(* run() waits on completion_timer_, which never expires. *)
wait_completion ==
    /\ run = "starting"
    /\ run' = "waiting"
    /\ UNCHANGED <<stop, shutting, lsd, pc, late>>

---------------------------------------------------------------------------
(* The loops *)

Partner(l) == CASE l = "timeouts" -> "timeouts2" [] l = "timeouts2" -> "timeouts" [] OTHER -> l

(* expires_after() on the loop's timer: a wait another loop has on the same *)
(* timer is aborted.  The loop's own wait follows at once on one thread.    *)
Armed(l) ==
    [k \in Slots |->
        CASE k = l -> IF OtherThread THEN "arm" ELSE "wait"
          [] k = Partner(l) /\ k # l /\ pc[k] = "wait" -> "aborted"
          [] OTHER -> pc[k]]

Goes(l, to) == [pc EXCEPT ![l] = to]

(* stop() has told the loop to end: FileManager hears of it last. *)
Told(l) == IF l = "flush" THEN stop = "done" ELSE shutting

Counted(l) == [late EXCEPT ![l] = IF Told(l) /\ @ < 2 THEN @ + 1 ELSE @]

IgnoresFlag(l) == Flag(l) /\ l \notin {"save", "accept"}

HeadLeaves(l) == Flag(l)

(* The while condition. *)
head(l) ==
    /\ pc[l] = "head"
    /\ \/ /\ HeadLeaves(l)
          /\ pc' = Goes(l, "ended") /\ late' = late
       \/ /\ ~HeadLeaves(l) /\ l \in WorkFirst
          /\ pc' = Goes(l, "work") /\ late' = Counted(l)
       \/ /\ ~HeadLeaves(l) /\ l \notin WorkFirst
          /\ pc' = Armed(l) /\ late' = late
    /\ UNCHANGED <<run, stop, shutting, lsd>>

RearmsAfterLookup(l) == l \in TestsBeforeWait \ {"dht"} /\ Flag(l)

BodyLeaves(l) == l \in TestsBeforeWait /\ Flag(l)

(* The body is done: back to the condition, or on to the wait. *)
body(l) ==
    /\ pc[l] = "work"
    /\ pc' = IF l \notin WorkFirst THEN Goes(l, "head")
             ELSE IF BodyLeaves(l) THEN Goes(l, "ended") ELSE Armed(l)
    /\ UNCHANGED <<run, stop, shutting, lsd, late>>

wait(l) ==
    /\ pc[l] = "arm"
    /\ pc' = Goes(l, "wait")
    /\ UNCHANGED <<run, stop, shutting, lsd, late>>

(* The timer expires, a connection or an announcement comes in, or the *)
(* operation fails because the socket is closed.                       *)
fires(l) ==
    /\ pc[l] = "wait"
    /\ pc' = Goes(l, "fired")
    /\ UNCHANGED <<run, stop, shutting, lsd, late>>

WakeLeaves(l) ==
    \/ l \in TestsAfterWait /\ Flag(l)
    \/ pc[l] = "aborted" /\ l \in EndsOnAbort
    \/ pc[l] = "aborted" /\ l \in EndsOnStopAbort /\ Flag(l)

(* A failed accept() is logged and the loop goes back to its condition. *)
AcceptFailed(l) == l = "accept" /\ (pc[l] = "aborted" \/ shutting)

(* The wait's handler runs. *)
wakes(l) ==
    /\ pc[l] \in {"fired", "aborted"}
    /\ \/ /\ WakeLeaves(l)
          /\ pc' = Goes(l, "ended") /\ late' = late
       \/ /\ ~WakeLeaves(l)
          /\ l \in WorkFirst \/ AcceptFailed(l)
          /\ pc' = Goes(l, "head") /\ late' = late
       \/ /\ ~WakeLeaves(l)
          /\ l \notin WorkFirst /\ ~AcceptFailed(l)
          /\ pc' = Goes(l, "work") /\ late' = Counted(l)
    /\ UNCHANGED <<run, stop, shutting, lsd>>

(* poke_choke_loop(): a peer came or went. *)
poke_choke_loop ==
    /\ "choke" \in Slots /\ pc["choke"] = "wait"
    /\ pc' = Goes("choke", "aborted")
    /\ UNCHANGED <<run, stop, shutting, lsd, late>>

(* The downloader dies of an exception and restarts itself; downloader() *)
(* spawns a block_timeout_loop every time it starts.                     *)
restart_downloader ==
    /\ ~shutting
    /\ \E l \in TimeoutLoops \cap Slots :
          /\ pc[l] \in {"off", "ended"} /\ pc[Partner(l)] # "off"
          /\ pc' = Goes(l, "head")
    /\ UNCHANGED <<run, stop, shutting, lsd, late>>

---------------------------------------------------------------------------
(* stop() *)

(* What cancel() does to a wait: it is aborted if it is armed. *)
Cancelled(ls) == [l \in Slots |-> IF l \in ls /\ pc[l] = "wait" THEN "aborted" ELSE pc[l]]

(* Up to the first suspension: the flag, the sockets and every timer. *)
raise_flag ==
    /\ stop = "none"
    /\ EarlyStop \/ run \in {"waiting", "ended"}
    /\ stop' = "saving"
    /\ shutting' = TRUE
    /\ lsd' = FALSE
    /\ pc' = Cancelled(Slots \ {"flush"})
    /\ run' = IF run = "waiting" THEN "ended" ELSE run
    /\ UNCHANGED late

(* The final save is over (or five seconds are): connections are closed, *)
(* FileManager::signal_shutdown() ends the flush loop.                   *)
close_all ==
    /\ stop = "saving"
    /\ stop' = "done"
    /\ pc' = Cancelled({"flush"})
    /\ UNCHANGED <<run, shutting, lsd, late>>

Quiet == run = "ended" /\ \A l \in Slots : pc[l] \in {"off", "ended"}

(* The session is over. *)
Over == stop = "done" /\ Quiet /\ UNCHANGED vars

LoopStep(l) == head(l) \/ body(l) \/ wait(l) \/ wakes(l)

Next ==
    \/ init_fails \/ spawn_loops \/ wait_completion
    \/ \E l \in Slots : LoopStep(l) \/ fires(l)
    \/ poke_choke_loop \/ restart_downloader
    \/ raise_flag \/ close_all
    \/ Over

Spec == Init /\ [][Next]_vars

(* Handlers run, timers expire and, once stop() has closed the sockets,     *)
(* operations on them fail.  Nothing makes a connection or an announcement  *)
(* come in, and nothing makes the user stop the torrent.                    *)
FairSpec ==
    /\ Spec
    /\ WF_vars(spawn_loops) /\ WF_vars(wait_completion) /\ WF_vars(close_all)
    /\ \A l \in Slots : WF_vars(LoopStep(l))
    /\ \A l \in Slots : WF_vars((l \in Sockets => shutting) /\ fires(l))

---------------------------------------------------------------------------
(* On one thread no loop that tests the flag between its body and its wait  *)
(* waits on its timer once stop() has cancelled the timers: the comment in  *)
(* dht_announce_loop explains that a loop that re-armed it would pin the    *)
(* io_context and stall a graceful drain.  The announcements of local       *)
(* discovery and the sweep of timeouts have no such test, and are not meant.*)
DrainNotStalled ==
    shutting => \A l \in Slots \ {"flush"} : pc[l] # "wait"
=============================================================================
