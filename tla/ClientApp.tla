---------------------------- MODULE ClientApp ----------------------------
(* ClientApp: the registry of torrents, the commands of the input thread,   *)
(* the client state file and the shutdown of the whole process.             *)
(*                                                                          *)
(* torrents_, order_ and torrent_meta_ share one mutex, but add_torrent and *)
(* resume_torrent release it between steps; what happens in between is the  *)
(* shutdown (a signal, on an io thread), the deferred stops of load_state   *)
(* and the thread that fetches a tracker list.  The life of a session is    *)
(* reduced to what stop() does to it; SessionLifecycle has the rest.        *)
EXTENDS Naturals, Sequences, FiniteSets, SequencesExt

CONSTANTS Torrents,     \* info hashes
          Magnets,      \* those that are added by magnet link
          MaxSessions,  \* bound: sessions made in one run of the process
          MaxRuns,      \* bound: runs of the process
          SaveTime,     \* seconds stop() may take (its own limit is 5)
          Signals,      \* SIGINT or SIGTERM may arrive at any time
          Hasty,        \* commands may be typed before the deferred stops have run
          Late,         \* commands may be typed once the client is stopping
          Vanish,       \* .torrent files may be deleted
          Fetches,      \* a tracker list may be fetched
          Kills,        \* the process may be killed
          Positional    \* a torrent may be named on the command line

ClientAppAssumption == Magnets \subseteq Torrents /\ SaveTime \in 1..5

ForceAfter == 2   \* seconds before force_stop_thread_ stops the io_context

VARIABLES app,       \* "off", "up", "stopping" or "exiting"
          torrents,  \* torrents_: the session of each listed torrent
          order,     \* order_
          meta,      \* torrent_meta_: the stopped flag
          sess,      \* sessions of this run: how far they are, their tracker
          cmd,       \* what the input thread is doing
          posted,    \* deferred stops queued by load_state
          calls,     \* coroutines running TorrentSession::stop
          remaining, \* stop_all's count of sessions still to stop
          dht,       \* the shared DHT node is running
          armed,     \* signals_ keeps the io_context busy
          tracker,   \* global_trackers_ holds the fetched tracker
          clock,     \* seconds since stop_all
          file,      \* client_state.bencode: the torrents and the global tracker
          sources,   \* torrents whose .torrent file exists
          runs,
          wished,    \* what the user wants listed, by completed commands
          halted,    \* what the user wants stopped
          removed    \* what the user has removed and not added again

reg  == <<torrents, order, meta>>
stops == <<calls, remaining, dht, armed>>
user == <<wished, halted, removed>>
vars == <<app, reg, sess, cmd, posted, stops, tracker, clock, file, sources, runs, user>>

Idle == [op |-> "idle"]
Empty == [t \in {} |-> FALSE]

Without(f, t) == [u \in DOMAIN f \ {t} |-> f[u]]
With(f, t, x) == [u \in DOMAIN f \cup {t} |-> IF u = t THEN x ELSE f[u]]

(* Nothing is running. *)
Reset ==
    /\ torrents' = Empty /\ order' = <<>> /\ meta' = Empty
    /\ sess' = <<>> /\ cmd' = Idle /\ posted' = {} /\ calls' = {}
    /\ remaining' = 0 /\ dht' = FALSE /\ armed' = FALSE /\ tracker' = FALSE /\ clock' = 0

Init ==
    /\ app = "off"
    /\ torrents = Empty /\ order = <<>> /\ meta = Empty
    /\ sess = <<>> /\ cmd = Idle /\ posted = {} /\ calls = {}
    /\ remaining = 0 /\ dht = FALSE /\ armed = FALSE /\ tracker = FALSE /\ clock = 0
    /\ file = [torrents |-> <<>>, trk |-> FALSE]
    /\ sources = Torrents
    /\ runs = 0
    /\ wished = {} /\ halted = {} /\ removed = {}

---------------------------------------------------------------------------
(* Starting the client: main() and load_state *)

Restorable(e) == e.t \in Magnets \/ e.t \in sources

(* Every entry that can be added is, in the order of the file; those that   *)
(* were stopped are stopped by a handler that runs once the io_context does. *)
load_state(state) ==
    LET ok == SelectSeq(state.torrents, Restorable)
        ts == [i \in 1..Len(ok) |-> ok[i].t]
    IN  /\ order' = ts
        /\ torrents' = [t \in ToSet(ts) |-> CHOOSE i \in 1..Len(ts) : ts[i] = t]
        /\ meta' = [t \in ToSet(ts) |-> FALSE]
        /\ sess' = [i \in 1..Len(ok) |-> [st |-> "running", trk |-> state.trk]]
        /\ posted' = {ok[i].t : i \in {j \in 1..Len(ok) : ok[j].stopped}}
        /\ dht' = (Len(ok) > 0)
        /\ tracker' = state.trk

start ==
    /\ app = "off" /\ runs < MaxRuns
    /\ app' = "up" /\ runs' = runs + 1 /\ armed' = TRUE
    /\ \/ load_state(file) /\ UNCHANGED user
       \/ \E t \in sources \ Magnets :
             /\ Positional
             /\ load_state([torrents |-> <<[t |-> t, stopped |-> FALSE]>>, trk |-> FALSE])
             /\ wished' = wished \cup {t}
             /\ halted' = halted \ {t} /\ removed' = removed \ {t}
    /\ cmd' = Idle /\ calls' = {} /\ remaining' = 0 /\ clock' = 0
    /\ UNCHANGED <<file, sources>>

---------------------------------------------------------------------------
(* Sessions being stopped *)

(* is_stopped(): stop() has begun. *)
Flagged(s) == sess[s].st \in {"stopping", "stopped"}

Stop(s, by) == [s |-> s, by |-> by, pc |-> "spawned"]

(* A stop() is over: the last one stop_all waits for stops the DHT node and *)
(* cancels the signal wait.                                                 *)
StopOver(c) ==
    /\ calls' = calls \ {c}
    /\ remaining' = IF c.by = "all" THEN remaining - 1 ELSE remaining
    /\ dht' = (dht /\ ~(c.by = "all" /\ remaining = 1))
    /\ armed' = (armed /\ ~(c.by = "all" /\ remaining = 1))

(* shutting_down_.exchange(true): a second stop() returns at once. *)
begin_stop(c) ==
    /\ app \in {"up", "stopping"} /\ c.pc = "spawned"
    /\ \/ /\ Flagged(c.s)
          /\ StopOver(c) /\ UNCHANGED sess
       \/ /\ ~Flagged(c.s)
          /\ sess' = [sess EXCEPT ![c.s].st = "stopping"]
          /\ calls' = (calls \ {c}) \cup {[c EXCEPT !.pc = "saving"]}
          /\ UNCHANGED <<remaining, dht, armed>>
    /\ UNCHANGED <<app, reg, cmd, posted, tracker, clock, file, sources, runs, user>>

end_stop(c) ==
    /\ app \in {"up", "stopping"} /\ c.pc = "saving"
    /\ sess' = [sess EXCEPT ![c.s].st = "stopped"]
    /\ StopOver(c)
    /\ UNCHANGED <<app, reg, cmd, posted, tracker, clock, file, sources, runs, user>>

---------------------------------------------------------------------------
(* Commands *)

Typing ==
    /\ cmd = Idle
    /\ posted = {} \/ Hasty
    /\ app = "up" \/ (Late /\ app \in {"stopping", "exiting"})

(* The session is constructed and given the global trackers. *)
add_torrent(t) ==
    /\ Typing /\ Len(sess) < MaxSessions
    /\ t \in Magnets \/ t \in sources
    /\ cmd' = [op |-> "made", t |-> t, trk |-> tracker]
    /\ UNCHANGED <<app, reg, sess, posted, stops, tracker, clock, file, sources, runs, user>>

Entered(t, s) == IF t \in DOMAIN torrents THEN order ELSE Append(order, t)

(* emplace: a file torrent replaces and stops the session it finds, a magnet *)
(* leaves it.  A file torrent's session is spawned here, before its entry in *)
(* torrent_meta_ is made, a magnet's after it.                               *)
emplace ==
    /\ cmd.op = "made"
    /\ LET t == cmd.t  s == Len(sess) + 1 IN
       IF t \in Magnets /\ t \in DOMAIN torrents
       THEN cmd' = Idle /\ UNCHANGED <<reg, sess, calls, dht>>
       ELSE /\ torrents' = With(torrents, t, s)
            /\ order' = Entered(t, s)
            /\ calls' = calls \cup (IF t \in DOMAIN torrents THEN {Stop(torrents[t], "user")} ELSE {})
            /\ sess' = Append(sess, [st |-> IF t \in Magnets THEN "new" ELSE "running", trk |-> cmd.trk])
            /\ dht' = (dht \/ t \notin Magnets)
            /\ cmd' = [op |-> "placed", t |-> t, s |-> s]
            /\ meta' = meta
    /\ UNCHANGED <<app, posted, remaining, armed, tracker, clock, file, sources, runs, user>>

(* The entry of torrent_meta_.  A session that stop() has seen before run() *)
(* was spawned never ends.                                                  *)
enter_meta ==
    /\ cmd.op = "placed"
    /\ LET t == cmd.t IN
       /\ meta' = With(meta, t, FALSE)
       /\ sess' = IF t \in Magnets
                  THEN [sess EXCEPT ![cmd.s].st = IF @ = "new" THEN "running" ELSE "stuck"]
                  ELSE sess
       /\ dht' = (dht \/ t \in Magnets)
       /\ wished' = wished \cup {t} /\ halted' = halted \ {t} /\ removed' = removed \ {t}
    /\ cmd' = Idle
    /\ UNCHANGED <<app, torrents, order, posted, calls, remaining, armed, tracker, clock,
                   file, sources, runs>>

stop_torrent(i) ==
    /\ Typing
    /\ LET t == order[i] IN
       /\ meta' = With(meta, t, TRUE)
       /\ calls' = calls \cup {Stop(torrents[t], "user")}
       /\ halted' = halted \cup {t}
    /\ UNCHANGED <<app, torrents, order, sess, cmd, posted, remaining, dht, armed, tracker,
                   clock, file, sources, runs, wished, removed>>

(* resume_torrent: the old session is found to be stopped ... *)
resume_torrent(i) ==
    /\ Typing /\ Len(sess) < MaxSessions
    /\ Flagged(torrents[order[i]])
    /\ cmd' = [op |-> "erase", t |-> order[i]]
    /\ UNCHANGED <<app, reg, sess, posted, stops, tracker, clock, file, sources, runs, user>>

(* ... and erased ... *)
erase_old ==
    /\ cmd.op = "erase"
    /\ torrents' = Without(torrents, cmd.t)
    /\ order' = SelectSeq(order, LAMBDA u : u # cmd.t)
    /\ cmd' = [cmd EXCEPT !.op = "again"]
    /\ UNCHANGED <<app, meta, sess, posted, stops, tracker, clock, file, sources, runs, user>>

(* ... before the new one is constructed, which throws without its file. *)
add_again ==
    /\ cmd.op = "again"
    /\ \/ /\ cmd.t \in Magnets \/ cmd.t \in sources
          /\ cmd' = [op |-> "made", t |-> cmd.t, trk |-> tracker]
          /\ meta' = meta
       \/ /\ cmd.t \notin Magnets /\ cmd.t \notin sources
          /\ cmd' = Idle
          /\ meta' = [meta EXCEPT ![cmd.t] = TRUE]
    /\ UNCHANGED <<app, torrents, order, sess, posted, stops, tracker, clock, file, sources,
                   runs, user>>

remove_torrent(i) ==
    /\ Typing
    /\ LET t == order[i] IN
       /\ torrents' = Without(torrents, t)
       /\ order' = SelectSeq(order, LAMBDA u : u # t)
       /\ meta' = Without(meta, t)
       /\ calls' = calls \cup {Stop(torrents[t], "user")}
       /\ cmd' = [op |-> "save", t |-> t]
    /\ UNCHANGED <<app, sess, posted, remaining, dht, armed, tracker, clock, file, sources,
                   runs, user>>

(* save_state lists order_, with the flags of torrent_meta_. *)
Entries ==
    LET listed == SelectSeq(order, LAMBDA t : t \in DOMAIN meta)
    IN  [i \in 1..Len(listed) |-> [t |-> listed[i], stopped |-> meta[listed[i]]]]

SavedState == [torrents |-> Entries, trk |-> tracker]

NotSaved == file

SavedRemoval == SavedState

(* The removal is saved by the command. *)
save_removal ==
    /\ cmd.op = "save"
    /\ file' = SavedRemoval
    /\ wished' = wished \ {cmd.t} /\ halted' = halted \ {cmd.t} /\ removed' = removed \cup {cmd.t}
    /\ cmd' = Idle
    /\ UNCHANGED <<app, reg, sess, posted, stops, tracker, clock, sources, runs>>

---------------------------------------------------------------------------
(* Other threads *)

(* add_trackers_to_all, on the thread of the f command: a session that is *)
(* shutting down ignores it.                                              *)
add_trackers_to_all ==
    /\ Fetches /\ app = "up" /\ ~tracker
    /\ tracker' = TRUE
    /\ sess' = [s \in 1..Len(sess) |->
                  IF (\E t \in DOMAIN torrents : torrents[t] = s) /\ ~Flagged(s)
                  THEN [sess[s] EXCEPT !.trk = TRUE] ELSE sess[s]]
    /\ UNCHANGED <<app, reg, cmd, posted, stops, clock, file, sources, runs, user>>

ForgetsFlag(t) == meta

Marked(t) == IF t \in DOMAIN meta THEN [meta EXCEPT ![t] = TRUE] ELSE meta

(* The handler load_state posts for a torrent that was stopped. *)
deferred_stop(t) ==
    /\ app \in {"up", "stopping"} /\ t \in posted
    /\ posted' = posted \ {t}
    /\ IF t \in DOMAIN torrents
       THEN calls' = calls \cup {Stop(torrents[t], "user")} /\ meta' = Marked(t)
       ELSE UNCHANGED <<calls, meta>>
    /\ UNCHANGED <<app, torrents, order, sess, cmd, remaining, dht, armed, tracker, clock,
                   file, sources, runs, user>>

DhtAfter(snapshot) == dht /\ snapshot # {}

(* stop_all: the q command, or a signal. *)
stop_all ==
    /\ app = "up" /\ (cmd = Idle \/ Signals)
    /\ app' = "stopping"
    /\ LET snapshot == {torrents[t] : t \in DOMAIN torrents} IN
       /\ calls' = calls \cup {Stop(s, "all") : s \in snapshot}
       /\ remaining' = Cardinality(snapshot)
       /\ dht' = DhtAfter(snapshot)
       /\ armed' = (snapshot # {})
    /\ UNCHANGED <<reg, sess, cmd, posted, tracker, clock, file, sources, runs, user>>

(* A second of the shutdown passes; handlers that are ready run well within *)
(* one, a stop() that saves takes less than SaveTime.                       *)
tick ==
    /\ app = "stopping" /\ clock < ForceAfter
    /\ posted = {} /\ \A c \in calls : c.pc = "saving" /\ clock + 1 < SaveTime
    /\ clock' = clock + 1
    /\ UNCHANGED <<app, reg, sess, cmd, posted, stops, tracker, file, sources, runs, user>>

---------------------------------------------------------------------------
(* The end of the process *)

Unfinished == {s \in 1..Len(sess) : sess[s].st \in {"running", "stopping", "stuck"}}

(* The io_context has nothing left to do. *)
Drained == Unfinished = {} /\ calls = {} /\ posted = {} /\ ~dht /\ ~armed

(* run() returns, drained or forced. *)
finish ==
    /\ app = "stopping"
    /\ Drained \/ clock = ForceAfter
    /\ app' = "exiting"
    /\ UNCHANGED <<reg, sess, cmd, posted, stops, tracker, clock, file, sources, runs, user>>

(* The torrent of a command that an exit cuts short. *)
Cut == IF cmd = Idle THEN {} ELSE {cmd.t}

(* main() saves the state and leaves with _Exit.  What came of a command    *)
(* that is cut short the user sees in the next run, and so wishes no more.  *)
exit ==
    /\ app = "exiting"
    /\ app' = "off"
    /\ file' = SavedState
    /\ LET listed == {t \in Cut : \E e \in ToSet(file'.torrents) : e.t = t}
           flagged == {t \in Cut : [t |-> t, stopped |-> TRUE] \in ToSet(file'.torrents)}
       IN  /\ wished' = (wished \ Cut) \cup listed
           /\ halted' = (halted \ Cut) \cup flagged
    /\ Reset
    /\ UNCHANGED <<sources, runs, removed>>

kill ==
    /\ Kills /\ app # "off"
    /\ app' = "off"
    /\ Reset
    /\ UNCHANGED <<file, sources, runs, user>>

(* The user deletes a .torrent file. *)
vanish ==
    /\ Vanish
    /\ \E t \in sources \ Magnets : sources' = sources \ {t}
    /\ UNCHANGED <<app, reg, sess, cmd, posted, stops, tracker, clock, file, runs, user>>

Next ==
    \/ start
    \/ \E t \in Torrents : add_torrent(t)
    \/ emplace \/ enter_meta
    \/ \E i \in 1..Len(order) : stop_torrent(i) \/ resume_torrent(i) \/ remove_torrent(i)
    \/ erase_old \/ add_again \/ save_removal
    \/ add_trackers_to_all
    \/ \E t \in Torrents : deferred_stop(t)
    \/ \E c \in calls : begin_stop(c) \/ end_stop(c)
    \/ stop_all \/ tick \/ finish \/ exit \/ kill \/ vanish

Spec == Init /\ [][Next]_vars

---------------------------------------------------------------------------
(* Between commands the client lists what the user has added and not        *)
(* removed, also after a resume and after a restart.                        *)
Listed == app = "up" /\ cmd = Idle => DOMAIN torrents = wished

InFile == {e.t : e \in ToSet(file.torrents)}
StoppedInFile == {e.t : e \in {x \in ToSet(file.torrents) : x.stopped}}

(* What the state file need not tell at an exit: the torrent of a command   *)
(* that the exit cuts short, and those whose .torrent file is gone.         *)
Unsettled == Cut \cup (Torrents \ (Magnets \cup sources))

(* The state file left by an orderly exit holds the user's torrents, and    *)
(* the stopped flag of those the user stopped and of no other: stopping the *)
(* client stops the sessions without marking them.                          *)
StateKept ==
    app = "exiting" /\ app' = "off" =>
      /\ InFile' \ Unsettled = wished \ Unsettled
      /\ StoppedInFile' \ Unsettled = halted \ Unsettled

(* A torrent whose removal has been carried out is not restored, even if    *)
(* the client is killed right after the command.                            *)
RemovalPersists == InFile \cap removed = {}
=============================================================================
