------------------------------ MODULE MCProcess ------------------------------
(***************************************************************************)
(* A session and the process around it, for TLC: the rate limiter, the     *)
(* disk cache, the map of files to pieces, the resume file, the window of  *)
(* pieces being downloaded, the session's loops and its stop, completion,  *)
(* the list of torrents and the codec of the files.  The modules of these  *)
(* components share no state, so an interleaving of two of them shows      *)
(* nothing that each does not show by itself: in every behaviour one of    *)
(* them runs, in one configuration (`part'), and the others have no state  *)
(* (`Off').                                                                *)
(***************************************************************************)
EXTENDS RateLimiter

(* The first asks for more than some of the rates give in a second. *)
Asked(S) == [w \in S |-> 4 - w]
Amounts == Asked(Waiters)

DonePieces == {"p1", "p2", "p3"}

(* p1 is with both peers, p2 with b only. *)
Partial == [a |-> {"p1"}, b |-> {"p1", "p2"}]

(* The component whose behaviour is looked at; the state of the others is Off. *)
VARIABLE part

Off == "off"
Is(c) == part = c

VARIABLES disk_disk, cache, lru, dirty, size, verifying, disk_have, offset, reading, reads,
          flushing, fails, lost, disk_stop
Cache == INSTANCE DiskCache WITH NumPieces <- 1, BlocksPerPiece <- 2, DISK_CACHE_SIZE <- 0,
          Readers <- {"r1"}, ReadLengths <- {1, 2}, MaxReads <- 1, MaxFails <- 1,
          Flushing <- TRUE, Stops <- TRUE, disk <- disk_disk, have <- disk_have, stop <- disk_stop
Flush == INSTANCE DiskCache WITH NumPieces <- 2, BlocksPerPiece <- 2, DISK_CACHE_SIZE <- 2,
          Readers <- {"r1"}, ReadLengths <- {1, 2}, MaxReads <- 1, MaxFails <- 1,
          Flushing <- TRUE, Stops <- FALSE, disk <- disk_disk, have <- disk_have, stop <- disk_stop
cacheVars == <<disk_disk, cache, lru, dirty, size, verifying, disk_have, offset, reading,
               reads, flushing, fails, lost, disk_stop>>
NoCache == disk_disk = Off /\ cache = Off /\ lru = Off /\ dirty = Off /\ size = Off /\
          verifying = Off /\ disk_have = Off /\ offset = Off /\ reading = Off /\ reads = Off
          /\ flushing = Off /\ fails = Off /\ lost = Off /\ disk_stop = Off

VARIABLES proc, res_disk, cached, res_have, res_completed, prog, hollow, endgame, res_file,
          temp, save, timed, cancelled, kept, res_runs, saves, crashes
Restart == INSTANCE ResumeFile WITH Pieces <- {"p1", "p2"}, MaxRuns <- 2, MaxSaves <- 1,
          MaxCrashes <- 1, Stops <- TRUE, disk <- res_disk, have <- res_have,
          completed <- res_completed, file <- res_file, runs <- res_runs
restartVars == <<proc, res_disk, cached, res_have, res_completed, prog, hollow, endgame,
                 res_file, temp, save, timed, cancelled, kept, res_runs, saves, crashes>>
NoRestart == proc = Off /\ res_disk = Off /\ cached = Off /\ res_have = Off /\
          res_completed = Off /\ prog = Off /\ hollow = Off /\ endgame = Off /\
          res_file = Off /\ temp = Off /\ save = Off /\ timed = Off /\ cancelled = Off /\
          kept = Off /\ res_runs = Off /\ saves = Off /\ crashes = Off

VARIABLES phase, sizes, piece_size, selected, download, map_status, map_disk, written
Files == INSTANCE FileMap WITH MaxFiles <- 3, FileSizes <- {0, 1, 3}, PieceSizes <- {3},
          BLOCK_SIZE <- 2, UintSize <- 256, auto_approve_all <- FALSE, status <- map_status,
          disk <- map_disk
filesVars == <<phase, sizes, piece_size, selected, download, map_status, map_disk, written>>
NoFiles == phase = Off /\ sizes = Off /\ piece_size = Off /\ selected = Off /\
          download = Off /\ map_status = Off /\ map_disk = Off /\ written = Off

VARIABLES life_run, life_stop, shutting, lsd, life_pc, late
Timers == INSTANCE SessionLifecycle WITH Loops <- {"dht", "choke", "pex", "metadata",
          "discovered"}, EarlyStop <- FALSE, OtherThread <- FALSE, run <- life_run,
          stop <- life_stop, pc <- life_pc
Drain == INSTANCE SessionLifecycle WITH Loops <- {"accept", "lsdAnnounce", "dht",
          "timeouts"}, EarlyStop <- FALSE, OtherThread <- TRUE, run <- life_run,
          stop <- life_stop, pc <- life_pc
Halt == INSTANCE SessionLifecycle WITH Loops <- {"save", "flush", "lsdListen", "choke"},
          EarlyStop <- FALSE, OtherThread <- TRUE, run <- life_run, stop <- life_stop,
          pc <- life_pc
timersVars == <<life_run, life_stop, shutting, lsd, life_pc, late>>
NoTimers == life_run = Off /\ life_stop = Off /\ shutting = Off /\ lsd = Off /\
          life_pc = Off /\ late = Off

VARIABLES mode, resume, done_disk, skipped, done_have, done_completed, done_complete,
          done_pc, done_run, done_stop
Notice == INSTANCE Completion WITH Pieces <- DonePieces, Modes <- {"Seed", "Leech",
          "Hybrid"}, Skippable <- {"p3"}, disk <- done_disk, have <- done_have,
          completed <- done_completed, complete <- done_complete, pc <- done_pc,
          run <- done_run, stop <- done_stop
doneVars == <<mode, resume, done_disk, skipped, done_have, done_completed, done_complete,
              done_pc, done_run, done_stop>>
NoDone == mode = Off /\ resume = Off /\ done_disk = Off /\ skipped = Off /\ done_have = Off
          /\ done_completed = Off /\ done_complete = Off /\ done_pc = Off /\ done_run = Off
          /\ done_stop = Off

VARIABLES win_status, primary, unchoked, fresh, proven, fills, loop, win_complete, stopped,
          budget
Transfer == INSTANCE DownloadWindow WITH Pieces <- {"p1", "p2"}, Peers <- {"a", "b"},
          Has <- Partial, Restored <- {"p1"}, NoPeer <- "none", Absent <- "absent",
          PiecesPerPeer <- 1, MinWindow <- 1, MaxInFlightPieces <- 2,
          MaxPiecesPerPrimary <- 2, MaxSpawnsPerWake <- 1, MaxFills <- 2, MaxChokes <- 1,
          MaxDemotions <- 1, MaxThrows <- 1, MayStop <- TRUE, status <- win_status,
          complete <- win_complete
transferVars == <<win_status, primary, unchoked, fresh, proven, fills, loop, win_complete,
                  stopped, budget>>
NoTransfer == win_status = Off /\ primary = Off /\ unchoked = Off /\ fresh = Off /\
          proven = Off /\ fills = Off /\ loop = Off /\ win_complete = Off /\ stopped = Off
          /\ budget = Off

VARIABLES app, torrents, order, meta, sess, cmd, posted, app_calls, remaining, dht,
          app_armed, tracker, clock, app_file, sources, app_runs, wished, halted, removed
Exit == INSTANCE ClientApp WITH Torrents <- {"f1", "m1"}, Magnets <- {"m1"},
          MaxSessions <- 2, MaxRuns <- 2, SaveTime <- 1, Signals <- TRUE, Hasty <- FALSE,
          Late <- TRUE, Vanish <- TRUE, Fetches <- FALSE, Kills <- FALSE, Positional <- FALSE,
          calls <- app_calls, armed <- app_armed, file <- app_file, runs <- app_runs
Kill == INSTANCE ClientApp WITH Torrents <- {"f1"}, Magnets <- {}, MaxSessions <- 2,
          MaxRuns <- 2, SaveTime <- 1, Signals <- TRUE, Hasty <- TRUE, Late <- TRUE,
          Vanish <- TRUE, Fetches <- TRUE, Kills <- TRUE, Positional <- TRUE, calls <- app_calls,
          armed <- app_armed, file <- app_file, runs <- app_runs
exitVars == <<app, torrents, order, meta, sess, cmd, posted, app_calls, remaining, dht,
              app_armed, tracker, clock, app_file, sources, app_runs, wished, halted,
              removed>>
NoExit == app = Off /\ torrents = Off /\ order = Off /\ meta = Off /\ sess = Off /\
          cmd = Off /\ posted = Off /\ app_calls = Off /\ remaining = Off /\ dht = Off /\
          app_armed = Off /\ tracker = Off /\ clock = Off /\ app_file = Off /\ sources = Off
          /\ app_runs = Off /\ wished = Off /\ halted = Off /\ removed = Off

VARIABLES value, way, bytes, got
Codec == INSTANCE BencodeCodec WITH MaxItems <- 1
codecVars == <<value, way, bytes, got>>
NoCodec == value = Off /\ way = Off /\ bytes = Off /\ got = Off

(* The constants of the instances are as their modules assume. *)
ASSUME InstancesAssumption == Cache!CacheAssumption /\ Flush!CacheAssumption /\
          Timers!SwitchAssumption /\ Drain!SwitchAssumption /\ Halt!SwitchAssumption /\
          Notice!CompletionAssumption /\
          Exit!ClientAppAssumption /\ Kill!ClientAppAssumption /\ Codec!BencodeAssumption

Components == {"limiter", "cache", "flush", "restart", "files", "timers", "drain", "halt",
               "notice", "transfer", "exit", "kill", "codec"}

MCInit ==
  /\ part \in Components
  /\ Init
  /\ CASE Is("cache") -> Cache!Init [] Is("flush") -> Flush!Init [] OTHER -> NoCache
  /\ IF Is("restart") THEN Restart!Init ELSE NoRestart
  /\ IF Is("files") THEN Files!Init ELSE NoFiles
  /\ CASE Is("timers") -> Timers!Init [] Is("drain") -> Drain!Init [] Is("halt") ->
          Halt!Init [] OTHER -> NoTimers
  /\ IF Is("notice") THEN Notice!Init ELSE NoDone
  /\ IF Is("transfer") THEN Transfer!Init ELSE NoTransfer
  /\ CASE Is("exit") -> Exit!Init [] Is("kill") -> Kill!Init [] OTHER -> NoExit
  /\ IF Is("codec") THEN Codec!Init ELSE NoCodec

(* The components but c are left alone. *)
Rest(c) ==
  /\ UNCHANGED part
  /\ IF c = "limiter" THEN TRUE ELSE UNCHANGED vars
  /\ IF c \in {"cache", "flush"} THEN TRUE ELSE UNCHANGED cacheVars
  /\ IF c = "restart" THEN TRUE ELSE UNCHANGED restartVars
  /\ IF c = "files" THEN TRUE ELSE UNCHANGED filesVars
  /\ IF c \in {"timers", "drain", "halt"} THEN TRUE ELSE UNCHANGED timersVars
  /\ IF c = "notice" THEN TRUE ELSE UNCHANGED doneVars
  /\ IF c = "transfer" THEN TRUE ELSE UNCHANGED transferVars
  /\ IF c \in {"exit", "kill"} THEN TRUE ELSE UNCHANGED exitVars
  /\ IF c = "codec" THEN TRUE ELSE UNCHANGED codecVars

MCNext ==
  \/ Is("limiter") /\ Next /\ Rest("limiter")
  \/ Is("cache") /\ Cache!Next /\ Rest("cache")
  \/ Is("flush") /\ Flush!Next /\ Rest("flush")
  \/ Is("restart") /\ Restart!Next /\ Rest("restart")
  \/ Is("files") /\ Files!Next /\ Rest("files")
  \/ Is("timers") /\ Timers!Next /\ Rest("timers")
  \/ Is("drain") /\ Drain!Next /\ Rest("drain")
  \/ Is("halt") /\ Halt!Next /\ Rest("halt")
  \/ Is("notice") /\ Notice!Next /\ Rest("notice")
  \/ Is("transfer") /\ Transfer!Next /\ Rest("transfer")
  \/ Is("exit") /\ Exit!Next /\ Rest("exit")
  \/ Is("kill") /\ Kill!Next /\ Rest("kill")
  \/ Is("codec") /\ Codec!Next /\ Rest("codec")

MCvars == <<part, vars, cacheVars, restartVars, filesVars, timersVars, doneVars,
          transferVars, exitVars, codecVars>>

(* The fairness of RateLimiter, DiskCache, SessionLifecycle, Completion and
   DownloadWindow: what is queued on the io_context or the file pool runs and timers
   expire; nobody has to send, ask or stop anything. *)
MCFairness ==
  /\ WF_vars(Is("limiter") /\ Refill) /\ WF_vars(Is("limiter") /\ Rearm)
  /\ WF_vars(Is("limiter") /\ OnAborted) /\ WF_vars(Is("limiter") /\ CancelTimer)
  /\ WF_cacheVars(Is("flush") /\ Flush!periodic_flush)
  /\ \A p \in Flush!Pieces : WF_cacheVars(Is("flush") /\ offset[p] > 0 /\ Flush!write_piece(p))
  /\ \A f \in {Flush!Periodic, Flush!Completion} : WF_cacheVars(Is("flush") /\ Flush!Flush(f))
  /\ WF_timersVars(Is("drain") /\ Drain!spawn_loops) /\ WF_timersVars(Is("drain") /\ Drain!wait_completion)
  /\ WF_timersVars(Is("drain") /\ Drain!close_all)
  /\ \A l \in Drain!Slots :
       /\ WF_timersVars(Is("drain") /\ Drain!LoopStep(l))
       /\ WF_timersVars(Is("drain") /\ (l \in Drain!Sockets => shutting) /\ Drain!fires(l))
  /\ WF_timersVars(Is("halt") /\ Halt!spawn_loops) /\ WF_timersVars(Is("halt") /\ Halt!wait_completion)
  /\ WF_timersVars(Is("halt") /\ Halt!close_all)
  /\ \A l \in Halt!Slots :
       /\ WF_timersVars(Is("halt") /\ Halt!LoopStep(l))
       /\ WF_timersVars(Is("halt") /\ (l \in Halt!Sockets => shutting) /\ Halt!fires(l))
  /\ \A p \in DonePieces : WF_doneVars(Is("notice") /\ Notice!Handler(p))
  /\ WF_transferVars(Is("transfer") /\ Transfer!Downloader)
  /\ \A x \in {"a", "b", "none"} : WF_transferVars(Is("transfer") /\ Transfer!runs_fill(x))
  /\ \A p \in {"p1", "p2"} :
       WF_transferVars(Is("transfer") /\ Transfer!remove_in_progress_piece(p))

MCSpec == MCInit /\ [][MCNext]_MCvars /\ MCFairness

-----------------------------------------------------------------------------
(* DiskCache: until stop(), a block that write_piece has taken is on disk, dirty in the
   cache, or in the hands of a flush. *)
WrittenSurvives ==
  /\ Is("cache") => Cache!WrittenSurvives
  /\ Is("flush") => Flush!WrittenSurvives

(* ResumeFile: over kills and restarts, a piece is Have only when its data is on disk or
   was verified by this process and is in its cache. *)
HaveIsReal == Is("restart") => Restart!HaveIsReal

(* ResumeFile: what the data files held when the process ended is Have in the next run,
   though the bitfield was saved before the flush. *)
ProgressKept == Is("restart") => Restart!ProgressKept

(* FileMap: read_block gives back what write_piece was given, over the borders of files
   and at the short last piece, and throws only where a file is left out. *)
ReadsWhatWasWritten == Is("files") => Files!ReadsWhatWasWritten

(* FileMap: once no piece is Needed, every byte of the files chosen is on disk, those of
   pieces shared with a file left out too. *)
SelectedComplete == Is("files") => Files!SelectedComplete

(* SessionLifecycle: on one thread no loop that tests the flag before its wait waits on its
   timer once stop() has cancelled the timers, so that none of these stalls the drain. *)
DrainNotStalled == Is("timers") => Timers!DrainNotStalled

(* Completion: the download is taken for complete only when every piece is Have, whatever
   the order in which the handlers of the last pieces mark, count and test. *)
CompleteIsReal == Is("notice") => Notice!CompleteIsReal

(* ClientApp: the state file left by an orderly exit holds the user's torrents, and the
   stopped flag of those the user stopped and of no other. *)
StateKept == [][Is("exit") => Exit!StateKept]_exitVars

(* ClientApp: a torrent whose removal has been carried out is not restored, even if the
   client is killed right after the command. *)
RemovalPersists == Is("kill") => Kill!RemovalPersists

(* BencodeCodec: the decoder gives back what was encoded, splits a header from the raw data
   after it, and refuses a file of which only a beginning was written. *)
DecodesExactly == Is("codec") => Codec!DecodesExactly

(* The first in the limiter's queue asks for more than the bucket holds, or a refill adds
   nothing; every block that write_piece has taken is on disk or was given up; no
   coroutine is left of a session that was stopped; a session that has every piece has
   noticed; the window of pieces in progress is in use. *)
Settled ==
  /\ Is("limiter") => queue = <<>> \/ Amount[queue[1]] > capacity \/ RefillAmount = 0
  /\ Is("flush") => \A k \in Flush!Keys : Flush!Written(k) =>
          disk_disk[k] = "new" \/ k \in lost
  /\ Is("drain") => (life_stop # "none" => Drain!Quiet)
  /\ Is("halt") => (life_stop # "none" => Halt!Quiet)
  /\ Is("notice") => (done_have = DonePieces => done_complete)
  /\ Is("transfer") => Transfer!WindowInUse

(* What has been started is brought to its end, again and again: whoever waits for tokens
   that the rate can give is let go; a block that write_piece has taken reaches the disk;
   every coroutine of a session that is stopped ends, also when a cancel is lost to a race;
   when the last pieces are marked Have some handler notices; and a free slot of the window
   is filled although notifies are lost and the loop throws. *)
WorkGetsDone == []<>Settled
=============================================================================
