------------------------------ MODULE ResumeFile ------------------------------
(***************************************************************************)
(* What a session keeps on disk across crashes and restarts: the data      *)
(* files, and the resume file that periodically_save and stop() write      *)
(* (save_session_state, save_resume_data) and init() reads back            *)
(* (load_resume_data, load_session_state, verify_pieces).                  *)
(*                                                                         *)
(* A resume file is its two lists, the pieces that are Have and those in   *)
(* progress, and a length that grows with the second.  The temporary file  *)
(* is written from its start and not truncated, so that a shorter save     *)
(* over a longer one leaves the end of the longer one: the content is      *)
(* mixed, and decode throws on the trailing data.                          *)
(***************************************************************************)
EXTENDS Integers, FiniteSets

CONSTANTS
    Pieces,
    MaxRuns,        \* bound: starts of the process
    MaxSaves,       \* bound: periodic saves
    MaxCrashes,     \* bound: kills of the process
    Stops           \* TRUE: the user stops the session

VARIABLES
    proc,           \* where the session is
    disk,           \* pieces whose data is in the data files
    cached,         \* pieces verified by this process, in its cache
    have,           \* pieces with status Have
    completed,      \* completed_pieces_
    prog,           \* in_progress_pieces_
    hollow,         \* those of prog restored without their data
    endgame,        \* is_in_endgame_mode_
    file, temp,     \* the resume file and its .tmp
    save,           \* the save each saver is in
    timed,          \* the five seconds of stop() are over
    cancelled,      \* io_cancelled_
    kept,           \* history: data files at the last exit with a resume file
    runs, saves, crashes

vars == <<proc, disk, cached, have, completed, prog, hollow, endgame, file, temp,
          save, timed, cancelled, kept, runs, saves, crashes>>

state == <<disk, cached, have, completed, prog, hollow, endgame>>
files == <<file, temp>>
bounds == <<runs, saves, crashes>>

Savers == {"periodically_save", "stop"}

Absent == [kind |-> "absent", len |-> 0]
Empty == [kind |-> "empty", len |-> 0]
NoSave == [s \in Savers |-> [pc |-> "idle"]]

Init ==
    /\ proc = "down" /\ disk \in SUBSET Pieces
    /\ cached = {} /\ have = {} /\ completed = 0 /\ prog = {} /\ hollow = {} /\ endgame = FALSE
    /\ file = Absent /\ temp = Absent
    /\ save = NoSave /\ timed = FALSE /\ cancelled = FALSE
    /\ kept = {}
    /\ runs = 0 /\ saves = 0 /\ crashes = 0

------------------------------------------------------------------------------
(* The files *)

serialize(h, p) ==
    [kind |-> "saved", have |-> h, prog |-> p, len |-> 1 + Cardinality(p)]

(* new is written over old from the start of the file. *)
Over(old, new) ==
    IF old.len > new.len THEN [kind |-> "mixed", len |-> old.len] ELSE new

(* The same write cut short by the end of the process. *)
CutShort(old, new) ==
    {old} \cup {[kind |-> "mixed", len |-> IF old.len > n THEN old.len ELSE n] :
                   n \in 1 .. new.len - 1}

------------------------------------------------------------------------------
(* init() *)

Fresh ==
    /\ have' = {} /\ completed' = 0 /\ prog' = {} /\ hollow' = {}
    /\ endgame' = FALSE /\ cached' = {}

needed_pieces == Cardinality(Pieces \ (have' \cup prog'))

load_session_state ==
    /\ cached' = {} /\ have' = file.have
    /\ completed' = Cardinality(file.have)
    /\ prog' = file.prog \ file.have
    /\ hollow' = prog'
    /\ endgame' = (needed_pieces = Cardinality(Pieces) /\ prog' # {})

(* Up to verify_pieces, which suspends.  ResumeData::deserialize throws on *)
(* what it cannot decode, and with it run() is over.                       *)
init ==
    /\ proc = "down" /\ runs < MaxRuns
    /\ runs' = runs + 1
    /\ CASE file.kind \in {"absent", "empty"} -> Fresh /\ proc' = "running"
         [] file.kind = "saved" -> load_session_state /\ proc' = "loaded"
         [] file.kind = "mixed" -> Fresh /\ proc' = "failed"
    /\ UNCHANGED <<disk, files, save, timed, cancelled, kept, saves, crashes>>

(* What verify_pieces finds, and a count of it. *)
OnlyMarked == have \cap disk
Valid == disk
Trusted == have \cup disk
Found == Valid
Recounted == Cardinality(Found)

verify_pieces ==
    /\ proc = "loaded"
    /\ proc' = "running"
    /\ have' = Found
    /\ completed' = Recounted
    /\ UNCHANGED <<disk, cached, prog, hollow, endgame, files, save, timed,
                   cancelled, kept, bounds>>

(* In Seed mode every piece must be right, and nothing is saved. *)
verify_seed_data ==
    /\ proc = "down" /\ runs < MaxRuns
    /\ runs' = runs + 1
    /\ IF disk = Pieces
       THEN proc' = "seeding" /\ have' = Pieces /\ completed' = Cardinality(Pieces)
       ELSE proc' = "failed" /\ have' = {} /\ completed' = 0
    /\ prog' = {} /\ hollow' = {} /\ endgame' = FALSE /\ cached' = {}
    /\ UNCHANGED <<disk, files, save, timed, cancelled, kept, saves, crashes>>

------------------------------------------------------------------------------
(* The download *)

BlockArrives(p) ==
    /\ proc = "running" /\ p \notin have \cup prog
    /\ prog' = prog \cup {p}
    /\ UNCHANGED <<proc, disk, cached, have, completed, hollow, endgame, files,
                   save, timed, cancelled, kept, bounds>>

(* The last block of a piece.  One restored from the resume file has       *)
(* zeroes for the blocks it counts as received: the hash does not match.   *)
on_piece_block(p) ==
    /\ proc = "running" /\ p \in prog \ have
    /\ IF p \in hollow
       THEN UNCHANGED <<cached, have, completed>>
       ELSE /\ cached' = cached \cup {p}
            /\ have' = have \cup {p} /\ completed' = completed + 1
    /\ prog' = prog \ {p} /\ hollow' = hollow \ {p}
    /\ UNCHANGED <<proc, disk, endgame, files, save, timed, cancelled, kept,
                   bounds>>

(* A flush or an eviction writes a piece of the cache to the data files. *)
Flush(p) ==
    /\ proc \in {"running", "stopping"} /\ p \in cached \ disk
    /\ disk' = disk \cup {p}
    /\ UNCHANGED <<proc, cached, have, completed, prog, hollow, endgame, files,
                   save, timed, cancelled, kept, bounds>>

------------------------------------------------------------------------------
(* save_session_state *)

(* The lists are taken first; then it suspends for the times of the files. *)
Snapshot(s) ==
    save' = [save EXCEPT ![s] = [pc |-> "mtimes", data |-> serialize(have, prog)]]

periodically_save ==
    /\ proc = "running" /\ saves < MaxSaves
    /\ save["periodically_save"].pc = "idle"
    /\ Snapshot("periodically_save")
    /\ saves' = saves + 1
    /\ UNCHANGED <<proc, state, files, timed, cancelled, kept, runs, crashes>>

(* save_resume_data up to the write, which the file pool gets. *)
CreateTemp(s) ==
    /\ save[s].pc = "mtimes"
    /\ IF s = "stop" /\ timed
       THEN save' = [save EXCEPT ![s] = [pc |-> "failed"]] /\ UNCHANGED temp
       ELSE /\ save' = [save EXCEPT ![s].pc = "queued"]
            /\ temp' = IF temp = Absent THEN Empty ELSE temp
    /\ UNCHANGED <<proc, state, file, timed, cancelled, kept, bounds>>

(* The write does not create the file, and is not made once cancelled; an  *)
(* error makes the handler remove the temporary file and throw, which ends *)
(* periodically_save for good.                                             *)
async_write_to_file(s) ==
    /\ save[s].pc = "queued"
    /\ IF cancelled \/ temp = Absent
       THEN save' = [save EXCEPT ![s] = [pc |-> "failed"]] /\ temp' = Absent
       ELSE /\ save' = [save EXCEPT ![s].pc = "written"]
            /\ temp' = Over(temp, save[s].data)
    /\ UNCHANGED <<proc, state, file, timed, cancelled, kept, bounds>>

rename(s) ==
    /\ save[s].pc = "written"
    /\ IF temp = Absent
       THEN save' = [save EXCEPT ![s] = [pc |-> "failed"]] /\ UNCHANGED files
       ELSE /\ save' = [save EXCEPT ![s] =
                  [pc |-> IF s = "stop" THEN "done" ELSE "idle"]]
            /\ file' = temp /\ temp' = Absent
    /\ UNCHANGED <<proc, state, timed, cancelled, kept, bounds>>

------------------------------------------------------------------------------
(* stop() *)

stop ==
    /\ Stops /\ proc = "running"
    /\ proc' = "stopping"
    /\ Snapshot("stop")
    /\ UNCHANGED <<state, files, timed, cancelled, kept, bounds>>

StopTimeout ==
    /\ proc = "stopping" /\ ~timed /\ save["stop"].pc # "done"
    /\ timed' = TRUE
    /\ UNCHANGED <<proc, state, files, save, cancelled, kept, bounds>>

(* The save is over, or has failed and the time too: signal_shutdown and   *)
(* sync_flush_all_dirty.                                                   *)
StopOver ==
    /\ proc = "stopping"
    /\ \/ save["stop"].pc = "done"
       \/ timed /\ save["stop"].pc = "failed"
    /\ proc' = "stopped"
    /\ cancelled' = TRUE
    /\ disk' = disk \cup cached
    /\ UNCHANGED <<cached, have, completed, prog, hollow, endgame, files, save,
                   timed, kept, bounds>>

(* The process ends, by _Exit when stop() is over or by a kill; what the   *)
(* file pool was writing may be cut short.                                 *)
Exit ==
    /\ proc # "down"
    /\ IF proc \in {"running", "loaded", "stopping"}
       THEN crashes < MaxCrashes /\ crashes' = crashes + 1
       ELSE UNCHANGED crashes
    /\ \/ UNCHANGED temp
       \/ \E s \in Savers : /\ save[s].pc = "queued" /\ temp # Absent /\ ~cancelled
                            /\ temp' \in CutShort(temp, save[s].data)
    /\ proc' = "down"
    /\ Fresh
    /\ save' = NoSave /\ timed' = FALSE /\ cancelled' = FALSE
    /\ kept' = IF file.kind = "saved" THEN disk ELSE {}
    /\ UNCHANGED <<disk, file, runs, saves>>

SaveStep(s) == CreateTemp(s) \/ async_write_to_file(s) \/ rename(s)

Next ==
    \/ init \/ verify_pieces \/ verify_seed_data
    \/ \E p \in Pieces : BlockArrives(p) \/ on_piece_block(p) \/ Flush(p)
    \/ periodically_save
    \/ \E s \in Savers : SaveStep(s)
    \/ stop \/ StopTimeout \/ StopOver \/ Exit

Spec == Init /\ [][Next]_vars

------------------------------------------------------------------------------
Running == proc \in {"running", "seeding"}

(* TorrentSession.cpp:238: a piece is Have only when its data is on disk,  *)
(* or was verified by this process and is in its cache; the bitfield of a  *)
(* process killed before its flush is not trusted.                         *)
HaveIsReal == Running => have \subseteq disk \cup cached

(* FileManager.cpp:391: what the data files held when the process ended is *)
(* Have in the next run, though the bitfield was saved before the flush.   *)
ProgressKept == Running => kept \subseteq have
==============================================================================
