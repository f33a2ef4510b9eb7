------------------------------- MODULE FileMap -------------------------------
(***************************************************************************)
(* How FileManager lays the pieces of a torrent over its files: the pieces *)
(* create_from_file hashes, the two maps of build_maps, the selection of   *)
(* files (apply_file_selection, preallocate_files), and the offsets at     *)
(* which sync_write_block writes and read_block reads.                     *)
(*                                                                         *)
(* A byte is named by its offset in the torrent, so that a byte is right   *)
(* when it is found where it belongs; Unwritten stands for the zeroes of a *)
(* preallocated file.                                                      *)
(***************************************************************************)
EXTENDS Integers, Sequences, FiniteSets

CONSTANTS
    MaxFiles,           \* bound: files of a torrent
    FileSizes,          \* sizes of a file, in bytes
    PieceSizes,         \* values of "piece length"
    BLOCK_SIZE,
    UintSize,           \* number of values of uint32_t
    auto_approve_all    \* TRUE in the client; FALSE asks for each file

VARIABLES
    phase,              \* "none", "created", "added" or "running"
    sizes,              \* sizes of the files, in their order
    piece_size,
    selected,           \* file_selection, what the user asked for
    download,           \* FileInfo::download, by file
    status,             \* piece_status_
    disk,               \* contents of the files
    written             \* pieces written

vars == <<phase, sizes, piece_size, selected, download, status, disk, written>>

Unwritten == -1

Min(a, b) == IF a < b THEN a ELSE b
Max(a, b) == IF a > b THEN a ELSE b

Files == 1 .. Len(sizes)

------------------------------------------------------------------------------
(* The torrent *)

FileEnd[f \in Nat] == IF f = 0 THEN 0 ELSE FileEnd[f - 1] + sizes[f]
FileStart(f) == FileEnd[f - 1]
total_size == FileEnd[Len(sizes)]

(* The buffer of create_from_file after each file: how full it is, and the *)
(* pieces hashed.                                                          *)
Hashed ==
    LET after[f \in 0 .. Len(sizes)] ==
            IF f = 0 THEN [fill |-> 0, pieces |-> 0]
            ELSE LET n == after[f - 1].fill + sizes[f]
                 IN  [fill |-> n % piece_size,
                      pieces |-> after[f - 1].pieces + n \div piece_size]
    IN  after[Len(sizes)]

num_pieces == Hashed.pieces + (IF Hashed.fill > 0 THEN 1 ELSE 0)
Pieces == 0 .. num_pieces - 1

(* The bytes a piece was hashed over. *)
HashedLength(p) == IF p < Hashed.pieces THEN piece_size ELSE Hashed.fill

------------------------------------------------------------------------------
(* build_maps *)

start_piece(f) == FileStart(f) \div piece_size

end_piece(f) ==
    LET e == IF sizes[f] = 0 THEN start_piece(f)
             ELSE (FileEnd[f] - 1) \div piece_size
    IN  IF e >= num_pieces THEN (num_pieces - 1) % UintSize ELSE e

actual_piece_size(p) ==
    IF p = num_pieces - 1 /\ total_size % piece_size # 0
    THEN total_size % piece_size ELSE piece_size

Overlap(f, p) ==
    LET start == p * piece_size
        from == Max(FileStart(f), start)
        to == Min(FileEnd[f], start + actual_piece_size(p))
    IN  [file |-> f, in_file |-> from - FileStart(f), in_piece |-> from - start,
         length |-> to - from]

Overlaps(o) == o.length > 0

piece_to_files(p) ==
    {o \in {Overlap(f, p) : f \in {g \in Files : p \in start_piece(g) .. end_piece(g)}} :
        Overlaps(o)}

------------------------------------------------------------------------------
(* The file content at offset pos of file f after the blocks of piece p    *)
(* are written: each block is cut at the overlaps of the piece.            *)
WholeOverlap(o, start) == 0
OffsetInOverlap(o, start) == start - o.in_piece
FileOffset(o, start) == o.in_file + OffsetInOverlap(o, start)

Cuts(p) ==
    {c \in {LET from == Max(off, o.in_piece)
                to == Min(Min(off + BLOCK_SIZE, HashedLength(p)),
                          o.in_piece + o.length)
            IN  [file |-> o.file, at |-> FileOffset(o, from),
                 from |-> from, length |-> to - from] :
               o \in {x \in piece_to_files(p) : download[x.file]},
               off \in {i \in 0 .. HashedLength(p) - 1 : i % BLOCK_SIZE = 0}} :
        c.length > 0}

sync_write_block(p) ==
    [f \in Files |-> [x \in 1 .. sizes[f] |->
        LET here == {c \in Cuts(p) : c.file = f /\ x - 1 \in c.at .. c.at + c.length - 1}
        IN  IF here = {} THEN disk[f][x]
            ELSE LET c == CHOOSE c \in here : TRUE
                 IN  p * piece_size + c.from + (x - 1 - c.at)]]

(* The walk of read_block over the files.  A position before the start of  *)
(* the file, which a file left out can cause, is a huge unsigned number,   *)
(* and the read throws.                                                    *)
read_block(p, begin, length) ==
    LET walk[f \in 0 .. Len(sizes)] ==
            IF f = 0 THEN [ok |-> TRUE, data |-> <<>>]
            ELSE LET w == walk[f - 1]
                     done == Len(w.data)
                     pos == p * piece_size + begin + done - FileStart(f)
                     n == Min(length - done, sizes[f] - pos)
                 IN  IF ~w.ok \/ done = length \/ ~download[f] \/ pos >= sizes[f]
                     THEN w
                     ELSE IF pos < 0 THEN [w EXCEPT !.ok = FALSE]
                     ELSE [w EXCEPT !.data = @ \o SubSeq(disk[f], pos + 1, pos + n)]
        last == walk[Len(sizes)]
    IN  [last EXCEPT !.ok = @ /\ Len(last.data) = length]

------------------------------------------------------------------------------
Init ==
    /\ phase = "none"
    /\ sizes = <<>> /\ piece_size \in PieceSizes
    /\ selected = <<>> /\ download = <<>> /\ status = <<>> /\ disk = <<>>
    /\ written = {}

(* A torrent is made from files, and a session for it. *)
create_from_file ==
    /\ phase = "none"
    /\ phase' = "created"
    /\ \E n \in 1 .. MaxFiles : \E s \in [1 .. n -> FileSizes] :
          /\ sizes' = s
          /\ selected' = [f \in 1 .. n |-> TRUE]
          /\ download' = [f \in 1 .. n |-> TRUE]
          /\ disk' = [f \in 1 .. n |-> [x \in 1 .. s[f] |-> Unwritten]]
    /\ UNCHANGED <<piece_size, status, written>>

(* The pieces that lie in a file left out, by the bounds of that file. *)
apply_file_selection ==
    /\ phase = "created" /\ num_pieces > 0
    /\ phase' = "added"
    /\ \E s \in [Files -> BOOLEAN] :
          /\ selected' = s
          /\ download' = s
          /\ status' = [p \in Pieces |->
                IF \E f \in Files : /\ ~s[f]
                                    /\ p * piece_size >= FileStart(f)
                                    /\ (p + 1) * piece_size <= FileEnd[f]
                THEN "Skipped" ELSE "Needed"]
    /\ UNCHANGED <<sizes, piece_size, disk, written>>

(* The answers of the user: 1 yes, 2 no, 3 yes for all, 4 no for all, any  *)
(* other yes.                                                              *)
Asked(ans, f) ==
    LET all == {j \in 1 .. f : ans[j] \in {3, 4}}
    IN  IF all = {} THEN ans[f] # 2
        ELSE ans[CHOOSE j \in all : \A k \in all : j <= k] = 3

AllWanted(p, d) == \A o \in piece_to_files(p) : d[o.file]
is_needed(p, d) == \E o \in piece_to_files(p) : d[o.file]

preallocate_files ==
    /\ phase = "added"
    /\ phase' = "running"
    /\ \E ans \in [Files -> 1 .. 5] :
          LET d == [f \in Files |-> auto_approve_all \/ Asked(ans, f)]
          IN  /\ auto_approve_all => \A f \in Files : ans[f] = 3
              /\ download' = d
              /\ selected' = IF auto_approve_all THEN selected ELSE d
              /\ status' = [p \in Pieces |->
                               IF is_needed(p, d) THEN "Needed" ELSE "Skipped"]
    /\ UNCHANGED <<sizes, piece_size, disk, written>>

(* A verified piece is written. *)
Write(p) ==
    /\ phase = "running" /\ status[p] = "Needed"
    /\ status' = [status EXCEPT ![p] = "Have"]
    /\ disk' = sync_write_block(p)
    /\ written' = written \cup {p}
    /\ UNCHANGED <<phase, sizes, piece_size, selected, download>>

Next ==
    \/ create_from_file \/ apply_file_selection \/ preallocate_files
    \/ \E p \in Pieces : Write(p)

Spec == Init /\ [][Next]_vars

------------------------------------------------------------------------------
(* What read_block gives for a range of a piece that was written is the    *)
(* data of the torrent, over the borders of files and at the short last    *)
(* piece; it throws only where a file is left out.                         *)
ReadsWhatWasWritten ==
    \A p \in written : \A begin \in 0 .. HashedLength(p) - 1 :
       \A n \in 1 .. HashedLength(p) - begin :
          LET r == read_block(p, begin, n)
          IN  /\ r.ok => r.data = [i \in 1 .. n |-> p * piece_size + begin + i - 1]
              /\ (\A f \in Files : download[f]) => r.ok

(* Once no piece is Needed, every byte of the files chosen is on disk,     *)
(* those of pieces shared with a file left out too.                        *)
SelectedComplete ==
    phase = "running" /\ (\A p \in Pieces : status[p] # "Needed") =>
       \A f \in Files : download[f] =>
          \A x \in 1 .. sizes[f] : disk[f][x] = FileStart(f) + x - 1
==============================================================================
