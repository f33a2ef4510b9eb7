------------------------------ MODULE DiskCache ------------------------------
(***************************************************************************)
(* The write-back disk cache of FileManager: write_piece puts the blocks   *)
(* of a verified piece in the cache, a flush writes the dirty ones to      *)
(* disk on the file pool every five seconds, the least recently used       *)
(* entries make room, and read_block serves peers from the cache or, on a  *)
(* miss, from disk.  The cache mutex is held for one step at a time; a     *)
(* flush and a read give it up while the file pool works for them.         *)
(*                                                                         *)
(* A block is old (what was on disk at start) or new (the verified data).  *)
(* Sizes are in blocks.  An entry is the sequence of blocks from its key   *)
(* on: one block, or as many as a read asked for.  The disk may refuse a   *)
(* read or a write; a write that fails is logged and forgotten.            *)
(***************************************************************************)
EXTENDS Integers, Sequences, FiniteSets

CONSTANTS
    NumPieces,          \* pieces of the torrent
    BlocksPerPiece,     \* blocks of a piece
    DISK_CACHE_SIZE,    \* in blocks
    Readers,            \* peers that ask for blocks
    ReadLengths,        \* lengths a peer asks for, in blocks
    MaxReads,           \* bound: block requests in all
    MaxFails,           \* bound: reads and writes that the disk refuses
    Flushing,           \* TRUE: the flush timer expires; FALSE: a short run
    Stops               \* TRUE: stop() is called

CacheAssumption ==
    /\ NumPieces \in Nat /\ BlocksPerPiece \in Nat \ {0} /\ DISK_CACHE_SIZE \in Nat
    /\ ReadLengths \subseteq Nat \ {0} /\ MaxReads \in Nat /\ MaxFails \in Nat
    /\ "verify_pieces" \notin Readers

VARIABLES
    disk,               \* contents of the files, by block
    cache,              \* cache_
    lru,                \* lru_order_, most recently used first
    dirty,              \* dirty_blocks_
    size,               \* cache_current_size_
    verifying,          \* the piece verify_pieces is at
    have,               \* pieces with status Have
    offset,             \* how far write_piece has come, by piece
    reading,            \* the read each reader waits for
    reads,              \* block requests so far
    flushing,           \* state of each flush: its step and what it holds
    fails,              \* reads and writes the disk has refused so far
    lost,               \* blocks given up: history, no code reads it
    stop                \* "running", "signalled" or "stopped"

vars == <<disk, cache, lru, dirty, size, verifying, have, offset, reading,
          reads, flushing, fails, lost, stop>>

Pieces == 0 .. NumPieces - 1
Keys == Pieces \X (0 .. BlocksPerPiece - 1)

(* verify_pieces is a reader too, that reads whole pieces in their order. *)
Verifier == "verify_pieces"

(* periodic_flush, and the flush() of a completed download. *)
Periodic == "periodic_flush"
Completion == "flush"

Idle == [pc |-> "idle"]

Init ==
    /\ \E p \in [Pieces -> {"old", "new"}] : disk = [k \in Keys |-> p[k[1]]]
    /\ cache = <<>> /\ lru = <<>> /\ dirty = {} /\ size = 0
    /\ verifying = 0 /\ have = {}
    /\ offset = [p \in Pieces |-> 0]
    /\ reading = [r \in Readers \cup {Verifier} |-> Idle]
    /\ reads = 0
    /\ flushing = [f \in {Periodic, Completion} |-> Idle]
    /\ fails = 0 /\ lost = {}
    /\ stop = "running"

------------------------------------------------------------------------------
(* The cache *)

touch_cache(key, order) == <<key>> \o SelectSeq(order, LAMBDA k : k # key)

SizeOf(key) == IF key \in DOMAIN cache THEN Len(cache[key]) ELSE 0

(* How many entries evict_if_needed takes from the back of the list. *)
NumEvicted ==
    LET n == Len(lru)
        left[i \in 0 .. n] ==
            IF i = 0 THEN size ELSE left[i - 1] - SizeOf(lru[n + 1 - i])
    IN  CHOOSE i \in 0 .. n : /\ left[i] <= DISK_CACHE_SIZE \/ i = n
                              /\ \A j \in 0 .. i - 1 : left[j] > DISK_CACHE_SIZE

Victims == {lru[i] : i \in Len(lru) - NumEvicted + 1 .. Len(lru)}

KeptOrder == SubSeq(lru, 1, Len(lru) - NumEvicted)

KeptSize ==
    LET sum[i \in 0 .. NumEvicted] ==
            IF i = 0 THEN 0 ELSE sum[i - 1] + SizeOf(lru[Len(lru) + 1 - i])
    IN  size - sum[NumEvicted]

(* The files after the entries in S are written back. *)
NoWriteBack(S) == disk
sync_write_block(S) ==
    [k \in Keys |-> IF k \in S THEN cache[k][1] ELSE disk[k]]

(* The blocks of W that the disk may refuse to take. *)
Refusals(W) == {F \in SUBSET W : fails + Cardinality(F) <= MaxFails}

WriteBack(W, F, displaced) ==
    /\ disk' = sync_write_block(W \ F)
    /\ fails' = fails + Cardinality(F)
    /\ lost' = lost \cup F \cup displaced

Resident(K) == [k \in DOMAIN cache \cap K |-> cache[k]]

Put(kept, key, data) == [k \in DOMAIN kept \cup {key} |->
                            IF k = key THEN data ELSE kept[k]]

(* evict_if_needed, then the entry is put in front; old is the size of an  *)
(* entry it replaces that is taken off the count, displaced the dirty      *)
(* entries that are given up for it.                                       *)
Insert(key, data, old, displaced) ==
    /\ LET W == Victims \cap dirty \cap DOMAIN cache
       IN  \E F \in Refusals(W) : WriteBack(W, F, displaced)
    /\ cache' = Put(Resident(Keys \ Victims), key, data)
    /\ lru' = touch_cache(key, KeptOrder)
    /\ size' = KeptSize - old + Len(data)

------------------------------------------------------------------------------
(* read_block *)

(* What peers ask for: one block of a piece we have told them of.  Nothing *)
(* in the code insists on it.  (History: only `lost' depends on it.)       *)
Ask(key, n) == IF n = 1 /\ key[1] \in have THEN "proper" ELSE "odd"

Lookup(r, key, n) ==
    IF key \in DOMAIN cache /\ Len(cache[key]) >= n
    THEN /\ lru' = touch_cache(key, lru)
         /\ reading' = [reading EXCEPT ![r] =
                [pc |-> "done", key |-> key, data |-> SubSeq(cache[key], 1, n)]]
    ELSE /\ reading' = [reading EXCEPT ![r] =
                [pc |-> "queued", key |-> key, len |-> n, ask |-> Ask(key, n)]]
         /\ UNCHANGED lru

on_block_request(r) ==
    /\ stop = "running" /\ reads < MaxReads
    /\ reading[r] = Idle
    /\ \E key \in Keys, n \in ReadLengths : Lookup(r, key, n)
    /\ reads' = reads + 1
    /\ UNCHANGED <<disk, cache, dirty, size, verifying, have, offset, flushing,
                   fails, lost, stop>>

verify_piece ==
    /\ verifying \in Pieces
    /\ reading[Verifier] = Idle
    /\ Lookup(Verifier, <<verifying, 0>>, BlocksPerPiece)
    /\ UNCHANGED <<disk, cache, dirty, size, verifying, have, offset, reads,
                   flushing, fails, lost, stop>>

(* A read goes on over the end of its piece, up to the end of the torrent. *)
First(key) == key[1] * BlocksPerPiece + key[2]
Block(b) == <<b \div BlocksPerPiece, b % BlocksPerPiece>>
OnDisk(key, n) == [i \in 1 .. n |-> disk[Block(First(key) + i - 1)]]

(* The file pool reads, or finds the work cancelled, or cannot read. *)
async_read_from_file(r) ==
    /\ reading[r].pc = "queued"
    /\ \/ /\ stop = "running"
          /\ First(reading[r].key) + reading[r].len <= NumPieces * BlocksPerPiece
          /\ reading' = [reading EXCEPT ![r] =
                [pc |-> "read", key |-> reading[r].key, ask |-> reading[r].ask,
                 data |-> OnDisk(reading[r].key, reading[r].len)]]
          /\ UNCHANGED fails
       \/ /\ \/ stop # "running"
             \/ First(reading[r].key) + reading[r].len > NumPieces * BlocksPerPiece
          /\ reading' = [reading EXCEPT ![r] = [pc |-> "failed"]]
          /\ UNCHANGED fails
       \/ /\ fails < MaxFails
          /\ reading' = [reading EXCEPT ![r] = [pc |-> "failed"]]
          /\ fails' = fails + 1
    /\ UNCHANGED <<disk, cache, lru, dirty, size, verifying, have, offset,
                   reads, flushing, lost, stop>>

(* The rest of read_block: the data read goes into the cache.  Unlike a    *)
(* write, it does not take an entry it replaces off the count; and when    *)
(* the entry is dirty, the data read takes its place all the same.         *)
Populate(r) ==
    Insert(reading[r].key, reading[r].data, 0,
           IF reading[r].ask = "odd" THEN {reading[r].key} \cap dirty ELSE {})

ReadBack(r) ==
    /\ reading[r].pc = "read"
    /\ Populate(r)
    /\ dirty' = dirty \ (Victims \cup {reading[r].key})
    /\ reading' = [reading EXCEPT ![r].pc = "done"]
    /\ UNCHANGED <<verifying, have, offset, reads, flushing, stop>>

(* The reader goes on: the peer is sent the block, or loses its connection *)
(* and another takes its place.                                            *)
ReadOver(r) ==
    /\ r \in Readers
    /\ reading[r].pc \in {"done", "failed"}
    /\ reading' = [reading EXCEPT ![r] = Idle]
    /\ UNCHANGED <<disk, cache, lru, dirty, size, verifying, have, offset,
                   reads, flushing, fails, lost, stop>>

(* verify_pieces: a piece whose data is right is Have; an error ends it. *)
verify_pieces ==
    /\ reading[Verifier].pc \in {"done", "failed"}
    /\ IF reading[Verifier].pc = "failed"
       THEN verifying' = NumPieces + 1 /\ UNCHANGED have
       ELSE /\ verifying' = verifying + 1
            /\ have' = IF \A i \in DOMAIN reading[Verifier].data :
                             reading[Verifier].data[i] = "new"
                       THEN have \cup {verifying} ELSE have
    /\ reading' = [reading EXCEPT ![Verifier] = Idle]
    /\ UNCHANGED <<disk, cache, lru, dirty, size, offset, reads, flushing,
                   fails, lost, stop>>

------------------------------------------------------------------------------
(* write_piece *)

(* One block, under the mutex.  The last one starts periodic_flush if it   *)
(* is the first piece written, and then the piece is Have.                 *)
write_piece(p) ==
    /\ verifying = NumPieces
    /\ p \notin have
    /\ LET key == <<p, offset[p]>>
           last == offset[p] + 1 = BlocksPerPiece
       IN  /\ Insert(key, <<"new">>,
                     IF key \in Victims THEN 0 ELSE SizeOf(key), {})
           /\ dirty' = (dirty \ Victims) \cup {key}
           /\ offset' = [offset EXCEPT ![p] = @ + 1]
           /\ have' = IF last THEN have \cup {p} ELSE have
           /\ flushing' =
                 IF last /\ flushing[Periodic] = Idle
                 THEN [flushing EXCEPT ![Periodic] =
                          [pc |-> IF stop = "running" THEN "waiting" ELSE "over"]]
                 ELSE flushing
    /\ UNCHANGED <<verifying, reading, reads, stop>>

------------------------------------------------------------------------------
(* flush_all_dirty and its two callers *)

(* The dirty entries, copied out under the mutex. *)
Copies == LET todo == dirty \cap DOMAIN cache
          IN  [k \in todo |-> cache[k][1]]

Cleared == {}

Begin(f) ==
    /\ flushing' = [flushing EXCEPT ![f] = [pc |-> "writing", todo |-> Copies]]
    /\ dirty' = Cleared
    /\ UNCHANGED <<disk, cache, lru, size, verifying, have, offset, reading,
                   reads, fails, lost, stop>>

(* The timer expires, unless signal_shutdown has cancelled it. *)
periodic_flush ==
    /\ flushing[Periodic].pc = "waiting"
    /\ Flushing /\ stop = "running"
    /\ Begin(Periodic)

TimerCancelled ==
    /\ flushing[Periodic].pc = "waiting"
    /\ stop # "running"
    /\ flushing' = [flushing EXCEPT ![Periodic] = [pc |-> "over"]]
    /\ UNCHANGED <<disk, cache, lru, dirty, size, verifying, have, offset,
                   reading, reads, fails, lost, stop>>

(* The download is complete. *)
flush ==
    /\ flushing[Completion] = Idle
    /\ have = Pieces /\ \E p \in Pieces : offset[p] > 0
    /\ Begin(Completion)

(* The file pool writes one copy, or finds the work cancelled, or cannot   *)
(* write; the loop goes on to the next in each case.                       *)
async_write_to_file(f) ==
    /\ flushing[f].pc = "writing"
    /\ \E k \in DOMAIN flushing[f].todo :
          /\ \/ /\ disk' = IF stop # "running" THEN disk
                           ELSE [disk EXCEPT ![k] = flushing[f].todo[k]]
                /\ UNCHANGED <<fails, lost>>
             \/ /\ fails < MaxFails
                /\ fails' = fails + 1 /\ lost' = lost \cup {k}
                /\ UNCHANGED disk
          /\ flushing' = [flushing EXCEPT ![f].todo =
                 [x \in DOMAIN flushing[f].todo \ {k} |-> flushing[f].todo[x]]]
    /\ UNCHANGED <<cache, lru, dirty, size, verifying, have, offset, reading,
                   reads, stop>>

Again(f) == IF f = Periodic /\ stop = "running" THEN "waiting" ELSE "over"
AfterFlush(f) == Again(f)

FlushOver(f) ==
    /\ flushing[f].pc = "writing" /\ DOMAIN flushing[f].todo = {}
    /\ flushing' = [flushing EXCEPT ![f] = [pc |-> AfterFlush(f)]]
    /\ UNCHANGED <<disk, cache, lru, dirty, size, verifying, have, offset,
                   reading, reads, fails, lost, stop>>

------------------------------------------------------------------------------
(* The end of TorrentSession::stop() *)

signal_shutdown ==
    /\ Stops /\ stop = "running"
    /\ stop' = "signalled"
    /\ UNCHANGED <<disk, cache, lru, dirty, size, verifying, have, offset,
                   reading, reads, flushing, fails, lost>>

sync_flush_all_dirty ==
    /\ stop = "signalled"
    /\ stop' = "stopped"
    /\ \E F \in Refusals(dirty \cap DOMAIN cache) :
          WriteBack(dirty \cap DOMAIN cache, F, {})
    /\ dirty' = Cleared
    /\ UNCHANGED <<cache, lru, size, verifying, have, offset, reading, reads,
                   flushing>>

Read(r) == async_read_from_file(r) \/ ReadBack(r) \/ ReadOver(r)
Flush(f) == async_write_to_file(f) \/ FlushOver(f)

Next ==
    \/ \E r \in Readers : on_block_request(r)
    \/ \E r \in Readers \cup {Verifier} : Read(r)
    \/ verify_piece \/ verify_pieces
    \/ \E p \in Pieces : write_piece(p)
    \/ periodic_flush \/ TimerCancelled \/ flush
    \/ \E f \in {Periodic, Completion} : Flush(f)
    \/ signal_shutdown \/ sync_flush_all_dirty

Spec == Init /\ [][Next]_vars

(* Timers expire, the io threads and the file pool serve what is queued,   *)
(* and write_piece, which does not suspend, comes to its end; nothing      *)
(* forces a peer to ask, a piece to arrive or stop().                      *)
FairSpec ==
    /\ Spec
    /\ WF_vars(periodic_flush)
    /\ \A p \in Pieces : WF_vars(offset[p] > 0 /\ write_piece(p))
    /\ \A f \in {Periodic, Completion} : WF_vars(Flush(f))

------------------------------------------------------------------------------
InFlight(k) ==
    \E f \in {Periodic, Completion} :
       /\ flushing[f].pc = "writing"
       /\ k \in DOMAIN flushing[f].todo

Written(k) == k[2] < offset[k[1]]

(* Until stop(), a block that write_piece has taken is on disk, or dirty   *)
(* in the cache, or in the hands of a flush, whatever is evicted, flushed  *)
(* and read meanwhile; but for the blocks that the disk refused to take,   *)
(* and those whose dirty entry gave way to the data of an odd read: one    *)
(* longer than a block, or of a piece we did not have yet.                 *)
WrittenSurvives ==
    stop = "running" =>
       \A k \in Keys \ lost : Written(k) =>
          \/ disk[k] = "new"
          \/ k \in dirty /\ k \in DOMAIN cache /\ cache[k][1] = "new"
          \/ InFlight(k)
==============================================================================
