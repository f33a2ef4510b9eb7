----------------------------- MODULE StorageProofs -----------------------------
(***************************************************************************)
(* What FileManager keeps: the blocks that write_piece has taken, in its   *)
(* write-back cache (DiskCache), and the pieces of a session over kills    *)
(* and restarts (ResumeFile).  How a session ends: its last piece          *)
(* (Completion) and its loops after stop() (SessionLifecycle).             *)
(***************************************************************************)
EXTENDS DiskCache, FiniteSetTheorems, TLAPS

Flushers == {Periodic, Completion}

(* Copies of blocks, on their way to the disk. *)
Copied == UNION {[S -> {"new"}] : S \in SUBSET Keys}

StorageTypes ==
    /\ disk \in [Keys -> {"old", "new"}]
    /\ DOMAIN cache \subseteq Keys
    /\ dirty \subseteq DOMAIN cache
    /\ verifying \in Nat
    /\ offset \in [Pieces -> 0 .. BlocksPerPiece]
    /\ reading = [r \in Readers \cup {Verifier} |-> reading[r]]
    /\ flushing \in [Flushers -> [pc : {"idle", "waiting", "over"}]
                                   \cup [pc : {"writing"}, todo : Copied]]

(* A piece that is written to its end is Have, so that it is not written again. *)
WrittenOnce == \A p \in Pieces : offset[p] = BlocksPerPiece => p \in have

(* A dirty entry holds what write_piece put there. *)
DirtyIsNew == \A k \in dirty : cache[k] = <<"new">>

(* No write has begun before verify_pieces is through. *)
VerifiedFirst ==
    /\ reading[Verifier].pc # "idle" => verifying \in Pieces
    /\ verifying # NumPieces => dirty = {}

(* A read of one block of a piece we have, that misses the cache, is for a block that is
   not dirty and will not be. *)
ReadsClean ==
    \A r \in Readers \cup {Verifier} : reading[r].pc \in {"queued", "read"} =>
        /\ reading[r].key \in Keys /\ reading[r].ask \in {"proper", "odd"}
        /\ reading[r].ask = "proper" => reading[r].key \notin dirty /\ reading[r].key[1] \in have

(* A block that write_piece has taken and that was not given up is on disk, or dirty, or in
   the hands of a flush. *)
Kept ==
    stop = "running" =>
       \A k \in Keys \ lost : Written(k) => disk[k] = "new" \/ k \in dirty \/ InFlight(k)

CacheInv ==
    /\ StorageTypes /\ WrittenOnce /\ DirtyIsNew /\ VerifiedFirst /\ ReadsClean /\ Kept

(* The cache is empty and nothing is written at the start. *)
LEMMA InitCacheInv == ASSUME CacheAssumption, Init PROVE CacheInv
<1> USE CacheAssumption DEF CacheAssumption
<1>1. PICK p \in [Pieces -> {"old", "new"}] : disk = [k \in Keys |-> p[k[1]]]
  BY DEF Init
<1>2. disk \in [Keys -> {"old", "new"}]
  BY <1>1 DEF Keys
<1>3. /\ cache = <<>> /\ dirty = {} /\ verifying = 0 /\ offset = [q \in Pieces |-> 0]
      /\ reading = [r \in Readers \cup {Verifier} |-> Idle]
      /\ flushing = [f \in Flushers |-> Idle]
  BY DEF Init, Flushers
<1>4. DOMAIN cache = {}
  BY <1>3
<1>5. StorageTypes
  <2>1. Idle \in [pc : {"idle", "waiting", "over"}] /\ 0 \in 0 .. BlocksPerPiece
    BY DEF Idle
  <2>2. \A r \in Readers \cup {Verifier} : reading[r] = Idle
    BY <1>3
  <2>3. reading = [r \in Readers \cup {Verifier} |-> reading[r]]
    BY <1>3, <2>2
  <2> QED BY <1>2, <1>3, <1>4, <2>1, <2>3 DEF StorageTypes
<1>6. \A r \in Readers \cup {Verifier} : reading[r].pc = "idle"
  BY <1>3 DEF Idle
<1>7. \A k \in Keys : ~Written(k)
  BY <1>3 DEF Written, Keys
<1>8. \A q \in Pieces : offset[q] # BlocksPerPiece
  BY <1>3
<1> QED BY <1>3, <1>5, <1>6, <1>7, <1>8
        DEF CacheInv, WrittenOnce, DirtyIsNew, VerifiedFirst, ReadsClean, Kept

(* What an insertion does, whatever it evicts: the entry is there, the others that are not
   evicted are as before, and a dirty one that is evicted is written or given up. *)
LEMMA InsertKeeps ==
    ASSUME StorageTypes, DirtyIsNew, NEW key \in Keys, NEW data, NEW old, NEW displaced,
           Insert(key, data, old, displaced)
    PROVE  /\ disk' \in [Keys -> {"old", "new"}]
           /\ DOMAIN cache' \subseteq Keys
           /\ key \in DOMAIN cache' /\ cache'[key] = data
           /\ \A k \in dirty \ Victims : k \in DOMAIN cache'
                   /\ (k # key => cache'[k] = cache[k])
           /\ lost \cup displaced \subseteq lost'
           /\ \A k \in Keys \ lost' :
                   disk[k] = "new" \/ k \in dirty \cap Victims => disk'[k] = "new"
<1> DEFINE W == Victims \cap dirty \cap DOMAIN cache
           kept == Resident(Keys \ Victims)
<1>0. PICK F \in SUBSET W : WriteBack(W, F, displaced)
  BY Zenon DEF Insert, Refusals
<1> DEFINE S == W \ F
<1>1. /\ disk' = [k \in Keys |-> IF k \in S THEN cache[k][1] ELSE disk[k]]
      /\ lost' = lost \cup F \cup displaced
      /\ cache' = Put(kept, key, data)
  BY Zenon, <1>0 DEF Insert, WriteBack, sync_write_block
<1>2. \A k \in S : cache[k][1] = "new"
  BY DEF DirtyIsNew
<1>3. S = (dirty \cap Victims) \ F
  BY DEF StorageTypes
<1>4. /\ disk' \in [Keys -> {"old", "new"}]
      /\ \A k \in Keys : disk[k] = "new" \/ k \in S => disk'[k] = "new"
  <2> HIDE DEF S
  <2> QED BY <1>1, <1>2 DEF StorageTypes
<1>5. DOMAIN kept = DOMAIN cache \cap (Keys \ Victims)
        /\ \A k \in DOMAIN kept : kept[k] = cache[k]
  BY DEF Resident
<1>6. /\ DOMAIN cache' = DOMAIN kept \cup {key}
      /\ \A k \in DOMAIN cache' : cache'[k] = IF k = key THEN data ELSE kept[k]
  <2> HIDE DEF kept
  <2> QED BY <1>1 DEF Put
<1> HIDE DEF kept, S
<1> QED BY <1>1, <1>3, <1>4, <1>5, <1>6 DEF StorageTypes

(* What a step leaves alone that touches neither the blocks nor the flushes. *)
LEMMA SameBlocks ==
    ASSUME CacheInv, UNCHANGED <<disk, cache, dirty, offset, flushing, lost, stop>>,
           have \subseteq have', verifying' \in Nat,
           reading' = [r \in Readers \cup {Verifier} |-> reading'[r]]
    PROVE  StorageTypes' /\ WrittenOnce' /\ DirtyIsNew' /\ Kept'
<1>1. StorageTypes'
  BY DEF CacheInv, StorageTypes
<1>2. WrittenOnce'
  BY DEF CacheInv, WrittenOnce
<1>3. DirtyIsNew'
  BY DEF CacheInv, DirtyIsNew
<1>4. Kept'
  BY DEF CacheInv, Kept, Written, InFlight
<1> QED BY <1>1, <1>2, <1>3, <1>4

(* read_block up to its suspension. *)
LEMMA LookupStep ==
    ASSUME CacheInv, NEW r \in Readers \cup {Verifier}, NEW key \in Keys, NEW n,
           Lookup(r, key, n), r = Verifier => verifying \in Pieces,
           UNCHANGED <<disk, cache, dirty, verifying, have, offset, flushing, lost, stop>>
    PROVE  CacheInv'
<1> USE DEF CacheInv
<1> DEFINE hit == key \in DOMAIN cache /\ Len(cache[key]) >= n
           x == IF hit THEN [pc |-> "done", key |-> key, data |-> SubSeq(cache[key], 1, n)]
                       ELSE [pc |-> "queued", key |-> key, len |-> n, ask |-> Ask(key, n)]
<1>0. ASSUME ~hit, Ask(key, n) = "proper" PROVE key \notin dirty /\ key[1] \in have
  <2>1. n = 1 /\ key[1] \in have
    BY <1>0 DEF Ask
  <2>2. ASSUME NEW s, s = <<"new">> PROVE Len(s) >= 1
    BY <2>2
  <2>3. key \in dirty => key \in DOMAIN cache /\ cache[key] = <<"new">>
    BY DEF DirtyIsNew, StorageTypes
  <2> QED BY Zenon, <1>0, <2>1, <2>2, <2>3
<1>1. /\ reading' = [reading EXCEPT ![r] = x]
      /\ x.pc # "idle"
      /\ x.pc \in {"queued", "read"} =>
            /\ x.key = key /\ x.ask \in {"proper", "odd"}
            /\ x.ask = "proper" => key \notin dirty /\ key[1] \in have
  <2>1. CASE hit
    <3>1. reading' = [reading EXCEPT ![r] = x]
      BY Zenon, <2>1 DEF Lookup
    <3>2. x.pc = "done"
      BY <2>1
    <3> QED BY <3>1, <3>2
  <2>2. CASE ~hit
    <3>1. reading' = [reading EXCEPT ![r] = x]
      BY Zenon, <2>2 DEF Lookup
    <3>2. x.pc = "queued" /\ x.key = key /\ x.ask = Ask(key, n)
      BY <2>2
    <3>3. Ask(key, n) \in {"proper", "odd"}
      BY DEF Ask
    <3> QED BY <1>0, <2>2, <3>1, <3>2, <3>3
  <2> QED BY <2>1, <2>2
<1> HIDE DEF x
<1>2. /\ reading'[r] = x
      /\ \A s \in Readers \cup {Verifier} : s # r => reading'[s] = reading[s]
      /\ reading' = [s \in Readers \cup {Verifier} |-> reading'[s]]
  BY Zenon, <1>1 DEF StorageTypes
<1>3. StorageTypes' /\ WrittenOnce' /\ DirtyIsNew' /\ Kept'
  BY <1>2, SameBlocks DEF StorageTypes
<1>4. VerifiedFirst'
  BY <1>2 DEF VerifiedFirst
<1>5. ReadsClean'
  BY Zenon, <1>1, <1>2 DEF ReadsClean
<1> QED BY <1>3, <1>4, <1>5

(* A read that goes on to x, without a new key. *)
LEMMA ReadStep ==
    ASSUME CacheInv, NEW r \in Readers \cup {Verifier}, NEW x,
           reading' = [reading EXCEPT ![r] = x],
           x.pc \in {"queued", "read"} =>
              /\ reading[r].pc \in {"queued", "read"}
              /\ x.key = reading[r].key /\ x.ask = reading[r].ask,
           dirty' \subseteq dirty, have \subseteq have'
    PROVE  /\ reading' = [s \in Readers \cup {Verifier} |-> reading'[s]]
           /\ reading'[r] = x
           /\ \A s \in Readers \cup {Verifier} : s # r => reading'[s] = reading[s]
           /\ ReadsClean'
<1>1. /\ reading'[r] = x
      /\ \A s \in Readers \cup {Verifier} : s # r => reading'[s] = reading[s]
      /\ reading' = [s \in Readers \cup {Verifier} |-> reading'[s]]
  BY Zenon DEF CacheInv, StorageTypes
<1> QED BY <1>1 DEF CacheInv, ReadsClean

(* The steps of a read but for its insertion keep the invariant. *)
LEMMA ReadSteps ==
    ASSUME CacheAssumption, CacheInv,
           \/ \E r \in Readers : on_block_request(r) \/ ReadOver(r)
           \/ verify_piece \/ verify_pieces
           \/ \E r \in Readers \cup {Verifier} : async_read_from_file(r)
    PROVE  CacheInv'
<1> USE DEF CacheInv
<1>1. ASSUME NEW r \in Readers, on_block_request(r) PROVE CacheInv'
  <2>1. PICK key \in Keys, n \in ReadLengths : Lookup(r, key, n)
    BY Zenon, <1>1 DEF on_block_request
  <2>2. UNCHANGED <<disk, cache, dirty, verifying, have, offset, flushing, lost, stop>>
    BY Zenon, <1>1 DEF on_block_request
  <2>3. r # Verifier
    BY DEF CacheAssumption, Verifier
  <2> QED BY Zenon, <2>1, <2>2, <2>3, LookupStep
<1>2. CASE verify_piece
  <2>1. /\ Lookup(Verifier, <<verifying, 0>>, BlocksPerPiece) /\ verifying \in Pieces
        /\ UNCHANGED <<disk, cache, dirty, verifying, have, offset, flushing, lost, stop>>
    BY Zenon, <1>2 DEF verify_piece
  <2>2. <<verifying, 0>> \in Keys
    BY <2>1 DEF Keys, CacheAssumption
  <2> QED BY Zenon, <2>1, <2>2, LookupStep
<1>3. ASSUME NEW r \in Readers, ReadOver(r) PROVE CacheInv'
  <2>1. /\ reading' = [reading EXCEPT ![r] = Idle] /\ Idle.pc = "idle"
        /\ UNCHANGED <<disk, cache, dirty, verifying, have, offset, flushing, lost, stop>>
    BY <1>3 DEF ReadOver, Idle
  <2>2. /\ reading' = [s \in Readers \cup {Verifier} |-> reading'[s]]
        /\ reading'[r] = Idle /\ ReadsClean'
        /\ \A s \in Readers \cup {Verifier} : s # r => reading'[s] = reading[s]
    BY Zenon, <2>1, ReadStep
  <2>3. StorageTypes' /\ WrittenOnce' /\ DirtyIsNew' /\ Kept'
    BY <2>1, <2>2, SameBlocks DEF StorageTypes
  <2>4. VerifiedFirst'
    BY <2>1, <2>2 DEF VerifiedFirst
  <2> QED BY <2>2, <2>3, <2>4
<1>4. CASE verify_pieces
  <2>1. /\ reading' = [reading EXCEPT ![Verifier] = Idle] /\ Idle.pc = "idle"
        /\ reading[Verifier].pc # "idle"
        /\ verifying' \in {verifying + 1, NumPieces + 1} /\ have \subseteq have'
        /\ UNCHANGED <<disk, cache, dirty, offset, flushing, lost, stop>>
    BY <1>4 DEF verify_pieces, Idle
  <2>2. /\ reading' = [s \in Readers \cup {Verifier} |-> reading'[s]]
        /\ reading'[Verifier] = Idle /\ ReadsClean'
    BY Zenon, <2>1, ReadStep
  <2>3. verifying \in Pieces
    BY <2>1 DEF VerifiedFirst
  <2>4. verifying' \in Nat /\ dirty = {}
    BY <2>1, <2>3 DEF VerifiedFirst, Pieces, CacheAssumption
  <2>5. StorageTypes' /\ WrittenOnce' /\ DirtyIsNew' /\ Kept'
    BY <2>1, <2>2, <2>4, SameBlocks
  <2>6. VerifiedFirst'
    BY <2>1, <2>2, <2>4 DEF VerifiedFirst
  <2> QED BY <2>2, <2>5, <2>6
<1>5. ASSUME NEW r \in Readers \cup {Verifier}, async_read_from_file(r) PROVE CacheInv'
  <2>1. PICK x : /\ reading' = [reading EXCEPT ![r] = x] /\ x.pc \in {"failed", "read"}
                 /\ x.pc = "read" => x.key = reading[r].key /\ x.ask = reading[r].ask
    <3> DEFINE d == OnDisk(reading[r].key, reading[r].len)
               y == [pc |-> "read", key |-> reading[r].key, ask |-> reading[r].ask,
                     data |-> d]
               z == [pc |-> "failed"]
    <3>1. reading' = [reading EXCEPT ![r] = y] \/ reading' = [reading EXCEPT ![r] = z]
      BY Zenon, <1>5 DEF async_read_from_file
    <3> HIDE DEF d
    <3>2. y.pc = "read" /\ y.key = reading[r].key /\ y.ask = reading[r].ask /\ z.pc = "failed"
      OBVIOUS
    <3>3. "read" \in {"failed", "read"} /\ "failed" \in {"failed", "read"} /\ "failed" # "read"
      OBVIOUS
    <3> HIDE DEF y, z
    <3> QED BY Zenon, <3>1, <3>2, <3>3
  <2>2. /\ reading[r].pc = "queued"
        /\ UNCHANGED <<disk, cache, dirty, verifying, have, offset, flushing, lost, stop>>
    BY Zenon, <1>5 DEF async_read_from_file
  <2>3. /\ reading' = [s \in Readers \cup {Verifier} |-> reading'[s]]
        /\ reading'[r] = x /\ ReadsClean'
        /\ \A s \in Readers \cup {Verifier} : s # r => reading'[s] = reading[s]
    BY Zenon, <2>1, <2>2, ReadStep
  <2>4. StorageTypes' /\ WrittenOnce' /\ DirtyIsNew' /\ Kept'
    BY <2>2, <2>3, SameBlocks DEF StorageTypes
  <2>5. VerifiedFirst'
    BY <2>1, <2>2, <2>3 DEF VerifiedFirst
  <2> QED BY <2>3, <2>4, <2>5
<1> QED BY <1>1, <1>2, <1>3, <1>4, <1>5

(* The rest of read_block: what it puts in the cache takes the place of no dirty entry, or
   of one that is given up. *)
LEMMA ReadBackStep ==
    ASSUME CacheAssumption, CacheInv, NEW r \in Readers \cup {Verifier}, ReadBack(r)
    PROVE  CacheInv'
<1> USE DEF CacheInv
<1> DEFINE key == reading[r].key
           x == [reading[r] EXCEPT !.pc = "done"]
           displaced == IF reading[r].ask = "odd" THEN {key} \cap dirty ELSE {}
<1>1. /\ reading[r].pc = "read" /\ Insert(key, reading[r].data, 0, displaced)
      /\ dirty' = dirty \ (Victims \cup {key})
      /\ reading' = [reading EXCEPT ![r] = x]
      /\ UNCHANGED <<verifying, have, offset, flushing, stop>>
  BY DEF ReadBack, Populate
<1>2. key \in Keys
  BY <1>1 DEF ReadsClean
<1>20. reading[r].ask \in {"odd", "proper"}
  BY <1>1 DEF ReadsClean
<1>21. {key} \cap dirty \subseteq displaced
  BY <1>1, <1>20 DEF ReadsClean
<1> HIDE DEF key, displaced
<1>3. /\ disk' \in [Keys -> {"old", "new"}]
      /\ DOMAIN cache' \subseteq Keys
      /\ \A k \in dirty \ Victims : k \in DOMAIN cache' /\ (k # key => cache'[k] = cache[k])
      /\ lost \cup displaced \subseteq lost'
      /\ \A k \in Keys \ lost' :
            disk[k] = "new" \/ k \in dirty \cap Victims => disk'[k] = "new"
  BY Zenon, <1>1, <1>2, InsertKeeps
<1>4. /\ dirty' \subseteq dirty \ Victims
      /\ \A k \in dirty \ lost' : k \in dirty' \/ k \in Victims
  BY <1>1, <1>21, <1>3
<1>5. x.pc \notin {"queued", "read"} \/ x = reading[r]
  OBVIOUS
<1>6. x.pc \in {"queued", "read"} =>
         /\ reading[r].pc \in {"queued", "read"}
         /\ x.key = reading[r].key /\ x.ask = reading[r].ask
  BY <1>1, <1>5
<1> HIDE DEF x
<1>7. /\ reading' = [s \in Readers \cup {Verifier} |-> reading'[s]]
      /\ reading'[r] = x /\ ReadsClean'
      /\ \A s \in Readers \cup {Verifier} : s # r => reading'[s] = reading[s]
  BY Zenon, <1>1, <1>4, <1>6, ReadStep
<1>8. StorageTypes'
  BY <1>1, <1>3, <1>4, <1>7 DEF StorageTypes
<1>9. WrittenOnce' /\ DirtyIsNew'
  BY <1>1, <1>2, <1>3, <1>4 DEF WrittenOnce, DirtyIsNew
<1>10. VerifiedFirst'
  BY <1>1, <1>4, <1>7 DEF VerifiedFirst
<1>11. Kept'
  <2>1. \A k \in Keys \ lost' : k \in Keys \ lost
    BY <1>3
  <2>2. /\ \A k : InFlight(k)' = InFlight(k) /\ Written(k)' = Written(k)
        /\ stop' = stop
    BY <1>1 DEF Written, InFlight
  <2> QED BY <1>3, <1>4, <2>1, <2>2 DEF Kept
<1> QED BY <1>7, <1>8, <1>9, <1>10, <1>11

(* write_piece: the block it takes is dirty, and what it evicts is on disk. *)
LEMMA WriteStep ==
    ASSUME CacheAssumption, CacheInv, NEW p \in Pieces, write_piece(p)
    PROVE  CacheInv'
<1> USE DEF CacheInv
<1> DEFINE key == <<p, offset[p]>>
           old == IF key \in Victims THEN 0 ELSE SizeOf(key)
<1>1. /\ verifying = NumPieces /\ p \notin have
      /\ Insert(key, <<"new">>, old, {})
      /\ dirty' = (dirty \ Victims) \cup {key}
      /\ offset' = [offset EXCEPT ![p] = offset[p] + 1]
      /\ have' = IF offset[p] + 1 = BlocksPerPiece THEN have \cup {p} ELSE have
      /\ UNCHANGED <<verifying, reading, stop>>
  BY DEF write_piece
<1>2. flushing' = IF offset[p] + 1 = BlocksPerPiece /\ flushing[Periodic] = Idle
                  THEN [flushing EXCEPT ![Periodic] =
                           [pc |-> IF stop = "running" THEN "waiting" ELSE "over"]]
                  ELSE flushing
  BY DEF write_piece
<1>3. offset[p] \in 0 .. BlocksPerPiece - 1
  BY <1>1 DEF WrittenOnce, StorageTypes, CacheAssumption
<1>4. key \in Keys
  BY <1>3 DEF Keys
<1> HIDE DEF key, old
<1>5. /\ disk' \in [Keys -> {"old", "new"}]
      /\ DOMAIN cache' \subseteq Keys
      /\ key \in DOMAIN cache' /\ cache'[key] = <<"new">>
      /\ \A k \in dirty \ Victims : k \in DOMAIN cache' /\ (k # key => cache'[k] = cache[k])
      /\ lost \subseteq lost'
      /\ \A k \in Keys \ lost' :
            disk[k] = "new" \/ k \in dirty \cap Victims => disk'[k] = "new"
  BY <1>1, <1>4, InsertKeeps
<1>6. offset' \in [Pieces -> 0 .. BlocksPerPiece]
  BY <1>1, <1>3 DEF StorageTypes, CacheAssumption
<1>7. /\ flushing' \in [Flushers -> [pc : {"idle", "waiting", "over"}]
                                   \cup [pc : {"writing"}, todo : Copied]]
      /\ \A k \in Keys : InFlight(k) => InFlight(k)'
  <2>1. CASE flushing' = flushing
    BY <2>1 DEF StorageTypes, InFlight
  <2>2. CASE /\ flushing' = [flushing EXCEPT ![Periodic] =
                                 [pc |-> IF stop = "running" THEN "waiting" ELSE "over"]]
             /\ flushing[Periodic] = Idle
    <3>1. [pc |-> IF stop = "running" THEN "waiting" ELSE "over"]
             \in [pc : {"idle", "waiting", "over"}]
      OBVIOUS
    <3>2. flushing[Periodic].pc # "writing"
      BY <2>2 DEF Idle
    <3>3. Periodic \in Flushers /\ Completion \in Flushers
      BY DEF Flushers
    <3>4. \A f \in Flushers : flushing[f].pc = "writing" => flushing'[f] = flushing[f]
      BY <2>2, <3>2, <3>3 DEF StorageTypes
    <3> QED BY <2>2, <3>1, <3>3, <3>4 DEF StorageTypes, InFlight
  <2> QED BY <1>2, <2>1, <2>2
<1>8. StorageTypes'
  BY <1>1, <1>5, <1>6, <1>7 DEF StorageTypes
<1>9. WrittenOnce'
  BY <1>1, <1>3 DEF WrittenOnce, StorageTypes
<1>10. DirtyIsNew'
  BY <1>1, <1>5 DEF DirtyIsNew
<1>11. VerifiedFirst'
  BY <1>1 DEF VerifiedFirst
<1>12. ReadsClean'
  <2>1. key[1] = p
    BY DEF key
  <2> QED BY <1>1, <2>1 DEF ReadsClean
<1>13. Kept'
  <2> SUFFICES ASSUME stop = "running", NEW k \in Keys \ lost', Written(k)'
               PROVE  disk'[k] = "new" \/ k \in dirty' \/ InFlight(k)'
    BY <1>1 DEF Kept
  <2>1. CASE Written(k)
    BY <1>1, <1>5, <1>7, <2>1 DEF Kept
  <2>2. CASE ~Written(k)
    <3>1. k[1] \in Pieces /\ k[2] \in 0 .. BlocksPerPiece - 1 /\ k = <<k[1], k[2]>>
      BY DEF Keys
    <3>2. k[1] = p /\ k[2] = offset[p]
      BY <1>1, <1>3, <2>2, <3>1 DEF Written, StorageTypes, CacheAssumption
    <3>3. k = key
      BY <3>1, <3>2 DEF key
    <3> QED BY <1>1, <3>3
  <2> QED BY <2>1, <2>2
<1> QED BY <1>8, <1>9, <1>10, <1>11, <1>12, <1>13

(* What a flush leaves in its hands is still in flight. *)
LEMMA FlushersApart ==
    ASSUME StorageTypes, NEW f \in Flushers, NEW x,
           x \in [pc : {"idle", "waiting", "over"}] \cup [pc : {"writing"}, todo : Copied],
           flushing' = [flushing EXCEPT ![f] = x]
    PROVE  /\ flushing' \in [Flushers -> [pc : {"idle", "waiting", "over"}]
                                            \cup [pc : {"writing"}, todo : Copied]]
           /\ flushing'[f] = x
           /\ \A g \in Flushers : g # f => flushing'[g] = flushing[g]
BY DEF StorageTypes

(* The steps of the flushes and of stop() keep the invariant. *)
LEMMA FlushSteps ==
    ASSUME CacheInv,
           \/ periodic_flush \/ TimerCancelled \/ flush
           \/ \E f \in Flushers : async_write_to_file(f) \/ FlushOver(f)
           \/ signal_shutdown \/ sync_flush_all_dirty
    PROVE  CacheInv'
<1> USE DEF CacheInv
<1>1. ASSUME UNCHANGED <<verifying, have, offset, reading, cache>>, dirty' \subseteq dirty,
             StorageTypes'
      PROVE  WrittenOnce' /\ DirtyIsNew' /\ VerifiedFirst' /\ ReadsClean'
  BY Zenon, <1>1 DEF WrittenOnce, DirtyIsNew, VerifiedFirst, ReadsClean
<1>2. ASSUME NEW f \in Flushers, Begin(f), flushing[f].pc # "writing"
      PROVE  CacheInv'
  <2> DEFINE x == [pc |-> "writing", todo |-> Copies]
  <2>1. /\ flushing' = [flushing EXCEPT ![f] = x] /\ dirty' = {}
        /\ UNCHANGED <<disk, cache, verifying, have, offset, reading, lost, stop>>
    BY <1>2 DEF Begin, Cleared
  <2>2. dirty \cap DOMAIN cache = dirty
    BY DEF StorageTypes
  <2>3. Copies = [k \in dirty |-> cache[k][1]]
    BY <2>2 DEF Copies
  <2>4. \A k \in dirty : cache[k][1] = "new"
    BY DEF DirtyIsNew
  <2>5. Copies \in [dirty -> {"new"}] /\ dirty \in SUBSET Keys
    BY <2>3, <2>4 DEF StorageTypes
  <2>6. x \in [pc : {"writing"}, todo : Copied]
    BY <2>5 DEF Copied
  <2>7. x.pc = "writing" /\ DOMAIN x.todo = dirty
    BY <2>5
  <2> HIDE DEF x
  <2>8. /\ flushing' \in [Flushers -> [pc : {"idle", "waiting", "over"}]
                                         \cup [pc : {"writing"}, todo : Copied]]
        /\ flushing'[f] = x
        /\ \A g \in Flushers : g # f => flushing'[g] = flushing[g]
    BY Zenon, <2>1, <2>6, FlushersApart
  <2>9. StorageTypes'
    BY <2>1, <2>8 DEF StorageTypes
  <2>10. \A k \in Keys : InFlight(k) \/ k \in dirty => InFlight(k)'
    BY <1>2, <2>7, <2>8 DEF InFlight, Flushers
  <2>11. Kept'
    BY <2>1, <2>10 DEF Kept, Written
  <2> QED BY <1>1, <2>1, <2>9, <2>11
<1>3. CASE periodic_flush
  BY Zenon, <1>2, <1>3 DEF periodic_flush, Flushers
<1>4. CASE flush
  BY <1>2, <1>4 DEF flush, Flushers, Idle
<1>5. ASSUME NEW f \in Flushers, NEW x \in [pc : {"idle", "waiting", "over"}],
             flushing' = [flushing EXCEPT ![f] = x],
             \A k \in Keys : ~(flushing[f].pc = "writing" /\ k \in DOMAIN flushing[f].todo),
             UNCHANGED <<disk, cache, dirty, verifying, have, offset, reading, lost, stop>>
      PROVE  CacheInv'
  <2>1. /\ flushing' \in [Flushers -> [pc : {"idle", "waiting", "over"}]
                                         \cup [pc : {"writing"}, todo : Copied]]
        /\ \A g \in Flushers : g # f => flushing'[g] = flushing[g]
    BY Zenon, <1>5, FlushersApart
  <2>2. StorageTypes'
    BY <1>5, <2>1 DEF StorageTypes
  <2>3. \A k \in Keys : InFlight(k) => InFlight(k)'
    BY <1>5, <2>1 DEF InFlight, Flushers
  <2>4. Kept'
    BY Zenon, <1>5, <2>3 DEF Kept, Written
  <2> QED BY <1>1, <1>5, <2>2, <2>4
<1>6. CASE TimerCancelled
  <2>1. /\ Periodic \in Flushers /\ [pc |-> "over"] \in [pc : {"idle", "waiting", "over"}]
        /\ flushing[Periodic].pc # "writing"
    BY <1>6 DEF TimerCancelled, Flushers
  <2> QED BY Zenon, <1>5, <1>6, <2>1 DEF TimerCancelled
<1>7. ASSUME NEW f \in Flushers, FlushOver(f) PROVE CacheInv'
  <2>1. [pc |-> AfterFlush(f)] \in [pc : {"idle", "waiting", "over"}]
    BY DEF AfterFlush, Again
  <2> QED BY Zenon, <1>5, <1>7, <2>1 DEF FlushOver
<1>8. ASSUME NEW f \in Flushers, async_write_to_file(f) PROVE CacheInv'
  <2>1. PICK k \in DOMAIN flushing[f].todo :
          /\ \/ /\ disk' = IF stop # "running" THEN disk
                           ELSE [disk EXCEPT ![k] = flushing[f].todo[k]]
                /\ lost' = lost
             \/ disk' = disk /\ lost' = lost \cup {k}
          /\ flushing' = [flushing EXCEPT ![f].todo =
                 [y \in DOMAIN flushing[f].todo \ {k} |-> flushing[f].todo[y]]]
    BY Zenon, <1>8 DEF async_write_to_file
  <2>2. /\ flushing[f].pc = "writing"
        /\ UNCHANGED <<cache, dirty, verifying, have, offset, reading, stop>>
    BY Zenon, <1>8 DEF async_write_to_file
  <2>3. flushing[f] \in [pc : {"writing"}, todo : Copied]
    BY <2>2 DEF StorageTypes
  <2> DEFINE todo == flushing[f].todo
             rest == [y \in DOMAIN todo \ {k} |-> todo[y]]
             x == [flushing[f] EXCEPT !.todo = rest]
  <2>4. PICK S \in SUBSET Keys : todo \in [S -> {"new"}]
    BY <2>3 DEF Copied
  <2>5. k \in Keys /\ todo[k] = "new" /\ DOMAIN todo = S
    BY <2>1, <2>4
  <2>6. rest \in [S \ {k} -> {"new"}] /\ S \ {k} \in SUBSET Keys
    BY Zenon, <2>4, <2>5
  <2>7. rest \in Copied /\ DOMAIN rest = S \ {k}
    BY Zenon, <2>6 DEF Copied
  <2>8. x \in [pc : {"writing"}, todo : Copied] /\ x.todo = rest /\ x.pc = "writing"
    BY <2>3, <2>7
  <2>9. flushing' = [flushing EXCEPT ![f] = x]
    BY <2>1
  <2> HIDE DEF x, rest
  <2>10. /\ flushing' \in [Flushers -> [pc : {"idle", "waiting", "over"}]
                                         \cup [pc : {"writing"}, todo : Copied]]
         /\ flushing'[f] = x
         /\ \A g \in Flushers : g # f => flushing'[g] = flushing[g]
    BY Zenon, <2>8, <2>9, FlushersApart
  <2>11. /\ disk' \in [Keys -> {"old", "new"}]
         /\ \A y \in Keys : disk[y] = "new" => disk'[y] = "new"
         /\ stop = "running" /\ k \notin lost' => disk'[k] = "new"
         /\ lost \subseteq lost'
    BY <2>1, <2>5 DEF StorageTypes
  <2>12. StorageTypes'
    BY <2>2, <2>10, <2>11 DEF StorageTypes
  <2>13. \A y \in Keys : y # k /\ InFlight(y) => InFlight(y)'
    BY Zenon, <2>5, <2>7, <2>8, <2>10 DEF InFlight, Flushers
  <2>14. Kept'
    BY Zenon, <2>2, <2>11, <2>13 DEF Kept, Written
  <2> QED BY Zenon, <1>1, <2>2, <2>12, <2>14
<1>9. CASE signal_shutdown
  <2>1. /\ UNCHANGED <<disk, cache, dirty, verifying, have, offset, reading, flushing>>
        /\ stop' # "running"
    BY <1>9 DEF signal_shutdown
  <2>2. StorageTypes' /\ Kept'
    BY <2>1 DEF StorageTypes, Kept
  <2> QED BY <1>1, <2>1, <2>2
<1>10. CASE sync_flush_all_dirty
  <2> DEFINE W == dirty \cap DOMAIN cache
  <2>0. PICK F \in SUBSET W : WriteBack(W, F, {})
    BY Zenon, <1>10 DEF sync_flush_all_dirty, Refusals
  <2> DEFINE S == W \ F
  <2>1. /\ disk' = [k \in Keys |-> IF k \in S THEN cache[k][1] ELSE disk[k]] /\ dirty' = {}
        /\ UNCHANGED <<cache, verifying, have, offset, reading, flushing>>
        /\ stop' # "running"
    BY Zenon, <1>10, <2>0 DEF sync_flush_all_dirty, WriteBack, sync_write_block, Cleared
  <2>2. \A k \in S : cache[k][1] = "new"
    BY DEF DirtyIsNew
  <2> HIDE DEF S
  <2>3. disk' \in [Keys -> {"old", "new"}]
    BY <2>1, <2>2 DEF StorageTypes
  <2>4. StorageTypes' /\ Kept'
    BY Zenon, <2>1, <2>3 DEF StorageTypes, Kept
  <2> QED BY Zenon, <1>1, <2>1, <2>4
<1> QED BY <1>3, <1>4, <1>6, <1>7, <1>8, <1>9, <1>10

(* Until stop(), no block that write_piece has taken is lost but those the disk refuses and
   those whose dirty entry an odd read displaces, for any torrent, cache size, number of
   peers and lengths of their reads: no order of flushes, evictions and reads leaves it
   neither on disk nor dirty in the cache nor in the hands of a flush. *)
THEOREM WrittenBlocksSurvive ==
    ASSUME CacheAssumption
    PROVE  Spec => []WrittenSurvives
<1>1. Init => CacheInv
  BY InitCacheInv
<1>2. CacheInv /\ [Next]_vars => CacheInv'
  <2> SUFFICES ASSUME CacheInv, [Next]_vars PROVE CacheInv'
    OBVIOUS
  <2>1. CASE UNCHANGED vars
    <3>1. UNCHANGED <<disk, cache, dirty, verifying, have, offset, reading, flushing, lost,
                      stop>>
      BY <2>1 DEF vars
    <3> QED BY Zenon, <3>1 DEF CacheInv, StorageTypes, WrittenOnce, DirtyIsNew, VerifiedFirst,
                        ReadsClean, Kept, Written, InFlight
  <2>2. CASE Next
    <3>1. \/ \/ \E r \in Readers : on_block_request(r) \/ ReadOver(r)
             \/ verify_piece \/ verify_pieces
             \/ \E r \in Readers \cup {Verifier} : async_read_from_file(r)
          \/ \E r \in Readers \cup {Verifier} : ReadBack(r)
          \/ \E p \in Pieces : write_piece(p)
          \/ \/ periodic_flush \/ TimerCancelled \/ flush
             \/ \E f \in Flushers : async_write_to_file(f) \/ FlushOver(f)
             \/ signal_shutdown \/ sync_flush_all_dirty
      <4>1. \A r : ReadOver(r) => r \in Readers
        BY DEF ReadOver
      <4> QED BY <2>2, <4>1 DEF Next, Read, Flush, Flushers
    <3>2. CASE \E r \in Readers \cup {Verifier} : ReadBack(r)
      BY <3>2, ReadBackStep
    <3>3. CASE \E p \in Pieces : write_piece(p)
      BY <3>3, WriteStep
    <3> QED BY <3>1, <3>2, <3>3, ReadSteps, FlushSteps
  <2> QED BY <2>1, <2>2
<1>3. CacheInv => WrittenSurvives
  <2>1. <<"new">>[1] = "new"
    OBVIOUS
  <2> QED BY <2>1 DEF CacheInv, Kept, StorageTypes, DirtyIsNew, WrittenSurvives
<1> QED BY <1>1, <1>2, <1>3, PTL DEF Spec

--------------------------------------------------------------------------------
(* The resume file, over any number of runs of the process.  The pieces are those of
   the cache; onDisk are the pieces in the data files, marked those with status Have. *)

CONSTANTS MaxRuns, MaxSaves, MaxCrashes

VARIABLES
    proc, onDisk, cached, marked, completed, prog, hollow, endgame, file, temp, save, timed,
    cancelled, kept, runs, saves, crashes

Resume == INSTANCE ResumeFile WITH disk <- onDisk, have <- marked

(* What save_session_state can write. *)
Saved == {Resume!serialize(h, p) : h \in SUBSET Pieces, p \in SUBSET Pieces}

(* What a file on disk can hold: only a whole save is taken for one. *)
Content(f) == f.kind \in {"absent", "empty", "mixed"} \/ f \in Saved

SaveStates == [pc : {"idle", "failed", "done"}]
                \cup [pc : {"mtimes", "queued", "written"}, data : Saved]

ResumeTypes ==
    /\ onDisk \subseteq Pieces /\ cached \subseteq Pieces
    /\ marked \subseteq Pieces /\ prog \subseteq Pieces
    /\ Content(file) /\ Content(temp)
    /\ save \in [Resume!Savers -> SaveStates]

(* No save is under way while the process is down. *)
DownIsQuiet == proc = "down" => save = Resume!NoSave

(* What the data files held when the process ended stays there, and without a resume
   file to make the next run look, nothing is promised. *)
KeptOnDisk ==
    /\ proc \in {"down", "loaded"} => kept \subseteq onDisk
    /\ proc = "down" /\ file.kind # "saved" => kept = {}

ResumeInv == ResumeTypes /\ DownIsQuiet /\ KeptOnDisk /\ Resume!HaveIsReal
        /\ Resume!ProgressKept

(* A save is one of the contents a file can have. *)
LEMMA SavedKind ==
    ASSUME NEW d \in Saved
    PROVE  d.kind = "saved" /\ d.have \subseteq Pieces /\ d.prog \subseteq Pieces
BY DEF Saved, Resume!serialize

(* A file written over another is one of the two or a mix that does not decode. *)
LEMMA OverIsContent ==
    ASSUME NEW d \in Saved, NEW f
    PROVE  Content(Resume!Over(f, d))
BY Zenon, SavedKind DEF Resume!Over, Content

(* Nothing is saved and nothing is Have before the first run. *)
LEMMA InitResume == Resume!Init => ResumeInv
<1> SUFFICES ASSUME Resume!Init PROVE ResumeInv
  OBVIOUS
<1>1. Resume!NoSave \in [Resume!Savers -> SaveStates]
  BY DEF Resume!NoSave, SaveStates
<1>2. Content(Resume!Absent)
  BY DEF Content, Resume!Absent
<1> QED BY <1>1, <1>2 DEF Resume!Init, ResumeInv, ResumeTypes, DownIsQuiet, KeptOnDisk,
        Resume!HaveIsReal, Resume!ProgressKept, Resume!Running

(* init(), with verify_pieces and verify_seed_data. *)
LEMMA StartSteps ==
    ASSUME ResumeInv, Resume!init \/ Resume!verify_pieces \/ Resume!verify_seed_data
    PROVE  ResumeInv'
<1> USE DEF ResumeInv, ResumeTypes, DownIsQuiet, KeptOnDisk, Resume!HaveIsReal,
        Resume!ProgressKept, Resume!Running
<1>1. CASE Resume!init
  <2>1. /\ proc = "down"
        /\ UNCHANGED <<onDisk, file, temp, save, kept>>
    BY <1>1 DEF Resume!init, Resume!files
  <2>2. CASE file.kind \in {"absent", "empty"}
    BY Zenon, <1>1, <2>1, <2>2 DEF Resume!init, Resume!Fresh
  <2>3. CASE file.kind = "mixed"
    BY <1>1, <2>1, <2>3 DEF Resume!init, Resume!Fresh
  <2>4. CASE file \in Saved
    <3>1. file.kind = "saved" /\ file.have \subseteq Pieces /\ file.prog \subseteq Pieces
      BY Zenon, <2>4, SavedKind
    <3>2. Resume!load_session_state /\ proc' = "loaded"
      BY <1>1, <3>1 DEF Resume!init
    <3> QED BY Zenon, <2>1, <3>1, <3>2 DEF Resume!load_session_state
  <2> QED BY Zenon, <2>2, <2>3, <2>4 DEF Content
<1>2. CASE Resume!verify_pieces
  BY Zenon, <1>2 DEF Resume!verify_pieces, Resume!Found, Resume!Valid, Resume!files
<1>3. CASE Resume!verify_seed_data
  BY Zenon, <1>3 DEF Resume!verify_seed_data, Resume!files
<1> QED BY Zenon, <1>1, <1>2, <1>3

(* The download: a piece that becomes Have is in the cache, and the disk only gains. *)
LEMMA DownloadSteps ==
    ASSUME ResumeInv, NEW p \in Pieces,
            Resume!BlockArrives(p) \/ Resume!on_piece_block(p) \/ Resume!Flush(p)
    PROVE  ResumeInv'
<1> USE DEF ResumeInv, ResumeTypes, DownIsQuiet, KeptOnDisk, Resume!HaveIsReal,
        Resume!ProgressKept, Resume!Running
<1>1. CASE Resume!BlockArrives(p)
  BY Zenon, <1>1 DEF Resume!BlockArrives, Resume!files
<1>2. CASE Resume!on_piece_block(p)
  BY Zenon, <1>2 DEF Resume!on_piece_block, Resume!files
<1>3. CASE Resume!Flush(p)
  BY Zenon, <1>3 DEF Resume!Flush, Resume!files
<1> QED BY Zenon, <1>1, <1>2, <1>3

(* The steps of a save touch the two files only, and only while the process runs. *)
LEMMA SaveSteps ==
    ASSUME ResumeInv, Resume!periodically_save \/ Resume!stop
            \/ \E s \in Resume!Savers : Resume!SaveStep(s)
    PROVE  ResumeInv'
<1> USE DEF ResumeInv
<1>1. ASSUME NEW s \in Resume!Savers, Resume!Snapshot(s)
      PROVE  save' \in [Resume!Savers -> SaveStates]
  <2>1. Resume!serialize(marked, prog) \in Saved
    BY DEF ResumeTypes, Saved
  <2>2. [pc |-> "mtimes", data |-> Resume!serialize(marked, prog)] \in SaveStates
    BY Zenon, <2>1 DEF SaveStates
  <2> QED BY Zenon, <1>1, <2>2 DEF Resume!Snapshot, ResumeTypes
<1>2. CASE Resume!periodically_save
  <2>1. save' \in [Resume!Savers -> SaveStates]
    BY Zenon, <1>1, <1>2 DEF Resume!periodically_save, Resume!Savers
  <2>2. proc = "running" /\ UNCHANGED <<proc, onDisk, cached, marked, prog, file, temp, kept>>
    BY Zenon, <1>2 DEF Resume!periodically_save, Resume!state, Resume!files
  <2> QED BY Zenon, <2>1, <2>2 DEF ResumeTypes, DownIsQuiet, KeptOnDisk, Resume!HaveIsReal,
          Resume!ProgressKept, Resume!Running
<1>3. CASE Resume!stop
  <2>1. save' \in [Resume!Savers -> SaveStates]
    BY <1>1, <1>3 DEF Resume!stop, Resume!Savers
  <2>2. proc' = "stopping" /\ UNCHANGED <<onDisk, cached, marked, prog, file, temp, kept>>
    BY Zenon, <1>3 DEF Resume!stop, Resume!state, Resume!files
  <2> QED BY Zenon, <2>1, <2>2 DEF ResumeTypes, DownIsQuiet, KeptOnDisk, Resume!HaveIsReal,
          Resume!ProgressKept, Resume!Running
<1>4. ASSUME NEW s \in Resume!Savers, Resume!SaveStep(s) PROVE ResumeInv'
  <2>1. save[s].pc # "idle" /\ UNCHANGED <<proc, onDisk, cached, marked, prog, kept>>
    BY <1>4 DEF Resume!SaveStep, Resume!CreateTemp, Resume!async_write_to_file,
            Resume!rename, Resume!state
  <2>2. proc # "down"
    BY <2>1 DEF DownIsQuiet, Resume!NoSave
  <2>3. save[s] \in SaveStates
    BY DEF ResumeTypes
  <2>4. [pc |-> "failed"] \in SaveStates /\ [pc |-> "done"] \in SaveStates
        /\ [pc |-> "idle"] \in SaveStates
    BY DEF SaveStates
  <2>5. ASSUME save[s].pc \in {"mtimes", "queued", "written"}
        PROVE  /\ save[s].data \in Saved
               /\ [save[s] EXCEPT !.pc = "queued"] \in SaveStates
               /\ [save[s] EXCEPT !.pc = "written"] \in SaveStates
    BY <2>3, <2>5 DEF SaveStates
  <2>6. Content(Resume!Absent) /\ Content(Resume!Empty)
    BY DEF Content, Resume!Absent, Resume!Empty
  <2>7. CASE Resume!CreateTemp(s)
    <3>1. save' \in [Resume!Savers -> SaveStates]
      BY <2>4, <2>5, <2>7 DEF Resume!CreateTemp, ResumeTypes
    <3>2. Content(temp') /\ Content(file')
      BY <2>6, <2>7 DEF Resume!CreateTemp, ResumeTypes
    <3> QED BY Zenon, <2>1, <2>2, <3>1, <3>2 DEF ResumeTypes, DownIsQuiet, KeptOnDisk,
            Resume!HaveIsReal, Resume!ProgressKept, Resume!Running
  <2>8. CASE Resume!async_write_to_file(s)
    <3>1. save' \in [Resume!Savers -> SaveStates]
      BY <2>4, <2>5, <2>8 DEF Resume!async_write_to_file, ResumeTypes
    <3>2. Content(Resume!Over(temp, save[s].data))
      BY <2>5, <2>8, OverIsContent DEF Resume!async_write_to_file
    <3>3. Content(temp') /\ Content(file')
      BY <2>6, <2>8, <3>2 DEF Resume!async_write_to_file, ResumeTypes
    <3> QED BY Zenon, <2>1, <2>2, <3>1, <3>3 DEF ResumeTypes, DownIsQuiet, KeptOnDisk,
            Resume!HaveIsReal, Resume!ProgressKept, Resume!Running
  <2>9. CASE Resume!rename(s)
    <3>1. save' \in [Resume!Savers -> SaveStates]
      BY Zenon, <2>4, <2>9 DEF Resume!rename, ResumeTypes
    <3>2. Content(temp') /\ Content(file')
      BY Zenon, <2>6, <2>9 DEF Resume!rename, ResumeTypes, Resume!files
    <3> QED BY Zenon, <2>1, <2>2, <3>1, <3>2 DEF ResumeTypes, DownIsQuiet, KeptOnDisk,
            Resume!HaveIsReal, Resume!ProgressKept, Resume!Running
  <2> QED BY Zenon, <1>4, <2>7, <2>8, <2>9 DEF Resume!SaveStep
<1> QED BY Zenon, <1>2, <1>3, <1>4

(* The end of stop(), and the end of the process at any moment. *)
LEMMA EndSteps ==
    ASSUME ResumeInv, Resume!StopTimeout \/ Resume!StopOver \/ Resume!Exit
    PROVE  ResumeInv'
<1> USE DEF ResumeInv
<1>1. CASE Resume!StopTimeout
  BY Zenon, <1>1 DEF Resume!StopTimeout, Resume!state, Resume!files, ResumeTypes, DownIsQuiet,
          KeptOnDisk, Resume!HaveIsReal,
              Resume!ProgressKept, Resume!Running
<1>2. CASE Resume!StopOver
  BY Zenon, <1>2 DEF Resume!StopOver, Resume!files, ResumeTypes, DownIsQuiet, KeptOnDisk,
          Resume!HaveIsReal, Resume!ProgressKept, Resume!Running
<1>3. CASE Resume!Exit
  <2>1. /\ proc' = "down" /\ cached' = {} /\ marked' = {} /\ prog' = {}
          /\ save' = Resume!NoSave
        /\ kept' = IF file.kind = "saved" THEN onDisk ELSE {}
        /\ UNCHANGED <<onDisk, file>>
    BY Zenon, <1>3 DEF Resume!Exit, Resume!Fresh
  <2>2. Content(temp')
    <3>1. \A f, d : f \in Resume!CutShort(temp, d) => f = temp \/ f.kind = "mixed"
      BY DEF Resume!CutShort
    <3>2. temp' = temp \/ temp'.kind = "mixed"
      BY Zenon, <1>3, <3>1 DEF Resume!Exit
    <3> QED BY <3>2 DEF ResumeTypes, Content
  <2>3. Resume!NoSave \in [Resume!Savers -> SaveStates]
    BY DEF Resume!NoSave, SaveStates
  <2> QED BY Zenon, <2>1, <2>2, <2>3 DEF ResumeTypes, DownIsQuiet, KeptOnDisk, Resume!HaveIsReal,
                                  Resume!ProgressKept, Resume!Running
<1> QED BY <1>1, <1>2, <1>3

(* The invariant over all steps. *)
LEMMA ResumeIsKept == Resume!Spec => []ResumeInv
<1>1. Resume!Init => ResumeInv
  BY InitResume
<1>2. ResumeInv /\ [Resume!Next]_(Resume!vars) => ResumeInv'
  <2> SUFFICES ASSUME ResumeInv, [Resume!Next]_(Resume!vars) PROVE ResumeInv'
    OBVIOUS
  <2>1. CASE UNCHANGED Resume!vars
    BY Zenon, <2>1 DEF Resume!vars, ResumeInv, ResumeTypes, DownIsQuiet, KeptOnDisk,
            Resume!HaveIsReal, Resume!ProgressKept, Resume!Running
  <2>2. CASE Resume!Next
    <3>1. CASE \E p \in Pieces : Resume!BlockArrives(p) \/ Resume!on_piece_block(p)
            \/ Resume!Flush(p)
      BY <3>1, DownloadSteps
    <3> QED BY <2>2, <3>1, StartSteps, SaveSteps, EndSteps DEF Resume!Next
  <2> QED BY <2>1, <2>2
<1> QED BY <1>1, <1>2, PTL DEF Resume!Spec

(* Whatever was saved, and however the process before ended, verify_pieces leaves no piece
   Have whose data is neither in the data files nor in the cache of this process. *)
THEOREM HavesAreReal == Resume!Spec => []Resume!HaveIsReal
<1>1. ResumeInv => Resume!HaveIsReal
  BY DEF ResumeInv
<1> QED BY <1>1, ResumeIsKept, PTL

(* After a stop or a kill that leaves a resume file, the next run has every piece the
   data files held, including those flushed after the last save. *)
THEOREM ProgressIsKept == Resume!Spec => []Resume!ProgressKept
<1>1. ResumeInv => Resume!ProgressKept
  BY DEF ResumeInv
<1> QED BY <1>1, ResumeIsKept, PTL
-----------------------------------------------------------------------------
CONSTANTS Torrent, Modes, Skippable
VARIABLES mode, resume, dc_disk, skipped, dc_have, dc_completed, complete, dc_pc,
          dc_run, dc_stop

Done == INSTANCE Completion WITH Pieces <- Torrent, disk <- dc_disk, pc <- dc_pc,
                                 run <- dc_run, stop <- dc_stop, have <- dc_have,
                                 completed <- dc_completed

Places == {"idle", "written", "marked", "counted", "flushing", "closing", "done"}

(* The pieces that are Have and that add_completed_pieces has counted. *)
Counted == {p \in dc_have : dc_pc[p] # "marked"}

(* Where the handlers are tells which pieces are Have. *)
HandlersInv ==
  /\ dc_disk \subseteq Torrent /\ dc_have \subseteq Torrent /\ dc_pc \in [Torrent -> Places]
  /\ dc_run = "init" => dc_pc = [p \in Torrent |-> "idle"]
  /\ \A p \in Torrent : (dc_pc[p] = "written" => p \notin dc_have)
                      /\ (dc_pc[p] = "marked" => p \in dc_have)

(* The counter lags behind the statuses by the handlers between the two stores. *)
CountInv ==
  /\ HandlersInv
  /\ dc_completed = Cardinality(Counted)
  /\ Done!CompleteIsReal

(* The standard operators are the same wherever they are instantiated. *)
LEMMA DoneCounts ==
  ASSUME NEW S
  PROVE  Done!Cardinality(S) = Cardinality(S) /\ (Done!IsFiniteSet(S) <=> IsFiniteSet(S))
BY Zenon DEF Cardinality, Done!Cardinality, IsFiniteSet, Done!IsFiniteSet

(* A subset of the pieces with as many members as the torrent has pieces is all of them. *)
LEMMA FullCount ==
  ASSUME Done!CompletionAssumption, NEW S \in SUBSET Torrent, Cardinality(S) = Done!num_pieces
  PROVE  S = Torrent
<1>1. IsFiniteSet(Torrent) /\ Cardinality(S) = Cardinality(Torrent)
  BY Zenon, DoneCounts DEF Done!CompletionAssumption, Done!num_pieces
<1> QED BY Zenon, <1>1, FS_Subset

(* A handler moves on and its piece is Have or not as its place requires. *)
LEMMA GoesKeeps ==
  ASSUME HandlersInv, NEW p \in Torrent, NEW from, NEW to \in Places, Done!Goes(p, from, to),
         to = "written" => p \notin dc_have', to = "marked" => p \in dc_have',
         dc_have' \subseteq dc_have \cup {p}, dc_have \subseteq dc_have',
         dc_run' # "init", dc_disk' \subseteq Torrent
  PROVE  /\ HandlersInv'
         /\ dc_pc'[p] = to /\ dc_pc[p] = from
         /\ \A q \in Torrent : q # p => dc_pc'[q] = dc_pc[q]
BY DEF HandlersInv, Done!Goes

(* After init() the places differ from "idle" only once run() waits, or has ended. *)
LEMMA HandlersRun ==
  ASSUME HandlersInv, NEW p \in Torrent, NEW from, NEW to, Done!Goes(p, from, to), from # "idle"
  PROVE  dc_run # "init"
BY DEF HandlersInv, Done!Goes

(* For any torrent, whatever of it is on disk at the start and however the handlers of its
   last pieces and stop() interleave, the download is taken for complete only when every
   piece is Have: the counter never runs ahead of the statuses. *)
THEOREM CompletionIsReal ==
  ASSUME Done!CompletionAssumption
  PROVE  Done!Spec => []Done!CompleteIsReal
<1>0. IsFiniteSet(Torrent)
  BY Zenon, DoneCounts DEF Done!CompletionAssumption
<1>1. Done!Init => CountInv
  <2>1. Cardinality({}) = 0
    BY FS_EmptySet
  <2>2. ASSUME Done!Init PROVE dc_disk \subseteq Torrent
    BY <2>2 DEF Done!Init
  <2>3. ASSUME Done!Init PROVE Counted = {}
    BY <2>3 DEF Done!Init, Counted
  <2> QED BY Zenon, <2>1, <2>2, <2>3 DEF Done!Init, CountInv, HandlersInv, Done!CompleteIsReal, Places
<1>2. ASSUME CountInv, [Done!Next]_(Done!vars) PROVE CountInv'
  <2>1. ASSUME UNCHANGED <<dc_disk, dc_have, dc_completed, complete, dc_pc>>,
               dc_run' = "init" => dc_run = "init"
        PROVE  CountInv'
    BY <1>2, <2>1 DEF CountInv, HandlersInv, Counted, Done!CompleteIsReal
  <2>2. CASE Done!begin_stop \/ Done!end_stop \/ UNCHANGED Done!vars
    BY <2>1, <2>2 DEF Done!begin_stop, Done!end_stop, Done!vars
  <2>3. CASE Done!init
    <3>1. CASE mode = "Seed" /\ dc_disk # Torrent
      BY <2>1, <2>3, <3>1 DEF Done!init
    <3>2. CASE ~(mode = "Seed" /\ dc_disk # Torrent)
      <4>1. /\ dc_have' = Done!Verified /\ dc_completed' = Done!Recounted
            /\ complete' = (Done!Recounted = Done!num_pieces)
            /\ dc_run' \in {"ended", "waiting"} /\ dc_run = "init"
            /\ dc_disk' = dc_disk /\ dc_pc' = dc_pc
        BY <2>3, <3>2 DEF Done!init
      <4>2. dc_pc = [p \in Torrent |-> "idle"] /\ dc_disk \subseteq Torrent
        BY <1>2, <4>1 DEF CountInv, HandlersInv
      <4>3. Done!Verified \subseteq Torrent
        BY <4>2 DEF Done!Verified
      <4>4. Done!Recounted = Cardinality(Done!Verified)
        BY Zenon, DoneCounts DEF Done!Recounted
      <4>5. Counted' = Done!Verified
        BY <4>1, <4>2, <4>3 DEF Counted
      <4>6. complete' => Done!Verified = Torrent
        BY Zenon, <4>1, <4>3, <4>4, FullCount
      <4> QED BY <4>1, <4>2, <4>3, <4>4, <4>5, <4>6 DEF CountInv, HandlersInv, Done!CompleteIsReal, Places
    <3> QED BY <3>1, <3>2
  <2>4. ASSUME NEW p \in Torrent, Done!write_piece(p) PROVE CountInv'
    <3>1. /\ Done!Goes(p, "idle", "written") /\ p \notin dc_have /\ dc_disk' = dc_disk \cup {p}
          /\ UNCHANGED <<dc_have, dc_completed, complete, dc_run>> /\ dc_run # "init"
      BY <2>4 DEF Done!write_piece
    <3>2. dc_disk' \subseteq Torrent
      BY <1>2, <3>1 DEF CountInv, HandlersInv
    <3>3. HandlersInv' /\ Counted' = Counted
      BY <1>2, <3>1, <3>2, GoesKeeps DEF CountInv, HandlersInv, Counted, Places
    <3> QED BY <1>2, <3>1, <3>3 DEF CountInv, HandlersInv, Done!CompleteIsReal
  <2>5. ASSUME NEW p \in Torrent, Done!piece_status(p) PROVE CountInv'
    <3>1. /\ Done!Goes(p, "written", "marked") /\ dc_have' = dc_have \cup {p}
          /\ UNCHANGED <<dc_disk, dc_completed, complete, dc_run>>
      BY <2>5 DEF Done!piece_status
    <3>2. dc_run # "init" /\ p \notin dc_have
      <4>1. dc_run # "init"
        BY <1>2, <3>1, HandlersRun DEF CountInv
      <4>2. dc_pc[p] = "written"
        BY Zenon, <3>1 DEF Done!Goes
      <4> QED BY Zenon, <1>2, <4>1, <4>2 DEF CountInv, HandlersInv
    <3>3. dc_disk' \subseteq Torrent
      BY <1>2, <3>1 DEF CountInv, HandlersInv
    <3>4. HandlersInv' /\ Counted' = Counted
      BY <1>2, <3>1, <3>2, <3>3, GoesKeeps DEF CountInv, HandlersInv, Counted, Places
    <3> QED BY <1>2, <3>1, <3>2, <3>4 DEF CountInv, HandlersInv, Done!CompleteIsReal
  <2>6. ASSUME NEW p \in Torrent, Done!add_completed_pieces(p) PROVE CountInv'
    <3>1. /\ Done!Goes(p, "marked", "counted") /\ dc_completed' = dc_completed + 1
          /\ UNCHANGED <<dc_disk, dc_have, complete, dc_run>>
      BY <2>6 DEF Done!add_completed_pieces
    <3>2. dc_run # "init" /\ p \in dc_have /\ p \notin Counted
      <4>1. dc_run # "init"
        BY <1>2, <3>1, HandlersRun DEF CountInv
      <4> QED BY <1>2, <3>1, <4>1 DEF CountInv, HandlersInv, Done!Goes, Counted
    <3>3. dc_disk' \subseteq Torrent
      BY <1>2, <3>1 DEF CountInv, HandlersInv
    <3>4. HandlersInv' /\ Counted' = Counted \cup {p}
      BY <1>2, <3>1, <3>2, <3>3, GoesKeeps DEF CountInv, HandlersInv, Counted, Places
    <3>5. IsFiniteSet(Counted)
      BY <1>0, <1>2, FS_Subset DEF CountInv, HandlersInv, Counted
    <3>6. Cardinality(Counted \cup {p}) = Cardinality(Counted) + 1
      BY Zenon, <3>2, <3>5, FS_AddElement
    <3> QED BY <1>2, <3>1, <3>4, <3>6 DEF CountInv, HandlersInv, Done!CompleteIsReal
  <2>7. ASSUME NEW p \in Torrent, NEW from \in {"counted", "flushing", "closing"},
               NEW to \in {"flushing", "closing", "done"}, Done!Goes(p, from, to),
               complete' => complete \/ dc_completed = Done!num_pieces,
               UNCHANGED <<dc_disk, dc_have, dc_completed>>, dc_run' = "init" => dc_run = "init"
        PROVE  CountInv'
    <3>1. dc_run # "init"
      <4>1. from # "idle"
        OBVIOUS
      <4> QED BY <1>2, <2>7, <4>1, HandlersRun DEF CountInv
    <3>2. dc_disk' \subseteq Torrent
      BY <1>2, <2>7 DEF CountInv, HandlersInv
    <3>3. HandlersInv' /\ Counted' = Counted
      BY <1>2, <2>7, <3>1, <3>2, GoesKeeps DEF CountInv, HandlersInv, Counted, Places
    <3>4. Counted \subseteq dc_have /\ dc_have \subseteq Torrent
      BY <1>2 DEF CountInv, HandlersInv, Counted
    <3>5. dc_completed = Done!num_pieces => Counted = Torrent
      BY Zenon, <1>2, <3>4, FullCount DEF CountInv, HandlersInv
    <3> QED BY <1>2, <2>7, <3>3, <3>4, <3>5 DEF CountInv, HandlersInv, Done!CompleteIsReal
  <2>8. ASSUME NEW p \in Torrent, Done!last_piece(p) \/ Done!flush(p) \/ Done!close_all(p)
        PROVE  CountInv'
    BY <2>7, <2>8 DEF Done!last_piece, Done!flush, Done!close_all
  <2> QED BY <1>2, <2>2, <2>3, <2>4, <2>5, <2>6, <2>8 DEF Done!Next, Done!Handler
<1>3. CountInv => Done!CompleteIsReal
  BY DEF CountInv, HandlersInv
<1> QED BY <1>1, <1>2, <1>3, PTL DEF Done!Spec
-----------------------------------------------------------------------------
CONSTANTS Loops, EarlyStop, OtherThread
VARIABLES lf_run, lf_stop, shutting, lsd, lf_pc, late

Life == INSTANCE SessionLifecycle WITH run <- lf_run, stop <- lf_stop, pc <- lf_pc

(* The loops that test the flag between their body and their wait, or have no body
   before it. *)
Testing == Life!TestsBeforeWait \cup {"choke", "bans", "watchdog", "save", "accept", "lsdListen"}

Spots == {"off", "head", "work", "wait", "fired", "aborted", "ended"}

(* Once stop() has cancelled the timers nothing waits, and run() spawns nothing more. *)
DrainInv ==
  /\ lf_pc \in [Life!Slots -> Spots]
  /\ shutting => lf_run # "init" /\ ~lsd /\ \A l \in Life!Slots \ {"flush"} : lf_pc[l] # "wait"

(* For any set of loops that test shutting_down_ between their last suspension and their
   wait, on one I/O thread and with a stop() that comes after run() has spawned them, none
   waits on its timer once stop() has cancelled the timers. *)
THEOREM DrainIsNotStalled ==
  ASSUME ~EarlyStop, ~OtherThread, Loops \subseteq Testing \cup {"flush"}
  PROVE  Life!Spec => []Life!DrainNotStalled
<1>0. Life!Slots = Loops
  BY DEF Life!Slots, Testing, Life!TestsBeforeWait
<1>1. Life!Init => DrainInv
  BY <1>0 DEF Life!Init, DrainInv, Spots
<1>2. ASSUME DrainInv, [Life!Next]_(Life!vars) PROVE DrainInv'
  <2>1. ASSUME NEW l \in Life!Slots, NEW to \in Spots, to = "wait" => ~shutting \/ l = "flush",
               lf_pc' = Life!Goes(l, to), UNCHANGED <<lf_run, shutting, lsd>>
        PROVE  DrainInv'
    BY Zenon, <1>2, <2>1 DEF DrainInv, Life!Goes
  <2>2. ASSUME NEW l \in Life!Slots, lf_pc' = Life!Armed(l), ~shutting \/ l = "flush",
               UNCHANGED <<lf_run, shutting, lsd>>
        PROVE  DrainInv'
    BY <1>2, <2>2 DEF DrainInv, Life!Armed, Spots
  <2>3. ASSUME NEW l \in Life!Slots, Life!head(l) PROVE DrainInv'
    <3>1. CASE Life!HeadLeaves(l) \/ l \in Life!WorkFirst
      BY Zenon, <2>1, <2>3, <3>1 DEF Life!head, Spots
    <3>2. CASE ~Life!HeadLeaves(l) /\ l \notin Life!WorkFirst
      <4>1. ~shutting \/ l = "flush"
        BY <1>2, <3>2 DEF Life!HeadLeaves, Life!Flag, DrainInv
      <4> QED BY <2>2, <2>3, <3>2, <4>1 DEF Life!head
    <3> QED BY <3>1, <3>2
  <2>4. ASSUME NEW l \in Life!Slots, Life!body(l) PROVE DrainInv'
    <3>1. CASE l \notin Life!WorkFirst \/ Life!BodyLeaves(l)
      BY <2>1, <2>4, <3>1 DEF Life!body, Spots
    <3>2. CASE l \in Life!WorkFirst /\ ~Life!BodyLeaves(l)
      <4>1. l \in Life!TestsBeforeWait
        BY <1>0, <3>2 DEF Testing, Life!WorkFirst, Life!TimeoutLoops, Life!TestsBeforeWait
      <4>2. ~shutting
        BY <3>2, <4>1 DEF Life!BodyLeaves, Life!Flag, Life!TestsBeforeWait, Life!Lsd
      <4> QED BY <2>2, <2>4, <3>2, <4>2 DEF Life!body
    <3> QED BY <3>1, <3>2
  <2>5. ASSUME NEW l \in Life!Slots, Life!wait(l) PROVE DrainInv'
    BY <1>2, <2>5 DEF Spots, Life!wait, DrainInv
  <2>6. ASSUME NEW l \in Life!Slots, Life!fires(l) \/ Life!wakes(l) PROVE DrainInv'
    BY <2>1, <2>6 DEF Life!fires, Life!wakes, Spots
  <2>7. CASE Life!poke_choke_loop
    BY <2>1, <2>7 DEF Life!poke_choke_loop, Spots
  <2>8. CASE Life!restart_downloader
    BY <2>1, <2>8 DEF Life!restart_downloader, Spots
  <2>9. CASE Life!init_fails \/ Life!wait_completion \/ Life!Over \/ UNCHANGED Life!vars
    BY <1>2, <2>9 DEF Life!init_fails, Life!wait_completion, Life!Over, Life!vars, DrainInv
  <2>10. CASE Life!spawn_loops
    BY <1>2, <2>10 DEF Spots, Life!spawn_loops, DrainInv
  <2>11. CASE Life!raise_flag
    BY <1>2, <2>11 DEF Spots, Life!raise_flag, Life!Cancelled, DrainInv
  <2>12. CASE Life!close_all
    BY <1>2, <2>12 DEF Spots, Life!close_all, Life!Cancelled, DrainInv
  <2> QED BY Zenon, <1>2, <2>3, <2>4, <2>5, <2>6, <2>7, <2>8, <2>9, <2>10, <2>11, <2>12
          DEF Life!Next, Life!LoopStep
<1>3. DrainInv => Life!DrainNotStalled
  BY DEF DrainInv, Life!DrainNotStalled
<1> QED BY <1>1, <1>2, <1>3, PTL DEF Life!Spec
================================================================================
