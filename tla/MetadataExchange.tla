-------------------------- MODULE MetadataExchange --------------------------
(***************************************************************************)
(* How a session that was started from a magnet link fetches the info      *)
(* dictionary from its peers with ut_metadata messages, and serves it to   *)
(* them.  The dictionary comes in parts; the session counts the messages   *)
(* with a part and calls on_metadata_complete when there are enough.       *)
(***************************************************************************)
EXTENDS Integers, FiniteSets

CONSTANTS Peers,
          Parts,        \* the parts of the info dictionary, 1..n
          Corrupt,      \* peers whose copy of the dictionary is another one
          CorruptSize,  \* the parts of that one
          Ours,         \* peers that run this client
          Serving,      \* mode_ is Seed or Hybrid
          IoThreads,    \* threads that run the io_context
          MaxConnects,  \* bound on the connections
          MaxMessages   \* bound on the parts that are looked at

VARIABLES active,      \* metadata_download_active_
          loaded,      \* num_pieces_ > 0
          parsed,      \* torrent_info().pieces is not empty
          dict,        \* info_bencoded_, part by part
          hash,        \* info_hash_bytes_, as the dictionary it is the hash of
          sized,       \* metadata_buffer_init_flag_
          buffer,      \* metadata_buffer_, part by part; <<>> when it has no size
          received,    \* metadata_pieces_received_
          at,          \* where the handler of a part is
          part,        \* the part it handles
          verifying,   \* on_metadata_complete coroutines that wait for the files
          stopped,     \* shutting_down_
          up, ext,     \* connections, and those whose extended handshake has come
          size,        \* connections whose metadata_size is known
          requested,   \* metadata_requested_
          spawned,     \* request_metadata_from_peer coroutines that have not begun
          served,      \* what was sent to a peer: "right", "wrong", "hole" or "reject"
          connects, messages

vars == <<active, loaded, parsed, dict, hash, sized, buffer, received, at, part, verifying,
          stopped, up, ext, size, requested, spawned, served, connects, messages>>
info == <<loaded, parsed, dict, hash>>
download == <<active, sized, buffer, received, at, part, verifying, messages>>
conns == <<up, ext, size, requested, spawned, connects>>

MetadataAssumption == IsFiniteSet(Peers) /\ IoThreads \in Nat \ {0}

(* The dictionary of the magnet link. *)
Link == [k \in Parts |-> "right"]

(* total_size of the messages of p, in parts. *)
Total(p) == IF p \in Corrupt THEN CorruptSize ELSE Cardinality(Parts)

(* A thread is free for another handler. *)
FreeThread == Cardinality({p \in Peers : at[p] # "idle"}) < IoThreads

Init ==
  /\ active = TRUE /\ loaded = FALSE /\ parsed = FALSE /\ dict = <<>> /\ hash = Link
  /\ sized = FALSE /\ buffer = <<>> /\ received = 0 /\ verifying = 0 /\ stopped = FALSE
  /\ at = [p \in Peers |-> "idle"] /\ part = [p \in Peers |-> 1] /\ messages = 0
  /\ up = {} /\ ext = {} /\ size = {} /\ requested = {} /\ spawned = {}
  /\ served = {} /\ connects = 0

-----------------------------------------------------------------------------
(* A connection, with a PeerConnection of its own. *)
Connect(p) ==
  /\ p \notin up /\ p \notin spawned /\ ~stopped /\ connects < MaxConnects /\ FreeThread
  /\ up' = up \cup {p} /\ connects' = connects + 1
  /\ ext' = ext \ {p} /\ size' = size \ {p} /\ requested' = requested \ {p}
  /\ UNCHANGED <<info, download, stopped, spawned, served>>

Disconnect(p) ==
  /\ p \in up /\ at[p] = "idle" /\ FreeThread
  /\ up' = up \ {p}
  /\ UNCHANGED <<info, download, stopped, ext, size, requested, spawned, served, connects>>

(* The handshake perform_handshake sends names ut_metadata and not metadata_size, which the
   other clients' do. *)
NamesSize(p) == p \notin Ours

(* on_extended_message with an extended handshake. *)
ExtHandshake(p) ==
  /\ p \in up /\ at[p] = "idle" /\ FreeThread
  /\ ext' = ext \cup {p}
  /\ size' = IF NamesSize(p) THEN size \cup {p} ELSE size
  /\ spawned' = IF NamesSize(p) /\ active /\ ~parsed THEN spawned \cup {p} ELSE spawned
  /\ UNCHANGED <<info, download, stopped, up, requested, served, connects>>

Holes(n) == [k \in 1..n |-> "hole"]

(* request_metadata_from_peer.  The first to know a size gives the buffer its own. *)
Request(p) ==
  /\ p \in spawned /\ spawned' = spawned \ {p} /\ FreeThread
  /\ IF loaded \/ p \in requested
     THEN UNCHANGED <<requested, sized, buffer, received>>
     ELSE /\ requested' = requested \cup {p} /\ sized' = TRUE
          /\ IF sized
             THEN UNCHANGED <<buffer, received>>
             ELSE buffer' = Holes(Total(p)) /\ received' = 0
  /\ UNCHANGED <<info, active, at, part, verifying, messages, stopped, up, ext, size, served,
                 connects>>

(* metadata_retry_loop, once in 30 seconds. *)
RetryTick ==
  /\ ~stopped /\ ~parsed /\ FreeThread
  /\ spawned' = spawned \cup {p \in up : p \in ext \cap size /\ p \notin requested}
  /\ UNCHANGED <<info, download, stopped, up, ext, size, requested, served, connects>>

(* stop() ends the retry loop. *)
Stop ==
  /\ ~stopped /\ stopped' = TRUE /\ FreeThread
  /\ UNCHANGED <<info, download, conns, served>>

-----------------------------------------------------------------------------
(* on_extended_message with part k from p, asked for or not: metadata_download_active_ is
   tested ... *)
Data(p, k) ==
  /\ p \in up /\ at[p] = "idle" /\ FreeThread /\ active /\ messages < MaxMessages
  /\ at' = [at EXCEPT ![p] = "copy"] /\ part' = [part EXCEPT ![p] = k]
  /\ messages' = messages + 1
  /\ UNCHANGED <<info, active, sized, buffer, received, verifying, stopped, conns, served>>

(* ... the part is copied if the buffer has the room, and the messages are counted, against
   the number of parts that this peer names. *)
Copy(p) ==
  LET b == IF sized THEN buffer ELSE Holes(Total(p))
      k == part[p]
  IN /\ at[p] = "copy" /\ sized' = TRUE
     /\ IF k \in DOMAIN b
        THEN /\ buffer' = [b EXCEPT ![k] = IF p \in Corrupt THEN "wrong" ELSE "right"]
             /\ received' = received + 1
             /\ at' = [at EXCEPT ![p] = IF received + 1 >= Total(p) THEN "load" ELSE "idle"]
        ELSE /\ buffer' = b /\ at' = [at EXCEPT ![p] = "idle"]
             /\ UNCHANGED received
     /\ UNCHANGED <<info, active, part, verifying, messages, stopped, conns, served>>

(* load_metadata compares the hash of what it loads with the one that was there before. *)
HashMatches(b) == b = hash

(* on_metadata_complete with load_metadata, up to the wait for the files.  The dictionary and
   its hash are replaced before the hash is compared; a buffer that is not the dictionary of
   the link need not decode, or not have the entries of one. *)
Load(p) ==
  /\ at[p] = "load"
  /\ \/ /\ buffer # Link
        /\ at' = [at EXCEPT ![p] = "failed"] /\ UNCHANGED <<info, verifying>>
     \/ /\ buffer \notin {<<>>, Link}
        /\ dict' = buffer /\ hash' = buffer /\ parsed' \in BOOLEAN
        /\ at' = [at EXCEPT ![p] = "failed"] /\ UNCHANGED <<loaded, verifying>>
     \/ /\ buffer # <<>>
        /\ dict' = buffer /\ hash' = buffer /\ parsed' = TRUE
        /\ IF HashMatches(buffer)
           THEN /\ loaded' = TRUE /\ verifying' = verifying + 1
                /\ at' = [at EXCEPT ![p] = "idle"]
           ELSE /\ at' = [at EXCEPT ![p] = "failed"] /\ UNCHANGED <<loaded, verifying>>
  /\ UNCHANGED <<active, sized, buffer, received, part, messages, stopped, conns, served>>

(* A form of Reset that leaves the download as it is. *)
KeepDownload == UNCHANGED <<active, buffer, received>>

(* The end of on_metadata_complete, in both branches. *)
Reset ==
  /\ active' = FALSE /\ buffer' = <<>> /\ received' = 0

(* The exception is caught ... *)
LoadFails(p) ==
  /\ at[p] = "failed" /\ at' = [at EXCEPT ![p] = "idle"]
  /\ Reset
  /\ UNCHANGED <<info, sized, part, verifying, messages, stopped, conns, served>>

(* ... or the files are there, and the rest of on_metadata_complete runs ... *)
Verified ==
  /\ verifying > 0 /\ verifying' = verifying - 1 /\ FreeThread
  /\ Reset
  /\ UNCHANGED <<info, sized, at, part, messages, stopped, conns, served>>

(* ... or they cannot be preallocated, and it returns. *)
PreallocateFails ==
  /\ verifying > 0 /\ verifying' = verifying - 1 /\ FreeThread
  /\ UNCHANGED <<info, active, sized, buffer, received, at, part, messages, stopped, conns,
                 served>>

(* on_extended_message with a peer's request for part k, which may be out of range. *)
Serve(p, k) ==
  /\ p \in up /\ at[p] = "idle" /\ FreeThread /\ Serving /\ dict # <<>>
  /\ served' = served \cup {IF k \in DOMAIN dict THEN dict[k] ELSE "reject"}
  /\ UNCHANGED <<info, download, conns, stopped>>

Next ==
  \/ \E p \in Peers :
       \/ Connect(p) \/ Disconnect(p) \/ ExtHandshake(p) \/ Request(p)
       \/ \E k \in 1..Total(p) : Data(p, k)
       \/ Copy(p) \/ Load(p) \/ LoadFails(p)
       \/ \E k \in 1..(Cardinality(Parts) + 1) : Serve(p, k)
  \/ RetryTick \/ Stop \/ Verified \/ PreallocateFails

Spec == Init /\ [][Next]_vars

-----------------------------------------------------------------------------
(* A session does not take another torrent for its own: the metadata it starts with are
   those of the link's info hash, whatever the peers sent and in whatever order.
   load_metadata overwrites the hash it compares with, so this rests on a failed load being
   the last.  (A part that arrives while the files are prepared is outside this statement:
   load_metadata then runs again, on a buffer that part was copied into.) *)
StartIsAuthentic == ~loaded /\ loaded' => dict' = Link /\ hash' = Link
=============================================================================
