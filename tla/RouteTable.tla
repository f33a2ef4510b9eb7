----------------------------- MODULE RouteTable -----------------------------
(***************************************************************************)
(* The routing table of DHTNode: buckets by the length of the prefix a     *)
(* node id shares with ours, each a list of at most K nodes in the order   *)
(* of their use, and the file they are saved to every ten minutes and at   *)
(* stop().  The file is truncated and then written, so a process that      *)
(* dies in between leaves it without contents.  Ids have Bits bits.        *)
(***************************************************************************)
EXTENDS Integers, Sequences, FiniteSets, SequencesExt, Bitwise

CONSTANTS Bits,   \* 160 in the code
          K,      \* size of a bucket
          Nodes,  \* ids of the nodes that are heard of
          MyIds   \* ids that generate_id may return

VARIABLES me, buckets,
          file,    \* absent, torn, or whole with what was saved
          saving,  \* the snapshot a save has taken, {} when there is no save
          phase    \* up, stopping, down

vars == <<me, buckets, file, saving, phase>>

distance(a, b) == a ^^ b

(* The number of leading bits that two ids share; the last bucket for the *)
(* same id. *)
get_bucket_index(a, b) ==
  IF a = b THEN Bits - 1
  ELSE CHOOSE i \in 0..(Bits - 1) : /\ 2^(Bits - 1 - i) <= distance(a, b)
                                    /\ distance(a, b) < 2^(Bits - i)

Entry(n, s) == [id |-> n, status |-> s]
Has(bucket, n) == \E i \in 1..Len(bucket) : bucket[i].id = n
Without(bucket, n) == SelectSeq(bucket, LAMBDA e : e.id # n)
Ids(bucket) == {bucket[i].id : i \in 1..Len(bucket)}
all_entries(bs) ==
  FlattenSeq([b \in 1..Bits |-> [i \in 1..Len(bs[b - 1]) |-> bs[b - 1][i].id]])
Known(bs) == UNION {Ids(bs[i]) : i \in 0..(Bits - 1)}

(* KBucket::add: a node that is there moves to the back, a new one takes  *)
(* free room or the place of the first bad node, or is turned away. *)
add(bucket, e) ==
  IF Has(bucket, e.id) THEN Append(Without(bucket, e.id), e)
  ELSE IF Len(bucket) < K THEN Append(bucket, e)
  ELSE LET i == SelectInSeq(bucket, LAMBDA x : x.status = "Bad")
       IN IF i = 0 THEN bucket ELSE Append(RemoveAt(bucket, i), e)

insert(bs, my, e) ==
  IF e.id = my THEN bs
  ELSE [bs EXCEPT ![get_bucket_index(my, e.id)] = add(@, e)]

(* Only a good status moves the node to the back. *)
update_status(bs, my, n, s) ==
  LET i == get_bucket_index(my, n)
      b == bs[i]
  IN IF n = my \/ ~Has(b, n) THEN bs
     ELSE [bs EXCEPT ![i] = IF s = "Good" THEN Append(Without(b, n), Entry(n, s))
                            ELSE [j \in 1..Len(b) |-> IF b[j].id = n THEN Entry(n, s) ELSE b[j]]]

(* A form of Enough that stops the search when there are k nodes. *)
EnoughFound(found, k, left, right) == found >= k

(* The search leaves off when it has k nodes and no bucket is left on     *)
(* either side. *)
Enough(found, k, left, right) == found >= k /\ left < 0 /\ right >= Bits

(* find_closest_nodes: from the bucket of the target outwards, one bucket *)
(* to each side at a time, then the k nearest of what was collected. *)
find_closest_nodes(target, k) ==
  LET at == get_bucket_index(me, target)
      within[i \in 0..(Bits - 1)] ==
        UNION {Ids(buckets[b]) : b \in {c \in 0..(Bits - 1) : at - i <= c /\ c <= at + i}}
      ends == {i \in 1..(Bits - 1) : Enough(Cardinality(within[i]), k, at - i, at + i)}
      last == IF ends = {} THEN Bits - 1 ELSE CHOOSE i \in ends : \A j \in ends : i <= j
      found == SetToSortSeq(within[last],
                            LAMBDA a, b : distance(a, target) < distance(b, target))
  IN SubSeq(found, 1, IF Len(found) > k THEN k ELSE Len(found))

Contents(is, id, nodes) == [is |-> is, id |-> id, nodes |-> nodes]

Empty == [i \in 0..(Bits - 1) |-> <<>>]

Init ==
  /\ me \in MyIds /\ buckets = Empty
  /\ file = Contents("absent", 0, <<>>) /\ saving = {} /\ phase = "up"

(* A node has answered a query of ours, or has sent us one. *)
Heard(n) ==
  /\ phase # "down"
  /\ buckets' = insert(buckets, me, Entry(n, "Good"))
  /\ UNCHANGED <<me, file, saving, phase>>

(* A query to a node has timed out or failed. *)
Silent(n) ==
  /\ phase # "down" /\ n \in Known(buckets)
  /\ buckets' = update_status(buckets, me, n, "Bad")
  /\ UNCHANGED <<me, file, saving, phase>>

(* save_persisted_state, one at a time under persist_mutex_: the entries   *)
(* are copied and the file is opened, and so truncated. *)
OpenForSave ==
  /\ phase # "down" /\ saving = {}
  /\ saving' = {Contents("whole", me, all_entries(buckets))}
  /\ file' = Contents("torn", 0, <<>>)
  /\ UNCHANGED <<me, buckets, phase>>

(* The contents are written.  stop() ends with a save. *)
WriteSave ==
  /\ saving # {} /\ phase # "down"
  /\ file' = CHOOSE s \in saving : TRUE
  /\ saving' = {}
  /\ phase' = IF phase = "stopping" THEN "down" ELSE phase
  /\ UNCHANGED <<me, buckets>>

(* stop() has the mutex of the save, after one that was under way. *)
Stop ==
  /\ phase = "up" /\ saving = {}
  /\ phase' = "stopping"
  /\ UNCHANGED <<me, buckets, file, saving>>

Crash ==
  /\ phase # "down"
  /\ phase' = "down" /\ saving' = {}
  /\ UNCHANGED <<me, buckets, file>>

Whole(f) == f.is = "whole"

(* The id of the file if it can be read, or a new one. *)
load_or_generate_node_id == IF Whole(file) THEN {file.id} ELSE MyIds

(* load_persisted_state inserts the nodes of the file one by one, as good. *)
load_persisted_state(my) ==
  IF ~Whole(file) THEN Empty
  ELSE FoldLeft(LAMBDA bs, n : insert(bs, my, Entry(n, "Good")), Empty, file.nodes)

Restart ==
  /\ phase = "down"
  /\ \E id \in load_or_generate_node_id :
        me' = id /\ buckets' = load_persisted_state(id)
  /\ phase' = "up"
  /\ UNCHANGED <<file, saving>>

Next ==
  \/ \E n \in Nodes : Heard(n) \/ Silent(n)
  \/ OpenForSave \/ WriteSave \/ Stop \/ Crash \/ Restart

Spec == Init /\ [][Next]_vars

(* find_closest_nodes returns the K nodes of the whole table that are     *)
(* nearest to the target, nearest first, for every target. *)
FindsClosest ==
  \A target \in 0..(2^Bits - 1) :
    LET got == find_closest_nodes(target, K)
        all == Known(buckets)
        nearer(n) == {m \in all : distance(m, target) < distance(n, target)}
    IN /\ ToSet(got) = {n \in all : Cardinality(nearer(n)) < K}
       /\ \A i \in 1..Len(got) : Cardinality(nearer(got[i])) = i - 1
=============================================================================
