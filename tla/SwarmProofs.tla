--------------------------------- MODULE SwarmProofs ---------------------------------
(***************************************************************************)
(* A session and its peers: the table of connections and its limits        *)
(* (ConnectionTable), the metadata that they send to a magnet link         *)
(* (MetadataExchange), and the account of who has which piece              *)
(* (PieceInventory).  For any connections, addresses, limits, peers and    *)
(* parts and, unless said otherwise, any number of threads.                *)
(***************************************************************************)
EXTENDS ConnectionTable, FiniteSetTheorems, WellFoundedInduction, TLAPS

Places == {"idle", "spawned", "wait", "connect", "create", "done", "take", "quiet", "undo",
           "fail", "dup", "check", "other", "add", "locked", "drop", "insert"}

(* The types that the proofs need. *)
TypeOK ==
  /\ pc \in [Conns -> Places]
  /\ half \in 0..(Wrap - 1)
  /\ table \in [Ids -> Conns \cup {None}]

(* The helpers that end an attempt move its coroutine and nothing else of these. *)
LEMMA EndedType ==
  ASSUME pc \in [Conns -> Places], NEW c \in Conns, NEW why \in {"quiet", "undo", "fail", "dup"},
         Ended(c, why) \/ GiveBack(c, why)
  PROVE  pc' \in [Conns -> Places]
BY DEF Ended, GiveBack, Goto, Places

(* Outside the coroutines that set a connection up, only the start of one moves any. *)
LEMMA ElsewhereMoves ==
  ASSUME Elsewhere
  PROVE  /\ half' = half
         /\ pc' = pc \/ \E c \in Conns, to \in {"spawned", "create"} : pc' = [pc EXCEPT ![c] = to]
<1>1. CASE \E c \in Conns : Discover(c) \/ Accept(c) \/ PeerLeaves(c) \/ BackoffExpires(c)
  BY <1>1 DEF Discover, Accept, PeerLeaves, BackoffExpires, Goto
<1>2. CASE \E c \in Conns, l \in Loops : LoopEnds(c, l) \/ Remove(c, l)
  BY <1>2 DEF LoopEnds, Remove
<1>3. CASE \E c \in Conns, k \in Kinds : Misbehaves(c, k)
  BY <1>3 DEF Misbehaves
<1>4. CASE \E ip \in Ips : Ban(ip) \/ Sweep(ip) \/ BanExpires(ip)
  BY <1>4 DEF Ban, Sweep, BanExpires
<1>5. CASE StopFlag \/ CloseAll \/ RemoveAll
  BY <1>5 DEF StopFlag, CloseAll, RemoveAll
<1> QED BY <1>1, <1>2, <1>3, <1>4, <1>5 DEF Elsewhere

(* Every step keeps the types. *)
LEMMA TypeStep ==
  ASSUME ConnAssumption, TypeOK, [Next]_vars
  PROVE  TypeOK'
<1> USE DEF ConnAssumption
<1>0. half \in Int /\ Wrap \in Nat /\ Wrap > 0 /\ pc \in [Conns -> Places]
      /\ table \in [Ids -> Conns \cup {None}] /\ half \in 0..(Wrap - 1)
  BY DEF TypeOK
<1>1. ASSUME NEW c \in Conns, Coroutine(c) PROVE TypeOK'
  <2>1. CASE StartConnect(c) \/ SlotFree(c) \/ GiveUpSlot(c) \/ Connected(c)
             \/ CreateDone(c) \/ CloseOther(c) \/ AddUnlocked(c) \/ AddLocked(c)
    BY <1>0, <2>1 DEF TypeOK, StartConnect, SlotFree, GiveUpSlot, Connected, CreateDone,
                      CloseOther, AddUnlocked, AddLocked, Goto, Places
  <2>2. CASE TakeSlot(c) \/ AddDrops(c)
    <3>1. half' \in 0..(Wrap - 1)
      BY <1>0, <2>2 DEF TakeSlot, AddDrops
    <3>2. pc' \in [Conns -> Places] /\ table' = table
      BY <1>0, <2>2 DEF TakeSlot, AddDrops, Goto, Places
    <3> QED BY <1>0, <3>1, <3>2 DEF TypeOK
  <2>3. CASE ReleaseSlot(c)
    <3>1. half' \in 0..(Wrap - 1) /\ table' = table
      BY <1>0, <2>3 DEF ReleaseSlot
    <3>2. pc' \in [Conns -> Places]
      BY <1>0, <2>3, EndedType DEF ReleaseSlot
    <3> QED BY <1>0, <3>1, <3>2 DEF TypeOK
  <2>4. CASE ConnectFails(c) \/ CreateFails(c)
    <3>1. half' = half /\ table' = table
      BY <2>4 DEF ConnectFails, CreateFails
    <3>2. pc' \in [Conns -> Places]
      BY <1>0, <2>4, EndedType DEF ConnectFails, CreateFails
    <3> QED BY <1>0, <3>1, <3>2 DEF TypeOK
  <2>5. CASE CheckDuplicate(c)
    <3>1. half' = half /\ table' = table
      BY <2>5 DEF CheckDuplicate
    <3>2. pc' \in [Conns -> Places]
      BY <1>0, <2>5, EndedType DEF CheckDuplicate, Goto, Places
    <3> QED BY <1>0, <3>1, <3>2 DEF TypeOK
  <2>6. CASE Insert(c)
    <3>1. half' = half /\ pc' \in [Conns -> Places]
      BY <1>0, <2>6 DEF Insert, Goto, Places
    <3>2. table' \in [Ids -> Conns \cup {None}]
      BY Zenon, <1>0, <2>6 DEF Insert
    <3> QED BY <1>0, <3>1, <3>2 DEF TypeOK
  <2> QED BY <1>1, <2>1, <2>2, <2>3, <2>4, <2>5, <2>6 DEF Coroutine
<1>2. CASE Elsewhere
  <2>1. half' = half
    BY <1>2, ElsewhereMoves
  <2>2. pc' \in [Conns -> Places]
    BY <1>0, <1>2, ElsewhereMoves DEF Places
  <2>3. table' \in [Ids -> Conns \cup {None}]
    BY <1>0, <1>2 DEF Elsewhere, Discover, Accept, PeerLeaves, BackoffExpires, LoopEnds, Remove,
                Misbehaves, Ban, Sweep, BanExpires, StopFlag, CloseAll, RemoveAll
  <2> QED BY <1>0, <2>1, <2>2, <2>3 DEF TypeOK
<1>3. CASE UNCHANGED vars
  BY <1>0, <1>3 DEF TypeOK, vars
<1> QED BY <1>1, <1>2, <1>3 DEF Next

-----------------------------------------------------------------------------
(* The table *)

(* The connections of the table are finitely many. *)
LEMMA ListedFinite ==
  ASSUME ConnAssumption, TypeOK
  PROVE  Listed \subseteq Conns /\ IsFiniteSet(Listed)
<1>1. Listed \subseteq Conns
  BY DEF Listed, TypeOK
<1> QED BY <1>1, FS_Subset DEF ConnAssumption

(* Only add_connection puts a connection into the table: every other step leaves the
   table with connections that were in it. *)
LEMMA OnlyInsertAdds ==
  ASSUME ConnAssumption, TypeOK, [Next]_vars
  PROVE  Listed' \subseteq Listed \/ \E c \in Conns : Insert(c) /\ ~Refused(c)
<1>1. ASSUME NEW c \in Conns, Coroutine(c), ~Insert(c) PROVE table' = table
  BY <1>1 DEF Coroutine, StartConnect, SlotFree, GiveUpSlot, TakeSlot, Connected, ConnectFails,
              ReleaseSlot, CreateFails, CreateDone, CheckDuplicate, CloseOther, AddUnlocked,
              AddLocked, AddDrops
<1>2. ASSUME NEW c \in Conns, Insert(c), Refused(c) PROVE table' = table
  BY <1>2 DEF Insert
<1>3. ASSUME Elsewhere PROVE \A i \in Ids : table'[i] \in {table[i], None}
  <2>1. CASE \E c \in Conns, l \in Loops : Remove(c, l)
    BY <2>1 DEF Remove, TypeOK
  <2>2. CASE \E ip \in Ips : Sweep(ip)
    BY <2>2 DEF Sweep, TypeOK
  <2>3. CASE RemoveAll
    BY <2>3 DEF RemoveAll
  <2>4. CASE table' = table
    BY <2>4
  <2> QED BY <1>3, <2>1, <2>2, <2>3, <2>4
             DEF Elsewhere, Discover, Accept, PeerLeaves, BackoffExpires, LoopEnds, Misbehaves,
                 Ban, BanExpires, StopFlag, CloseAll
<1>4. ASSUME \A i \in Ids : table'[i] \in {table[i], None} PROVE Listed' \subseteq Listed
  BY <1>4 DEF Listed
<1>5. CASE table' = table
  BY <1>5 DEF Listed
<1>6. CASE UNCHANGED vars
  BY <1>5, <1>6 DEF vars
<1> QED BY <1>1, <1>2, <1>3, <1>4, <1>5, <1>6 DEF Next

(* add_connection adds the connection in the place of the one it evicts, if any. *)
LEMMA InsertAdds ==
  ASSUME ConnAssumption, TypeOK, NEW c \in Conns, Insert(c), ~Refused(c)
  PROVE  \E w \in Evicted : Listed' \subseteq (Listed \ {w}) \cup {c}
<1>1. PICK w \in Evicted :
        table' = [[i \in Ids |-> IF table[i] = w THEN None ELSE table[i]] EXCEPT ![IdOf[c]] = c]
  BY DEF Insert
<1>2. \A i \in Ids : table'[i] = c \/ table'[i] = None \/ (table'[i] = table[i] /\ table[i] # w)
  BY <1>1
<1>3. Listed' \subseteq (Listed \ {w}) \cup {c}
  BY <1>2 DEF Listed
<1> QED BY <1>3

(* A finite set that loses one of its elements and gains one grows by none. *)
LEMMA Exchange ==
  ASSUME NEW S, IsFiniteSet(S), NEW T, NEW c, NEW w, T \subseteq (S \ {w}) \cup {c}
  PROVE  /\ Cardinality(T) <= Cardinality(S) + 1
         /\ w \in S => Cardinality(T) <= Cardinality(S)
         /\ Cardinality(S) \in Nat /\ Cardinality(T) \in Nat
<1>1. IsFiniteSet(S \ {w}) /\ Cardinality(S) \in Nat
      /\ Cardinality(S \ {w}) = IF w \in S THEN Cardinality(S) - 1 ELSE Cardinality(S)
  BY FS_RemoveElement, FS_CardinalityType
<1>2. IsFiniteSet((S \ {w}) \cup {c})
      /\ Cardinality((S \ {w}) \cup {c}) \in {Cardinality(S \ {w}), Cardinality(S \ {w}) + 1}
  BY Zenon, <1>1, FS_AddElement
<1>3. Cardinality(T) <= Cardinality((S \ {w}) \cup {c}) /\ IsFiniteSet(T)
  BY <1>2, FS_Subset
<1>4. Cardinality(T) \in Nat /\ Cardinality(S \ {w}) \in Nat
  BY <1>1, <1>3, FS_CardinalityType
<1> QED BY <1>1, <1>2, <1>3, <1>4

(* Every step keeps the limits. *)
LEMMA LimitsStep ==
  ASSUME ConnAssumption, TypeOK, WithinLimits, [Next]_vars
  PROVE  WithinLimits'
<1> DEFINE At(ip) == {c \in Listed : IpOf[c] = ip}
<1>1. IsFiniteSet(Listed) /\ \A ip \in Ips : IsFiniteSet(At(ip))
  BY ListedFinite, FS_Subset
<1>2. MaxTotal \in Nat /\ MaxPerIp \in Nat \ {0} /\ IpOf \in [Conns -> Ips]
  BY DEF ConnAssumption
<1>3. Cardinality(Listed) <= MaxTotal /\ \A ip \in Ips : Cardinality(At(ip)) <= MaxPerIp
  BY DEF WithinLimits
<1>4. Cardinality(Listed) \in Nat /\ \A ip \in Ips : Cardinality(At(ip)) \in Nat
  BY <1>1, FS_CardinalityType
<1>5. CASE Listed' \subseteq Listed
  <2>1. Cardinality(Listed') <= Cardinality(Listed) /\ Cardinality(Listed') \in Nat
    BY <1>1, <1>5, FS_Subset, FS_CardinalityType
  <2>2. ASSUME NEW ip \in Ips
        PROVE  Cardinality(At(ip)') <= Cardinality(At(ip)) /\ Cardinality(At(ip)') \in Nat
    <3>1. At(ip)' \subseteq At(ip)
      BY <1>5
    <3> QED BY <1>1, <3>1, FS_Subset, FS_CardinalityType
  <2>3. Cardinality(Listed') <= MaxTotal
    BY <1>2, <1>3, <1>4, <2>1
  <2>4. ASSUME NEW ip \in Ips PROVE Cardinality(At(ip)') <= MaxPerIp
    <3>1. Cardinality(At(ip)) \in Nat /\ Cardinality(At(ip)) <= MaxPerIp
      BY <1>3, <1>4
    <3>2. Cardinality(At(ip)') <= Cardinality(At(ip)) /\ Cardinality(At(ip)') \in Nat
      BY <2>2
    <3> HIDE DEF At
    <3> QED BY <1>2, <3>1, <3>2
  <2> QED BY <2>3, <2>4 DEF WithinLimits
<1>6. ASSUME NEW c \in Conns, Insert(c), ~Refused(c) PROVE WithinLimits'
  <2>1. PICK w \in Evicted : Listed' \subseteq (Listed \ {w}) \cup {c}
    BY <1>6, InsertAdds
  <2>2. Cardinality(Listed') <= MaxTotal
    <3>1. MaxTotal # 0
      BY <1>6 DEF Refused
    <3>2. CASE Cardinality(Listed) >= MaxTotal
      <4>1. w \in Listed
        BY <2>1, <3>2 DEF Evicted
      <4>2. Cardinality(Listed') <= Cardinality(Listed) /\ Cardinality(Listed') \in Nat
        BY Zenon, <1>1, <2>1, <4>1, Exchange
      <4> QED BY <1>2, <1>3, <1>4, <4>2
    <3>3. CASE ~(Cardinality(Listed) >= MaxTotal)
      <4>1. Cardinality(Listed') <= Cardinality(Listed) + 1 /\ Cardinality(Listed') \in Nat
        BY Zenon, <1>1, <2>1, Exchange
      <4> QED BY <1>2, <1>4, <3>3, <4>1
    <3> QED BY <3>2, <3>3
  <2>3. ASSUME NEW ip \in Ips PROVE Cardinality(At(ip)') <= MaxPerIp
    <3>1. CASE ip = IpOf[c]
      <4>1. At(ip)' \subseteq (At(ip) \ {w}) \cup {c}
        BY <2>1
      <4>2. Cardinality(At(ip)') <= Cardinality(At(ip)) + 1 /\ Cardinality(At(ip)') \in Nat
        BY Zenon, <1>1, <4>1, Exchange
      <4>3. ~(Cardinality(At(ip)) >= MaxPerIp)
        BY <1>6, <3>1 DEF Refused
      <4> QED BY <1>2, <1>4, <4>2, <4>3
    <3>2. CASE ip # IpOf[c]
      <4>1. At(ip)' \subseteq At(ip)
        BY <2>1, <3>2
      <4>2. Cardinality(At(ip)') <= Cardinality(At(ip)) /\ Cardinality(At(ip)') \in Nat
        BY <1>1, <4>1, FS_Subset, FS_CardinalityType
      <4> QED BY <1>2, <1>3, <1>4, <4>2
    <3> QED BY <3>1, <3>2
  <2> QED BY <2>2, <2>3 DEF WithinLimits
<1> QED BY <1>5, <1>6, OnlyInsertAdds

(* The initial table is empty. *)
LEMMA InitFacts ==
  ASSUME ConnAssumption, Init
  PROVE  TypeOK /\ Listed = {} /\ half = 0
<1>1. TypeOK
  BY DEF Init, TypeOK, ConnAssumption, Places
<1>2. Listed = {} /\ half = 0
  BY DEF Init, Listed
<1> QED BY <1>1, <1>2

(* add_connection keeps the limits on the table: for any limits, any addresses and any
   number of threads on which handshakes finish at the same time. *)
THEOREM LimitsAreKept ==
  ASSUME ConnAssumption
  PROVE  Spec => []WithinLimits
<1>1. Init => TypeOK /\ WithinLimits
  <2> SUFFICES ASSUME Init PROVE TypeOK /\ WithinLimits
    OBVIOUS
  <2>1. TypeOK /\ Listed = {}
    BY InitFacts
  <2>2. \A ip \in Ips : {c \in Listed : IpOf[c] = ip} = {}
    BY <2>1
  <2>3. Cardinality({}) = 0
    BY FS_EmptySet
  <2> QED BY <2>1, <2>2, <2>3 DEF WithinLimits, ConnAssumption
<1>2. TypeOK /\ WithinLimits /\ [Next]_vars => (TypeOK /\ WithinLimits)'
  BY TypeStep, LimitsStep
<1> QED BY <1>1, <1>2, PTL DEF Spec

-----------------------------------------------------------------------------
(* Bans *)

(* Every step keeps banned addresses out of the table, but for those still to be swept. *)
LEMMA BansStep ==
  ASSUME ConnAssumption, TypeOK, BannedStayOut, [Next]_vars
  PROVE  BannedStayOut'
<1>1. CASE banned' = banned /\ sweep' = sweep /\ Listed' \subseteq Listed
  BY <1>1 DEF BannedStayOut
<1>2. ASSUME NEW c \in Conns, Insert(c), ~Refused(c) PROVE BannedStayOut'
  <2>1. banned' = banned /\ sweep' = sweep /\ IpOf[c] \notin banned
    BY <1>2 DEF Insert, Refused
  <2>2. Listed' \subseteq Listed \cup {c}
    BY <1>2, InsertAdds
  <2> QED BY <2>1, <2>2 DEF BannedStayOut
<1>3. ASSUME NEW ip \in Ips, Ban(ip) PROVE BannedStayOut'
  BY <1>3 DEF Ban, BannedStayOut, Listed
<1>4. ASSUME NEW ip \in Ips, BanExpires(ip) PROVE BannedStayOut'
  BY <1>4 DEF BanExpires, BannedStayOut, Listed
<1>5. ASSUME NEW ip \in Ips, Sweep(ip) PROVE BannedStayOut'
  <2>1. banned' = banned /\ sweep' = sweep \ {ip}
    BY <1>5 DEF Sweep
  <2>2. \A i \in Ids : \/ table'[i] = None
                       \/ table'[i] = table[i] /\ IpOf[table[i]] # ip
    BY <1>5 DEF Sweep
  <2>3. \A c \in Listed' : c \in Listed /\ IpOf[c] # ip
    BY <2>2 DEF Listed
  <2> QED BY <2>1, <2>3 DEF BannedStayOut
<1>6. ASSUME NEW c \in Conns, Coroutine(c) PROVE banned' = banned /\ sweep' = sweep
  BY <1>6 DEF Coroutine, StartConnect, SlotFree, GiveUpSlot, TakeSlot, Connected, ConnectFails,
              ReleaseSlot, CreateFails, CreateDone, CheckDuplicate, CloseOther, AddUnlocked,
              AddLocked, AddDrops, Insert
<1>7. CASE Elsewhere /\ ~ \E ip \in Ips : Ban(ip) \/ Sweep(ip) \/ BanExpires(ip)
  <2>1. banned' = banned /\ sweep' = sweep
    BY Zenon, <1>7 DEF Elsewhere, Discover, Accept, PeerLeaves, BackoffExpires, LoopEnds, Remove,
                Misbehaves, StopFlag, CloseAll, RemoveAll
  <2> QED BY <1>1, <1>2, <2>1, OnlyInsertAdds
<1>8. CASE UNCHANGED vars
  BY Zenon, <1>8 DEF vars, BannedStayOut, Listed
<1> QED BY <1>1, <1>2, <1>3, <1>4, <1>5, <1>6, <1>7, <1>8, OnlyInsertAdds DEF Next

(* A banned address is in the table only between the two steps of ban_peer_by_ip, although
   add_connection first checks the ban without the lock: for any number of threads. *)
THEOREM BansAreKept ==
  ASSUME ConnAssumption
  PROVE  Spec => []BannedStayOut
<1>1. Init => TypeOK /\ BannedStayOut
  BY InitFacts DEF BannedStayOut
<1>2. TypeOK /\ BannedStayOut /\ [Next]_vars => (TypeOK /\ BannedStayOut)'
  BY TypeStep, BansStep
<1> QED BY <1>1, <1>2, PTL DEF Spec

-----------------------------------------------------------------------------
(* The metadata of a magnet link. *)
CONSTANTS Peers, Parts, Corrupt, CorruptSize, Ours, Serving, MaxConnects, MaxMessages
VARIABLES active, loaded, parsed, dict, hash, sized, buffer, received, at, part, verifying,
          stopped, up, ext, size, requested, spawned, served, connects, messages

Meta == INSTANCE MetadataExchange

(* On one thread a part is handled to its end before anything else runs, and the hash that
   load_metadata overwrites is that of the link for as long as parts are accepted, but for
   the moment between a load that failed and the end of the download. *)
MetaInv ==
  /\ at \in [Peers -> {"idle", "copy", "load", "failed"}]
  /\ \A p, q \in Peers : at[p] # "idle" /\ at[q] # "idle" => p = q
  /\ (\E p \in Peers : at[p] = "failed") \/ ~active \/ hash = Meta!Link
  /\ \A p \in Peers : at[p] \in {"copy", "load"} => hash = Meta!Link

(* A free thread, where there is one, means that no part is being handled. *)
LEMMA OneThreadFree ==
  ASSUME Meta!MetadataAssumption, IoThreads = 1, Meta!FreeThread
  PROVE  \A p \in Peers : at[p] = "idle"
<1> DEFINE B == {p \in Peers : at[p] # "idle"}
<1>1. Meta!Cardinality(B) = Cardinality(B) /\ (Meta!IsFiniteSet(Peers) <=> IsFiniteSet(Peers))
  BY Zenon DEF Cardinality, Meta!Cardinality, IsFiniteSet, Meta!IsFiniteSet
<1>2. IsFiniteSet(B)
  <2>1. B \in SUBSET Peers
    OBVIOUS
  <2> QED BY Zenon, <1>1, <2>1, FS_Subset DEF Meta!MetadataAssumption
<1>3. Cardinality(B) < 1
  BY <1>1 DEF Meta!FreeThread
<1>4. Cardinality(B) = 0
  BY <1>2, <1>3, FS_CardinalityType
<1>5. B = {}
  BY Zenon, <1>2, <1>4, FS_EmptySet
<1> QED BY <1>5

(* Handlers that leave the hash, the flag and the parts alone. *)
LEMMA MetaSame ==
  ASSUME MetaInv, UNCHANGED <<at, hash, active>>
  PROVE  MetaInv'
BY DEF MetaInv, Meta!Link

(* Every step on one thread keeps the hash right. *)
LEMMA MetaStep ==
  ASSUME Meta!MetadataAssumption, IoThreads = 1, MetaInv, [Meta!Next]_(Meta!vars)
  PROVE  MetaInv' /\ Meta!StartIsAuthentic
<1>1. ASSUME UNCHANGED <<at, hash, active, loaded>> PROVE MetaInv' /\ Meta!StartIsAuthentic
  BY <1>1, MetaSame DEF Meta!StartIsAuthentic
<1>2. ASSUME NEW p \in Peers, Meta!Connect(p) \/ Meta!Disconnect(p) \/ Meta!ExtHandshake(p)
                              \/ Meta!Request(p) \/ \E k : Meta!Serve(p, k)
      PROVE  MetaInv' /\ Meta!StartIsAuthentic
  BY Zenon, <1>1, <1>2 DEF Meta!Connect, Meta!Disconnect, Meta!ExtHandshake, Meta!Request,
     Meta!Serve, Meta!info, Meta!download
<1>3. CASE Meta!RetryTick \/ Meta!Stop \/ Meta!PreallocateFails \/ UNCHANGED Meta!vars
  BY Zenon, <1>1, <1>3 DEF Meta!RetryTick, Meta!Stop, Meta!PreallocateFails, Meta!vars,
     Meta!info, Meta!download
<1>4. ASSUME NEW p \in Peers, NEW k, Meta!Data(p, k) PROVE MetaInv' /\ Meta!StartIsAuthentic
  <2>1. /\ active /\ at' = [at EXCEPT ![p] = "copy"] /\ UNCHANGED <<active, loaded, hash>>
        /\ Meta!FreeThread
    BY <1>4 DEF Meta!Data, Meta!info
  <2>2. \A q \in Peers : at[q] = "idle"
    BY <2>1, OneThreadFree
  <2>3. hash = Meta!Link
    BY <2>1, <2>2 DEF MetaInv
  <2> QED BY <2>1, <2>2, <2>3 DEF MetaInv, Meta!Link, Meta!StartIsAuthentic
<1>5. ASSUME NEW p \in Peers, Meta!Copy(p) PROVE MetaInv' /\ Meta!StartIsAuthentic
  <2>1. /\ at[p] = "copy" /\ UNCHANGED <<active, loaded, hash>>
        /\ at' = [at EXCEPT ![p] = "load"] \/ at' = [at EXCEPT ![p] = "idle"]
    BY Zenon, <1>5 DEF Meta!Copy, Meta!info
  <2> QED BY <2>1 DEF MetaInv, Meta!Link, Meta!StartIsAuthentic
<1>6. ASSUME NEW p \in Peers, Meta!Load(p) PROVE MetaInv' /\ Meta!StartIsAuthentic
  <2>1. at[p] = "load" /\ hash = Meta!Link /\ UNCHANGED active
    BY Zenon, <1>6 DEF Meta!Load, MetaInv
  <2>2. \/ at' = [at EXCEPT ![p] = "failed"] /\ UNCHANGED loaded
        \/ /\ at' = [at EXCEPT ![p] = "idle"] /\ dict' = buffer /\ hash' = buffer
           /\ buffer = hash
    BY Zenon, <1>6 DEF Meta!Load, Meta!HashMatches, Meta!info
  <2>3. Meta!Link' = Meta!Link
    BY DEF Meta!Link
  <2>4. CASE at' = [at EXCEPT ![p] = "failed"] /\ UNCHANGED loaded
    BY <2>1, <2>3, <2>4 DEF MetaInv, Meta!StartIsAuthentic
  <2>5. CASE at' = [at EXCEPT ![p] = "idle"] /\ dict' = Meta!Link /\ hash' = Meta!Link
    BY <2>1, <2>3, <2>5 DEF MetaInv, Meta!StartIsAuthentic
  <2> QED BY Zenon, <2>1, <2>2, <2>4, <2>5
<1>7. ASSUME NEW p \in Peers, Meta!LoadFails(p) PROVE MetaInv' /\ Meta!StartIsAuthentic
  <2>1. /\ at[p] = "failed" /\ at' = [at EXCEPT ![p] = "idle"] /\ active' = FALSE
        /\ UNCHANGED <<loaded, hash>>
    BY <1>7 DEF Meta!LoadFails, Meta!Reset, Meta!info
  <2> QED BY <2>1 DEF MetaInv, Meta!Link, Meta!StartIsAuthentic
<1>8. CASE Meta!Verified
  <2>1. active' = FALSE /\ UNCHANGED <<loaded, hash, at>>
    BY <1>8 DEF Meta!Verified, Meta!Reset, Meta!info
  <2> QED BY <2>1 DEF MetaInv, Meta!Link, Meta!StartIsAuthentic
<1> QED BY Zenon, <1>2, <1>3, <1>4, <1>5, <1>6, <1>7, <1>8 DEF Meta!Next

(* For any peers, parts, copies of the dictionary and order of messages, on one I/O thread,
   load_metadata makes a session start only with the dictionary of the link's info hash,
   although it overwrites the hash that it compares with before it compares. *)
THEOREM MetadataIsAuthentic ==
  ASSUME Meta!MetadataAssumption, IoThreads = 1
  PROVE  Meta!Spec => [][Meta!StartIsAuthentic]_(Meta!vars)
<1>1. Meta!Init => MetaInv
  BY DEF Meta!Init, MetaInv
<1>2. MetaInv /\ [Meta!Next]_(Meta!vars) => MetaInv' /\ Meta!StartIsAuthentic
  BY MetaStep
<1> QED BY <1>1, <1>2, PTL DEF Meta!Spec
-----------------------------------------------------------------------------
(* What is known of who has which piece. *)
CONSTANTS Pieces, Loop, Magnet, Suspends, KeepAlive, MaxReturns, MaxRepeats
VARIABLES meta, status, avail, groups, broken, has, hint, pending, interested, job, todo,
          returns, repeats

Stock == INSTANCE PieceInventory

(* The pieces of a handler that it has still to count. *)
Left(j) == IF j.pc \in {"new", "move"} THEN j.pieces \ {Stock!Min(j.pieces)} ELSE j.pieces

(* The pieces of a peer that piece_availability_ counts, and the peers counted for one. *)
Counted(p) == IF p \in up THEN has[p] \ Left(job[p]) ELSE Left(job[p])
Counters(i) == {p \in Peers : i \in Counted(p)}

(* A handler has these fields; the others do not bear on the account. *)
IsJob(j) ==
  /\ {"pc", "pieces", "by", "old", "new", "want"} \subseteq DOMAIN j
  /\ j.pieces \subseteq Pieces

InventoryTypes ==
  /\ meta = "done" /\ sized = TRUE /\ up \subseteq Peers /\ pending = {}
  /\ repeats \in 0..MaxRepeats
  /\ has \in [Peers -> SUBSET Pieces] /\ avail \in [Pieces -> Nat]
  /\ DOMAIN job = Peers \cup {Loop} /\ job[Loop] = Stock!Idle

(* A handler adds what its peer has, as long as the peer is there, and takes it back after. *)
HandlerOf(p) ==
  LET j == job[p]
  IN /\ IsJob(j)
     /\ j.pc # "idle" => j.by = IF p \in up THEN 1 ELSE -1
     /\ j.pc \in {"add", "new", "move"} => j.pieces # {}
     /\ j.pc = "sending" => j.pieces = {}
     /\ p \in up => j.pieces \subseteq has[p]

(* A piece is counted for each of these peers, and at most once more for each message that
   named pieces again. *)
Account(i) ==
  /\ Cardinality(Counters(i)) <= avail[i]
  /\ avail[i] <= Cardinality(Counters(i)) + repeats

InventoryInv ==
  /\ InventoryTypes
  /\ \A p \in Peers : HandlerOf(p)
  /\ \A i \in Pieces : Account(i)

(* What the model leaves out of its account: a magnet link's inventories, which are put off,
   and a keep-alive that fails, after which on_disconnect runs twice. *)
TorrentFile ==
  /\ Stock!InventoryAssumption /\ Pieces \subseteq Nat
  /\ ~Magnet /\ ~KeepAlive

(* A set of pieces has a least one, the next to be counted. *)
LEMMA NextPiece ==
  ASSUME NEW S \in SUBSET Nat, S # {}
  PROVE  Stock!Min(S) \in S
<1>1. PICK x \in S : \A y \in S : ~(<<y, x>> \in OpToRel(<, Nat))
  BY Zenon, WFMin, NatLessThanWellFounded
<1>2. \A y \in S : ~(y < x)
  BY Zenon, <1>1 DEF OpToRel
<1>3. \E z \in S : \A y \in S : z <= y
  BY <1>2
<1> QED BY Zenon, <1>3 DEF Stock!Min

(* Below its modulus an unsigned counter is the number it stands for. *)
LEMMA NoWrap == ASSUME NEW w \in Nat, NEW x \in Nat, x < w PROVE x % w = x
OBVIOUS

(* Any set of peers has fewer members than a counter has values, repetitions included. *)
LEMMA CountersSize ==
  ASSUME TorrentFile, NEW i
  PROVE  /\ IsFiniteSet(Counters(i)) /\ Cardinality(Counters(i)) \in Nat
         /\ Wrap \in Nat /\ MaxRepeats \in Nat
         /\ Cardinality(Counters(i)) + MaxRepeats + 1 < Wrap
<1>1. Stock!Cardinality(Peers) = Cardinality(Peers) /\ (Stock!IsFiniteSet(Peers) <=> IsFiniteSet(Peers))
  BY DEF Cardinality, Stock!Cardinality, IsFiniteSet, Stock!IsFiniteSet
<1>2. /\ IsFiniteSet(Peers) /\ Wrap \in Nat /\ MaxRepeats \in Nat
      /\ Wrap > Cardinality(Peers) + MaxRepeats + 1
  BY <1>1 DEF TorrentFile, Stock!InventoryAssumption
<1>3. Counters(i) \in SUBSET Peers
  BY DEF Counters
<1>4. IsFiniteSet(Counters(i)) /\ Cardinality(Counters(i)) <= Cardinality(Peers)
  BY <1>2, <1>3, FS_Subset
<1>5. Cardinality(Counters(i)) \in Nat /\ Cardinality(Peers) \in Nat
  BY <1>2, <1>4, FS_CardinalityType
<1> QED BY <1>2, <1>4, <1>5

(* Handlers that move no piece of any peer in or out of the account leave it right. *)
LEMMA SameAccount ==
  ASSUME InventoryInv, UNCHANGED <<avail, repeats>>, \A p \in Peers : Counted(p)' = Counted(p)
  PROVE  \A i \in Pieces : Account(i)'
<1>1. \A i : Counters(i)' = Counters(i)
  BY DEF Counters
<1> QED BY <1>1 DEF InventoryInv, Account

(* A message that names pieces again starts to count them anew: its peer is taken off the
   account, and the count is one too high. *)
LEMMA Again ==
  ASSUME TorrentFile, InventoryInv, UNCHANGED avail, repeats' = repeats + 1, NEW p \in Peers,
         Counted(p)' \subseteq Counted(p), \A q \in Peers \ {p} : Counted(q)' = Counted(q)
  PROVE  \A i \in Pieces : Account(i)'
<1> SUFFICES ASSUME NEW i \in Pieces PROVE Account(i)'
  OBVIOUS
<1>1. Counters(i)' = Counters(i) \/ (p \in Counters(i) /\ Counters(i)' = Counters(i) \ {p})
  BY DEF Counters
<1>2. p \in Counters(i) => Cardinality(Counters(i) \ {p}) = Cardinality(Counters(i)) - 1
  BY Zenon, CountersSize, FS_RemoveElement
<1>3. Account(i) /\ avail[i] \in Nat /\ repeats \in Nat /\ Cardinality(Counters(i)) \in Nat
  BY CountersSize DEF InventoryInv, InventoryTypes
<1>4. \/ Cardinality(Counters(i)') = Cardinality(Counters(i))
      \/ Cardinality(Counters(i)') = Cardinality(Counters(i)) - 1
  BY Zenon, <1>1, <1>2
<1> QED BY <1>3, <1>4 DEF Account

(* A handler that adds a piece of a peer that is not in the account, or takes one out. *)
LEMMA OneMore ==
  ASSUME TorrentFile, InventoryInv, NEW p \in Peers, NEW i \in Pieces, i \notin Counted(p),
         Counted(p)' = Counted(p) \cup {i},
         \A q \in Peers \ {p} : Counted(q)' = Counted(q),
         avail' = [avail EXCEPT ![i] = (avail[i] + 1) % Wrap], UNCHANGED repeats
  PROVE  avail' \in [Pieces -> Nat] /\ \A k \in Pieces : Account(k)'
<1>1. Counters(i)' = Counters(i) \cup {p} /\ p \notin Counters(i)
  BY DEF Counters
<1>2. \A k \in Pieces \ {i} : Counters(k)' = Counters(k)
  BY DEF Counters
<1>3. Cardinality(Counters(i) \cup {p}) = Cardinality(Counters(i)) + 1
  BY Zenon, <1>1, CountersSize, FS_AddElement
<1>4. /\ Account(i) /\ avail \in [Pieces -> Nat] /\ avail[i] \in Nat
      /\ repeats \in 0..MaxRepeats
  BY DEF InventoryInv, InventoryTypes
<1>5. (avail[i] + 1) % Wrap = avail[i] + 1
  <2>1. avail[i] + 1 \in Nat /\ avail[i] + 1 < Wrap /\ Wrap \in Nat
    BY <1>4, CountersSize DEF Account
  <2> QED BY <2>1, NoWrap
<1>6. avail' \in [Pieces -> Nat] /\ avail'[i] = avail[i] + 1
  BY <1>4, <1>5
<1>7. Account(i)'
  <2>1. Cardinality(Counters(i)') = Cardinality(Counters(i)) + 1
    BY Zenon, <1>1, <1>3
  <2> QED BY <1>4, <1>6, <2>1, CountersSize DEF Account
<1>8. \A k \in Pieces \ {i} : Account(k)'
  BY <1>2, <1>4 DEF InventoryInv, Account
<1> QED BY Zenon, <1>6, <1>7, <1>8

(* The same for a piece that is taken out of the account. *)
LEMMA OneLess ==
  ASSUME TorrentFile, InventoryInv, NEW p \in Peers, NEW i \in Pieces, i \in Counted(p),
         Counted(p)' = Counted(p) \ {i},
         \A q \in Peers \ {p} : Counted(q)' = Counted(q),
         avail' = [avail EXCEPT ![i] = (avail[i] + (-1)) % Wrap], UNCHANGED repeats
  PROVE  avail' \in [Pieces -> Nat] /\ \A k \in Pieces : Account(k)'
<1>1. Counters(i)' = Counters(i) \ {p} /\ p \in Counters(i)
  BY DEF Counters
<1>2. \A k \in Pieces \ {i} : Counters(k)' = Counters(k)
  BY DEF Counters
<1>3. Cardinality(Counters(i) \ {p}) = Cardinality(Counters(i)) - 1
  BY Zenon, <1>1, CountersSize, FS_RemoveElement
<1>4. /\ Account(i) /\ avail \in [Pieces -> Nat] /\ avail[i] \in Nat
      /\ repeats \in 0..MaxRepeats
  BY DEF InventoryInv, InventoryTypes
<1>5. Cardinality(Counters(i)) # 0
  BY <1>1, CountersSize, FS_EmptySet
<1>6. avail[i] + (-1) \in Nat /\ avail[i] + (-1) = avail[i] - 1 /\ avail[i] + (-1) < Wrap
  BY <1>4, <1>5, CountersSize DEF Account
<1>7. (avail[i] + (-1)) % Wrap = avail[i] - 1
  BY <1>6, CountersSize, NoWrap
<1>8. avail' \in [Pieces -> Nat] /\ avail'[i] = avail[i] - 1
  BY Zenon, <1>4, <1>6, <1>7
<1>9. Account(i)'
  <2>1. Cardinality(Counters(i)') = Cardinality(Counters(i)) - 1
    BY Zenon, <1>1, <1>3
  <2> QED BY <1>4, <1>8, <2>1, CountersSize DEF Account
<1>10. \A k \in Pieces \ {i} : Account(k)'
  BY <1>2, <1>4 DEF InventoryInv, Account
<1> QED BY Zenon, <1>8, <1>9, <1>10

(* The handlers of a session that has its metadata from the start. *)
LEMMA NoLoop ==
  ASSUME TorrentFile, InventoryInv, Stock!Next
  PROVE  \/ \E p \in Peers : Stock!Connect(p) \/ Stock!Disconnect(p)
         \/ \E p \in Peers, i \in Pieces : Stock!HavePiece(p, i)
         \/ \E p \in Peers, S \in SUBSET Pieces, all \in BOOLEAN : Stock!Inventory(p, S, all)
         \/ \E p \in Peers : Stock!Access(p)
         \/ \E i \in Pieces : Stock!Pick(i) \/ Stock!Complete(i) \/ Stock!ReturnPiece(i)
<1>1. ~Stock!Load /\ ~Stock!Verified /\ ~Stock!Reconciled /\ \A p \in Peers : ~Stock!Reconcile(p)
  BY Zenon DEF InventoryInv, InventoryTypes, Stock!Load, Stock!Verified, Stock!Reconciled,
         Stock!Reconcile
<1>2. \A p \in Peers : ~Stock!KeepAliveFails(p)
  BY Zenon DEF TorrentFile, Stock!KeepAliveFails
<1>3. ~Stock!Access(Loop)
  BY DEF InventoryInv, InventoryTypes, Stock!Idle, Stock!Access, Stock!ReadOld, Stock!Add,
         Stock!ReadNew,
         Stock!Move, Stock!Announce, Stock!Finish
<1>4. \A p \in Peers : Stock!Inventory(p, Pieces, TRUE) =>
        \E S \in SUBSET Pieces, all \in BOOLEAN : Stock!Inventory(p, S, all)
  BY Zenon
<1>5. \A p \in Peers : (\E S \in SUBSET Pieces : Stock!Inventory(p, S, FALSE)) =>
        \E S \in SUBSET Pieces, all \in BOOLEAN : Stock!Inventory(p, S, all)
  BY Zenon
<1> QED BY Zenon, <1>1, <1>2, <1>3, <1>4, <1>5 DEF Stock!Next, Stock!Actors

(* A connection without a running handler has nothing left to count. *)
LEMMA NothingLeft ==
  Left(Stock!Idle) = {} /\ Stock!Idle.pc = "idle" /\ Stock!Idle.pieces = {}
<1>1. Stock!Idle.pc = "idle" /\ Stock!Idle.pieces = {}
  BY Zenon DEF Stock!Idle
<1> QED BY Zenon, <1>1 DEF Left

(* A connection comes or goes, or a message starts its handler: nothing is counted yet. *)
LEMMA StartsHandler ==
  ASSUME TorrentFile, InventoryInv, NEW p \in Peers,
         \/ Stock!Connect(p) \/ Stock!Disconnect(p)
         \/ \E i \in Pieces : Stock!HavePiece(p, i)
         \/ \E S \in SUBSET Pieces, all \in BOOLEAN : Stock!Inventory(p, S, all)
  PROVE  InventoryInv'
<1>1. /\ InventoryTypes /\ HandlerOf(p) /\ job[p] = Stock!Idle /\ p # Loop
      /\ Stock!Known
  BY Zenon DEF InventoryInv, InventoryTypes, Stock!Connect, Stock!Disconnect, Stock!HavePiece,
         Stock!Inventory,
         TorrentFile, Stock!InventoryAssumption, Stock!Known
<1>2. UNCHANGED <<avail, meta, sized>> /\ pending' = {}
  BY Zenon, <1>1 DEF InventoryTypes, Stock!Connect, Stock!Disconnect, Stock!HavePiece,
         Stock!Inventory
<1>3. \A q \in (Peers \cup {Loop}) \ {p} :
        /\ job'[q] = job[q] /\ (q \in Peers => has'[q] = has[q])
        /\ (q \in up' <=> q \in up)
  BY Zenon, <1>1 DEF InventoryTypes, Stock!Connect, Stock!Disconnect, Stock!HavePiece,
         Stock!Inventory
<1>4. Left(job[p]) = {} /\ job[p].pc = "idle" /\ job[p].pieces = {}
  BY Zenon, <1>1, NothingLeft
<1> DEFINE Same == Counted(p)' = Counted(p) /\ repeats' = repeats
           Repeat == /\ Counted(p)' \subseteq Counted(p) /\ repeats' = repeats + 1
                     /\ repeats < MaxRepeats
<1>0. repeats < MaxRepeats => repeats + 1 \in 0..MaxRepeats
  BY <1>1 DEF InventoryTypes, TorrentFile, Stock!InventoryAssumption
<1>5. InventoryTypes' /\ HandlerOf(p)' /\ (Same \/ Repeat)
  <2>1. CASE Stock!Connect(p)
    <3>1. /\ p \notin up /\ up' = up \cup {p} /\ has' = [has EXCEPT ![p] = {}] /\ job' = job
          /\ repeats' = repeats
      BY Zenon, <2>1 DEF Stock!Connect
    <3> QED BY Zenon, <1>1, <1>2, <1>4, <3>1 DEF InventoryTypes, HandlerOf, Counted, Left
  <2>2. CASE Stock!Disconnect(p)
    <3>1. /\ p \in up /\ up' = up \ {p} /\ has' = has /\ repeats' = repeats
          /\ job' = [job EXCEPT ![p] = Stock!Job(p, has[p], -1, FALSE)]
      BY Zenon, <1>1, <2>2 DEF Stock!Disconnect
    <3>2. has[p] \in SUBSET Pieces /\ job'[p] = Stock!Job(p, has[p], -1, FALSE)
      BY <1>1, <3>1 DEF InventoryTypes
    <3>3. IsJob(job'[p]) /\ job'[p].pc = "next" /\ job'[p].by = -1 /\ job'[p].pieces = has[p]
      BY <3>2 DEF Stock!Job, Stock!Idle, IsJob
    <3>4. InventoryTypes'
      BY Zenon, <1>1, <1>2, <3>1, <3>2, <3>3 DEF InventoryTypes
    <3> QED BY Zenon, <1>4, <3>1, <3>3, <3>4 DEF HandlerOf, Counted, Left
  <2>3. ASSUME NEW i \in Pieces, Stock!HavePiece(p, i)
        PROVE  InventoryTypes' /\ HandlerOf(p)' /\ (Same \/ Repeat)
    <3>1. /\ p \in up /\ up' = up /\ has' = [has EXCEPT ![p] = @ \cup {i}]
          /\ job' = [job EXCEPT ![p] = Stock!Job(p, {i}, 1, FALSE)]
          /\ \/ i \notin has[p] /\ repeats' = repeats
             \/ i \in has[p] /\ repeats' = repeats + 1 /\ repeats < MaxRepeats
      BY Zenon, <1>1, <2>3 DEF Stock!HavePiece, Stock!CountMessage
    <3>2. has'[p] = has[p] \cup {i} /\ job'[p] = Stock!Job(p, {i}, 1, FALSE)
      BY <1>1, <3>1 DEF InventoryTypes
    <3>3. IsJob(job'[p]) /\ job'[p].pc = "next" /\ job'[p].by = 1 /\ job'[p].pieces = {i}
      BY <3>2 DEF Stock!Job, Stock!Idle, IsJob
    <3>0. repeats' \in 0..MaxRepeats
      BY Zenon, <1>1, <1>0, <3>1 DEF InventoryTypes
    <3>4. InventoryTypes'
      BY Zenon, <1>1, <1>2, <3>1, <3>2, <3>0, <3>3 DEF InventoryTypes
    <3> QED BY Zenon, <1>4, <3>1, <3>2, <3>3, <3>4 DEF HandlerOf, Counted, Left
  <2>4. ASSUME NEW S \in SUBSET Pieces, NEW all \in BOOLEAN, Stock!Inventory(p, S, all)
        PROVE  InventoryTypes' /\ HandlerOf(p)' /\ (Same \/ Repeat)
    <3>1. /\ p \in up /\ up' = up /\ has' = [has EXCEPT ![p] = S]
          /\ job' = [job EXCEPT ![p] = Stock!Job(p, S, 1, TRUE)]
          /\ \/ has[p] = {} /\ repeats' = repeats
             \/ repeats' = repeats + 1 /\ repeats < MaxRepeats
      BY Zenon, <1>1, <2>4 DEF Stock!Inventory, Stock!CountMessage, InventoryTypes
    <3>2. has'[p] = S /\ job'[p] = Stock!Job(p, S, 1, TRUE)
      BY <1>1, <3>1 DEF InventoryTypes
    <3>3. IsJob(job'[p]) /\ job'[p].pc = "next" /\ job'[p].by = 1 /\ job'[p].pieces = S
      BY <3>2 DEF Stock!Job, Stock!Idle, IsJob
    <3>0. repeats' \in 0..MaxRepeats
      BY Zenon, <1>1, <1>0, <3>1 DEF InventoryTypes
    <3>4. InventoryTypes'
      BY Zenon, <1>1, <1>2, <3>1, <3>2, <3>0, <3>3 DEF InventoryTypes
    <3> QED BY Zenon, <1>4, <3>1, <3>2, <3>3, <3>4 DEF HandlerOf, Counted, Left
  <2> QED BY Zenon, <2>1, <2>2, <2>3, <2>4
<1>6. \A q \in Peers \ {p} : HandlerOf(q)' /\ Counted(q)' = Counted(q)
  BY Zenon, <1>3 DEF InventoryInv, HandlerOf, Counted
<1>7. \A q \in Peers : HandlerOf(q)'
  BY Zenon, <1>5, <1>6
<1>8. CASE Same
  <2>1. \A q \in Peers : Counted(q)' = Counted(q)
    BY Zenon, <1>6, <1>8
  <2>2. \A i \in Pieces : Account(i)'
    BY Zenon, <1>2, <1>8, <2>1, SameAccount
  <2> QED BY Zenon, <1>5, <1>7, <2>2 DEF InventoryInv
<1>9. CASE Repeat
  <2>1. \A i \in Pieces : Account(i)'
    BY Zenon, <1>2, <1>6, <1>9, Again
  <2> QED BY Zenon, <1>5, <1>7, <2>1 DEF InventoryInv
<1> QED BY Zenon, <1>5, <1>8, <1>9

(* A handler of a connection does its next access: only adding changes the account, by the
   piece that the handler is at. *)
LEMMA HandlerSteps ==
  ASSUME TorrentFile, InventoryInv, NEW p \in Peers, Stock!Access(p)
  PROVE  InventoryInv'
<1> DEFINE j == job[p]
           i == Stock!Min(j.pieces)
<1>1. /\ InventoryTypes /\ HandlerOf(p) /\ IsJob(j) /\ p # Loop /\ j.pc # "idle"
      /\ j.by = (IF p \in up THEN 1 ELSE -1)
  BY Zenon DEF InventoryInv, InventoryTypes, TorrentFile, Stock!InventoryAssumption, HandlerOf,
         Stock!Access,
         Stock!ReadOld, Stock!Add, Stock!ReadNew, Stock!Move, Stock!Announce, Stock!Finish
<1>2. j.pieces \in SUBSET Pieces /\ (j.pieces # {} => i \in j.pieces /\ i \in Pieces)
  BY Zenon, <1>1, NextPiece DEF IsJob, TorrentFile
<1>3. UNCHANGED <<meta, sized, up, has, repeats>> /\ pending' = {}
  BY Zenon, <1>1 DEF InventoryTypes, Stock!Access, Stock!ReadOld, Stock!Add, Stock!ReadNew,
         Stock!Move, Stock!Announce, Stock!Finish
<1>4. job' = [job EXCEPT ![p] = job'[p]]
  BY Zenon, <1>1 DEF InventoryTypes, Stock!Access, Stock!ReadOld, Stock!Add, Stock!ReadNew,
         Stock!Move, Stock!Announce,
         Stock!Finish
<1>5. \A q \in Peers \ {p} : job'[q] = job[q]
  BY Zenon, <1>1, <1>4 DEF InventoryTypes
<1>6. \A q \in Peers \ {p} : HandlerOf(q)' /\ Counted(q)' = Counted(q)
  BY Zenon, <1>3, <1>5 DEF InventoryInv, HandlerOf, Counted
<1>7. sized = TRUE
  BY Zenon, <1>1 DEF InventoryTypes
<1>8. /\ HandlerOf(p)'
      /\ \/ Counted(p)' = Counted(p) /\ UNCHANGED avail
         \/ /\ i \in Pieces /\ i \notin Counted(p) /\ Counted(p)' = Counted(p) \cup {i}
            /\ avail' = [avail EXCEPT ![i] = (avail[i] + 1) % Wrap]
         \/ /\ i \in Pieces /\ i \in Counted(p) /\ Counted(p)' = Counted(p) \ {i}
            /\ avail' = [avail EXCEPT ![i] = (avail[i] + (-1)) % Wrap]
  <2>1. CASE Stock!ReadOld(p) /\ j.by = 1 /\ status[i] = "Have"
    <3>0. p \in up
      <4>1. j.by = 1 /\ j.by = (IF p \in up THEN 1 ELSE -1)
        BY Zenon, <1>1, <2>1
      <4> HIDE DEF j
      <4> QED BY <4>1
    <3>1. /\ j.pc = "next" /\ j.pieces # {} /\ p \in up
          /\ avail' = [avail EXCEPT ![i] = (avail[i] + 1) % Wrap]
          /\ job'[p] = [j EXCEPT !.pieces = @ \ {i}]
      BY Zenon, <1>1, <1>7, <2>1, <3>0 DEF Stock!ReadOld, Stock!Added, InventoryTypes
    <3>2. /\ IsJob(job'[p]) /\ job'[p].pc = "next" /\ job'[p].by = j.by
          /\ job'[p].pieces = j.pieces \ {i}
      BY <1>1, <3>1 DEF IsJob
    <3> QED BY Zenon, <1>1, <1>2, <1>3, <3>1, <3>2 DEF HandlerOf, Counted, Left
  <2>2. CASE Stock!ReadOld(p) /\ ~(j.by = 1 /\ status[i] = "Have")
    <3>1. /\ j.pc = "next" /\ j.pieces # {} /\ UNCHANGED avail
          /\ job'[p] = [j EXCEPT !.pc = "add", !.old = Stock!Availability(i)]
      BY <1>1, <2>2 DEF Stock!ReadOld, InventoryTypes
    <3>2. /\ IsJob(job'[p]) /\ job'[p].pc = "add" /\ job'[p].by = j.by
          /\ job'[p].pieces = j.pieces
      BY <1>1, <3>1 DEF IsJob
    <3> QED BY <1>1, <1>2, <1>3, <3>1, <3>2 DEF HandlerOf, Counted, Left
  <2>3. CASE Stock!Add(p)
    <3>1. /\ j.pc = "add" /\ avail' = [avail EXCEPT ![i] = (avail[i] + j.by) % Wrap]
          /\ job'[p] = [j EXCEPT !.pc = "new"]
      BY <1>1, <1>7, <2>3 DEF Stock!Add, Stock!Added, InventoryTypes
    <3>2. /\ IsJob(job'[p]) /\ job'[p].pc = "new" /\ job'[p].by = j.by
          /\ job'[p].pieces = j.pieces
      BY <1>1, <3>1 DEF IsJob
    <3>3. HandlerOf(p)' /\ i \in j.pieces
      BY <1>1, <1>2, <1>3, <3>1, <3>2 DEF HandlerOf
    <3>4. Left(j) = j.pieces /\ Left(job'[p]) = j.pieces \ {i}
      BY <3>1, <3>2 DEF Left
    <3>5. CASE p \in up
      BY Zenon, <1>1, <1>2, <1>3, <3>1, <3>3, <3>4, <3>5 DEF HandlerOf, Counted
    <3>6. CASE p \notin up
      BY Zenon, <1>1, <1>2, <1>3, <3>1, <3>3, <3>4, <3>6 DEF Counted
    <3> QED BY Zenon, <3>5, <3>6
  <2>4. CASE Stock!ReadNew(p)
    <3>1. /\ j.pc = "new" /\ UNCHANGED avail
          /\ job'[p] = [j EXCEPT !.pc = "move", !.new = Stock!Availability(i)]
      BY <1>1, <2>4 DEF Stock!ReadNew, InventoryTypes
    <3>2. /\ IsJob(job'[p]) /\ job'[p].pc = "move" /\ job'[p].by = j.by
          /\ job'[p].pieces = j.pieces
      BY <1>1, <3>1 DEF IsJob
    <3> QED BY <1>1, <1>2, <1>3, <3>1, <3>2 DEF HandlerOf, Counted, Left
  <2>5. CASE Stock!Move(p)
    <3>1. /\ j.pc = "move" /\ UNCHANGED avail
          /\ job'[p] = [j EXCEPT !.pc = "next", !.pieces = @ \ {i},
                                 !.want = @ \/ status[i] = "Needed"]
      BY <1>1, <2>5 DEF Stock!Move, InventoryTypes
    <3>2. /\ IsJob(job'[p]) /\ job'[p].pc = "next" /\ job'[p].by = j.by
          /\ job'[p].pieces = j.pieces \ {i}
      BY <1>1, <3>1 DEF IsJob
    <3> QED BY <1>1, <1>2, <1>3, <3>1, <3>2 DEF HandlerOf, Counted, Left
  <2>6. CASE Stock!Announce(p)
    <3>1. /\ j.pc = "next" /\ j.pieces = {} /\ UNCHANGED avail
          /\ job'[p] = [j EXCEPT !.pc = "sending"]
      BY <1>1, <2>6 DEF Stock!Announce, InventoryTypes
    <3>2. /\ IsJob(job'[p]) /\ job'[p].pc = "sending" /\ job'[p].by = j.by
          /\ job'[p].pieces = {}
      BY <1>1, <3>1 DEF IsJob
    <3> QED BY Zenon, <1>1, <1>2, <1>3, <3>1, <3>2 DEF HandlerOf, Counted, Left
  <2>7. CASE Stock!Finish(p)
    <3>1. /\ j.pc \in {"next", "sending"} /\ j.pieces = {} /\ UNCHANGED avail
          /\ job'[p] = Stock!Idle
      BY Zenon, <1>1, <2>7 DEF Stock!Finish, InventoryTypes, HandlerOf
    <3>2. IsJob(Stock!Idle) /\ Stock!Idle.pc = "idle" /\ Stock!Idle.pieces = {}
      BY Zenon DEF IsJob, Stock!Idle
    <3> QED BY Zenon, <1>1, <1>2, <1>3, <3>1, <3>2 DEF HandlerOf, Counted, Left
  <2> QED BY Zenon, <2>1, <2>2, <2>3, <2>4, <2>5, <2>6, <2>7 DEF Stock!Access
<1>9. avail' \in [Pieces -> Nat] /\ \A k \in Pieces : Account(k)'
  <2>1. CASE Counted(p)' = Counted(p) /\ UNCHANGED avail
    <3>1. \A q \in Peers : Counted(q)' = Counted(q)
      BY Zenon, <1>6, <2>1
    <3>2. \A k \in Pieces : Account(k)'
      BY Zenon, <1>3, <2>1, <3>1, SameAccount
    <3> QED BY Zenon, <1>1, <2>1, <3>2 DEF InventoryTypes
  <2>2. CASE /\ i \in Pieces /\ i \notin Counted(p) /\ Counted(p)' = Counted(p) \cup {i}
             /\ avail' = [avail EXCEPT ![i] = (avail[i] + 1) % Wrap]
    <3> HIDE DEF i
    <3> QED BY Zenon, <1>3, <1>6, <2>2, OneMore
  <2>3. CASE /\ i \in Pieces /\ i \in Counted(p) /\ Counted(p)' = Counted(p) \ {i}
             /\ avail' = [avail EXCEPT ![i] = (avail[i] + (-1)) % Wrap]
    <3> HIDE DEF i
    <3> QED BY Zenon, <1>3, <1>6, <2>3, OneLess
  <2> QED BY Zenon, <1>8, <2>1, <2>2, <2>3
<1>10. InventoryTypes'
  BY Zenon, <1>1, <1>3, <1>4, <1>9 DEF InventoryTypes
<1> QED BY Zenon, <1>6, <1>8, <1>9, <1>10 DEF InventoryInv

(* piece_availability_ of a torrent whose file is there from the start: whenever no handler is
   under way it is, for every piece, at least the number of connected peers that have it, on
   any number of I/O threads and for any number of messages that name pieces again (the
   counter's modulus exceeds the peers and these messages together).  Handlers of several
   connections may interleave between any two accesses of PieceManager's tables; each of them
   adds under the mutex, and on_disconnect takes back the pieces of the bitfield, none of
   which was not added. *)
THEOREM AvailabilityCounts ==
  ASSUME TorrentFile PROVE Stock!Spec => []Stock!AvailabilityCovers
<1>1. Stock!Init => InventoryInv
  <2> SUFFICES ASSUME Stock!Init PROVE InventoryInv
    OBVIOUS
  <2>1. IsJob(Stock!Idle) /\ Stock!Idle.pc = "idle" /\ Stock!Idle.pieces = {}
    BY Zenon DEF IsJob, Stock!Idle
  <2>2. \A a \in Peers \cup {Loop} : job[a] = Stock!Idle
    BY Zenon DEF Stock!Init, Stock!Actors
  <2>3. up = {} /\ has = [p \in Peers |-> {}] /\ avail = [i \in Pieces |-> 0]
    BY DEF Stock!Init
  <2>4. \A p \in Peers : HandlerOf(p) /\ Counted(p) = {}
    BY Zenon, <2>1, <2>2, <2>3 DEF HandlerOf, Counted, Left
  <2>5. \A i \in Pieces : Counters(i) = {}
    BY <2>4 DEF Counters
  <2>6. InventoryTypes
    <3>1. meta = "done" /\ sized = TRUE /\ pending = {}
      BY Zenon DEF Stock!Init, TorrentFile
    <3>3. repeats = 0 /\ repeats \in 0..MaxRepeats
      BY DEF Stock!Init, TorrentFile, Stock!InventoryAssumption
    <3>2. DOMAIN job = Peers \cup {Loop}
      BY Zenon DEF Stock!Init, Stock!Actors
    <3> QED BY Zenon, <2>2, <2>3, <3>1, <3>2, <3>3 DEF InventoryTypes
  <2>7. \A i \in Pieces : Account(i)
    <3>1. repeats = 0
      BY DEF Stock!Init
    <3> QED BY <2>3, <2>5, <3>1, FS_EmptySet DEF Account
  <2> QED BY Zenon, <2>4, <2>6, <2>7 DEF InventoryInv
<1>2. InventoryInv /\ [Stock!Next]_(Stock!vars) => InventoryInv'
  <2> SUFFICES ASSUME InventoryInv, [Stock!Next]_(Stock!vars) PROVE InventoryInv'
    OBVIOUS
  <2>1. CASE UNCHANGED Stock!vars
    <3>1. UNCHANGED <<meta, sized, up, has, avail, job, pending, repeats>>
      BY Zenon, <2>1 DEF Stock!vars
    <3> QED BY Zenon, <3>1 DEF InventoryInv, InventoryTypes, HandlerOf, Counters, Counted,
           Account
  <2>2. CASE \E i \in Pieces : Stock!Pick(i) \/ Stock!Complete(i) \/ Stock!ReturnPiece(i)
    <3>1. UNCHANGED <<meta, sized, up, has, avail, job, pending, repeats>>
      BY Zenon, <2>2 DEF Stock!Pick, Stock!Complete, Stock!ReturnPiece
    <3> QED BY Zenon, <3>1 DEF InventoryInv, InventoryTypes, HandlerOf, Counters, Counted,
           Account
  <2> QED BY Zenon, <2>1, <2>2, NoLoop, StartsHandler, HandlerSteps
<1>3. InventoryInv => Stock!AvailabilityCovers
  <2> SUFFICES ASSUME InventoryInv, Stock!Quiet, NEW i \in Pieces
               PROVE  avail[i] >= Stock!Cardinality({p \in up : i \in has[p]})
    BY Zenon DEF Stock!AvailabilityCovers
  <2>1. \A p \in Peers : Left(job[p]) = {}
    BY Zenon, NothingLeft DEF Stock!Quiet, Stock!Actors
  <2>2. Counters(i) = {p \in up : i \in has[p]}
    BY <2>1 DEF InventoryInv, InventoryTypes, Counters, Counted
  <2>3. Stock!Cardinality({p \in up : i \in has[p]}) = Cardinality({p \in up : i \in has[p]})
    BY Zenon DEF Cardinality, Stock!Cardinality
  <2>4. Cardinality(Counters(i)) \in Nat /\ avail[i] \in Nat /\ Account(i)
    BY CountersSize DEF InventoryInv, InventoryTypes
  <2>5. avail[i] >= Cardinality(Counters(i))
    BY <2>4 DEF Account
  <2> QED BY Zenon, <2>2, <2>3, <2>5
<1> QED BY <1>1, <1>2, <1>3, PTL DEF Stock!Spec
=============================================================================
