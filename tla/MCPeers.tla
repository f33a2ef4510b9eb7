------------------------------- MODULE MCPeers -------------------------------
(***************************************************************************)
(* The connections to peers, for TLC: the write queue of a socket, the     *)
(* handshake and its encryption, the connection table with its limits and  *)
(* bans, the inventories of the peers and the exchange of metadata.  The   *)
(* modules of these components share no state, so an interleaving of two   *)
(* of them shows nothing that each does not show by itself: in every       *)
(* behaviour one of them runs, in one configuration (`part'), and the      *)
(* others have no state (`Off').                                           *)
(***************************************************************************)
EXTENDS WriteQueue, TLC

(* Any two clients of this program. *)
OwnSetups == [imse : BOOLEAN, amse : BOOLEAN, lead13 : BOOLEAN, offer : {{"rc4", "plain"}},
              torrent : BOOLEAN, self : BOOLEAN]

(* Who the connections c1, c2 and c3 lead to. *)
Conns3 == {"c1", "c2", "c3"}
OnePeer == [c \in {"c1", "c2"} |-> "p1"]
OwnPeer == [c \in {"c1", "c2"} |-> IF c = "c1" THEN "p1" ELSE "p2"]
OwnPeer3 == [c1 |-> "p1", c2 |-> "p2", c3 |-> "p3"]
OneAddress == [c \in {"c1", "c2"} |-> "ip1"]
OwnAddress == [c \in {"c1", "c2"} |-> IF c = "c1" THEN "ip1" ELSE "ip2"]
LastShares == [c \in Conns3 |-> IF c = "c1" THEN "ip1" ELSE "ip2"]

(* The peers of the inventory, which are interchangeable. *)
CONSTANT Holders

Alike == Permutations(Holders)

(* The component whose behaviour is looked at; the state of the others is Off. *)
VARIABLE part

Off == "off"
Is(c) == part = c

VARIABLES setup, hs_pc, buf, net, shut, enc, dec, mse, conn, got, timeouts
Shake == INSTANCE PeerHandshake WITH Setups <- OwnSetups, MaxTimeouts <- 1, pc <- hs_pc
shakeVars == <<setup, hs_pc, buf, net, shut, enc, dec, mse, conn, got, timeouts>>
NoShake == setup = Off /\ hs_pc = Off /\ buf = Off /\ net = Off /\ shut = Off /\ enc = Off
          /\ dec = Off /\ mse = Off /\ conn = Off /\ got = Off /\ timeouts = Off

VARIABLES table_pc, half, table, table_open, table_loop, mutex, blocked, strikes, due,
          banned, sweep, stop, reports
Bans == INSTANCE ConnectionTable WITH Conns <- {"c1", "c2"}, Inbound <- {"c2"},
          Ids <- {"p1", "p2"}, Ips <- {"ip1"}, IdOf <- OwnPeer, IpOf <- OneAddress,
          Above <- {"p2"}, MaxTotal <- 2, MaxPerIp <- 1, MaxHalfOpen <- 1, Threshold <- 1,
          MaxReports <- 1, IoThreads <- 1, Wrap <- 8, None <- "none", pc <- table_pc,
          open <- table_open, loop <- table_loop
Limits == INSTANCE ConnectionTable WITH Conns <- Conns3, Inbound <- Conns3, Ids <- {"p1",
          "p2", "p3"}, Ips <- {"ip1", "ip2"}, IdOf <- OwnPeer3, IpOf <- LastShares,
          Above <- {}, MaxTotal <- 2, MaxPerIp <- 2, MaxHalfOpen <- 1, Threshold <- 1,
          MaxReports <- 0, IoThreads <- 1, Wrap <- 8, None <- "none", pc <- table_pc,
          open <- table_open, loop <- table_loop
Races == INSTANCE ConnectionTable WITH Conns <- {"c1", "c2"}, Inbound <- {"c1", "c2"},
          Ids <- {"p1", "p2"}, Ips <- {"ip1"}, IdOf <- OwnPeer, IpOf <- OneAddress,
          Above <- {"p2"}, MaxTotal <- 1, MaxPerIp <- 2, MaxHalfOpen <- 1, Threshold <- 1,
          MaxReports <- 1, IoThreads <- 2, Wrap <- 8, None <- "none", pc <- table_pc,
          open <- table_open, loop <- table_loop
Waits == INSTANCE ConnectionTable WITH Conns <- {"c1", "c2"}, Inbound <- {}, Ids <- {"p1"},
          Ips <- {"ip1", "ip2"}, IdOf <- OnePeer, IpOf <- OwnAddress, Above <- {},
          MaxTotal <- 2, MaxPerIp <- 2, MaxHalfOpen <- 1, Threshold <- 3, MaxReports <- 1,
          IoThreads <- 1, Wrap <- 8, None <- "none", pc <- table_pc, open <- table_open,
          loop <- table_loop
bansVars == <<table_pc, half, table, table_open, table_loop, mutex, blocked, strikes, due,
              banned, sweep, stop, reports>>
NoBans == table_pc = Off /\ half = Off /\ table = Off /\ table_open = Off /\
          table_loop = Off /\ mutex = Off /\ blocked = Off /\ strikes = Off /\ due = Off /\
          banned = Off /\ sweep = Off /\ stop = Off /\ reports = Off

VARIABLES meta, inv_sized, status, avail, groups, inv_up, broken, has, hint,
          pending, inv_interested, job, todo, returns, repeats
Have == INSTANCE PieceInventory WITH Pieces <- {1, 2}, Peers <- Holders, Loop <- "loop",
          IoThreads <- 1, Magnet <- FALSE, Suspends <- FALSE, KeepAlive <- FALSE, Wrap <- 5,
          MaxReturns <- 0, MaxRepeats <- 1, sized <- inv_sized, up <- inv_up,
          interested <- inv_interested
Links == INSTANCE PieceInventory WITH Pieces <- {1}, Peers <- Holders, Loop <- "loop",
          IoThreads <- 1, Magnet <- TRUE, Suspends <- TRUE, KeepAlive <- TRUE, Wrap <- 5,
          MaxReturns <- 0, MaxRepeats <- 0, sized <- inv_sized, up <- inv_up,
          interested <- inv_interested
Prompt == INSTANCE PieceInventory WITH Pieces <- {1}, Peers <- {"h"}, Loop <- "loop",
          IoThreads <- 1, Magnet <- TRUE, Suspends <- FALSE, KeepAlive <- FALSE, Wrap <- 5,
          MaxReturns <- 1, MaxRepeats <- 1, sized <- inv_sized, up <- inv_up,
          interested <- inv_interested
haveVars == <<meta, inv_sized, status, avail, groups, inv_up, broken, has, hint,
              pending, inv_interested, job, todo, returns, repeats>>
NoHave == meta = Off /\ inv_sized = Off /\ status = Off /\ avail = Off /\ groups = Off /\
          inv_up = Off /\ broken = Off /\ has = Off /\ hint = Off /\ pending = Off /\
          inv_interested = Off /\ job = Off /\ todo = Off /\ returns = Off /\ repeats = Off

VARIABLES active, loaded, parsed, dict, hash, meta_sized, buffer, received, at, piece_part,
          verifying, stopped, meta_up, ext, size, requested, spawned, served, connects,
          messages
Meta == INSTANCE MetadataExchange WITH Peers <- {"p1", "p2"}, Parts <- {1, 2},
          Corrupt <- {"p2"}, CorruptSize <- 1, Ours <- {}, Serving <- TRUE, IoThreads <- 1,
          MaxConnects <- 2, MaxMessages <- 4, sized <- meta_sized, up <- meta_up,
          part <- piece_part
metaVars == <<active, loaded, parsed, dict, hash, meta_sized, buffer, received, at,
              piece_part, verifying, stopped, meta_up, ext, size, requested, spawned,
              served, connects, messages>>
NoMeta == active = Off /\ loaded = Off /\ parsed = Off /\ dict = Off /\ hash = Off /\
          meta_sized = Off /\ buffer = Off /\ received = Off /\ at = Off /\
          piece_part = Off /\ verifying = Off /\ stopped = Off /\ meta_up = Off /\
          ext = Off /\ size = Off /\ requested = Off /\ spawned = Off /\ served = Off /\
          connects = Off /\ messages = Off

(* The constants of the instances are as their modules assume. *)
ASSUME InstancesAssumption == Bans!ConnAssumption /\ Limits!ConnAssumption /\
          Races!ConnAssumption /\ Waits!ConnAssumption /\
          Have!InventoryAssumption /\ Links!InventoryAssumption /\
          Prompt!InventoryAssumption /\ Meta!MetadataAssumption

Components == {"queue", "shake", "bans", "limits", "races", "waits", "have",
               "links", "prompt", "meta"}

MCInit ==
  /\ part \in Components
  /\ Init
  /\ IF Is("shake") THEN Shake!Init ELSE NoShake
  /\ CASE Is("bans") -> Bans!Init [] Is("limits") -> Limits!Init [] Is("races") ->
          Races!Init [] Is("waits") -> Waits!Init [] OTHER -> NoBans
  /\ CASE Is("have") -> Have!Init [] Is("links") -> Links!Init [] Is("prompt") ->
          Prompt!Init [] OTHER -> NoHave
  /\ IF Is("meta") THEN Meta!Init ELSE NoMeta

(* The components but c are left alone. *)
Rest(c) ==
  /\ UNCHANGED part
  /\ IF c = "queue" THEN TRUE ELSE UNCHANGED vars
  /\ IF c = "shake" THEN TRUE ELSE UNCHANGED shakeVars
  /\ IF c \in {"bans", "limits", "races", "waits"} THEN TRUE ELSE UNCHANGED bansVars
  /\ IF c \in {"have", "links", "prompt"} THEN TRUE ELSE UNCHANGED haveVars
  /\ IF c = "meta" THEN TRUE ELSE UNCHANGED metaVars

MCNext ==
  \/ Is("queue") /\ Next /\ Rest("queue")
  \/ Is("shake") /\ Shake!Next /\ Rest("shake")
  \/ Is("bans") /\ Bans!Next /\ Rest("bans")
  \/ Is("limits") /\ Limits!Next /\ Rest("limits")
  \/ Is("races") /\ Races!Next /\ Rest("races")
  \/ Is("waits") /\ Waits!Next /\ Rest("waits")
  \/ Is("have") /\ Have!Next /\ Rest("have")
  \/ Is("links") /\ Links!Next /\ Rest("links")
  \/ Is("prompt") /\ Prompt!Next /\ Rest("prompt")
  \/ Is("meta") /\ Meta!Next /\ Rest("meta")

MCvars == <<part, vars, shakeVars, bansVars, haveVars, metaVars>>

MCSpec == MCInit /\ [][MCNext]_MCvars

-----------------------------------------------------------------------------
(* PeerHandshake: once a stream is in use, its next encrypted field was encrypted at the
   position the reader is at: nothing is encrypted twice, skipped or read in clear. *)
KeystreamsAligned == Is("shake") => Shake!KeystreamsAligned

(* ConnectionTable: add_connection keeps the limits on the table whatever number of
   handshakes finish at the same time. *)
WithinLimits ==
  /\ Is("bans") => Bans!WithinLimits
  /\ Is("limits") => Limits!WithinLimits
  /\ Is("races") => Races!WithinLimits
  /\ Is("waits") => Waits!WithinLimits

(* ConnectionTable: once ban_peer_by_ip has swept the table no connection of a banned
   address is in it, also one whose handshake was past the first check. *)
BannedStayOut == (Is("bans") => Bans!BannedStayOut) /\ (Is("races") => Races!BannedStayOut)

(* PieceInventory: the inventory of every connected peer is taken account of.  The
   availability of a piece counts every connected peer that has it, over bitfields, haves,
   their repeats and disconnects; and an inventory that came before the metadata, or while
   they are loaded, does not stay pending once they are there. *)
InventoriesCounted ==
  /\ Is("have") => Have!AvailabilityCovers
  /\ Is("prompt") => Prompt!NobodyLeftPending
  /\ Is("links") => Links!NobodyLeftPending

(* MetadataExchange: on one thread, the metadata a session starts with are those of the
   link's info hash, whatever the peers sent and in whatever order, also after a download
   that failed the test and was begun anew. *)
StartIsAuthentic == [][Is("meta") => Meta!StartIsAuthentic]_metaVars
=============================================================================
