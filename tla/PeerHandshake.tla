---------------------------- MODULE PeerHandshake ----------------------------
(***************************************************************************)
(* PeerConnection::perform_handshake at both ends of a connection, with    *)
(* the MSE negotiation of AsyncSocket below it.  "I" connects, "A"         *)
(* accepts.  The stream is a sequence of fields; an encrypted field        *)
(* carries the position in the keystream it was encrypted at.              *)
(***************************************************************************)
EXTENDS Integers, Sequences, SequencesExt, FiniteSets

(* A setup says whether each end has encryption on (imse, amse), which methods the first
   end offers, whether its key happens to start like a handshake (lead13), whether both
   are about the same torrent, and whether a client has connected to itself. *)
CONSTANTS Setups,       \* the pairs of ends to consider
          MaxTimeouts   \* how many 10 s deadlines may expire

VARIABLES setup, pc, buf, net, shut, enc, dec, mse, conn, got, timeouts

vars == <<setup, pc, buf, net, shut, enc, dec, mse, conn, got, timeouts>>

Ends == {"I", "A"}
Other(e) == IF e = "I" THEN "A" ELSE "I"

(* A field of connection c.  key "-" is clear text, otherwise pos is the position in
   the keystream of that key. *)
Field(t, key, pos) == [t |-> t, key |-> key, pos |-> pos, c |-> conn]
Clear(t) == Field(t, "-", 0)

Size(f) ==
  CASE f.t = "Y" -> 96 [] f.t \in {"sync", "skey"} -> 20 [] f.t = "VC" -> 8
    [] f.t \in {"provide", "rc4", "plain"} -> 4 [] f.t \in {"len_pad", "len_ia"} -> 2
    [] f.t = "HS" -> 68 [] f.t = "MSG" -> 100

Bytes(s) == FoldSeq(LAMBDA f, n : n + Size(f), 0, s)

(* fill_buffer(need) has what it wants. *)
Filled(e, need) == Bytes(buf[e]) >= need

(* The key of the stream towards e: keyA encrypts I -> A, keyB A -> I. *)
KeyTo(e) == IF e = "A" THEN "keyA" ELSE "keyB"

(* Fields e sends through its encrypt stream, one after the other. *)
Encrypted(e, ts) ==
  [i \in 1..Len(ts) |-> Field(ts[i], KeyTo(Other(e)), enc[e] + i - 1)]

(* What e's decrypt stream makes of a field at its position pos. *)
Decrypts(e, f, pos, t) == f.t = t /\ f.key = KeyTo(e) /\ f.pos = pos

(* encrypting(): the negotiation is done and chose RC4. *)
Encrypting(e) == mse[e] = "rc4"

(* send_raw / send_message of one field, encrypted by the drain when encrypting(). *)
Out(e, t) == IF Encrypting(e) THEN Encrypted(e, <<t>>) ELSE <<Clear(t)>>

(* A clear or decrypted read of t at the front of the buffer succeeds. *)
Reads(e, t) == IF Encrypting(e) THEN Decrypts(e, buf[e][1], dec[e], t)
                                ELSE buf[e][1].t = t /\ buf[e][1].key = "-"

Init ==
  /\ setup \in Setups
  /\ pc = [e \in Ends |-> "begin"]
  /\ buf = [e \in Ends |-> <<>>] /\ net = [e \in Ends |-> <<>>]
  /\ shut = [e \in Ends |-> FALSE]
  /\ enc = [e \in Ends |-> 0] /\ dec = [e \in Ends |-> 0]
  /\ mse = [e \in Ends |-> "none"]
  /\ conn = 1
  /\ got = [e \in Ends |-> {}]
  /\ timeouts = 0

Send(e, fields) == net' = [net EXCEPT ![Other(e)] = @ \o fields]
Drop(e, n) == buf' = [buf EXCEPT ![e] = SubSeq(@, n + 1, Len(@))]
Goto(e, where) == pc' = [pc EXCEPT ![e] = where]

(* How many bytes e waits for in fill_buffer before its next step; scans ask for one
   more byte than they have. *)
Need(e) ==
  CASE pc[e] = "peek" -> 1 [] pc[e] \in {"yb", "ya"} -> 96
    [] pc[e] \in {"vc", "sync"} -> Bytes(buf[e]) + 1
    [] pc[e] = "skey" -> 20 [] pc[e] = "block" -> 84
    [] pc[e] = "select" -> 6 [] pc[e] \in {"ib", "hs"} -> 68
    [] pc[e] = "done" -> 4 [] OTHER -> 0

(* The field a scan looks for is in the buffer. *)
Target(e) == IF pc[e] = "vc" THEN Field("VC", "keyB", 0) ELSE Clear("sync")
Found(e) == {i \in 1..Len(buf[e]) : buf[e][i] = Target(e)}

Waiting(e) ==
  /\ pc[e] \notin {"begin", "failed"}
  /\ IF pc[e] \in {"vc", "sync"} THEN Found(e) = {} ELSE ~Filled(e, Need(e))

(* fill_buffer reads what has arrived of the stream, at least one field. *)
ReadSome(e) ==
  /\ Waiting(e) /\ net[e] # <<>>
  /\ \E n \in 1..Len(net[e]) :
       /\ buf' = [buf EXCEPT ![e] = @ \o SubSeq(net[e], 1, n)]
       /\ net' = [net EXCEPT ![e] = SubSeq(@, n + 1, Len(@))]
  /\ UNCHANGED <<setup, pc, shut, enc, dec, mse, conn, got, timeouts>>

(* The end of a failed handshake: the PeerConnection is destroyed. *)
Fail(e) ==
  /\ Goto(e, "failed")
  /\ shut' = [shut EXCEPT ![e] = TRUE]

(* mse_handshake_initiator returned Failed: close, connect again and go on in clear
   text.  A sees a new connection; the bytes I had buffered stay in read_buf_. *)
Fallback ==
  /\ conn' = conn + 1
  /\ mse' = [e \in Ends |-> "none"]
  /\ pc' = [e \in Ends |-> IF e = "I" THEN "hs" ELSE "begin"]
  /\ buf' = [buf EXCEPT !["A"] = <<>>]
  /\ net' = [e \in Ends |-> IF e = "A" THEN <<[Clear("HS") EXCEPT !.c = conn + 1]>> ELSE <<>>]
  /\ shut' = [e \in Ends |-> FALSE]
  /\ enc' = [e \in Ends |-> 0] /\ dec' = [e \in Ends |-> 0]
  /\ got' = [e \in Ends |-> {}]
  /\ UNCHANGED setup

Negotiating(e) ==
  pc[e] \in {"peek", "ya", "sync", "skey", "block", "yb", "vc", "select", "ib"}

(* An exception in the negotiation or after it. *)
Throw(e) ==
  IF e = "I" /\ Negotiating(e) THEN Fallback
  ELSE Fail(e) /\ UNCHANGED <<setup, buf, net, enc, dec, mse, conn, got>>

(* End of stream while e waits for more. *)
EndOfStream(e) ==
  /\ Waiting(e) /\ net[e] = <<>> /\ shut[Other(e)]
  /\ Throw(e)
  /\ UNCHANGED timeouts

(* op_before_deadline: the 10 s of a step of the negotiation are over. *)
Timeout(e) ==
  /\ timeouts < MaxTimeouts
  /\ Waiting(e) /\ Negotiating(e)
  /\ timeouts' = timeouts + 1
  /\ Throw(e)
-----------------------------------------------------------------------------
(* perform_handshake starts: I says hello with its DH key or its handshake, A looks
   at the first byte or sends its handshake. *)
Begin(e) ==
  /\ pc[e] = "begin"
  /\ LET on == IF e = "I" THEN setup.imse ELSE setup.amse IN
     IF on THEN /\ Goto(e, IF e = "I" THEN "yb" ELSE "peek")
                /\ IF e = "I" THEN Send(e, <<Clear("Y")>>) ELSE UNCHANGED net
     ELSE Goto(e, "hs") /\ Send(e, <<Clear("HS")>>)
  /\ UNCHANGED <<setup, buf, shut, enc, dec, mse, conn, got, timeouts>>

(* Mutant: the decrypt stream is not primed. *)
Unprimed == 0

(* Where the decrypt stream is after it was run over the eight bytes of VC. *)
Primed == 1

(* Step 3: two hashes, the encrypted block and our handshake. *)
Step3 ==
  <<Clear("sync"), Clear("skey")>>
    \o Encrypted("I", <<"VC", "provide", "len_pad", "len_ia", "HS">>)

(* Initiator, step 2 and 3: after Yb both streams
   start and the decrypt stream is primed. *)
ReadYb ==
  /\ pc["I"] = "yb" /\ Filled("I", 96)
  /\ IF buf["I"][1].t = "Y"
     THEN /\ Drop("I", 1)
          /\ Send("I", Step3)
          /\ enc' = [enc EXCEPT !["I"] = 5]
          /\ dec' = [dec EXCEPT !["I"] = Primed]
          /\ Goto("I", "vc")
          /\ UNCHANGED <<setup, shut, mse, conn, got>>
     ELSE Throw("I")
  /\ UNCHANGED timeouts

(* Step 4, the scan for the encrypted VC. *)
ScanVc ==
  /\ pc["I"] = "vc"
  /\ IF Found("I") # {}
     THEN /\ \E i \in Found("I") : (\A j \in Found("I") : i <= j) /\ Drop("I", i)
          /\ Goto("I", "select")
          /\ UNCHANGED <<setup, net, shut, enc, dec, mse, conn, got>>
     ELSE Bytes(buf["I"]) >= 520 /\ Throw("I")
  /\ UNCHANGED timeouts

(* select and len_pad. *)
ReadSelect ==
  /\ pc["I"] = "select" /\ Filled("I", 6)
  /\ \/ \E m \in {"rc4", "plain"} :
          /\ Decrypts("I", buf["I"][1], dec["I"], m)
          /\ Goto("I", "ib")
          /\ got' = [got EXCEPT !["I"] = {m}]
          /\ Drop("I", 2)
          /\ dec' = [dec EXCEPT !["I"] = @ + 2]
          /\ UNCHANGED <<setup, net, shut, enc, mse, conn>>
     \/ /\ ~\E m \in {"rc4", "plain"} : Decrypts("I", buf["I"][1], dec["I"], m)
        /\ Throw("I")
  /\ UNCHANGED timeouts

(* The method the peer selected. *)
Selected == IF "rc4" \in got["I"] THEN "rc4" ELSE "plain"

(* A's handshake, always decrypted; a field that does not decrypt is no handshake. *)
ReadIb ==
  /\ pc["I"] = "ib" /\ Filled("I", 68)
  /\ LET ok == Decrypts("I", buf["I"][1], dec["I"], "HS") IN
     /\ Drop("I", 1)
     /\ dec' = [dec EXCEPT !["I"] = @ + 1]
     /\ mse' = [mse EXCEPT !["I"] = Selected]
     /\ got' = [got EXCEPT !["I"] = IF ok THEN {"HS"} ELSE {}]
     /\ Goto("I", "check")
  /\ UNCHANGED <<setup, net, shut, enc, conn, timeouts>>

(* Acceptor: the first byte tells a clear-text handshake, or a DH key that happens to
   start with the same byte, from the rest. *)
Peek ==
  /\ pc["A"] = "peek" /\ Filled("A", 1)
  /\ IF buf["A"][1].t = "HS" \/ setup.lead13
     THEN Goto("A", "hs") /\ Send("A", <<Clear("HS")>>)
     ELSE Goto("A", "ya") /\ UNCHANGED net
  /\ UNCHANGED <<setup, buf, shut, enc, dec, mse, conn, got, timeouts>>

(* Step 1 and 2 of the acceptor. *)
ReadYa ==
  /\ pc["A"] = "ya" /\ Filled("A", 96)
  /\ Drop("A", 1)
  /\ Send("A", <<Clear("Y")>>)
  /\ Goto("A", "sync")
  /\ UNCHANGED <<setup, shut, enc, dec, mse, conn, got, timeouts>>

ScanSync ==
  /\ pc["A"] = "sync"
  /\ IF Found("A") # {}
     THEN /\ \E i \in Found("A") : (\A j \in Found("A") : i <= j) /\ Drop("A", i)
          /\ Goto("A", "skey")
          /\ UNCHANGED <<setup, net, shut, enc, dec, mse, conn, got>>
     ELSE Bytes(buf["A"]) >= 552 /\ Throw("A")
  /\ UNCHANGED timeouts

(* The obfuscated infohash must be that of our torrent. *)
ReadSkey ==
  /\ pc["A"] = "skey" /\ Filled("A", 20)
  /\ IF setup.torrent
     THEN Drop("A", 1) /\ Goto("A", "block")
          /\ UNCHANGED <<setup, net, shut, enc, dec, mse, conn, got>>
     ELSE Throw("A")
  /\ UNCHANGED timeouts

(* Step 4 and our handshake, encrypted if RC4 was selected. *)
Step4(method) ==
  LET field(t, i) == IF method = "rc4" THEN Field(t, "keyB", i) ELSE Clear(t) IN
  <<field("VC", 0), field(method, 1), field("len_pad", 2), field("HS", 3)>>

(* The block, the method, step 4 and our handshake.  Only the result Rc4 tells
   perform_handshake that it has the peer's handshake already. *)
ReadBlock ==
  LET f == buf["A"]
      ts == <<"VC", "provide", "len_pad", "len_ia", "HS">>
      ok == \A i \in 1..5 : Decrypts("A", f[i], dec["A"] + i - 1, ts[i])
      method == IF "rc4" \in setup.offer THEN "rc4" ELSE "plain" IN
  /\ pc["A"] = "block" /\ Filled("A", 84)
  /\ IF ok /\ setup.offer # {}
     THEN /\ Drop("A", 5)
          /\ dec' = [dec EXCEPT !["A"] = @ + 5]
          /\ mse' = [mse EXCEPT !["A"] = method]
          /\ Send("A", Step4(method))
          /\ enc' = [enc EXCEPT !["A"] = IF method = "rc4" THEN Len(Step4(method)) ELSE 0]
          /\ got' = [got EXCEPT !["A"] = IF method = "rc4" THEN {"HS"} ELSE {"dropped"}]
          /\ Goto("A", IF method = "rc4" THEN "check" ELSE "hs")
          /\ UNCHANGED <<setup, shut, conn>>
     ELSE Throw("A")
  /\ UNCHANGED timeouts

(* receive_raw(68): the peer's handshake outside of the negotiation. *)
ReadHandshake(e) ==
  /\ pc[e] = "hs" /\ Filled(e, 68)
  /\ got' = [got EXCEPT ![e] = IF Reads(e, "HS") THEN @ \union {"HS"} ELSE @]
  /\ Drop(e, 1)
  /\ Goto(e, "check")
  /\ UNCHANGED <<setup, net, shut, enc, dec, mse, conn, timeouts>>

(* Handshake::deserialize, infohash and own id; then the extended handshake and what
   we have, as one message. *)
CheckHandshake(e) ==
  /\ pc[e] = "check"
  /\ IF "HS" \in got[e] /\ setup.torrent /\ ~setup.self
     THEN /\ Send(e, Out(e, "MSG"))
          /\ enc' = [enc EXCEPT ![e] = IF Encrypting(e) THEN @ + 1 ELSE @]
          /\ Goto(e, "done")
          /\ UNCHANGED shut
     ELSE Fail(e) /\ UNCHANGED <<net, enc>>
  /\ UNCHANGED <<setup, buf, dec, mse, conn, got, timeouts>>

(* message_loop: the first message, or something that is none: a length above
   MAX_MESSAGE_SIZE throws. *)
FirstMessage(e) ==
  /\ pc[e] = "done" /\ Filled(e, 4)
  /\ IF Reads(e, "MSG")
     THEN Goto(e, "talking") /\ UNCHANGED shut
     ELSE Fail(e)
  /\ Drop(e, 1)
  /\ dec' = [dec EXCEPT ![e] = IF Encrypting(e) THEN @ + 1 ELSE @]
  /\ UNCHANGED <<setup, net, enc, mse, conn, got, timeouts>>

Step(e) == ReadSome(e) \/ EndOfStream(e) \/ Begin(e) \/ ReadHandshake(e) \/ CheckHandshake(e)
           \/ FirstMessage(e)

Negotiate ==
  \/ ReadYb \/ ScanVc \/ ReadSelect \/ ReadIb
  \/ Peek \/ ReadYa \/ ScanSync \/ ReadSkey \/ ReadBlock

Next == Negotiate \/ \E e \in Ends : Step(e) \/ Timeout(e)

Spec == Init /\ [][Next]_vars
-----------------------------------------------------------------------------
(* What is under way to e, oldest first. *)
Coming(e) == buf[e] \o net[e]

(* Once a stream is in use, its next encrypted field was encrypted at the position the
   reader is at, and so on without a gap: nothing is encrypted twice, skipped or read
   in clear. *)
KeystreamsAligned ==
  \A e \in Ends :
    (pc[e] \in {"select", "ib", "block"} \/ mse[e] = "rc4") /\ pc[e] # "failed"
      => \A i \in 1..Len(Coming(e)) :
           Coming(e)[i].key = KeyTo(e) => Coming(e)[i].pos = dec[e] + i - 1
=============================================================================
