---------------------------- MODULE FrameChannel ----------------------------
(***************************************************************************)
(* What AsyncSocket promises its callers: whole frames reach the wire one  *)
(* at a time in the order in which they were handed over, until the        *)
(* connection fails and what was waiting is lost.                          *)
(***************************************************************************)
EXTENDS Sequences

CONSTANT Frames
VARIABLES waiting,   \* frames handed over and not on the wire yet, oldest first
          sent       \* frames on the wire, in order

Init == waiting = <<>> /\ sent = <<>>

(* send_raw, send_message: hand a frame over. *)
HandOver(f) == waiting' = Append(waiting, f) /\ UNCHANGED sent

(* The oldest frame goes out whole. *)
Transmit ==
  /\ waiting # <<>>
  /\ sent' = Append(sent, Head(waiting))
  /\ waiting' = Tail(waiting)

(* The connection fails: everything that waits is dropped. *)
Lose == waiting' = <<>> /\ UNCHANGED sent

Next == Transmit \/ Lose \/ \E f \in Frames : HandOver(f)

Spec == Init /\ [][Next]_<<waiting, sent>>
=============================================================================
