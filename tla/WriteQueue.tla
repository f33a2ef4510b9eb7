----------------------------- MODULE WriteQueue -----------------------------
(***************************************************************************)
(* The write queue of AsyncSocket.  Coroutines on several threads enqueue  *)
(* frames under a mutex; the one that finds no drain running becomes the   *)
(* drain and writes everybody's frames.  A step ends where the mutex is    *)
(* released or the coroutine suspends.                                     *)
(***************************************************************************)
EXTENDS Integers, Sequences, SequencesExt, FiniteSets

CONSTANTS Writers,    \* coroutines that send on this socket
          MaxSends    \* frames each of them sends, one after the other

ASSUME SendsAssumption == MaxSends \in Nat

VARIABLES queue,      \* WriteQueueState::queue
          writing,    \* WriteQueueState::writing
          pc,         \* where each writer is in enqueue_write / drain_write_queue
          sends,      \* frames each writer has handed over so far
          entry,      \* the frame each drain popped, as a sequence of at most one
          remaining,  \* what each failed drain took out of the queue
          failed,     \* frames whose *result holds an error
          outcome,    \* what enqueue_write did for each frame
          keystream,  \* frames in the order the RC4 stream encrypted them
          wire,       \* frames written to the socket
          open        \* the connection works

vars == <<queue, writing, pc, sends, entry, remaining, failed, outcome, keystream, wire, open>>

Frames == Writers \X (1..MaxSends)

Current(w) == <<w, sends[w]>>

Init ==
  /\ queue = <<>> /\ writing = FALSE
  /\ pc = [w \in Writers |-> "idle"]
  /\ sends = [w \in Writers |-> 0]
  /\ entry = [w \in Writers |-> <<>>]
  /\ remaining = [w \in Writers |-> <<>>]
  /\ failed = {}
  /\ outcome = [f \in Frames |-> "none"]
  /\ keystream = <<>> /\ wire = <<>>
  /\ open = TRUE

(* Mutant: a frame is encrypted when it is enqueued as well. *)
EnqueueEncrypts(w) ==
  /\ pc[w] = "idle" /\ sends[w] < MaxSends
  /\ sends' = [sends EXCEPT ![w] = @ + 1]
  /\ queue' = Append(queue, <<w, sends'[w]>>)
  /\ keystream' = Append(keystream, <<w, sends'[w]>>)
  /\ writing' = TRUE
  /\ pc' = [pc EXCEPT ![w] = IF writing THEN "wait" ELSE "drain"]
  /\ UNCHANGED <<entry, remaining, failed, outcome, wire, open>>

(* enqueue_write, the locked section. *)
Enqueue(w) ==
  /\ pc[w] = "idle" /\ sends[w] < MaxSends
  /\ sends' = [sends EXCEPT ![w] = @ + 1]
  /\ queue' = Append(queue, <<w, sends'[w]>>)
  /\ writing' = TRUE
  /\ pc' = [pc EXCEPT ![w] = IF writing THEN "wait" ELSE "drain"]
  /\ UNCHANGED <<entry, remaining, failed, outcome, keystream, wire, open>>

(* The end of enqueue_write for a writer's frame. *)
Finish(w, what) ==
  /\ pc' = [pc EXCEPT ![w] = "idle"]
  /\ outcome' = [outcome EXCEPT ![Current(w)] = what]

(* The wait of a writer that is not the drain.  The timer was never given an
   expiry, so async_wait completes as soon as it is scheduled, cancelled or not. *)
WaiterReturns(w) ==
  /\ pc[w] = "wait"
  /\ Finish(w, IF Current(w) \in failed THEN "threw" ELSE "returned")
  /\ UNCHANGED <<queue, writing, sends, entry, remaining, failed, keystream, wire, open>>

(* Mutant: the drain takes the newest frame. *)
PopNewest(w) ==
  /\ pc[w] = "drain" /\ queue # <<>>
  /\ entry' = [entry EXCEPT ![w] = <<Last(queue)>>]
  /\ queue' = Front(queue)
  /\ pc' = [pc EXCEPT ![w] = "popped"]
  /\ UNCHANGED <<writing, sends, remaining, failed, outcome, keystream, wire, open>>

(* drain_write_queue, the locked section: take the oldest frame. *)
Pop(w) ==
  /\ pc[w] = "drain" /\ queue # <<>>
  /\ entry' = [entry EXCEPT ![w] = <<Head(queue)>>]
  /\ queue' = Tail(queue)
  /\ pc' = [pc EXCEPT ![w] = "popped"]
  /\ UNCHANGED <<writing, sends, remaining, failed, outcome, keystream, wire, open>>

(* drain_write_queue, the locked section with nothing left: the drain ends. *)
EndDrain(w) ==
  /\ pc[w] = "drain" /\ queue = <<>>
  /\ writing' = FALSE
  /\ Finish(w, "returned")
  /\ UNCHANGED <<queue, sends, entry, remaining, failed, keystream, wire, open>>

(* Encrypt the frame and start async_write. *)
StartWrite(w) ==
  /\ pc[w] = "popped"
  /\ keystream' = keystream \o entry[w]
  /\ pc' = [pc EXCEPT ![w] = "write"]
  /\ UNCHANGED <<queue, writing, sends, entry, remaining, failed, outcome, wire, open>>

(* async_write completes; the waiter is cancelled and the drain goes on. *)
WriteDone(w) ==
  /\ pc[w] = "write" /\ open
  /\ wire' = wire \o entry[w]
  /\ entry' = [entry EXCEPT ![w] = <<>>]
  /\ pc' = [pc EXCEPT ![w] = "drain"]
  /\ UNCHANGED <<queue, writing, sends, remaining, failed, outcome, keystream, open>>

(* async_write fails: fail_all_writes takes the queue away under the mutex. *)
WriteFails(w) ==
  /\ pc[w] = "write" /\ ~open
  /\ remaining' = [remaining EXCEPT ![w] = queue]
  /\ queue' = <<>>
  /\ writing' = FALSE
  /\ entry' = [entry EXCEPT ![w] = <<>>]
  /\ pc' = [pc EXCEPT ![w] = "failing"]
  /\ UNCHANGED <<sends, failed, outcome, keystream, wire, open>>

(* fail_all_writes, outside the mutex: one writer after the other gets the error,
   then the drain rethrows. *)
FailNext(w) ==
  /\ pc[w] = "failing"
  /\ IF remaining[w] = <<>>
     THEN Finish(w, "threw") /\ UNCHANGED <<remaining, failed>>
     ELSE /\ failed' = failed \union {Head(remaining[w])}
          /\ remaining' = [remaining EXCEPT ![w] = Tail(@)]
          /\ UNCHANGED <<pc, outcome>>
  /\ UNCHANGED <<queue, writing, sends, entry, keystream, wire, open>>

(* The connection is closed, by either end. *)
Close ==
  /\ open
  /\ open' = FALSE
  /\ UNCHANGED <<queue, writing, pc, sends, entry, remaining, failed, outcome, keystream, wire>>

DrainStep(w) == Pop(w) \/ EndDrain(w) \/ StartWrite(w) \/ FailNext(w)

Next ==
  \/ Close
  \/ \E w \in Writers : \/ Enqueue(w) \/ WaiterReturns(w)
                        \/ DrainStep(w) \/ WriteDone(w) \/ WriteFails(w)

Spec == Init /\ [][Next]_vars
-----------------------------------------------------------------------------
Draining(w) == pc[w] \in {"drain", "popped", "write"}

(* The frames handed over and not on the wire yet, oldest first: the one the drain
   holds, then the queue. *)
HandedOver(held, waiting) ==
  IF \E w \in Writers : held[w] # <<>>
  THEN held[CHOOSE w \in Writers : held[w] # <<>>] \o waiting
  ELSE waiting

InHand == HandedOver(entry, queue)

TypeOK ==
  /\ queue \in Seq(Frames) /\ writing \in BOOLEAN /\ open \in BOOLEAN
  /\ pc \in [Writers -> {"idle", "wait", "drain", "popped", "write", "failing"}]
  /\ sends \in [Writers -> 0..MaxSends]
  /\ entry \in [Writers -> Seq(Frames)] /\ remaining \in [Writers -> Seq(Frames)]
  /\ failed \subseteq Frames
  /\ outcome \in [Frames -> {"none", "returned", "threw"}]
  /\ keystream \in Seq(Frames) /\ wire \in Seq(Frames)

(* The writing flag is up exactly while one coroutine drains, so async_write is
   never called while another one is pending. *)
OneDrain ==
  /\ \A v, w \in Writers : Draining(v) /\ Draining(w) => v = w
  /\ writing <=> \E w \in Writers : Draining(w)

(* The keystream was applied to the frames in the order they went out, so that the
   peer can decrypt what it reads: on a connection that works, only the frame being
   written is ahead. *)
KeystreamFollowsWire ==
  open => keystream = wire \o (IF \E w \in Writers : pc[w] = "write" THEN <<InHand[1]>> ELSE <<>>)

(* The queue with its drain is a FIFO channel of whole frames. *)
Channel == INSTANCE FrameChannel WITH waiting <- InHand, sent <- wire
ImplementsChannel == Channel!Spec
=============================================================================
