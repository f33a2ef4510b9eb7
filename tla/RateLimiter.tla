---------------------------- MODULE RateLimiter ----------------------------
(***************************************************************************)
(* AsyncRateLimiter: a token bucket with a queue of waiters and one timer  *)
(* that refills it.  await_tokens, set_rate, stop and on_refill each hold  *)
(* the mutex, but on_refill arms its timer again, and set_rate and stop    *)
(* cancel it, after they have let go of it, and a wait that is cancelled   *)
(* runs its handler later.  Calls of set_rate do not overlap.              *)
(***************************************************************************)
EXTENDS Integers, Sequences, FiniteSets

CONSTANTS Waiters,     \* calls of await_tokens
          Amount,      \* the bytes each asks for
          StartRate,   \* rate_bps of the constructor
          Rates,       \* the rates set_rate may be called with, 0 for no limit
          PerSecond,   \* refills in a second (10: refill_interval is 100 ms)
          MaxSets,     \* bound on the calls of set_rate
          MaxRefills,  \* bound on the refills that are counted
          Unlimited    \* numeric_limits::max

VARIABLES rate, capacity, tokens, active, down, queue,
          armed,    \* the timer is waited on
          aborted,  \* handlers of cancelled waits that have not run
          cancels,  \* calls that have let go of the mutex and are to cancel the timer
          gap,      \* on_refill is between its unlock and schedule_refill
          served,   \* waiters completed without error
          failed,   \* waiters completed with operation_aborted
          refills, sets

vars == <<rate, capacity, tokens, active, down, queue, armed, aborted, cancels, gap, served,
          failed, refills, sets>>

ASSUME LimiterAssumption ==
  /\ Amount \in [Waiters -> Nat \ {0}] /\ StartRate \in Nat /\ Rates \subseteq Nat
  /\ PerSecond \in Nat \ {0} /\ MaxSets \in Nat /\ MaxRefills \in Nat
  /\ Unlimited \in Nat /\ \A r \in Rates \cup {StartRate} : r <= Unlimited

Lower(a, b) == IF a < b THEN a ELSE b

(* What one refill adds. *)
RefillAmount == rate \div PerSecond

Queued == {queue[i] : i \in 1..Len(queue)}

Init ==
  /\ rate = StartRate /\ capacity = StartRate /\ tokens = StartRate
  /\ active = FALSE /\ down = FALSE
  /\ queue = <<>>
  /\ armed = FALSE /\ aborted = 0 /\ cancels = 0 /\ gap = 0
  /\ served = {} /\ failed = {}
  /\ refills = 0 /\ sets = 0

(* schedule_refill: expires_after cancels a wait that is pending. *)
Schedule ==
  /\ armed' = TRUE
  /\ aborted' = IF armed THEN aborted + 1 ELSE aborted

(* maybe_start_refill_locked, at rate r. *)
MaybeStartRefill(r) ==
  IF active \/ r = 0 THEN UNCHANGED <<active, armed, aborted>>
                     ELSE active' = TRUE /\ Schedule

(* What the first n waiters ask for. *)
Cost(n) == LET sum[i \in 0..Len(queue)] == IF i = 0 THEN 0 ELSE sum[i - 1] + Amount[queue[i]]
           IN sum[n]

(* t tokens pay for the first n waiters and not for the one behind them. *)
Ready(t, n) == Cost(n) <= t /\ (n < Len(queue) => Cost(n + 1) > t)

(* collect_ready_waiters_locked with t tokens, and their handlers. *)
Collect(t) ==
  \E n \in 0..Len(queue) :
    /\ Ready(t, n)
    /\ tokens' = t - Cost(n)
    /\ served' = served \cup {queue[i] : i \in 1..n}
    /\ queue' = SubSeq(queue, n + 1, Len(queue))

-----------------------------------------------------------------------------
(* await_tokens. *)
Await(w) ==
  /\ w \notin Queued \cup served \cup failed
  /\ IF down
     THEN failed' = failed \cup {w} /\ UNCHANGED <<tokens, active, armed, aborted, queue, served>>
     ELSE /\ MaybeStartRefill(rate)
          /\ IF rate = 0 \/ tokens >= Amount[w]
             THEN /\ tokens' = IF rate = 0 THEN tokens ELSE tokens - Amount[w]
                  /\ served' = served \cup {w}
                  /\ UNCHANGED queue
             ELSE queue' = Append(queue, w) /\ UNCHANGED <<tokens, served>>
          /\ UNCHANGED failed
  /\ UNCHANGED <<rate, capacity, down, cancels, gap, refills, sets>>

(* A form of SetUnlimited that leaves refill_active up. *)
SetUnlimitedFlagUp ==
  /\ ~down /\ 0 \in Rates /\ sets < MaxSets /\ cancels = 0
  /\ rate' = 0 /\ capacity' = 0 /\ tokens' = Unlimited
  /\ cancels' = 1
  /\ served' = served \cup Queued /\ queue' = <<>>
  /\ sets' = sets + 1
  /\ UNCHANGED <<down, active, armed, aborted, gap, failed, refills>>

(* set_rate: to no limit, which serves everyone and stops the timer ... *)
SetUnlimited ==
  /\ ~down /\ 0 \in Rates /\ sets < MaxSets /\ cancels = 0
  /\ rate' = 0 /\ capacity' = 0 /\ tokens' = Unlimited
  /\ active' = FALSE /\ cancels' = 1
  /\ served' = served \cup Queued /\ queue' = <<>>
  /\ sets' = sets + 1
  /\ UNCHANGED <<down, armed, aborted, gap, failed, refills>>

(* ... or to another limit. *)
SetRate(r) ==
  /\ ~down /\ r \in Rates \ {0} /\ sets < MaxSets /\ cancels = 0
  /\ rate' = r /\ capacity' = r
  /\ MaybeStartRefill(r)
  /\ Collect(Lower(tokens, r))
  /\ sets' = sets + 1
  /\ UNCHANGED <<down, cancels, gap, failed, refills>>

(* stop, also from the destructor and from close(). *)
Stop ==
  /\ ~down
  /\ down' = TRUE /\ active' = FALSE /\ cancels' = cancels + 1
  /\ failed' = failed \cup Queued /\ queue' = <<>>
  /\ UNCHANGED <<rate, capacity, tokens, armed, aborted, gap, served, refills, sets>>

(* timer.cancel(), after the unlock of set_rate or stop. *)
CancelTimer ==
  /\ cancels > 0 /\ cancels' = cancels - 1
  /\ armed' = FALSE
  /\ aborted' = IF armed THEN aborted + 1 ELSE aborted
  /\ UNCHANGED <<rate, capacity, tokens, active, down, queue, gap, served, failed, refills,
                 sets>>

-----------------------------------------------------------------------------
(* on_refill when the timer expires, up to its unlock ... *)
Refill ==
  /\ armed /\ armed' = FALSE
  /\ IF down
     THEN active' = FALSE /\ UNCHANGED <<tokens, served, queue, gap>>
     ELSE /\ Collect(Lower(tokens + RefillAmount, capacity))
          /\ IF rate > 0 THEN gap' = gap + 1 /\ UNCHANGED active
                         ELSE active' = FALSE /\ UNCHANGED gap
  /\ refills' = Lower(refills + 1, MaxRefills)
  /\ UNCHANGED <<rate, capacity, down, aborted, cancels, failed, sets>>

(* ... and its schedule_refill after it. *)
Rearm ==
  /\ gap > 0 /\ gap' = gap - 1
  /\ Schedule
  /\ UNCHANGED <<rate, capacity, tokens, active, down, queue, cancels, served, failed, refills,
                 sets>>

(* on_refill of a wait that was cancelled. *)
OnAborted ==
  /\ aborted > 0 /\ aborted' = aborted - 1
  /\ active' = FALSE
  /\ UNCHANGED <<rate, capacity, tokens, down, queue, armed, cancels, gap, served, failed,
                 refills, sets>>

Timer == Refill \/ Rearm \/ OnAborted \/ CancelTimer

Next ==
  \/ \E w \in Waiters : Await(w)
  \/ SetUnlimited \/ Stop
  \/ \E r \in Rates : SetRate(r)
  \/ Timer

Spec == Init /\ [][Next]_vars

(* The timer expires and the handlers it leaves are run. *)
FairSpec == Spec /\ WF_vars(Refill) /\ WF_vars(Rearm) /\ WF_vars(OnAborted)
                 /\ WF_vars(CancelTimer)

-----------------------------------------------------------------------------
(* Nobody waits without a refill to come: as long as the queue is not empty the timer is
   armed, or the handler that will arm it is running.  (refill_active does not say so: the
   handler of a cancelled wait lowers it after the next wait has begun.) *)
WaitersHaveRefill == queue # <<>> => armed \/ gap > 0

(* stop leaves nobody in the queue, and nobody enters it afterwards. *)
StoppedQueueEmpty == down => queue = <<>>
=============================================================================
