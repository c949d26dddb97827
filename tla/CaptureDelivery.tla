-------------------------- MODULE CaptureDelivery --------------------------
(***************************************************************************)
(* captureDelivery (capture_delivery.go): the bounded, batched, send-once  *)
(* queue behind GuardClient.Capture and GuardClient.Flush.                 *)
(*                                                                         *)
(* One mutex and ONE condition variable serve the worker goroutine and     *)
(* every caller of Flush.  A critical section (from Lock or the return of  *)
(* cond.Wait to Unlock or the next cond.Wait) is one action.  A goroutine  *)
(* is asleep in cond.Wait while it is in `waiting'; Signal removes one     *)
(* sleeper of the runtime's choice and Broadcast removes them all, after   *)
(* which each runs its next critical section when it gets the lock.        *)
(*                                                                         *)
(* An event is its sequence number: the caller's payload plays no part.    *)
(* Timers and contexts are actions: a deadline may pass at any moment.     *)
(***************************************************************************)
EXTENDS Integers, Sequences, Functions

CONSTANTS
  Flushers,    (* goroutines that call Flush                               *)
  Worker,      (* the worker goroutine's name in the wait set              *)
  QueueSize,   (* d.queueSize, after positiveIntOr                         *)
  BatchSize,   (* d.batchSize, after positiveIntOr                         *)
  MaxEvents,   (* bound: events accepted in a behaviour                    *)
  MaxRefused,  (* bound: events refused in a behaviour                     *)
  MaxLate      (* bound: timer callbacks running late at one time          *)

ASSUME DeliveryAssumption ==
  /\ Worker \notin Flushers
  /\ QueueSize \in Nat \ {0}
  /\ BatchSize \in Nat \ {0}
  /\ MaxEvents \in Nat
  /\ MaxRefused \in Nat
  /\ MaxLate \in Nat

VARIABLES
  queue,       (* d.queue: sequence numbers waiting for a batch            *)
  nextSeq,     (* d.nextSeq                                                *)
  outstanding, (* d.outstanding                                            *)
  flushNow,    (* d.flushNow                                               *)
  worker,      (* d.worker                                                 *)
  waiting,     (* goroutines asleep in d.cond.Wait                         *)
  wpc,         (* where the worker goroutine is                            *)
  wTimedOut,   (* timedOut of the worker's armed timer                     *)
  batch,       (* the batch the worker holds                               *)
  fpc,         (* where each caller of Flush is                            *)
  barrier,     (* barrier of each caller of Flush                          *)
  ctx,         (* its context and timer: live, done, or done and fired     *)
  late,        (* callbacks of stopped timers that still have to run       *)
  sent, failed, expired, (* history: the fate of each event                *)
  refused      (* history: events dropped on a full queue                  *)

shared  == <<queue, nextSeq, outstanding, flushNow, worker, waiting>>
workerV == <<wpc, wTimedOut, batch>>
flushV  == <<fpc, barrier, ctx>>
fates   == <<sent, failed, expired, refused>>
vars    == <<shared, workerV, flushV, late, fates>>

WorkerPC == {"none", "collect", "idle", "window", "sending", "exiting"}
Seqs == 1..MaxEvents

Init ==
  /\ queue = <<>>
  /\ nextSeq = 0
  /\ outstanding = 0
  /\ flushNow = FALSE
  /\ worker = FALSE
  /\ waiting = {}
  /\ wpc = "none"
  /\ wTimedOut = FALSE
  /\ batch = <<>>
  /\ fpc = [f \in Flushers |-> "idle"]
  /\ barrier = [f \in Flushers |-> 0]
  /\ ctx = [f \in Flushers |-> "live"]
  /\ late = 0
  /\ sent = {}
  /\ failed = {}
  /\ expired = {}
  /\ refused = 0

-----------------------------------------------------------------------------
(* The condition variable and the helpers that run under the lock.         *)

(* sync.Cond.Signal wakes one waiter, whichever goroutine it is. *)
Signal ==
  \/ waiting = {} /\ waiting' = {}
  \/ \E g \in waiting : waiting' = waiting \ {g}

Broadcast == waiting' = {}

EnsureWorker ==
  /\ worker' = TRUE
  /\ wpc' = IF worker THEN wpc ELSE "collect"

AtLeastZero(n) == IF n < 0 THEN 0 ELSE n
Smaller(m, n) == IF m < n THEN m ELSE n

(* n events are settled: what finish and abandonLocked do to the count. *)
OneSettled(n) == outstanding' = AtLeastZero(outstanding - 1)   \* mutant: counts batches
Settled(n) == outstanding' = AtLeastZero(outstanding - n)

(* A timer stopped too late to prevent its callback leaves it behind. *)
StopTimer(fired) ==
  \/ late' = late
  \/ ~fired /\ late < MaxLate /\ late' = late + 1

(* How many queued events a barrier covers; they are the first ones. *)
CoveredExclusive(b) ==                              \* mutant: < in place of <=
  CHOOSE j \in 0..Len(queue) :
    \A i \in 1..Len(queue) : queue[i] < b <=> i <= j
Covered(b) ==
  CHOOSE j \in 0..Len(queue) :
    \A i \in 1..Len(queue) : queue[i] <= b <=> i <= j

Abandon(b) ==
  LET dropped == Covered(b) IN
  /\ queue' = SubSeq(queue, dropped + 1, Len(queue))
  /\ Settled(dropped)
  /\ expired' = expired \cup {queue[i] : i \in 1..dropped}
  /\ Broadcast

-----------------------------------------------------------------------------
(* Callers of Capture.                                                     *)

RoomForOneMore == outstanding <= QueueSize               \* mutant: off by one
RoomLessOne == outstanding + 1 < QueueSize               \* mutant: off by one
HasRoom == outstanding < QueueSize

Capture ==
  /\ HasRoom
  /\ nextSeq < MaxEvents
  /\ outstanding' = outstanding + 1
  /\ nextSeq' = nextSeq + 1
  /\ queue' = Append(queue, nextSeq + 1)
  /\ EnsureWorker
  /\ Signal
  /\ UNCHANGED <<flushNow, wTimedOut, batch, flushV, late, fates>>

(* A full queue drops the newest event, the one being captured. *)
Refuse ==
  /\ ~HasRoom
  /\ refused < MaxRefused
  /\ refused' = refused + 1
  /\ UNCHANGED <<shared, workerV, flushV, late, sent, failed, expired>>

-----------------------------------------------------------------------------
(* Callers of Flush.  GuardClient.Flush gives every context a deadline.    *)

FlushReturn(f) ==
  /\ flushNow' = FALSE
  /\ fpc' = [fpc EXCEPT ![f] = "idle"]
  /\ barrier' = [barrier EXCEPT ![f] = 0]
  /\ ctx' = [ctx EXCEPT ![f] = "live"]

(* With nothing outstanding Flush returns at once and changes nothing. *)
FlushBegin(f) ==
  /\ fpc[f] = "idle"
  /\ outstanding > 0
  /\ flushNow' = TRUE
  /\ EnsureWorker
  /\ waiting' = {f}
  /\ fpc' = [fpc EXCEPT ![f] = "waiting"]
  /\ barrier' = [barrier EXCEPT ![f] = nextSeq]
  /\ UNCHANGED <<queue, nextSeq, outstanding, wTimedOut, batch, ctx, late, fates>>

(* Called with a context that is already done. *)
FlushExpiredCall(f) ==
  /\ fpc[f] = "idle"
  /\ outstanding > 0
  /\ flushNow' = FALSE
  /\ EnsureWorker
  /\ Abandon(nextSeq)
  /\ UNCHANGED <<nextSeq, wTimedOut, batch, flushV, late, sent, failed, refused>>

(* The context ends, or its deadline passes before the callback runs: *)
(* nobody is woken.                                                   *)
ContextEnds(f) ==
  /\ fpc[f] = "waiting"
  /\ ctx[f] = "live"
  /\ ctx' = [ctx EXCEPT ![f] = "done"]
  /\ UNCHANGED <<shared, workerV, fpc, barrier, late, fates>>

FlushTimer(f) ==
  /\ fpc[f] = "waiting"
  /\ ctx[f] # "fired"
  /\ ctx' = [ctx EXCEPT ![f] = "fired"]
  /\ Broadcast
  /\ UNCHANGED <<queue, nextSeq, outstanding, flushNow, worker, workerV, fpc, barrier, late, fates>>

Awake(f) == fpc[f] = "waiting" /\ f \notin waiting

FlushDrained(f) ==
  /\ Awake(f)
  /\ outstanding = 0
  /\ FlushReturn(f)
  /\ StopTimer(ctx[f] = "fired")
  /\ UNCHANGED <<queue, nextSeq, outstanding, worker, waiting, workerV, fates>>

FlushExpires(f) ==
  /\ Awake(f)
  /\ outstanding > 0
  /\ ctx[f] # "live"
  /\ Abandon(barrier[f])
  /\ FlushReturn(f)
  /\ StopTimer(ctx[f] = "fired")
  /\ UNCHANGED <<nextSeq, worker, workerV, sent, failed, refused>>

FlushWaitsOn(f) ==
  /\ Awake(f)
  /\ outstanding > 0
  /\ ctx[f] = "live"
  /\ waiting' = waiting \cup {f}
  /\ UNCHANGED <<queue, nextSeq, outstanding, flushNow, worker, workerV, flushV, late, fates>>

FlushResumes(f) == FlushDrained(f) \/ FlushExpires(f) \/ FlushWaitsOn(f)

-----------------------------------------------------------------------------
(* The worker goroutine: collect, send, finish, and exit when idle.        *)

Room == BatchSize - Len(batch)

TakeCopy(k) ==                                      \* mutant: queue not advanced
  /\ batch' = batch \o SubSeq(queue, 1, k)
  /\ UNCHANGED queue
Take(k) ==
  /\ batch' = batch \o SubSeq(queue, 1, k)
  /\ queue' = SubSeq(queue, k + 1, Len(queue))

(* A flush empties the queue into the batch, as far as the batch goes. *)
Drain ==
  /\ flushNow
  /\ Take(Smaller(Room, Len(queue)))
  /\ wpc' = "sending"
  /\ UNCHANGED waiting

(* Inside the batch window: take events one by one until the batch is full *)
(* or the delay is over, and sleep when there is nothing left to take.     *)
Fill(least) ==
  /\ ~flushNow
  /\ \E k \in least..Smaller(Room, Len(queue)) :
       /\ Take(k)
       /\ \/ wpc' = "sending" /\ UNCHANGED waiting
          \/ /\ k < Room /\ k = Len(queue)
             /\ wpc' = "window"
             /\ waiting' = waiting \cup {Worker}

StartBatch ==
  /\ queue # <<>>
  /\ Drain \/ Fill(1)

CollectIdle ==
  /\ wpc = "collect"
  /\ queue = <<>>
  /\ \/ /\ flushNow
        /\ wpc' = "exiting"
        /\ UNCHANGED waiting
     \/ /\ ~flushNow
        /\ wpc' = "idle"
        /\ waiting' = waiting \cup {Worker}
  /\ UNCHANGED <<queue, nextSeq, outstanding, flushNow, worker, wTimedOut, batch, flushV, late, fates>>

CollectBatch ==
  /\ wpc = "collect"
  /\ StartBatch
  /\ UNCHANGED <<nextSeq, outstanding, flushNow, worker, wTimedOut, flushV, late, fates>>

TimerWithoutBroadcast ==                            \* mutant: nobody is woken
  /\ wpc \in {"idle", "window"}
  /\ ~wTimedOut
  /\ wTimedOut' = TRUE
  /\ UNCHANGED <<shared, wpc, batch, flushV, late, fates>>
WorkerTimer ==
  /\ wpc \in {"idle", "window"}
  /\ ~wTimedOut
  /\ wTimedOut' = TRUE
  /\ Broadcast
  /\ UNCHANGED <<queue, nextSeq, outstanding, flushNow, worker, wpc, batch, flushV, late, fates>>

(* The inner loop of both sleeps: nothing the worker waits for happened. *)
WorkerSleepsOn ==
  /\ wpc \in {"idle", "window"}
  /\ Worker \notin waiting
  /\ queue = <<>> /\ ~wTimedOut /\ ~flushNow
  /\ waiting' = waiting \cup {Worker}
  /\ UNCHANGED <<queue, nextSeq, outstanding, flushNow, worker, workerV, flushV, late, fates>>

IdleEnds ==
  /\ wpc = "idle"
  /\ Worker \notin waiting
  /\ \/ /\ queue = <<>> /\ (wTimedOut \/ flushNow)
        /\ wpc' = "exiting"
        /\ UNCHANGED <<queue, batch, waiting>>
     \/ StartBatch
  /\ StopTimer(wTimedOut)
  /\ wTimedOut' = FALSE
  /\ UNCHANGED <<nextSeq, outstanding, flushNow, worker, flushV, fates>>

WindowEnds ==
  /\ wpc = "window"
  /\ Worker \notin waiting
  /\ \/ Drain
     \/ ~wTimedOut /\ queue # <<>> /\ Fill(0)
     \/ /\ wTimedOut /\ ~flushNow
        /\ wpc' = "sending"
        /\ UNCHANGED <<queue, batch, waiting>>
  /\ StopTimer(wTimedOut)
  /\ wTimedOut' = FALSE
  /\ UNCHANGED <<nextSeq, outstanding, flushNow, worker, flushV, fates>>

(* The request returns within captureSendTimeout; run reports an error and *)
(* either way finish settles the batch.                                    *)
SendReturns ==
  /\ wpc = "sending"
  /\ \/ sent' = sent \cup Range(batch) /\ UNCHANGED failed
     \/ failed' = failed \cup Range(batch) /\ UNCHANGED sent
  /\ Settled(Len(batch))
  /\ batch' = <<>>
  /\ wpc' = "collect"
  /\ Broadcast
  /\ UNCHANGED <<queue, nextSeq, flushNow, worker, wTimedOut, flushV, late, expired, refused>>

ExitUnchecked ==                                    \* mutant: queue not rechecked
  /\ wpc = "exiting"
  /\ wpc' = "none" /\ worker' = FALSE
  /\ UNCHANGED <<queue, nextSeq, outstanding, flushNow, waiting, wTimedOut, batch, flushV, late, fates>>
(* collect came back empty: exit, unless an event arrived in between. *)
WorkerExits ==
  /\ wpc = "exiting"
  /\ \/ queue # <<>> /\ wpc' = "collect" /\ UNCHANGED worker
     \/ queue = <<>> /\ wpc' = "none" /\ worker' = FALSE
  /\ UNCHANGED <<queue, nextSeq, outstanding, flushNow, waiting, wTimedOut, batch, flushV, late, fates>>

LateCallback ==
  /\ late > 0
  /\ late' = late - 1
  /\ Broadcast
  /\ UNCHANGED <<queue, nextSeq, outstanding, flushNow, worker, workerV, flushV, fates>>

WorkerRuns ==
  \/ CollectIdle \/ CollectBatch
  \/ WorkerSleepsOn \/ IdleEnds \/ WindowEnds
  \/ SendReturns \/ WorkerExits

Next ==
  \/ Capture
  \/ Refuse
  \/ \E f \in Flushers :
       \/ FlushBegin(f) \/ FlushExpiredCall(f)
       \/ ContextEnds(f) \/ FlushTimer(f) \/ FlushResumes(f)
  \/ WorkerRuns
  \/ WorkerTimer
  \/ LateCallback

Spec == Init /\ [][Next]_vars

(* Goroutines that can run do run, requests return (they carry their own   *)
(* timeout) and the worker's timers fire.  Nobody has to capture or flush, *)
(* and no flush is helped by its deadline: FlushTimer is NOT fair.         *)
Fairness ==
  /\ WF_vars(WorkerRuns)
  /\ WF_vars(WorkerTimer)
  /\ \A f \in Flushers : WF_vars(FlushResumes(f))

FairSpec == Spec /\ Fairness

-----------------------------------------------------------------------------
(* Properties.                                                             *)

Increasing(s) == \A i, j \in DOMAIN s : i < j => s[i] < s[j]
Delivered == sent \cup failed
InFlight == Range(batch)
Queued == Range(queue)

(* Every variable keeps its type; in particular the count of outstanding   *)
(* events never leaves 0..QueueSize and a batch never exceeds BatchSize.   *)
TypeOK ==
  /\ queue \in Seq(Seqs) /\ Len(queue) <= QueueSize
  /\ batch \in Seq(Seqs) /\ Len(batch) <= BatchSize
  /\ nextSeq \in 0..MaxEvents
  /\ outstanding \in 0..QueueSize
  /\ flushNow \in BOOLEAN
  /\ worker \in BOOLEAN
  /\ waiting \subseteq Flushers \cup {Worker}
  /\ wpc \in WorkerPC
  /\ wTimedOut \in BOOLEAN
  /\ fpc \in [Flushers -> {"idle", "waiting"}]
  /\ barrier \in [Flushers -> 0..MaxEvents]
  /\ ctx \in [Flushers -> {"live", "done", "fired"}]
  /\ late \in 0..MaxLate
  /\ sent \subseteq Seqs /\ failed \subseteq Seqs /\ expired \subseteq Seqs
  /\ refused \in 0..MaxRefused

(* capture refuses an event exactly when QueueSize events are queued or in *)
(* flight: the counter that decides it always equals the events it counts, *)
(* through every capture, batch, failed send and expired flush, so neither *)
(* clamp at zero ever acts and no capacity is ever leaked or invented.     *)
OutstandingExact == outstanding = Len(queue) + Len(batch)

(* Send-once and in order.  An accepted event is in exactly one place:     *)
(* queued, in the worker's batch, sent, lost with a failed batch, or       *)
(* expired; and whatever has been delivered was captured before everything *)
(* that is still to be.                                                    *)
OneFateInOrder ==
  /\ Increasing(batch \o queue)
  /\ 1..nextSeq = Queued \cup InFlight \cup Delivered \cup expired
  /\ sent \cap failed = {}
  /\ Delivered \cap expired = {}
  /\ (Queued \cup InFlight) \cap (Delivered \cup expired) = {}
  /\ \A d \in Delivered, p \in Queued \cup InFlight : d < p

(* No lost wakeup, although one condition variable serves two kinds of     *)
(* waiter and capture signals only one of them.  Nobody is asleep while    *)
(* the thing it waits for holds: no worker sleeps through a flush, no idle *)
(* worker sleeps on a non-empty queue, no Flush sleeps when nothing is     *)
(* outstanding; and accepted events always have a worker.                  *)
NoLostWakeup ==
  /\ Worker \in waiting => wpc \in {"idle", "window"} /\ ~flushNow /\ ~wTimedOut
  /\ Worker \in waiting /\ wpc = "idle" => queue = <<>>
  /\ \A f \in Flushers : f \in waiting => outstanding > 0 /\ ctx[f] # "fired"
  /\ outstanding > 0 => worker

(* A Flush returns only when every event captured before it was called has *)
(* left the queue - posted, lost or dropped, or in the request being sent  *)
(* - and whatever the flush drops was captured before it was called.       *)
FlushSettles ==
  [][\A f \in Flushers :
       fpc[f] = "waiting" /\ fpc'[f] = "idle" =>
         /\ \A e \in Range(queue') : e > barrier[f]
         /\ \A e \in expired' \ expired : e <= barrier[f]]_vars

(* Every step of the delivery is a step the abstract queue allows, or      *)
(* changes nothing its callers can see: bounded, refusing only when full,  *)
(* oldest first, each event settled once.                                  *)
Promise == INSTANCE CaptureQueue WITH
  accepted <- nextSeq,
  pending <- Queued \cup InFlight
QueuePromise == Promise!Spec

(* Every accepted event is eventually settled, without anyone calling      *)
(* Flush.                                                                  *)
EveryEventSettles ==
  \A e \in Seqs : (e \in Queued \cup InFlight) ~> (e \in Delivered \cup expired)

(* A Flush returns as soon as captures pause, with no help from its        *)
(* deadline: the worker's own broadcasts are enough.                       *)
FlushReturns ==
  \A f \in Flushers : (fpc[f] = "waiting") ~> (fpc[f] = "idle")

(* "Never process-holding": once captures stop, the worker goroutine ends. *)
WorkerStops == <>[](~worker)

(* README: "sends batches of up to 50 on size or a 100 ms delay".  A full  *)
(* batch does not wait for the delay: while the worker is asleep in its    *)
(* window, what it holds and what is queued do not fill a batch.           *)
SizeTriggersSend ==
  ~ (wpc = "window" /\ Worker \in waiting /\ Len(batch) + Len(queue) >= BatchSize)
=============================================================================
