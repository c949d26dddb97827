----------------------- MODULE CaptureDeliveryProofs -----------------------
(***************************************************************************)
(* TLAPS proofs about CaptureDelivery, for every number of Flush callers   *)
(* and every queue size, batch size and bound: the count and the wake-ups, *)
(* then that every event is settled once and in order, that Flush keeps    *)
(* its word, and that CaptureDelivery implements CaptureQueue.             *)
(***************************************************************************)
EXTENDS CaptureDelivery, FiniteSetTheorems, SequenceTheorems, WellFoundedInduction, TLAPS

(* Where the worker is says what it holds: a goroutine runs exactly when   *)
(* d.worker is set, only the batch window and the request hold events, a   *)
(* window still has room, and timedOut outlives no sleep.                  *)
WorkerInv ==
  /\ worker <=> wpc # "none"
  /\ wpc \notin {"window", "sending"} => batch = <<>>
  /\ wpc = "window" => Len(batch) < BatchSize
  /\ wTimedOut => wpc \in {"idle", "window"}

(* The queue is in capture order, so a barrier covers a prefix of it. *)
QueueInv ==
  /\ \A i, j \in 1..Len(queue) : i < j => queue[i] < queue[j]
  /\ \A i \in 1..Len(queue) : queue[i] <= nextSeq

(* A goroutine asleep in Flush is inside Flush; outside it, no context. *)
FlushInv ==
  \A f \in Flushers :
    /\ f \in waiting => fpc[f] = "waiting"
    /\ fpc[f] = "idle" => ctx[f] = "live"

DeliveryInv ==
  /\ TypeOK
  /\ OutstandingExact
  /\ WorkerInv
  /\ QueueInv
  /\ FlushInv
  /\ NoLostWakeup

-----------------------------------------------------------------------------
(* Sequences.                                                              *)

(* The two halves of a sequence cut after position k. *)
LEMMA CutProperties ==
  ASSUME NEW S, NEW s \in Seq(S), NEW k \in 0..Len(s)
  PROVE  /\ SubSeq(s, 1, k) \in Seq(S)
         /\ Len(SubSeq(s, 1, k)) = k
         /\ \A i \in 1..k : SubSeq(s, 1, k)[i] = s[i]
         /\ SubSeq(s, k + 1, Len(s)) \in Seq(S)
         /\ Len(SubSeq(s, k + 1, Len(s))) = Len(s) - k
         /\ \A i \in 1..(Len(s) - k) : SubSeq(s, k + 1, Len(s))[i] = s[k + i]
<1>1. Len(s) \in Nat /\ \A i \in 1..Len(s) : s[i] \in S
  BY ElementOfSeq, LenProperties
<1>2. /\ SubSeq(s, 1, k) \in Seq(S)
      /\ Len(SubSeq(s, 1, k)) = k
      /\ \A i \in 1..k : SubSeq(s, 1, k)[i] = s[i]
  BY <1>1, SubSeqProperties
<1>3. /\ SubSeq(s, k + 1, Len(s)) \in Seq(S)
      /\ Len(SubSeq(s, k + 1, Len(s))) = Len(s) - k
      /\ \A i \in 1..(Len(s) - k) : SubSeq(s, k + 1, Len(s))[i] = s[k + i]
  BY <1>1, SubSeqProperties
<1>. QED
  BY <1>2, <1>3

(* Taking k events from the queue: what is held and what is left. *)
LEMMA TakeProperties ==
  ASSUME DeliveryInv, NEW k \in 0..Smaller(Room, Len(queue)), Take(k)
  PROVE  /\ batch' \in Seq(Seqs)
         /\ Len(batch') = Len(batch) + k
         /\ Len(batch') <= BatchSize
         /\ queue' \in Seq(Seqs) /\ Len(queue') <= QueueSize
         /\ Len(queue') = Len(queue) - k
         /\ Len(queue) \in Nat /\ Len(batch) \in Nat /\ k \in Nat
         /\ \A i, j \in 1..Len(queue') : i < j => queue'[i] < queue'[j]
         /\ \A i \in 1..Len(queue') : queue'[i] <= nextSeq
<1>1. /\ queue \in Seq(Seqs) /\ batch \in Seq(Seqs) /\ Len(batch) <= BatchSize
      /\ Len(queue) <= QueueSize
      /\ Len(queue) \in Nat /\ Len(batch) \in Nat
  BY LenProperties DEF DeliveryInv, TypeOK
<1>2. BatchSize \in Nat /\ QueueSize \in Nat
  BY DeliveryAssumption
<1>3. k \in 0..Len(queue) /\ Len(batch) + k <= BatchSize
  BY <1>1, <1>2 DEF Smaller, Room
<1>4. /\ SubSeq(queue, 1, k) \in Seq(Seqs)
      /\ Len(SubSeq(queue, 1, k)) = k
      /\ SubSeq(queue, k + 1, Len(queue)) \in Seq(Seqs)
      /\ Len(SubSeq(queue, k + 1, Len(queue))) = Len(queue) - k
      /\ \A i \in 1..(Len(queue) - k) : SubSeq(queue, k + 1, Len(queue))[i] = queue[k + i]
  BY <1>1, <1>3, CutProperties
<1>5. /\ batch' = batch \o SubSeq(queue, 1, k)
      /\ queue' = SubSeq(queue, k + 1, Len(queue))
  BY DEF Take
<1>6. batch' \in Seq(Seqs) /\ Len(batch') = Len(batch) + k
  BY <1>1, <1>4, <1>5, ConcatProperties
<1>7. Len(queue') <= QueueSize
  BY <1>1, <1>2, <1>3, <1>4, <1>5
<1>8. ASSUME NEW i \in 1..Len(queue')
      PROVE  k + i \in 1..Len(queue) /\ queue'[i] = queue[k + i]
  BY <1>1, <1>3, <1>4, <1>5
<1>9. ASSUME NEW i \in 1..Len(queue'), NEW j \in 1..Len(queue'), i < j
      PROVE  queue'[i] < queue'[j]
  <2>1. k + i < k + j
    BY <1>1, <1>3, <1>4, <1>5, <1>9
  <2>. QED
    BY <1>8, <2>1 DEF DeliveryInv, QueueInv
<1>10. \A i \in 1..Len(queue') : queue'[i] <= nextSeq
  BY <1>8 DEF DeliveryInv, QueueInv
<1>11. k \in Nat /\ Len(batch') <= BatchSize /\ Len(queue') = Len(queue) - k
  BY <1>1, <1>3, <1>4, <1>5, <1>6
<1>12. queue' \in Seq(Seqs)
  BY <1>4, <1>5
<1>. QED
  BY <1>1, <1>6, <1>7, <1>9, <1>10, <1>11, <1>12

(* The least-number principle, for a set of naturals. *)
LEMMA LeastNumber ==
  ASSUME NEW T, T \subseteq Nat, T # {}
  PROVE  \E n \in T : \A m \in T : n <= m
<1>. DEFINE LT == OpToRel(<, Nat)
<1>1. \A m, n \in Nat : m < n => <<m, n>> \in LT
  BY DEF OpToRel
<1>2. IsWellFoundedOn(LT, Nat)
  BY NatLessThanWellFounded
<1>. HIDE DEF LT
<1>3. PICK n \in T : \A m \in T : ~ (<<m, n>> \in LT)
  BY <1>2, WFMin
<1>4. ASSUME NEW m \in T
      PROVE  n <= m
  <2>1. m \in Nat /\ n \in Nat
    OBVIOUS
  <2>2. ~ (m < n)
    BY <1>1, <1>3, <2>1, Zenon
  <2>. QED
    BY <2>1, <2>2
<1>. QED
  BY <1>4

(* A barrier splits the queue: covered events first, the others after. *)
LEMMA CoveredProperties ==
  ASSUME DeliveryInv, NEW b \in Nat
  PROVE  /\ Covered(b) \in 0..Len(queue)
         /\ \A i \in 1..Len(queue) : queue[i] <= b <=> i <= Covered(b)
<1>1. queue \in Seq(Seqs) /\ Len(queue) \in Nat /\ \A i \in 1..Len(queue) : queue[i] \in Nat
  BY LenProperties, ElementOfSeq, DeliveryAssumption DEF DeliveryInv, TypeOK, Seqs
<1>. DEFINE Beyond == {n \in 1..(Len(queue) + 1) : n = Len(queue) + 1 \/ queue[n] > b}
<1>2. Len(queue) + 1 \in Beyond /\ Beyond \subseteq Nat
  BY <1>1
<1>3. PICK n \in Beyond : \A m \in Beyond : n <= m
  BY <1>2, LeastNumber
<1>4. n - 1 \in 0..Len(queue)
  BY <1>1, <1>3
<1>5. ASSUME NEW i \in 1..Len(queue)
      PROVE  queue[i] <= b <=> i <= n - 1
  <2>1. CASE i < n
    <3>1. i \notin Beyond
      BY <1>1, <1>2, <1>3, <2>1
    <3>. QED
      BY <1>1, <1>4, <2>1, <3>1
  <2>2. CASE i >= n
    <3>1. n \in 1..Len(queue) /\ queue[n] > b
      BY <1>1, <1>3, <2>2
    <3>2. queue[i] >= queue[n]
      BY <1>1, <2>2, <3>1 DEF DeliveryInv, QueueInv
    <3>. QED
      BY <1>1, <1>4, <2>2, <3>1, <3>2
  <2>. QED
    BY <1>1, <1>3, <2>1, <2>2
<1>6. \E j \in 0..Len(queue) : \A i \in 1..Len(queue) : queue[i] <= b <=> i <= j
  BY <1>4, <1>5
<1>. QED
  BY <1>6 DEF Covered

(* Dropping the events a barrier covers keeps the count exact. *)
LEMMA AbandonProperties ==
  ASSUME DeliveryInv, NEW b \in Nat, Abandon(b), UNCHANGED batch
  PROVE  /\ queue' \in Seq(Seqs) /\ Len(queue') <= QueueSize
         /\ \A i, j \in 1..Len(queue') : i < j => queue'[i] < queue'[j]
         /\ \A i \in 1..Len(queue') : queue'[i] <= nextSeq
         /\ outstanding' = Len(queue') + Len(batch')
         /\ outstanding' \in 0..QueueSize
         /\ expired' \subseteq Seqs
         /\ waiting' = {}
<1>. DEFINE d == Covered(b)
<1>1. d \in 0..Len(queue)
  BY CoveredProperties
<1>2. /\ queue \in Seq(Seqs) /\ batch \in Seq(Seqs)
      /\ Len(queue) \in Nat /\ Len(batch) \in Nat
      /\ \A i \in 1..Len(queue) : queue[i] \in Seqs
      /\ outstanding = Len(queue) + Len(batch)
      /\ outstanding \in 0..QueueSize /\ QueueSize \in Nat
      /\ expired \subseteq Seqs
  BY LenProperties, ElementOfSeq, DeliveryAssumption DEF DeliveryInv, TypeOK, OutstandingExact
<1>3. /\ queue' = SubSeq(queue, d + 1, Len(queue))
      /\ outstanding' = AtLeastZero(outstanding - d)
      /\ expired' = expired \cup {queue[i] : i \in 1..d}
      /\ waiting' = {}
  BY DEF Abandon, Settled, Broadcast
<1>. HIDE DEF d
<1>4. /\ queue' \in Seq(Seqs)
      /\ Len(queue') = Len(queue) - d
      /\ \A i \in 1..(Len(queue) - d) : queue'[i] = queue[d + i]
  BY <1>1, <1>2, <1>3, CutProperties
<1>5. outstanding' = Len(queue') + Len(batch')
  <2>1. outstanding - d = Len(queue') + Len(batch) /\ outstanding - d >= 0
    BY <1>1, <1>2, <1>4
  <2>2. Len(batch') = Len(batch)
    OBVIOUS
  <2>. QED
    BY <1>1, <1>2, <1>3, <2>1, <2>2 DEF AtLeastZero
<1>6. outstanding' \in 0..QueueSize
  BY <1>1, <1>2, <1>4, <1>5
<1>7. expired' \subseteq Seqs
  BY <1>1, <1>2, <1>3
<1>8. Len(queue') <= QueueSize
  BY <1>1, <1>2, <1>4
<1>9. ASSUME NEW i \in 1..Len(queue')
      PROVE  d + i \in 1..Len(queue) /\ queue'[i] = queue[d + i]
  BY <1>1, <1>2, <1>4
<1>10. ASSUME NEW i \in 1..Len(queue'), NEW j \in 1..Len(queue'), i < j
       PROVE  queue'[i] < queue'[j]
  <2>1. d + i < d + j
    BY <1>1, <1>2, <1>4, <1>10
  <2>. QED
    BY <1>9, <2>1 DEF DeliveryInv, QueueInv
<1>11. \A i \in 1..Len(queue') : queue'[i] <= nextSeq
  BY <1>9 DEF DeliveryInv, QueueInv
<1>. QED
  BY <1>3, <1>4, <1>5, <1>6, <1>7, <1>8, <1>10, <1>11

-----------------------------------------------------------------------------
(* Stopping a timer keeps the number of late callbacks in its bound. *)
LEMMA StopTimerType ==
  ASSUME late \in 0..MaxLate, NEW fired, StopTimer(fired)
  PROVE  late' \in 0..MaxLate
BY DeliveryAssumption DEF StopTimer

(* DeliveryInv holds at the start and every step preserves it.             *)

LEMMA InitDelivery == Init => DeliveryInv
<1>. SUFFICES ASSUME Init PROVE DeliveryInv
  OBVIOUS
<1>1. queue \in Seq(Seqs) /\ Len(queue) = 0 /\ batch \in Seq(Seqs) /\ Len(batch) = 0
  BY EmptySeq DEF Init
<1>2. TypeOK
  <2>1. 0 \in 0..MaxEvents /\ 0 \in 0..QueueSize /\ 0 \in 0..MaxLate /\ 0 \in 0..MaxRefused
    BY DeliveryAssumption
  <2>2. Len(queue) <= QueueSize /\ Len(batch) <= BatchSize
    BY <1>1, DeliveryAssumption
  <2>. QED
    BY <1>1, <2>1, <2>2 DEF Init, TypeOK, WorkerPC
<1>. QED
  BY <1>1, <1>2 DEF Init, DeliveryInv, OutstandingExact, WorkerInv, QueueInv, FlushInv, NoLostWakeup

LEMMA CaptureDelivers ==
  ASSUME DeliveryInv, Capture
  PROVE  DeliveryInv'
<1>. USE DeliveryAssumption
<1>1. /\ queue \in Seq(Seqs) /\ Len(queue) \in Nat /\ Len(batch) \in Nat
      /\ nextSeq \in Nat /\ nextSeq + 1 \in Seqs
      /\ \A i \in 1..Len(queue) : queue[i] \in Nat
  BY LenProperties, ElementOfSeq DEF DeliveryInv, TypeOK, Capture, Seqs
<1>2. /\ queue' = Append(queue, nextSeq + 1)
      /\ nextSeq' = nextSeq + 1 /\ outstanding' = outstanding + 1
  BY DEF Capture
<1>3. /\ queue' \in Seq(Seqs) /\ Len(queue') = Len(queue) + 1
      /\ queue'[Len(queue) + 1] = nextSeq + 1
      /\ \A i \in 1..Len(queue) : queue'[i] = queue[i]
  BY <1>1, <1>2, AppendProperties
<1>4. OutstandingExact'
  BY <1>1, <1>2, <1>3 DEF DeliveryInv, OutstandingExact, Capture
<1>5. TypeOK'
  <2>1. outstanding' \in 0..QueueSize /\ Len(queue') <= QueueSize
    BY <1>1, <1>2, <1>3 DEF DeliveryInv, TypeOK, OutstandingExact, Capture, HasRoom
  <2>. QED
    BY <1>1, <1>2, <1>3, <2>1
    DEF DeliveryInv, TypeOK, Capture, EnsureWorker, Signal, WorkerPC, flushV, fates
<1>6. WorkerInv'
  BY DEF DeliveryInv, WorkerInv, TypeOK, Capture, EnsureWorker
<1>7. QueueInv'
  BY <1>1, <1>2, <1>3 DEF DeliveryInv, QueueInv
<1>8. waiting' \subseteq waiting
  BY DEF Capture, Signal
<1>9. FlushInv'
  BY <1>8 DEF DeliveryInv, FlushInv, Capture, flushV
<1>10. NoLostWakeup'
  (* An idle worker is the only sleeper: nothing is outstanding. *)
  <2>1. ASSUME Worker \in waiting, wpc = "idle"
        PROVE  Worker \notin waiting'
    <3>1. queue = <<>> /\ batch = <<>>
      BY <2>1 DEF DeliveryInv, NoLostWakeup, WorkerInv
    <3>2. outstanding = 0
      BY <3>1, EmptySeq DEF DeliveryInv, OutstandingExact
    <3>3. waiting = {Worker}
      BY <2>1, <3>2 DEF DeliveryInv, NoLostWakeup, TypeOK
    <3>. QED
      BY <3>3 DEF Capture, Signal
  <2>2. wpc' = "idle" => wpc = "idle"
    BY DEF Capture, EnsureWorker
  <2>3. outstanding' > 0 /\ worker'
    BY <1>2 DEF DeliveryInv, TypeOK, Capture, EnsureWorker
  <2>4. Worker \in waiting' => wpc' \in {"idle", "window"} /\ ~flushNow' /\ ~wTimedOut'
    BY <1>8 DEF DeliveryInv, NoLostWakeup, WorkerInv, Capture, EnsureWorker
  <2>5. \A f \in Flushers : f \in waiting' => ctx'[f] # "fired"
    BY <1>8 DEF DeliveryInv, NoLostWakeup, Capture, flushV
  <2>. QED
    BY <1>8, <2>1, <2>2, <2>3, <2>4, <2>5 DEF NoLostWakeup
<1>. QED
  BY <1>4, <1>5, <1>6, <1>7, <1>9, <1>10 DEF DeliveryInv

LEMMA RefuseDelivers ==
  ASSUME DeliveryInv, Refuse
  PROVE  DeliveryInv'
<1>. USE DeliveryAssumption
<1>1. TypeOK'
  BY DEF DeliveryInv, TypeOK, Refuse, shared, workerV, flushV
<1>. QED
  BY <1>1 DEF DeliveryInv, OutstandingExact, WorkerInv, QueueInv, FlushInv, NoLostWakeup,
     Refuse, shared, workerV, flushV

LEMMA FlushBeginDelivers ==
  ASSUME DeliveryInv, NEW f \in Flushers, FlushBegin(f)
  PROVE  DeliveryInv'
<1>. USE DeliveryAssumption
<1>1. TypeOK'
  BY DEF DeliveryInv, TypeOK, FlushBegin, EnsureWorker, WorkerPC, fates
<1>2. OutstandingExact' /\ QueueInv'
  BY DEF DeliveryInv, OutstandingExact, QueueInv, FlushBegin
<1>3. WorkerInv'
  BY DEF DeliveryInv, WorkerInv, FlushBegin, EnsureWorker
<1>4. FlushInv'
  BY DEF DeliveryInv, TypeOK, FlushInv, FlushBegin
<1>5. NoLostWakeup'
  <2>1. Worker # f /\ ctx[f] # "fired"
    BY DEF DeliveryInv, FlushInv, FlushBegin
  <2>2. waiting' = {f} /\ ctx' = ctx /\ outstanding' = outstanding /\ outstanding > 0 /\ worker'
    BY DEF FlushBegin, EnsureWorker
  <2>. QED
    BY <2>1, <2>2 DEF DeliveryInv, NoLostWakeup, FlushBegin, EnsureWorker
<1>. QED
  BY <1>1, <1>2, <1>3, <1>4, <1>5 DEF DeliveryInv

LEMMA FlushExpiredCallDelivers ==
  ASSUME DeliveryInv, NEW f \in Flushers, FlushExpiredCall(f)
  PROVE  DeliveryInv'
<1>. USE DeliveryAssumption
<1>1. Abandon(nextSeq) /\ UNCHANGED batch /\ nextSeq \in Nat
  BY DEF DeliveryInv, TypeOK, FlushExpiredCall
<1>2. /\ queue' \in Seq(Seqs) /\ Len(queue') <= QueueSize
      /\ \A i, j \in 1..Len(queue') : i < j => queue'[i] < queue'[j]
      /\ \A i \in 1..Len(queue') : queue'[i] <= nextSeq
      /\ outstanding' = Len(queue') + Len(batch')
      /\ outstanding' \in 0..QueueSize
      /\ expired' \subseteq Seqs
      /\ waiting' = {}
  BY <1>1, AbandonProperties
<1>4. TypeOK'
  BY <1>2 DEF DeliveryInv, TypeOK, FlushExpiredCall, EnsureWorker, WorkerPC, flushV
<1>5. OutstandingExact'
  BY <1>2 DEF OutstandingExact
<1>6. QueueInv'
  BY <1>2 DEF QueueInv, FlushExpiredCall
<1>7. WorkerInv' /\ FlushInv' /\ NoLostWakeup'
  BY <1>2 DEF DeliveryInv, WorkerInv, FlushInv, NoLostWakeup, FlushExpiredCall, EnsureWorker, flushV
<1>. QED
  BY <1>4, <1>5, <1>6, <1>7 DEF DeliveryInv

LEMMA ContextEndsDelivers ==
  ASSUME DeliveryInv, NEW f \in Flushers, ContextEnds(f)
  PROVE  DeliveryInv'
<1>1. TypeOK'
  BY DEF DeliveryInv, TypeOK, ContextEnds, shared, workerV, fates
<1>2. OutstandingExact' /\ WorkerInv' /\ QueueInv'
  BY DEF DeliveryInv, OutstandingExact, WorkerInv, QueueInv, ContextEnds, shared, workerV
<1>3. FlushInv' /\ NoLostWakeup'
  BY DEF DeliveryInv, TypeOK, FlushInv, NoLostWakeup, ContextEnds, shared, workerV
<1>. QED
  BY <1>1, <1>2, <1>3 DEF DeliveryInv

LEMMA FlushTimerDelivers ==
  ASSUME DeliveryInv, NEW f \in Flushers, FlushTimer(f)
  PROVE  DeliveryInv'
<1>1. TypeOK'
  BY DEF DeliveryInv, TypeOK, FlushTimer, Broadcast, workerV, fates
<1>2. OutstandingExact' /\ WorkerInv' /\ QueueInv'
  BY DEF DeliveryInv, OutstandingExact, WorkerInv, QueueInv, FlushTimer, workerV
<1>3. FlushInv' /\ NoLostWakeup'
  BY DEF DeliveryInv, TypeOK, FlushInv, NoLostWakeup, FlushTimer, Broadcast, workerV
<1>. QED
  BY <1>1, <1>2, <1>3 DEF DeliveryInv

LEMMA FlushDrainedDelivers ==
  ASSUME DeliveryInv, NEW f \in Flushers, FlushDrained(f)
  PROVE  DeliveryInv'
<1>1. TypeOK'
  <2>1. late' \in 0..MaxLate
    BY StopTimerType DEF DeliveryInv, TypeOK, FlushDrained
  <2>2. 0 \in 0..MaxEvents
    BY DeliveryAssumption
  <2>. QED
    BY <2>1, <2>2 DEF DeliveryInv, TypeOK, FlushDrained, FlushReturn, workerV, fates
<1>2. OutstandingExact' /\ WorkerInv' /\ QueueInv'
  BY DEF DeliveryInv, OutstandingExact, WorkerInv, QueueInv, FlushDrained, workerV
<1>3. FlushInv' /\ NoLostWakeup'
  BY DEF DeliveryInv, TypeOK, FlushInv, NoLostWakeup, FlushDrained, FlushReturn, Awake, workerV
<1>. QED
  BY <1>1, <1>2, <1>3 DEF DeliveryInv

LEMMA FlushExpiresDelivers ==
  ASSUME DeliveryInv, NEW f \in Flushers, FlushExpires(f)
  PROVE  DeliveryInv'
<1>. USE DeliveryAssumption
<1>. DEFINE b == barrier[f]
<1>1. Abandon(b) /\ UNCHANGED batch /\ b \in Nat
  BY DEF DeliveryInv, TypeOK, FlushExpires, workerV
<1>2. /\ queue' \in Seq(Seqs) /\ Len(queue') <= QueueSize
      /\ \A i, j \in 1..Len(queue') : i < j => queue'[i] < queue'[j]
      /\ \A i \in 1..Len(queue') : queue'[i] <= nextSeq
      /\ outstanding' = Len(queue') + Len(batch')
      /\ outstanding' \in 0..QueueSize
      /\ expired' \subseteq Seqs
      /\ waiting' = {}
  BY <1>1, AbandonProperties
<1>. HIDE DEF b
<1>4. TypeOK'
  <2>1. late' \in 0..MaxLate
    BY StopTimerType DEF DeliveryInv, TypeOK, FlushExpires
  <2>2. 0 \in 0..MaxEvents
    BY DeliveryAssumption
  <2>. QED
    BY <1>2, <2>1, <2>2 DEF DeliveryInv, TypeOK, FlushExpires, FlushReturn, workerV
<1>5. OutstandingExact'
  BY <1>2 DEF OutstandingExact
<1>6. QueueInv'
  BY <1>2 DEF QueueInv, FlushExpires
<1>7. WorkerInv' /\ FlushInv' /\ NoLostWakeup'
  BY <1>2 DEF DeliveryInv, TypeOK, WorkerInv, FlushInv, NoLostWakeup, FlushExpires, FlushReturn, workerV
<1>. QED
  BY <1>4, <1>5, <1>6, <1>7 DEF DeliveryInv

LEMMA FlushWaitsOnDelivers ==
  ASSUME DeliveryInv, NEW f \in Flushers, FlushWaitsOn(f)
  PROVE  DeliveryInv'
<1>. USE DeliveryAssumption
<1>1. TypeOK'
  BY DEF DeliveryInv, TypeOK, FlushWaitsOn, workerV, flushV, fates
<1>2. OutstandingExact' /\ WorkerInv' /\ QueueInv'
  BY DEF DeliveryInv, OutstandingExact, WorkerInv, QueueInv, FlushWaitsOn, workerV
<1>3. FlushInv'
  BY DEF DeliveryInv, FlushInv, FlushWaitsOn, Awake, flushV
<1>4. NoLostWakeup'
  BY DEF DeliveryInv, NoLostWakeup, FlushWaitsOn, Awake, workerV, flushV
<1>. QED
  BY <1>1, <1>2, <1>3, <1>4 DEF DeliveryInv

(* Starting or filling a batch: what the worker's three ways of taking     *)
(* events from the queue have in common.                                   *)
LEMMA TakingDelivers ==
  ASSUME DeliveryInv,
         NEW k \in 0..Smaller(Room, Len(queue)), Take(k),
         wpc \in {"collect", "idle", "window"}, Worker \notin waiting,
         \/ wpc' = "sending" /\ UNCHANGED waiting
         \/ /\ wpc' = "window" /\ k < Room /\ ~flushNow
            /\ waiting' = waiting \cup {Worker},
         wTimedOut' = FALSE, late' \in 0..MaxLate,
         UNCHANGED <<nextSeq, outstanding, flushNow, worker, flushV, fates>>
  PROVE  DeliveryInv'
<1>. USE DeliveryAssumption
<1>1. /\ batch' \in Seq(Seqs)
      /\ Len(batch') = Len(batch) + k
      /\ Len(batch') <= BatchSize
      /\ queue' \in Seq(Seqs) /\ Len(queue') <= QueueSize
      /\ Len(queue') = Len(queue) - k
      /\ Len(queue) \in Nat /\ Len(batch) \in Nat /\ k \in Nat
      /\ \A i, j \in 1..Len(queue') : i < j => queue'[i] < queue'[j]
      /\ \A i \in 1..Len(queue') : queue'[i] <= nextSeq
  BY TakeProperties
<1>2. TypeOK'
  BY <1>1 DEF DeliveryInv, TypeOK, WorkerPC, flushV, fates
<1>3. OutstandingExact'
  BY <1>1 DEF DeliveryInv, OutstandingExact
<1>4. WorkerInv'
  BY <1>1 DEF DeliveryInv, WorkerInv, Room
<1>5. QueueInv' /\ FlushInv'
  BY <1>1 DEF DeliveryInv, QueueInv, FlushInv, flushV
<1>6. NoLostWakeup'
  BY DEF DeliveryInv, NoLostWakeup, flushV
<1>. QED
  BY <1>2, <1>3, <1>4, <1>5, <1>6 DEF DeliveryInv

(* Emptying the queue for a flush, or filling the window, is taking k.     *)
LEMMA DrainOrFillTakes ==
  ASSUME DeliveryInv, NEW least \in {0, 1}, Drain \/ Fill(least)
  PROVE  \E k \in 0..Smaller(Room, Len(queue)) :
           /\ Take(k)
           /\ \/ wpc' = "sending" /\ UNCHANGED waiting
              \/ /\ wpc' = "window" /\ k < Room /\ ~flushNow
                 /\ waiting' = waiting \cup {Worker}
<1>1. Len(queue) \in Nat /\ Len(batch) \in Nat /\ Len(batch) <= BatchSize /\ BatchSize \in Nat
  BY LenProperties, DeliveryAssumption DEF DeliveryInv, TypeOK
<1>2. Smaller(Room, Len(queue)) \in 0..Smaller(Room, Len(queue))
  BY <1>1 DEF Smaller, Room
<1>3. CASE Drain
  BY <1>2, <1>3 DEF Drain
<1>4. CASE Fill(least)
  <2>1. PICK k \in least..Smaller(Room, Len(queue)) :
           /\ Take(k)
           /\ \/ wpc' = "sending" /\ UNCHANGED waiting
              \/ /\ k < Room /\ k = Len(queue)
                 /\ wpc' = "window"
                 /\ waiting' = waiting \cup {Worker}
    BY <1>4 DEF Fill
  <2>2. k \in 0..Smaller(Room, Len(queue))
    BY <1>1, <1>2
  <2>. QED
    BY <1>4, <2>1, <2>2 DEF Fill
<1>. QED
  BY <1>3, <1>4

LEMMA CollectIdleDelivers ==
  ASSUME DeliveryInv, CollectIdle
  PROVE  DeliveryInv'
<1>1. TypeOK'
  BY DEF DeliveryInv, TypeOK, CollectIdle, WorkerPC, flushV, fates
<1>2. OutstandingExact' /\ WorkerInv' /\ QueueInv'
  BY DEF DeliveryInv, OutstandingExact, WorkerInv, QueueInv, CollectIdle
<1>3. FlushInv'
  BY DeliveryAssumption DEF DeliveryInv, FlushInv, CollectIdle, flushV
<1>4. NoLostWakeup'
  BY DeliveryAssumption DEF DeliveryInv, WorkerInv, NoLostWakeup, CollectIdle, flushV
<1>. QED
  BY <1>1, <1>2, <1>3, <1>4 DEF DeliveryInv

LEMMA CollectBatchDelivers ==
  ASSUME DeliveryInv, CollectBatch
  PROVE  DeliveryInv'
<1>1. PICK k \in 0..Smaller(Room, Len(queue)) :
        /\ Take(k)
        /\ \/ wpc' = "sending" /\ UNCHANGED waiting
           \/ /\ wpc' = "window" /\ k < Room /\ ~flushNow
              /\ waiting' = waiting \cup {Worker}
  BY DrainOrFillTakes DEF CollectBatch, StartBatch
<1>2. wpc = "collect" /\ Worker \notin waiting /\ wTimedOut' = FALSE /\ late' \in 0..MaxLate
  BY DEF DeliveryInv, TypeOK, WorkerInv, NoLostWakeup, CollectBatch
<1>3. UNCHANGED <<nextSeq, outstanding, flushNow, worker, flushV, fates>>
  BY DEF CollectBatch
<1>. QED
  BY <1>1, <1>2, <1>3, TakingDelivers

LEMMA WorkerTimerDelivers ==
  ASSUME DeliveryInv, WorkerTimer
  PROVE  DeliveryInv'
<1>1. TypeOK' /\ OutstandingExact'
  BY DEF DeliveryInv, TypeOK, OutstandingExact, WorkerTimer, Broadcast, flushV, fates
<1>2. WorkerInv' /\ QueueInv'
  BY DEF DeliveryInv, WorkerInv, QueueInv, WorkerTimer
<1>3. FlushInv' /\ NoLostWakeup'
  BY DEF DeliveryInv, FlushInv, NoLostWakeup, WorkerTimer, Broadcast, flushV
<1>. QED
  BY <1>1, <1>2, <1>3 DEF DeliveryInv

LEMMA WorkerSleepsOnDelivers ==
  ASSUME DeliveryInv, WorkerSleepsOn
  PROVE  DeliveryInv'
<1>1. TypeOK' /\ OutstandingExact'
  BY DEF DeliveryInv, TypeOK, OutstandingExact, WorkerSleepsOn, workerV, flushV, fates
<1>2. WorkerInv' /\ QueueInv'
  BY DEF DeliveryInv, WorkerInv, QueueInv, WorkerSleepsOn, workerV
<1>3. FlushInv' /\ NoLostWakeup'
  BY DeliveryAssumption DEF DeliveryInv, FlushInv, NoLostWakeup, WorkerSleepsOn, workerV, flushV
<1>. QED
  BY <1>1, <1>2, <1>3 DEF DeliveryInv

LEMMA IdleEndsDelivers ==
  ASSUME DeliveryInv, IdleEnds
  PROVE  DeliveryInv'
<1>1. /\ wpc = "idle" /\ Worker \notin waiting /\ wTimedOut' = FALSE /\ late' \in 0..MaxLate
      /\ UNCHANGED <<nextSeq, outstanding, flushNow, worker, flushV, fates>>
  BY StopTimerType DEF DeliveryInv, TypeOK, IdleEnds
<1>2. CASE wpc' = "exiting" /\ UNCHANGED <<queue, batch, waiting>>
  <2>1. TypeOK' /\ OutstandingExact'
    BY <1>1, <1>2 DEF DeliveryInv, TypeOK, OutstandingExact, WorkerPC, flushV, fates
  <2>2. WorkerInv' /\ QueueInv'
    BY <1>1, <1>2 DEF DeliveryInv, WorkerInv, QueueInv
  <2>3. FlushInv' /\ NoLostWakeup'
    BY <1>1, <1>2 DEF DeliveryInv, FlushInv, NoLostWakeup, flushV
  <2>. QED
    BY <2>1, <2>2, <2>3 DEF DeliveryInv
<1>3. CASE StartBatch
  <2>1. PICK k \in 0..Smaller(Room, Len(queue)) :
          /\ Take(k)
          /\ \/ wpc' = "sending" /\ UNCHANGED waiting
             \/ /\ wpc' = "window" /\ k < Room /\ ~flushNow
                /\ waiting' = waiting \cup {Worker}
    BY <1>3, DrainOrFillTakes DEF StartBatch
  <2>. QED
    BY <1>1, <2>1, TakingDelivers
<1>. QED
  BY <1>2, <1>3 DEF IdleEnds

LEMMA WindowEndsDelivers ==
  ASSUME DeliveryInv, WindowEnds
  PROVE  DeliveryInv'
<1>1. /\ wpc = "window" /\ Worker \notin waiting /\ wTimedOut' = FALSE /\ late' \in 0..MaxLate
      /\ UNCHANGED <<nextSeq, outstanding, flushNow, worker, flushV, fates>>
  BY StopTimerType DEF DeliveryInv, TypeOK, WindowEnds
<1>2. CASE wpc' = "sending" /\ UNCHANGED <<queue, batch, waiting>>
  <2>1. TypeOK' /\ OutstandingExact'
    BY <1>1, <1>2 DEF DeliveryInv, TypeOK, OutstandingExact, WorkerPC, flushV, fates
  <2>2. WorkerInv' /\ QueueInv'
    BY <1>1, <1>2 DEF DeliveryInv, WorkerInv, QueueInv
  <2>3. FlushInv' /\ NoLostWakeup'
    BY <1>1, <1>2 DEF DeliveryInv, FlushInv, NoLostWakeup, flushV
  <2>. QED
    BY <2>1, <2>2, <2>3 DEF DeliveryInv
<1>3. CASE Drain \/ Fill(0)
  <2>1. PICK k \in 0..Smaller(Room, Len(queue)) :
          /\ Take(k)
          /\ \/ wpc' = "sending" /\ UNCHANGED waiting
             \/ /\ wpc' = "window" /\ k < Room /\ ~flushNow
                /\ waiting' = waiting \cup {Worker}
    BY <1>3, DrainOrFillTakes
  <2>. QED
    BY <1>1, <2>1, TakingDelivers
<1>. QED
  BY <1>2, <1>3 DEF WindowEnds

LEMMA SendReturnsDelivers ==
  ASSUME DeliveryInv, SendReturns
  PROVE  DeliveryInv'
<1>. USE DeliveryAssumption
<1>1. /\ batch \in Seq(Seqs) /\ Len(batch) \in Nat /\ Len(queue) \in Nat
      /\ \A i \in 1..Len(batch) : batch[i] \in Seqs
      /\ DOMAIN batch = 1..Len(batch)
      /\ outstanding = Len(queue) + Len(batch)
  BY LenProperties, ElementOfSeq DEF DeliveryInv, TypeOK, OutstandingExact
<1>2. Range(batch) \subseteq Seqs
  BY <1>1 DEF Range
<1>3. batch' \in Seq(Seqs) /\ batch' = <<>> /\ Len(batch') = 0
  BY EmptySeq DEF SendReturns
<1>4. outstanding' = Len(queue)
  BY <1>1 DEF SendReturns, Settled, AtLeastZero
<1>5. outstanding' \in 0..QueueSize
  BY <1>1, <1>4 DEF DeliveryInv, TypeOK
<1>6. TypeOK'
  <2>1. sent' \subseteq Seqs /\ failed' \subseteq Seqs
    BY <1>2 DEF DeliveryInv, TypeOK, SendReturns
  <2>. QED
    BY <1>3, <1>5, <2>1 DEF DeliveryInv, TypeOK, SendReturns, Broadcast, WorkerPC, flushV
<1>7. OutstandingExact'
  BY <1>1, <1>3, <1>4 DEF OutstandingExact, SendReturns
<1>8. WorkerInv' /\ QueueInv'
  BY <1>3 DEF DeliveryInv, WorkerInv, QueueInv, SendReturns
<1>9. FlushInv' /\ NoLostWakeup'
  BY <1>1, <1>4 DEF DeliveryInv, FlushInv, WorkerInv, NoLostWakeup, SendReturns, Broadcast, flushV
<1>. QED
  BY <1>6, <1>7, <1>8, <1>9 DEF DeliveryInv

LEMMA WorkerExitsDelivers ==
  ASSUME DeliveryInv, WorkerExits
  PROVE  DeliveryInv'
<1>1. TypeOK' /\ OutstandingExact' /\ QueueInv'
  BY DEF DeliveryInv, TypeOK, OutstandingExact, QueueInv, WorkerExits, WorkerPC, flushV, fates
<1>2. WorkerInv'
  BY DEF DeliveryInv, WorkerInv, WorkerExits
<1>3. FlushInv'
  BY DEF DeliveryInv, FlushInv, WorkerExits, flushV
<1>4. NoLostWakeup'
  <2>1. ASSUME queue = <<>> PROVE outstanding = 0
    BY <2>1, EmptySeq DEF DeliveryInv, WorkerInv, OutstandingExact, WorkerExits
  <2>. QED
    BY <2>1 DEF DeliveryInv, NoLostWakeup, WorkerExits, flushV
<1>. QED
  BY <1>1, <1>2, <1>3, <1>4 DEF DeliveryInv

LEMMA LateCallbackDelivers ==
  ASSUME DeliveryInv, LateCallback
  PROVE  DeliveryInv'
<1>1. late' \in 0..MaxLate
  BY DeliveryAssumption DEF DeliveryInv, TypeOK, LateCallback
<1>2. TypeOK' /\ OutstandingExact'
  BY <1>1 DEF DeliveryInv, TypeOK, OutstandingExact, LateCallback, Broadcast, workerV, flushV, fates
<1>3. WorkerInv' /\ QueueInv' /\ FlushInv' /\ NoLostWakeup'
  BY DEF DeliveryInv, WorkerInv, QueueInv, FlushInv, NoLostWakeup, LateCallback, Broadcast, workerV, flushV
<1>. QED
  BY <1>2, <1>3 DEF DeliveryInv

LEMMA NextDelivers == DeliveryInv /\ [Next]_vars => DeliveryInv'
<1>. SUFFICES ASSUME DeliveryInv, [Next]_vars PROVE DeliveryInv'
  OBVIOUS
<1>1. CASE UNCHANGED vars
  BY <1>1 DEF vars, shared, workerV, flushV, fates, DeliveryInv, TypeOK, OutstandingExact,
     WorkerInv, QueueInv, FlushInv, NoLostWakeup
<1>2. CASE Capture \/ Refuse \/ WorkerTimer \/ LateCallback
  BY <1>2, CaptureDelivers, RefuseDelivers, WorkerTimerDelivers, LateCallbackDelivers
<1>3. CASE \E f \in Flushers :
             \/ FlushBegin(f) \/ FlushExpiredCall(f)
             \/ ContextEnds(f) \/ FlushTimer(f) \/ FlushResumes(f)
  BY <1>3, FlushBeginDelivers, FlushExpiredCallDelivers, ContextEndsDelivers, FlushTimerDelivers,
     FlushDrainedDelivers, FlushExpiresDelivers, FlushWaitsOnDelivers DEF FlushResumes
<1>4. CASE WorkerRuns
  BY <1>4, CollectIdleDelivers, CollectBatchDelivers, WorkerSleepsOnDelivers, IdleEndsDelivers,
     WindowEndsDelivers, SendReturnsDelivers, WorkerExitsDelivers DEF WorkerRuns
<1>. QED
  BY <1>1, <1>2, <1>3, <1>4 DEF Next

LEMMA Delivery == Spec => []DeliveryInv
  BY InitDelivery, NextDelivers, PTL DEF Spec

(* The types hold in every reachable state: the queue never holds more     *)
(* than QueueSize events, the count never leaves 0..QueueSize and no batch *)
(* exceeds BatchSize.                                                      *)
THEOREM TypeCorrect == Spec => []TypeOK
  BY Delivery, PTL DEF DeliveryInv

(* The count that decides whether capture refuses an event is exact, so    *)
(* nothing leaks capacity and at most QueueSize events are ever held.      *)
THEOREM CountIsExact == Spec => []OutstandingExact
  BY Delivery, PTL DEF DeliveryInv

(* Nobody sleeps through what it waits for, and accepted events always     *)
(* have a worker goroutine.                                                *)
THEOREM WakeupsAreNotLost == Spec => []NoLostWakeup
  BY Delivery, PTL DEF DeliveryInv

-----------------------------------------------------------------------------
(* The fate of events.                                                     *)

(* OneFateInOrder with the batch and the queue taken apart. *)
FateInv ==
  /\ Increasing(batch) /\ Increasing(queue)
  /\ \A b \in InFlight, q \in Queued : b < q
  /\ 1..nextSeq = Queued \cup InFlight \cup Delivered \cup expired
  /\ sent \cap failed = {}
  /\ Delivered \cap expired = {}
  /\ (Queued \cup InFlight) \cap (Delivered \cup expired) = {}
  /\ \A d \in Delivered, p \in Queued \cup InFlight : d < p

-----------------------------------------------------------------------------
(* Increasing sequences and the sets of their items.                       *)

LEMMA ItemsOfSeq ==
  ASSUME NEW S, NEW s \in Seq(S)
  PROVE  /\ DOMAIN s = 1..Len(s) /\ Len(s) \in Nat
         /\ Range(s) \subseteq S
         /\ \A x : x \in Range(s) <=> \E i \in 1..Len(s) : x = s[i]
  BY LenProperties, ElementOfSeq DEF Range

LEMMA AppendRange ==
  ASSUME NEW s \in Seq(Nat), NEW e \in Nat
  PROVE  Range(Append(s, e)) = Range(s) \cup {e}
<1>1. Append(s, e) = s \o <<e>> /\ <<e>> \in Seq(Nat)
  BY AppendIsConcat
<1>2. DOMAIN <<e>> = {1} /\ <<e>>[1] = e
  OBVIOUS
<1>3. Range(<<e>>) = {e}
  BY <1>2 DEF Range
<1>4. Range(s \o <<e>>) = Range(s) \cup Range(<<e>>)
  BY <1>1, RangeConcatenation
<1>. QED
  BY <1>1, <1>3, <1>4

LEMMA ConcatIncreasing ==
  ASSUME NEW s \in Seq(Nat), NEW t \in Seq(Nat),
         Increasing(s), Increasing(t),
         \A x \in Range(s), y \in Range(t) : x < y
  PROVE  Increasing(s \o t)
<1>1. /\ Len(s) \in Nat /\ Len(t) \in Nat
      /\ DOMAIN s = 1..Len(s) /\ DOMAIN t = 1..Len(t)
      /\ DOMAIN (s \o t) = 1..(Len(s) + Len(t))
      /\ \A i \in 1..(Len(s) + Len(t)) :
           (s \o t)[i] = IF i <= Len(s) THEN s[i] ELSE t[i - Len(s)]
  BY LenProperties, ConcatProperties
<1>2. SUFFICES ASSUME NEW i \in 1..(Len(s) + Len(t)), NEW j \in 1..(Len(s) + Len(t)), i < j
               PROVE  (s \o t)[i] < (s \o t)[j]
  BY <1>1 DEF Increasing
<1>3. CASE j <= Len(s)
  <2>1. i \in 1..Len(s) /\ j \in 1..Len(s) /\ (s \o t)[i] = s[i] /\ (s \o t)[j] = s[j]
    BY <1>1, <1>2, <1>3
  <2>. QED
    BY <1>1, <1>2, <2>1 DEF Increasing
<1>4. CASE i > Len(s)
  <2>1. /\ i - Len(s) \in 1..Len(t) /\ j - Len(s) \in 1..Len(t) /\ i - Len(s) < j - Len(s)
        /\ (s \o t)[i] = t[i - Len(s)] /\ (s \o t)[j] = t[j - Len(s)]
    BY <1>1, <1>2, <1>4
  <2>. QED
    BY <1>1, <2>1 DEF Increasing
<1>5. CASE i <= Len(s) /\ j > Len(s)
  <2>1. /\ i \in 1..Len(s) /\ j - Len(s) \in 1..Len(t)
        /\ (s \o t)[i] = s[i] /\ (s \o t)[j] = t[j - Len(s)]
    BY <1>1, <1>2, <1>5
  <2>. QED
    BY <2>1, ItemsOfSeq
<1>. QED
  BY <1>1, <1>3, <1>4, <1>5

(* The two halves of an increasing sequence. *)
CutOf(s, k, p, q) ==
  /\ p \in Seq(Nat) /\ q \in Seq(Nat)
  /\ Increasing(p) /\ Increasing(q)
  /\ Range(s) = Range(p) \cup Range(q)
  /\ \A x \in Range(p), y \in Range(q) : x < y
  /\ Range(p) = {s[i] : i \in 1..k}

LEMMA CutIncreasing ==
  ASSUME NEW s \in Seq(Nat), Increasing(s), NEW k \in 0..Len(s),
         NEW p, p = SubSeq(s, 1, k), NEW q, q = SubSeq(s, k + 1, Len(s))
  PROVE  CutOf(s, k, p, q)
<1>1. /\ Len(s) \in Nat /\ DOMAIN s = 1..Len(s) /\ k \in Nat /\ k <= Len(s)
      /\ p \in Seq(Nat) /\ Len(p) = k /\ \A i \in 1..k : p[i] = s[i]
      /\ q \in Seq(Nat) /\ Len(q) = Len(s) - k /\ \A i \in 1..(Len(s) - k) : q[i] = s[k + i]
      /\ DOMAIN p = 1..k /\ DOMAIN q = 1..(Len(s) - k)
  <2>1. Len(s) \in Nat /\ DOMAIN s = 1..Len(s)
    BY LenProperties
  <2>2. k \in Nat /\ k <= Len(s)
    BY <2>1
  <2>3. p \in Seq(Nat) /\ Len(p) = k /\ \A i \in 1..k : p[i] = s[i]
    BY CutProperties
  <2>4. q \in Seq(Nat) /\ Len(q) = Len(s) - k /\ \A i \in 1..(Len(s) - k) : q[i] = s[k + i]
    BY CutProperties
  <2>5. DOMAIN p = 1..k /\ DOMAIN q = 1..(Len(s) - k)
    BY <2>3, <2>4, LenProperties
  <2>. QED
    BY <2>1, <2>2, <2>3, <2>4, <2>5
<1>0. Len(s) \in Nat /\ k \in Nat /\ k <= Len(s)
  BY <1>1
<1>. DEFINE n == Len(s)
<1>. HIDE DEF n
<1>2. /\ n \in Nat /\ k \in Nat /\ k <= n
      /\ \A i, j \in 1..n : i < j => s[i] < s[j]
      /\ \A i \in 1..k : p[i] = s[i]
      /\ \A i \in 1..(n - k) : q[i] = s[k + i]
      /\ DOMAIN s = 1..n /\ DOMAIN p = 1..k /\ DOMAIN q = 1..(n - k)
  BY <1>0, <1>1 DEF Increasing, n
<1>3. ASSUME NEW i \in 1..k, NEW j \in 1..k, i < j
      PROVE  p[i] < p[j]
  <2>1. i \in 1..n /\ j \in 1..n
    BY <1>0 DEF n
  <2>. QED
    BY <1>2, <1>3, <2>1
<1>4. ASSUME NEW i \in 1..(n - k)
      PROVE  k + i \in 1..n /\ q[i] = s[k + i]
  <2>1. k + i \in 1..n
    BY <1>0 DEF n
  <2>. QED
    BY <1>2, <2>1
<1>5. ASSUME NEW i \in 1..(n - k), NEW j \in 1..(n - k), i < j
      PROVE  q[i] < q[j]
  <2>1. k + i < k + j
    BY <1>0, <1>5 DEF n
  <2>. QED
    BY <1>2, <1>4, <2>1
<1>6. Increasing(p) /\ Increasing(q)
  BY <1>2, <1>3, <1>5 DEF Increasing
<1>7. Range(p) = {s[i] : i \in 1..k}
  BY <1>2 DEF Range
<1>8. Range(q) = {s[k + i] : i \in 1..(n - k)}
  BY <1>2 DEF Range
<1>9. ASSUME NEW x \in Range(p), NEW y \in Range(q)
      PROVE  x < y
  <2>1. PICK i \in 1..k : x = s[i]
    BY <1>7
  <2>2. PICK j \in 1..(n - k) : y = s[k + j]
    BY <1>8
  <2>3. i \in 1..n /\ k + j \in 1..n /\ i < k + j
    BY <1>0 DEF n
  <2>. QED
    BY <1>2, <2>1, <2>2, <2>3
<1>10. ASSUME NEW x \in Range(p) \cup Range(q)
       PROVE  x \in Range(s)
  <2>1. CASE x \in Range(p)
    <3>1. PICK i \in 1..k : x = s[i]
      BY <1>7, <2>1
    <3>2. i \in 1..n
      BY <1>0 DEF n
    <3>. QED
      BY <1>2, <3>1, <3>2 DEF Range
  <2>2. CASE x \in Range(q)
    <3>1. PICK i \in 1..(n - k) : x = s[k + i]
      BY <1>8, <2>2
    <3>2. k + i \in 1..n
      BY <1>4
    <3>. QED
      BY <1>2, <3>1, <3>2 DEF Range
  <2>. QED
    BY <1>10, <2>1, <2>2
<1>11. ASSUME NEW i \in 1..n
       PROVE  s[i] \in Range(p) \cup Range(q)
  <2>1. CASE i <= k
    <3>1. i \in 1..k
      BY <1>0, <2>1 DEF n
    <3>. QED
      BY <1>7, <3>1
  <2>2. CASE i > k
    <3>1. i - k \in 1..(n - k) /\ k + (i - k) = i
      BY <1>0, <2>2 DEF n
    <3>. QED
      BY <1>8, <3>1
  <2>. QED
    BY <1>0, <2>1, <2>2 DEF n
<1>12. Range(s) = Range(p) \cup Range(q)
  <2>1. Range(s) = {s[i] : i \in 1..n}
    BY <1>2 DEF Range
  <2>. QED
    BY <1>10, <1>11, <2>1
<1>. QED
  BY <1>1, <1>6, <1>7, <1>9, <1>12 DEF CutOf

-----------------------------------------------------------------------------
(* One fate each, in order.                                                *)

LEMMA DeliverySeqs ==
  ASSUME DeliveryInv
  PROVE  /\ queue \in Seq(Nat) /\ batch \in Seq(Nat)
         /\ Len(queue) \in Nat /\ Len(batch) \in Nat
         /\ nextSeq \in Nat
         /\ Increasing(queue)
<1>1. Seqs \subseteq Nat
  BY DeliveryAssumption DEF Seqs
<1>2. queue \in Seq(Seqs) /\ batch \in Seq(Seqs) /\ nextSeq \in Nat
  BY DeliveryAssumption DEF DeliveryInv, TypeOK
<1>3. queue \in Seq(Nat) /\ batch \in Seq(Nat)
  BY <1>1, <1>2, SeqMonotonic
<1>. QED
  BY <1>2, <1>3, LenProperties DEF DeliveryInv, QueueInv, Increasing

LEMMA InitFates == Init => FateInv
<1>. SUFFICES ASSUME Init PROVE FateInv
  OBVIOUS
<1>1. DOMAIN queue = {} /\ DOMAIN batch = {}
  BY EmptySeq DEF Init
<1>2. Range(queue) = {} /\ Range(batch) = {}
  BY <1>1 DEF Range
<1>. QED
  BY <1>1, <1>2 DEF Init, FateInv, Increasing, Queued, InFlight, Delivered

LEMMA CaptureFates ==
  ASSUME DeliveryInv, FateInv, Capture
  PROVE  FateInv'
<1>1. /\ queue' = Append(queue, nextSeq + 1) /\ nextSeq' = nextSeq + 1
      /\ UNCHANGED <<batch, sent, failed, expired>>
  BY DEF Capture, fates
<1>2. /\ queue \in Seq(Nat) /\ Len(queue) \in Nat /\ nextSeq \in Nat /\ Increasing(queue)
      /\ DOMAIN queue = 1..Len(queue)
  BY DeliverySeqs, LenProperties
<1>3. /\ Len(queue') = Len(queue) + 1 /\ DOMAIN queue' = 1..(Len(queue) + 1)
      /\ queue'[Len(queue) + 1] = nextSeq + 1
      /\ \A i \in 1..Len(queue) : queue'[i] = queue[i]
  BY <1>1, <1>2, AppendProperties, LenProperties
<1>4. Queued' = Queued \cup {nextSeq + 1}
  BY <1>1, <1>2, AppendRange DEF Queued
<1>5. \A x \in Queued \cup InFlight \cup Delivered \cup expired : x \in 1..nextSeq
  BY DEF FateInv
<1>6. 1..nextSeq' = 1..nextSeq \cup {nextSeq + 1}
  BY <1>1, <1>2
<1>7. Increasing(queue')
  <2>1. SUFFICES ASSUME NEW i \in 1..(Len(queue) + 1), NEW j \in 1..(Len(queue) + 1), i < j
                 PROVE  queue'[i] < queue'[j]
    BY <1>3 DEF Increasing
  <2>2. i \in 1..Len(queue)
    BY <1>2, <2>1
  <2>3. CASE j = Len(queue) + 1
    <3>1. queue[i] \in Queued
      BY <1>2, <2>2 DEF Queued, Range
    <3>2. queue[i] <= nextSeq /\ queue[i] \in Nat
      BY <1>2, <1>5, <3>1
    <3>. QED
      BY <1>2, <1>3, <2>2, <2>3, <3>2
  <2>4. CASE j \in 1..Len(queue)
    BY <1>2, <1>3, <2>1, <2>2, <2>4 DEF Increasing
  <2>. QED
    BY <1>2, <2>3, <2>4
<1>8. /\ InFlight' = InFlight /\ Delivered' = Delivered
      /\ Increasing(batch') = Increasing(batch)
  BY <1>1 DEF InFlight, Delivered, Increasing
<1>9. nextSeq + 1 \notin 1..nextSeq /\ \A x \in 1..nextSeq : x < nextSeq + 1
  BY <1>2
<1>. QED
  BY <1>1, <1>4, <1>5, <1>6, <1>7, <1>8, <1>9 DEF FateInv

(* Moving events from the queue to the batch changes no fate. *)
LEMMA TakeFates ==
  ASSUME DeliveryInv, FateInv,
         NEW k \in 0..Smaller(Room, Len(queue)), Take(k),
         UNCHANGED <<nextSeq, sent, failed, expired>>
  PROVE  /\ FateInv'
         /\ (Queued \cup InFlight)' = Queued \cup InFlight
<1>. DEFINE p == SubSeq(queue, 1, k)
<1>1. /\ queue \in Seq(Nat) /\ batch \in Seq(Nat) /\ Increasing(queue) /\ Increasing(batch)
      /\ Len(queue) \in Nat
  BY DeliverySeqs DEF FateInv
<1>2. k \in 0..Len(queue)
  <2>1. Len(batch) \in Nat /\ BatchSize \in Nat
    BY DeliverySeqs, DeliveryAssumption
  <2>. QED
    BY <1>1, <2>1 DEF Smaller, Room
<1>3. batch' = batch \o p /\ queue' = SubSeq(queue, k + 1, Len(queue))
  BY DEF Take
<1>4. /\ p \in Seq(Nat) /\ queue' \in Seq(Nat)
      /\ Increasing(p) /\ Increasing(queue')
      /\ Range(queue) = Range(p) \cup Range(queue')
      /\ \A x \in Range(p), y \in Range(queue') : x < y
  <2>1. CutOf(queue, k, p, queue')
    BY <1>1, <1>2, <1>3, CutIncreasing
  <2>. QED
    BY <2>1 DEF CutOf
<1>. HIDE DEF p
<1>5. Range(batch') = Range(batch) \cup Range(p)
  BY <1>1, <1>3, <1>4, RangeConcatenation
<1>6. Increasing(batch')
  <2>1. \A x \in Range(batch), y \in Range(p) : x < y
    BY <1>4 DEF FateInv, InFlight, Queued
  <2>. QED
    BY <1>1, <1>3, <1>4, <2>1, ConcatIncreasing
<1>7. (Queued \cup InFlight)' = Queued \cup InFlight
  BY <1>4, <1>5 DEF Queued, InFlight
<1>8. Delivered' = Delivered
  BY DEF Delivered
<1>9. \A b \in InFlight', q \in Queued' : b < q
  BY <1>4, <1>5 DEF FateInv, InFlight, Queued
<1>. QED
  BY <1>4, <1>6, <1>7, <1>8, <1>9 DEF FateInv

(* Events an expired flush drops leave the queue for `expired'. *)
LEMMA AbandonFates ==
  ASSUME DeliveryInv, FateInv, NEW b \in Nat, Abandon(b),
         UNCHANGED <<batch, nextSeq, sent, failed>>
  PROVE  /\ FateInv'
         /\ \E p \in Seq(Nat) :
              /\ Queued = Range(p) \cup Queued'
              /\ \A x \in Range(p), y \in Queued' : x < y
              /\ expired' = expired \cup Range(p)
              /\ \A x \in Range(p) : x <= b
              /\ \A y \in Queued' : y > b
<1>. DEFINE d == Covered(b)
            p == SubSeq(queue, 1, d)
<1>1. /\ d \in 0..Len(queue)
      /\ \A i \in 1..Len(queue) : queue[i] <= b <=> i <= d
  BY CoveredProperties
<1>2. /\ queue' = SubSeq(queue, d + 1, Len(queue))
      /\ expired' = expired \cup {queue[i] : i \in 1..d}
  BY DEF Abandon
<1>3. queue \in Seq(Nat) /\ Increasing(queue) /\ Len(queue) \in Nat
  BY DeliverySeqs
<1>. HIDE DEF d
<1>4. /\ p \in Seq(Nat) /\ queue' \in Seq(Nat)
      /\ Increasing(queue')
      /\ Range(queue) = Range(p) \cup Range(queue')
      /\ \A x \in Range(p), y \in Range(queue') : x < y
      /\ Range(p) = {queue[i] : i \in 1..d}
  <2>1. CutOf(queue, d, p, queue')
    BY <1>1, <1>2, <1>3, CutIncreasing
  <2>. QED
    BY <2>1 DEF CutOf
<1>5. \A x \in Range(p) : x <= b
  <2>1. \A i \in 1..d : i \in 1..Len(queue) /\ i <= d
    BY <1>1, <1>3
  <2>. QED
    BY <1>1, <1>4, <2>1
<1>6. ASSUME NEW y \in Range(queue')
      PROVE  y > b
  <2>1. PICK i \in 1..Len(queue') : y = queue'[i]
    BY <1>4, ItemsOfSeq
  <2>2. /\ Len(queue') = Len(queue) - d /\ queue'[i] = queue[d + i]
    BY <1>1, <1>2, <1>3, <2>1, CutProperties
  <2>3. d + i \in 1..Len(queue) /\ ~ (d + i <= d)
    BY <1>1, <1>3, <2>1, <2>2
  <2>4. ~ (queue[d + i] <= b) /\ queue[d + i] \in Nat
    BY <1>1, <1>3, <2>3, ElementOfSeq
  <2>. QED
    BY <2>1, <2>2, <2>4
<1>. HIDE DEF p
<1>7. /\ Queued = Range(p) \cup Queued' /\ expired' = expired \cup Range(p)
      /\ InFlight' = InFlight /\ Delivered' = Delivered
      /\ Increasing(batch') = Increasing(batch)
  BY <1>2, <1>4 DEF Queued, InFlight, Delivered, Increasing
<1>8. Range(p) \cap Queued' = {}
  <2>1. \A x \in Range(p) : x \in Nat
    BY <1>4, ItemsOfSeq
  <2>2. \A x \in Range(p), y \in Queued' : x < y
    BY <1>4 DEF Queued
  <2>. QED
    BY <2>1, <2>2
<1>9. Range(p) \cap InFlight = {}
  <2>1. \A x \in InFlight, y \in Range(p) : x < y
    BY <1>7 DEF FateInv
  <2>2. \A x \in Range(p) : x \in Nat
    BY <1>4, ItemsOfSeq
  <2>. QED
    BY <2>1, <2>2
<1>10. FateInv'
  BY <1>4, <1>7, <1>8, <1>9 DEF FateInv
<1>. QED
  BY <1>4, <1>5, <1>6, <1>7, <1>10 DEF Queued

LEMMA SendFates ==
  ASSUME DeliveryInv, FateInv, SendReturns
  PROVE  FateInv'
<1>1. /\ queue' = queue /\ nextSeq' = nextSeq /\ expired' = expired /\ batch' = <<>>
      /\ \/ sent' = sent \cup InFlight /\ failed' = failed
         \/ failed' = failed \cup InFlight /\ sent' = sent
  BY DEF SendReturns, InFlight
<1>2. DOMAIN batch' = {}
  BY <1>1, EmptySeq
<1>3. /\ InFlight' = {} /\ Increasing(batch') /\ Queued' = Queued
      /\ Increasing(queue') = Increasing(queue)
  BY <1>1, <1>2 DEF InFlight, Queued, Range, Increasing
<1>4. Delivered' = Delivered \cup InFlight
  BY <1>1 DEF Delivered
<1>5. InFlight \cap Queued = {}
  <2>1. \A x \in InFlight : x \in Nat
    BY DeliverySeqs, ItemsOfSeq DEF InFlight
  <2>2. \A x \in InFlight, y \in Queued : x < y
    BY DEF FateInv
  <2>. QED
    BY <2>1, <2>2
<1>6. sent' \cap failed' = {} /\ Delivered' \cap expired' = {}
  BY <1>1 DEF FateInv, Delivered
<1>. QED
  BY <1>1, <1>3, <1>4, <1>5, <1>6 DEF FateInv

(* The variables the fates of events depend on. *)
fateVars == <<queue, batch, nextSeq, sent, failed, expired>>

LEMMA StutterFates ==
  ASSUME FateInv, UNCHANGED fateVars
  PROVE  FateInv'
BY DEF fateVars, FateInv, Queued, InFlight, Delivered, Increasing

(* What each step does to the fates. *)
LEMMA StepFates ==
  ASSUME DeliveryInv, [Next]_vars
  PROVE  \/ UNCHANGED <<fateVars, refused>>
         \/ Refuse /\ UNCHANGED fateVars
         \/ Capture
         \/ SendReturns
         \/ \E b \in Nat : Abandon(b) /\ UNCHANGED <<batch, nextSeq, sent, failed, refused>>
         \/ /\ \E k \in 0..Smaller(Room, Len(queue)) : Take(k)
            /\ UNCHANGED <<nextSeq, sent, failed, expired, refused>>
<1>1. CASE UNCHANGED vars
  BY <1>1 DEF vars, shared, workerV, fates, fateVars
<1>2. CASE Capture \/ SendReturns
  BY <1>2
<1>3. CASE Refuse \/ WorkerTimer \/ LateCallback
  BY <1>3 DEF Refuse, WorkerTimer, LateCallback, shared, workerV, fates, fateVars
<1>4. ASSUME NEW f \in Flushers, FlushExpiredCall(f) \/ FlushExpires(f)
      PROVE  \E b \in Nat : Abandon(b) /\ UNCHANGED <<batch, nextSeq, sent, failed, refused>>
  <2>1. nextSeq \in Nat /\ barrier[f] \in Nat
    BY DeliveryAssumption DEF DeliveryInv, TypeOK
  <2>. QED
    BY <1>4, <2>1 DEF FlushExpiredCall, FlushExpires, workerV
<1>5. ASSUME NEW f \in Flushers,
             \/ FlushBegin(f) \/ ContextEnds(f) \/ FlushTimer(f)
             \/ FlushDrained(f) \/ FlushWaitsOn(f)
      PROVE  UNCHANGED <<fateVars, refused>>
  BY <1>5 DEF FlushBegin, ContextEnds, FlushTimer, FlushDrained, FlushWaitsOn,
     shared, workerV, fates, fateVars
<1>6. CASE CollectIdle \/ WorkerSleepsOn \/ WorkerExits
  BY <1>6 DEF CollectIdle, WorkerSleepsOn, WorkerExits, workerV, fates, fateVars
<1>7. CASE CollectBatch \/ IdleEnds \/ WindowEnds
  <2>1. UNCHANGED <<nextSeq, sent, failed, expired, refused>>
    BY <1>7 DEF CollectBatch, IdleEnds, WindowEnds, fates
  <2>2. CASE Drain \/ Fill(0) \/ Fill(1)
    BY <2>1, <2>2, DrainOrFillTakes
  <2>3. CASE UNCHANGED <<queue, batch>>
    BY <2>1, <2>3 DEF fateVars
  <2>. QED
    BY <1>7, <2>2, <2>3 DEF CollectBatch, IdleEnds, WindowEnds, StartBatch
<1>. QED
  BY <1>1, <1>2, <1>3, <1>4, <1>5, <1>6, <1>7 DEF Next, WorkerRuns, FlushResumes

LEMMA NextFates == DeliveryInv /\ FateInv /\ [Next]_vars => FateInv'
<1>. SUFFICES ASSUME DeliveryInv, FateInv, [Next]_vars PROVE FateInv'
  OBVIOUS
<1>1. ASSUME NEW b \in Nat, Abandon(b), UNCHANGED <<batch, nextSeq, sent, failed>>
      PROVE  FateInv'
  BY <1>1, AbandonFates
<1>2. ASSUME NEW k \in 0..Smaller(Room, Len(queue)), Take(k),
             UNCHANGED <<nextSeq, sent, failed, expired>>
      PROVE  FateInv'
  BY <1>2, TakeFates
<1>. QED
  BY <1>1, <1>2, StepFates, StutterFates, CaptureFates, SendFates

LEMMA Fates == Spec => []FateInv
<1>1. Init => DeliveryInv /\ FateInv
  BY InitDelivery, InitFates
<1>2. DeliveryInv /\ FateInv /\ [Next]_vars => (DeliveryInv /\ FateInv)'
  BY NextDelivers, NextFates
<1>. QED
  BY <1>1, <1>2, PTL DEF Spec

LEMMA FatesInOrder == DeliveryInv /\ FateInv => OneFateInOrder
<1>. SUFFICES ASSUME DeliveryInv, FateInv PROVE OneFateInOrder
  OBVIOUS
<1>1. Increasing(batch \o queue)
  BY DeliverySeqs, ConcatIncreasing DEF FateInv, Queued, InFlight
<1>. QED
  BY <1>1 DEF FateInv, OneFateInOrder

(* Every accepted event is in exactly one place, and deliveries happen in  *)
(* the order of capture.                                                   *)
THEOREM FatesAreUnique == Spec => []OneFateInOrder
  BY Delivery, Fates, FatesInOrder, PTL

-----------------------------------------------------------------------------
(* What a returning Flush guarantees.                                      *)

LEMMA FlushStep ==
  ASSUME DeliveryInv, FateInv, [Next]_vars, NEW f \in Flushers,
         fpc[f] = "waiting", fpc'[f] = "idle"
  PROVE  FlushDrained(f) \/ FlushExpires(f)
<1>1. fpc' # fpc
  OBVIOUS
<1>2. PICK g \in Flushers : FlushBegin(g) \/ FlushDrained(g) \/ FlushExpires(g)
  BY <1>1 DEF Next, vars, flushV, Capture, Refuse, WorkerTimer, LateCallback, WorkerRuns,
     CollectIdle, CollectBatch, WorkerSleepsOn, IdleEnds, WindowEnds, SendReturns, WorkerExits,
     FlushExpiredCall, ContextEnds, FlushTimer, FlushResumes, FlushWaitsOn
<1>3. fpc \in [Flushers -> {"idle", "waiting"}]
  BY DEF DeliveryInv, TypeOK
<1>4. g = f
  BY <1>2, <1>3 DEF FlushBegin, FlushDrained, FlushExpires, FlushReturn
<1>. QED
  BY <1>2, <1>3, <1>4 DEF FlushBegin

(* Flush returns only when nothing captured before it is still queued, and *)
(* drops nothing captured after it was called.                             *)
THEOREM FlushKeepsItsWord == Spec => FlushSettles
<1>1. ASSUME DeliveryInv, FateInv, [Next]_vars, NEW f \in Flushers,
             fpc[f] = "waiting", fpc'[f] = "idle"
      PROVE  /\ \A e \in Range(queue') : e > barrier[f]
             /\ \A e \in expired' \ expired : e <= barrier[f]
  <2>1. CASE FlushDrained(f)
    <3>1. queue' = queue /\ expired' = expired /\ outstanding = 0
      BY <2>1 DEF FlushDrained, fates
    <3>2. queue \in Seq(Nat) /\ Len(queue) \in Nat /\ Len(batch) \in Nat
      BY <1>1, DeliverySeqs
    <3>3. outstanding = Len(queue) + Len(batch)
      BY <1>1 DEF DeliveryInv, QueueInv, OutstandingExact
    <3>4. Len(queue) = 0
      BY <3>1, <3>2, <3>3
    <3>5. Range(queue') = {}
      <4>1. \A x : x \in Range(queue) <=> \E i \in 1..Len(queue) : x = queue[i]
        BY <3>2, ItemsOfSeq
      <4>2. 1..Len(queue) = {}
        BY <3>4
      <4>3. Range(queue) = {}
        BY <4>1, <4>2
      <4>. QED
        BY <3>1, <4>3
    <3>. QED
      BY <3>1, <3>5
  <2>2. CASE FlushExpires(f)
    <3>1. Abandon(barrier[f]) /\ UNCHANGED <<batch, nextSeq, sent, failed>>
      BY <2>2 DEF FlushExpires, workerV
    <3>2. barrier[f] \in 0..MaxEvents
      BY <1>1 DEF DeliveryInv, TypeOK
    <3>3. barrier[f] \in Nat
      BY <3>2, DeliveryAssumption
    <3>4. PICK p \in Seq(Nat) :
            /\ expired' = expired \cup Range(p)
            /\ \A x \in Range(p) : x <= barrier[f]
            /\ \A y \in Queued' : y > barrier[f]
      BY <1>1, <3>1, <3>3, AbandonFates
    <3>. QED
      BY <3>4 DEF Queued
  <2>. QED
    BY <1>1, <2>1, <2>2, FlushStep
<1>2. DeliveryInv /\ FateInv /\ [Next]_vars =>
        [\A f \in Flushers :
           fpc[f] = "waiting" /\ fpc'[f] = "idle" =>
             /\ \A e \in Range(queue') : e > barrier[f]
             /\ \A e \in expired' \ expired : e <= barrier[f]]_vars
  BY <1>1
<1>. QED
  BY <1>2, Delivery, Fates, PTL DEF Spec, FlushSettles
-----------------------------------------------------------------------------
(* CaptureDelivery implements CaptureQueue.                                *)

LEMMA IncreasingCount ==
  ASSUME NEW s \in Seq(Nat), Increasing(s)
  PROVE  /\ IsFiniteSet(Range(s))
         /\ Cardinality(Range(s)) = Len(s)
<1>. DEFINE n == Len(s)
<1>1. n \in Nat /\ s \in [1..n -> Range(s)] /\ DOMAIN s = 1..n
  BY LenProperties, SeqDef DEF Range
<1>2. \A i \in 1..n : s[i] \in Nat
  BY ElementOfSeq
<1>. HIDE DEF n
<1>3. ASSUME NEW i \in 1..n, NEW j \in 1..n, s[i] = s[j]
      PROVE  i = j
  <2>1. i < j => s[i] < s[j]
    BY <1>1 DEF Increasing
  <2>2. j < i => s[j] < s[i]
    BY <1>1 DEF Increasing
  <2>3. ~ (s[i] < s[j]) /\ ~ (s[j] < s[i])
    BY <1>2, <1>3
  <2>. QED
    BY <1>1, <2>1, <2>2, <2>3
<1>4. \A x \in Range(s) : \E i \in 1..n : s[i] = x
  BY <1>1 DEF Range
<1>5. s \in Bijection(1..n, Range(s))
  BY <1>1, <1>3, <1>4 DEF Bijection, Injection, Surjection, IsInjective
<1>6. ExistsBijection(1..n, Range(s))
  BY <1>5 DEF ExistsBijection
<1>7. IsFiniteSet(1..n)
  BY <1>1, FS_Interval
<1>8. IsFiniteSet(Range(s))
  BY <1>6, <1>7, FS_Bijection
<1>9. Cardinality(Range(s)) = n
  BY <1>1, <1>6, FS_CountingElements
<1>. QED
  BY <1>8, <1>9 DEF n

(* The count the code keeps is the number of pending events. *)
LEMMA PendingCount ==
  ASSUME DeliveryInv, FateInv
  PROVE  /\ Cardinality(Queued \cup InFlight) = outstanding
         /\ Cardinality(InFlight) <= BatchSize
<1>1. /\ queue \in Seq(Nat) /\ batch \in Seq(Nat)
      /\ batch \o queue \in Seq(Nat)
      /\ Len(batch \o queue) = Len(batch) + Len(queue)
  BY DeliverySeqs, ConcatProperties
<1>2. Increasing(batch \o queue)
  BY FatesInOrder DEF OneFateInOrder
<1>3. Range(batch \o queue) = Queued \cup InFlight
  BY <1>1, RangeConcatenation DEF Queued, InFlight
<1>4. Cardinality(Range(batch \o queue)) = Len(batch) + Len(queue)
  BY <1>1, <1>2, IncreasingCount
<1>5. Len(batch) + Len(queue) = outstanding
  BY DeliverySeqs DEF DeliveryInv, OutstandingExact
<1>6. Cardinality(InFlight) = Len(batch)
  BY <1>1, IncreasingCount DEF FateInv, InFlight
<1>7. Len(batch) <= BatchSize
  BY DEF DeliveryInv, TypeOK
<1>. QED
  BY <1>3, <1>4, <1>5, <1>6, <1>7

LEMMA SameCount ==
  ASSUME NEW S
  PROVE  Promise!Cardinality(S) = Cardinality(S)
BY DEF Promise!Cardinality, Cardinality

LEMMA InitIsPromised == Init => Promise!Init
<1>. SUFFICES ASSUME Init PROVE Promise!Init
  OBVIOUS
<1>1. Queued = {} /\ InFlight = {}
  BY EmptySeq DEF Init, Queued, InFlight, Range
<1>. QED
  BY <1>1 DEF Init, Promise!Init

LEMMA CaptureAccepts ==
  ASSUME DeliveryInv, FateInv, Capture
  PROVE  Promise!Accept
<1>1. /\ queue' = Append(queue, nextSeq + 1) /\ nextSeq' = nextSeq + 1
      /\ nextSeq < MaxEvents /\ outstanding < QueueSize
      /\ UNCHANGED <<batch, sent, failed, expired, refused>>
  BY DEF Capture, fates, HasRoom
<1>2. ~ Promise!Full
  <2>1. outstanding \in Int /\ QueueSize \in Int
    BY DeliveryAssumption DEF DeliveryInv, TypeOK
  <2>. QED
    BY <1>1, <2>1, PendingCount, SameCount DEF Promise!Full
<1>3. Queued' = Queued \cup {nextSeq + 1}
  BY <1>1, DeliverySeqs, AppendRange DEF Queued
<1>4. InFlight' = InFlight
  BY <1>1 DEF InFlight
<1>. QED
  BY <1>1, <1>2, <1>3, <1>4 DEF Promise!Accept

LEMMA RefuseRefuses ==
  ASSUME DeliveryInv, FateInv, Refuse, UNCHANGED fateVars
  PROVE  Promise!Refuse
<1>1. outstanding >= QueueSize
  BY DeliveryAssumption DEF Refuse, HasRoom, DeliveryInv, TypeOK
<1>2. Queued' = Queued /\ InFlight' = InFlight
  BY DEF fateVars, Queued, InFlight
<1>. QED
  BY <1>1, <1>2, PendingCount, SameCount DEF Refuse, Promise!Refuse, Promise!Full, fateVars

LEMMA SendSettles ==
  ASSUME DeliveryInv, FateInv, SendReturns, InFlight # {}
  PROVE  Promise!Settle
<1>1. /\ queue' = queue /\ nextSeq' = nextSeq /\ expired' = expired /\ refused' = refused
      /\ batch' = <<>>
      /\ \/ sent' = sent \cup InFlight /\ failed' = failed
         \/ failed' = failed \cup InFlight /\ sent' = sent
  BY DEF SendReturns, InFlight
<1>2. InFlight' = {} /\ Queued' = Queued
  BY <1>1, EmptySeq DEF InFlight, Queued, Range
<1>3. InFlight \cap Queued = {}
  <2>1. \A x \in InFlight : x \in Nat
    BY DeliverySeqs, ItemsOfSeq DEF InFlight
  <2>2. \A x \in InFlight, y \in Queued : x < y
    BY DEF FateInv
  <2>. QED
    BY <2>1, <2>2
<1>4. (Queued \cup InFlight)' = (Queued \cup InFlight) \ InFlight
  BY <1>2, <1>3
<1>5. Promise!Oldest(InFlight)
  BY PendingCount, SameCount DEF FateInv, Promise!Oldest
<1>. QED
  BY <1>1, <1>4, <1>5 DEF Promise!Settle

LEMMA AbandonExpires ==
  ASSUME DeliveryInv, FateInv, NEW b \in Nat, Abandon(b),
         UNCHANGED <<batch, nextSeq, sent, failed, refused>>
  PROVE  [Promise!Next]_(Promise!vars)
<1>1. PICK p \in Seq(Nat) :
        /\ Queued = Range(p) \cup Queued'
        /\ \A x \in Range(p), y \in Queued' : x < y
        /\ expired' = expired \cup Range(p)
  BY AbandonFates
<1>2. InFlight' = InFlight
  BY DEF InFlight
<1>3. CASE Range(p) = {}
  BY <1>1, <1>2, <1>3 DEF Promise!vars
<1>4. CASE Range(p) # {}
  <2>1. \A x \in Queued \cup InFlight : x \in Nat
    BY DeliverySeqs, ItemsOfSeq DEF Queued, InFlight
  <2>2. \A x \in Range(p), y \in InFlight : y < x
    BY <1>1 DEF FateInv
  <2>3. \A x \in Range(p) : x \notin Queued' /\ x \notin InFlight /\ x \in Queued
    BY <1>1, <2>1, <2>2
  <2>4. (Queued \cup InFlight)' = (Queued \cup InFlight) \ Range(p)
    BY <1>1, <1>2, <2>3
  <2>5. ASSUME NEW q \in Queued \cup InFlight, NEW x \in Range(p), NEW y \in Range(p),
               x <= q, q <= y
        PROVE  q \in Range(p)
    <3>1. q \in Nat /\ x \in Nat /\ y \in Nat
      BY <2>1, <2>3
    <3>2. ~ (q < x) /\ ~ (y < q)
      BY <2>5, <3>1
    <3>. QED
      BY <1>1, <2>2, <3>2
  <2>6. Range(p) \in (SUBSET (Queued \cup InFlight)) \ {{}}
    BY <1>4, <2>3
  <2>7. Promise!Expire
    BY <1>1, <2>4, <2>5, <2>6 DEF Promise!Expire
  <2>. QED
    BY <2>7 DEF Promise!Next
<1>. QED
  BY <1>3, <1>4

LEMMA StepIsPromised ==
  ASSUME DeliveryInv, FateInv, [Next]_vars
  PROVE  [Promise!Next]_(Promise!vars)
<1>1. CASE UNCHANGED <<fateVars, refused>>
  BY <1>1 DEF fateVars, Promise!vars, Queued, InFlight
<1>2. CASE Refuse /\ UNCHANGED fateVars
  BY <1>2, RefuseRefuses DEF Promise!Next
<1>3. CASE Capture
  BY <1>3, CaptureAccepts DEF Promise!Next
<1>4. CASE SendReturns
  <2>1. CASE InFlight # {}
    BY <1>4, <2>1, SendSettles DEF Promise!Next
  <2>2. CASE InFlight = {}
    <3>1. /\ queue' = queue /\ nextSeq' = nextSeq /\ expired' = expired /\ refused' = refused
          /\ batch' = <<>> /\ sent' = sent /\ failed' = failed
      BY <1>4, <2>2 DEF SendReturns, InFlight
    <3>2. InFlight' = {} /\ Queued' = Queued
      BY <3>1, EmptySeq DEF InFlight, Queued, Range
    <3>. QED
      BY <2>2, <3>1, <3>2 DEF Promise!vars
  <2>. QED
    BY <2>1, <2>2
<1>5. ASSUME NEW b \in Nat, Abandon(b),
             UNCHANGED <<batch, nextSeq, sent, failed, refused>>
      PROVE  [Promise!Next]_(Promise!vars)
  BY <1>5, AbandonExpires
<1>6. ASSUME NEW k \in 0..Smaller(Room, Len(queue)), Take(k),
             UNCHANGED <<nextSeq, sent, failed, expired, refused>>
      PROVE  [Promise!Next]_(Promise!vars)
  <2>1. (Queued \cup InFlight)' = Queued \cup InFlight
    BY <1>6, TakeFates
  <2>. QED
    BY <1>6, <2>1 DEF Promise!vars
<1>. QED
  BY <1>1, <1>2, <1>3, <1>4, <1>5, <1>6, StepFates

(* Every behaviour of the delivery is one of the abstract queue: bounded,  *)
(* refusing only when full, oldest first, each event settled once.         *)
THEOREM DeliveryKeepsPromise == Spec => QueuePromise
<1>1. Init => Promise!Init
  BY InitIsPromised
<1>2. DeliveryInv /\ FateInv /\ [Next]_vars => [Promise!Next]_(Promise!vars)
  BY StepIsPromised
<1>. QED
  BY <1>1, <1>2, Delivery, Fates, PTL DEF Spec, QueuePromise, Promise!Spec
=============================================================================
