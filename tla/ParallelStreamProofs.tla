------------------------ MODULE ParallelStreamProofs ------------------------
(***************************************************************************)
(* Proofs about the parallel firehose path: types, that the cursor never   *)
(* covers an event that is not accounted for, and that reservations match  *)
(* the frames in the system, for every set of keys and workers, every      *)
(* assignment of events to keys, every channel, queue and batch size.      *)
(***************************************************************************)
EXTENDS ParallelStream, SchedulerProofs, WellFoundedInduction, FiniteSetTheorems

(* A set of naturals that is not empty has a smallest element. *)
LEMMA SmallestNat ==
  ASSUME NEW T, T \subseteq Nat, T # {}
  PROVE  Min(T) \in T /\ \A y \in T : Min(T) <= y
  <1>1. \E x \in T : \A y \in T : ~(<<y, x>> \in OpToRel(<, Nat))
    BY NatLessThanWellFounded, WFMin
  <1>2. \A x, y \in T : ~(<<y, x>> \in OpToRel(<, Nat)) => x <= y
    BY DEF OpToRel
  <1>3. \E x \in T : \A y \in T : x <= y
    BY <1>1, <1>2
  <1>4. QED BY <1>3 DEF Min

(* A bounded set of naturals that is not empty has a largest element. *)
LEMMA LargestNat ==
  ASSUME NEW N \in Nat, NEW T, T \subseteq 0..N, T # {}
  PROVE  Max(T) \in T /\ \A y \in T : y <= Max(T)
  <1> DEFINE D == {N - x : x \in T}
  <1>1. D \subseteq Nat /\ D # {}
    <2>1. \A x \in T : N - x \in Nat OBVIOUS
    <2>2. PICK x \in T : TRUE OBVIOUS
    <2>3. N - x \in D BY <2>2
    <2>4. QED BY <2>1, <2>3
  <1>2. Min(D) \in D /\ \A y \in D : Min(D) <= y
    BY <1>1, SmallestNat
  <1>3. PICK x \in T : Min(D) = N - x
    BY <1>2
  <1>4. \A y \in T : N - x <= N - y
    BY <1>2, <1>3
  <1>5. \A y \in T : x >= y
    BY <1>4
  <1>6. QED BY <1>5 DEF Max
(* The larger of two integers is one of them. *)
LEMMA MaxOfTwo ==
  ASSUME NEW a \in Int, NEW b \in Int
  PROVE  Max({a, b}) \in {a, b} /\ Max({a, b}) >= a /\ Max({a, b}) >= b
  <1>1. \E x \in {a, b} : \A y \in {a, b} : x >= y
    <2>1. CASE a >= b BY <2>1
    <2>2. CASE b >= a BY <2>2
    <2>3. QED BY <2>1, <2>2
  <1>2. QED BY <1>1 DEF Max

-----------------------------------------------------------------------------
(* The watermark is one below the smallest seq in flight, or, when nothing  *)
(* is in flight, a seq of the flushed batch or zero.                       *)
LEMMA WatermarkIs ==
  ASSUME NEW f \in [Seqs -> Nat], NEW b \in Seq(0..MaxSeq)
  PROVE  \/ \E m \in Seqs : /\ f[m] > 0 /\ Watermark(f, b) = m - 1
                            /\ \A s \in Seqs : s < m => f[s] = 0
         \/ /\ \A s \in Seqs : f[s] = 0
            /\ \/ Watermark(f, b) = 0
               \/ \E i \in 1..Len(b) : Watermark(f, b) = b[i]
  <1> DEFINE present == {s \in Seqs : f[s] > 0}
             T == {b[i] : i \in 1..Len(b)} \cup {0}
  <1>0. MaxSeq \in Nat BY StreamAssumption
  <1>1. CASE present = {}
    <2>1. \A s \in Seqs : f[s] = 0 BY <1>1
    <2>2. Watermark(f, b) = Max(T)
      BY <1>1 DEF Watermark, InflightMin
    <2>3. T \subseteq 0..MaxSeq /\ T # {}
      BY <1>0
    <2>4. Max(T) \in T
      <3> HIDE DEF T
      <3>1. QED BY <1>0, <2>3, LargestNat
    <2>5. QED BY <2>1, <2>2, <2>4
  <1>2. CASE present # {}
    <2>1. present \subseteq Nat BY <1>0 DEF Seqs
    <2>2. Min(present) \in present /\ \A y \in present : Min(present) <= y
      <3> HIDE DEF present
      <3>1. QED BY <1>2, <2>1, SmallestNat
    <2>3. InflightMin(f) = Min(present) BY <1>2 DEF InflightMin
    <2> DEFINE m == Min(present)
    <2>4. m \in Seqs /\ f[m] > 0 BY <2>2
    <2> HIDE DEF m
    <2>5. m > 0 /\ m \in Nat BY <1>0, <2>4 DEF Seqs
    <2>6. Watermark(f, b) = m - 1 BY <2>3, <2>5 DEF Watermark, m
    <2>7. \A s \in Seqs : s < m => f[s] = 0
      <3> SUFFICES ASSUME NEW s \in Seqs, s < m PROVE f[s] = 0
        OBVIOUS
      <3>1. s \notin present
        <4>1. s \in Nat BY <1>0 DEF Seqs
        <4> HIDE DEF present
        <4>2. QED BY <2>2, <2>5, <4>1 DEF m
      <3>2. f[s] \in Nat OBVIOUS
      <3>3. QED BY <3>1, <3>2
    <2>8. QED BY <2>4, <2>6, <2>7
  <1>3. QED BY <1>1, <1>2

(* A flush leaves the cursor or moves it to the watermark. *)
LEMMA CursorAdvances ==
  ASSUME cursor \in Int, NEW f \in [Seqs -> Nat], NEW b \in Seq(0..MaxSeq), AdvanceCursor(f, b)
  PROVE  /\ Watermark(f, b) \in Int /\ cursor' \in Int
         /\ cursor' = cursor \/ cursor' = Watermark(f, b)
  <1>0. MaxSeq \in Nat BY StreamAssumption
  <1>1. Watermark(f, b) \in Int
    <2>1. \A i \in 1..Len(b) : b[i] \in Int BY <1>0
    <2>2. \A m \in Seqs : m - 1 \in Int BY <1>0 DEF Seqs
    <2>3. QED BY <2>1, <2>2, WatermarkIs
  <1>2. Max({cursor, Watermark(f, b)}) \in {cursor, Watermark(f, b)}
    BY <1>1, MaxOfTwo
  <1>3. QED BY <1>1, <1>2 DEF AdvanceCursor

-----------------------------------------------------------------------------
(* What of the scheduler's invariants the stream's proofs use. *)
SchedInv == SchedTypeOK /\ OwnershipInv /\ OrderInv /\ ResultInv /\ UnitsKnown

(* A fresh scheduler satisfies them. *)
LEMMA SchedInvReset ==
  ASSUME SchedReset
  PROVE  SchedInv'
  <1>1. SchedTypeOK'
    BY DEF SchedReset, SchedTypeOK, NoJob, WorkerState, AddOutcome, Unit, Job
  <1>2. OwnershipInv'
    BY DEF SchedReset, OwnershipInv, SingleOwner, Busy
  <1>3. OrderInv'
    BY DEF SchedReset, OrderInv, QueueOrder, Increasing
  <1>4. ResultInv'
    BY DEF SchedReset, ResultInv
  <1>5. UnitsKnown'
    BY DEF SchedReset, UnitsKnown, Carries, Busy
  <1>6. QED BY <1>1, <1>2, <1>3, <1>4, <1>5 DEF SchedInv

(* Seen from the scheduler, the stream submits, collects and lets workers   *)
(* run, or starts over with a new scheduler.                               *)
LEMMA StreamDrivesScheduler ==
  ASSUME [StreamNext]_vars, StreamTypeOK
  PROVE  [SchedNext]_schedVars \/ SchedReset
  <1>1. CASE Submit
    <2>1. KeyOf[dseq] \in Keys
      BY <1>1, StreamAssumption DEF Submit, StreamTypeOK
    <2>2. QED BY <1>1, <2>1 DEF Submit, SchedNext
  <1>2. CASE CollectResult
    BY <1>2 DEF CollectResult, SchedNext
  <1>3. CASE \E w \in Workers : Worker(w) \/ WorkerPanics(w)
    BY <1>3 DEF Worker, WorkerPanics, SchedNext
  <1>4. CASE Resubscribe
    BY <1>4 DEF Resubscribe
  <1>5. CASE \/ Connect \/ ConnectFails \/ ReadFrame \/ ReadGarbage \/ Disconnect
             \/ ReleaseDropped \/ Report
             \/ YieldPending \/ CollectCtrl \/ Tick \/ EndOfResults
             \/ AsyncError \/ CollectResync \/ Elapse \/ UNCHANGED vars
    BY <1>5 DEF Connect, ConnectFails, ReadFrame, ReadGarbage, Disconnect, ReleaseDropped,
       Report, YieldPending, CollectCtrl, Tick, EndOfResults, AsyncError, CollectResync,
       Elapse, vars
  <1>6. QED BY <1>1, <1>2, <1>3, <1>4, <1>5 DEF StreamNext, DispatcherStep, CollectorStep

(* The stream's steps keep the scheduler's invariants. *)
LEMMA SchedInvStep ==
  ASSUME SchedInv, StreamTypeOK, [StreamNext]_vars
  PROVE  SchedInv'
  <1>1. CASE [SchedNext]_schedVars
    BY <1>1, SchedTypeStep, SchedOwnershipStep, SchedOrderStep, SchedResultsStep, UnitsKnownStep
       DEF SchedInv
  <1>2. CASE SchedReset BY <1>2, SchedInvReset
  <1>3. QED BY <1>1, <1>2, StreamDrivesScheduler

(* A unit evicted by add_work, and the unit of the result at the head of    *)
(* the channel, are among the submitted ones.                              *)
LEMMA UnitsSubmitted ==
  ASSUME SchedInv
  PROVE  /\ \A k \in Keys : \A i \in 1..Len(queue[k]) : queue[k][i] \in 1..submitted
         /\ \A i \in 1..Len(results) : results[i].unit \in 1..submitted
  <1>0. submitted \in Nat /\ queue \in [Keys -> Seq(Nat)]
    BY DEF SchedInv, SchedTypeOK, Unit
  <1>1. ASSUME NEW k \in Keys, NEW i \in 1..Len(queue[k]) PROVE queue[k][i] \in 1..submitted
    <2>1. queue[k][i] \in Nat /\ Carries(k, queue[k][i]) BY <1>0 DEF Carries
    <2>2. QED BY <1>0, <2>1 DEF SchedInv, UnitsKnown
  <1>2. ASSUME NEW i \in 1..Len(results) PROVE results[i].unit \in 1..submitted
    <2>1. results[i].key \in Keys /\ results[i].unit \in Nat BY JobFields DEF SchedInv
    <2>2. Carries(results[i].key, results[i].unit) BY DEF Carries
    <2>3. QED BY <1>0, <2>1, <2>2 DEF SchedInv, UnitsKnown
  <1>3. QED BY <1>1, <1>2

(* What add_work answers says whether the unit was numbered, and an evicted *)
(* unit is one of those submitted before.                                  *)
LEMMA AddWorkAnswers ==
  ASSUME SchedInv, NEW k \in Keys, AddWork(k)
  PROVE  /\ last'.kind \in {"Queued", "Dropped"} => submitted' = submitted + 1
         /\ last'.kind = "Dropped" => last'.unit \in 1..submitted
         /\ last'.kind = "ShuttingDown" => submitted' = submitted
  <1>1. CASE AddWorkClaim(k) BY <1>1 DEF AddWorkClaim
  <1>2. CASE AddWorkQueue(k)
    <2>1. queue[k] \in Seq(Nat) BY DEF SchedInv, SchedTypeOK, Unit
    <2>2. submitted' = submitted + 1 /\ last'.kind # "ShuttingDown"
      BY <1>2 DEF AddWorkQueue
    <2>3. last'.kind = "Dropped" => /\ KeyQueueCap > 0 /\ Len(queue[k]) >= KeyQueueCap
                                    /\ last'.unit = Head(queue[k])
      BY <1>2 DEF AddWorkQueue
    <2>4. last'.kind = "Dropped" => queue[k] # <<>>
      BY <2>1, <2>3, CapAssumption
    <2>5. queue[k] # <<>> => Head(queue[k]) = queue[k][1] /\ 1 \in 1..Len(queue[k])
      BY <2>1, TailElements
    <2>6. QED BY <2>2, <2>3, <2>4, <2>5, UnitsSubmitted
  <1>3. CASE AddWorkRefused BY <1>3 DEF AddWorkRefused
  <1>4. QED BY <1>1, <1>2, <1>3 DEF AddWork

(* The parts of the stream's types that a flush touches. *)
LEMMA FlushTypes ==
  ASSUME StreamTypeOK, NEW f \in [Seqs -> Nat], NEW b \in Seq(0..MaxSeq), Flush(f, b)
  PROVE  /\ cursor' \in Int /\ batch' = <<>> /\ delivered' \subseteq Seqs
         /\ timer' = "ahead" /\ deadline' = "ahead"
  <1>1. cursor' \in Int
    BY CursorAdvances DEF Flush, StreamTypeOK
  <1>2. \A i \in 1..Len(b) : b[i] # 0 => b[i] \in Seqs
    BY StreamAssumption DEF Seqs
  <1>3. delivered' \subseteq Seqs
    BY <1>2 DEF Flush, StreamTypeOK
  <1>4. QED BY <1>1, <1>3 DEF Flush, RearmDeadline

LEMMA YieldErrorTypes ==
  ASSUME StreamTypeOK, NEW f \in [Seqs -> Nat], YieldError(f)
  PROVE  /\ cursor' \in Int /\ delivered' \subseteq Seqs /\ pending' \in BOOLEAN
         /\ batch' = <<>> \/ batch' = batch
         /\ timer' = "ahead" /\ deadline' = "ahead"
  <1>1. CASE batch # <<>> /\ pending' = TRUE /\ Flush(f, batch)
    BY <1>1, FlushTypes DEF StreamTypeOK
  <1>2. CASE batch = <<>> /\ RearmDeadline /\ UNCHANGED <<cursor, batch, pending, delivered>>
    BY <1>2 DEF StreamTypeOK, RearmDeadline
  <1>3. QED BY <1>1, <1>2 DEF YieldError

LEMMA InflightTypes ==
  ASSUME NEW f \in [Seqs -> Nat], NEW s \in Seqs
  PROVE  InflightAdd(f, s) \in [Seqs -> Nat] /\ InflightRemove(f, s) \in [Seqs -> Nat]
  <1>1. f[s] \in Nat /\ (f[s] > 0 => f[s] - 1 \in Nat) OBVIOUS
  <1>2. QED BY <1>1 DEF InflightAdd, InflightRemove

(* A batch that was flushed or left alone fits. *)
LEMMA BatchFits ==
  ASSUME StreamTypeOK, batch' = <<>> \/ batch' = batch
  PROVE  batch' \in Seq(0..MaxSeq) /\ Len(batch') < BatchSize
  <1>1. CASE batch' = <<>>
    <2>1. <<>> \in Seq(0..MaxSeq) /\ Len(<<>>) = 0 OBVIOUS
    <2>2. QED BY <1>1, <2>1, StreamAssumption
  <1>2. CASE batch' = batch BY <1>2 DEF StreamTypeOK
  <1>3. QED BY <1>1, <1>2

(* The seq of the result at the head of the channel. *)
LEMMA ResultSeq ==
  ASSUME SchedInv, StreamTypeOK, results # <<>>
  PROVE  seqOf[Head(results).unit] \in Seqs /\ seqOf[Head(results).unit] \in Elems(seqOf)
  <1>1. Head(results) = results[1] /\ 1 \in 1..Len(results)
    BY TailElements DEF SchedInv, SchedTypeOK
  <1>2. Head(results).unit \in 1..Len(seqOf)
    BY <1>1, UnitsSubmitted DEF StreamTypeOK
  <1>3. QED BY <1>2 DEF StreamTypeOK, Elems

(* A step of the stream keeps its types. *)
LEMMA StreamTypeStep ==
  ASSUME SchedInv, StreamTypeOK, [StreamNext]_vars
  PROVE  StreamTypeOK'
  <1>0. /\ MaxSeq \in Nat /\ BatchSize \in Nat \ {0} /\ CtrlCapacity \in Nat \ {0}
        /\ KeyOf \in [Seqs -> Keys] /\ submitted \in Nat
    BY StreamAssumption DEF SchedInv, SchedTypeOK
  <1>1. CASE Connect
    <2>1. pos' \in Nat /\ missed' \subseteq Seqs
      <3>1. CASE cursor > 0 /\ pos' = cursor /\ UNCHANGED missed
        BY <3>1 DEF StreamTypeOK
      <3>2. CASE pos' \in pos..MaxSeq /\ missed' = missed \cup {s \in 1..pos' : ~InHand(s)}
        <4>1. pos' \in Nat /\ pos' <= MaxSeq BY <1>0, <3>2 DEF StreamTypeOK
        <4>2. \A s \in 1..pos' : s \in Seqs BY <1>0, <4>1 DEF Seqs
        <4>3. QED BY <3>2, <4>1, <4>2 DEF StreamTypeOK
      <3>3. QED BY <1>1, <3>1, <3>2 DEF Connect
    <2>2. QED BY <1>1, <2>1 DEF Connect, StreamTypeOK, schedVars, collVars, DispatcherState
  <1>2. CASE ConnectFails
    BY <1>2 DEF ConnectFails, StreamTypeOK, schedVars, collVars, histVars, DispatcherState
  <1>3. CASE ReadFrame
    <2>1. pos + 1 \in Seqs /\ pos + 1 \in Nat /\ pos + 1 \in 0..MaxSeq
      BY <1>0, <1>3 DEF ReadFrame, StreamTypeOK, Seqs
    <2>2. inflight' \in [Seqs -> Nat]
      BY <1>3, <2>1, InflightTypes DEF ReadFrame, StreamTypeOK
    <2>3. QED BY <1>3, <2>1, <2>2 DEF ReadFrame, StreamTypeOK, schedVars, collVars, histVars,
                                      DispatcherState
  <1>4. CASE ReadGarbage
    BY <1>0, <1>4 DEF ReadGarbage, StreamTypeOK, schedVars, collVars, DispatcherState, Seqs
  <1>5. CASE Disconnect
    BY <1>5 DEF Disconnect, StreamTypeOK, schedVars, collVars, histVars, DispatcherState
  <1>6. CASE Submit
    <2>1. dseq \in Seqs /\ KeyOf[dseq] \in Keys
      BY <1>0, <1>6 DEF Submit, StreamTypeOK
    <2>2. /\ last'.kind \in {"Queued", "Dropped"} => submitted' = submitted + 1
          /\ last'.kind = "Dropped" => last'.unit \in 1..submitted
          /\ last'.kind = "ShuttingDown" => submitted' = submitted
      BY <1>6, <2>1, AddWorkAnswers DEF Submit
    <2>3. /\ Append(seqOf, dseq) \in Seq(Seqs)
          /\ Len(Append(seqOf, dseq)) = submitted + 1
      BY <2>1 DEF StreamTypeOK
    <2>4. last'.kind = "Dropped" => seqOf[last'.unit] \in Seqs
      BY <2>2 DEF StreamTypeOK
    <2>5. seqOf' \in Seq(Seqs) /\ Len(seqOf') = submitted'
      BY <1>6, <2>2, <2>3 DEF Submit, StreamTypeOK
    <2>6. \A s \in Seqs : s \in 0..MaxSeq
      BY <1>0 DEF Seqs
    <2>7. /\ dseq' \in 0..MaxSeq /\ dpc' \in DispatcherState
          /\ dpc' \in {"reserved", "overflow"} => dseq' \in Seqs
      BY <1>6, <2>1, <2>4, <2>6 DEF Submit, StreamTypeOK, DispatcherState
    <2>8. inflight' \in [Seqs -> Nat] /\ failed' \subseteq Seqs
      BY <1>6, <2>1, InflightTypes DEF Submit, StreamTypeOK
    <2>9. UNCHANGED <<collVars, dnext, pos, connects, ctrl, start, resubs, delivered, silent, missed>>
      BY <1>6 DEF Submit
    <2>10. QED BY <2>5, <2>7, <2>8, <2>9 DEF StreamTypeOK, collVars
  <1>7. CASE ReleaseDropped
    <2>1. inflight' \in [Seqs -> Nat]
      BY <1>7, InflightTypes DEF ReleaseDropped, StreamTypeOK
    <2>2. QED BY <1>7, <2>1 DEF ReleaseDropped, StreamTypeOK, schedVars, collVars, DispatcherState
  <1>8. CASE Report
    <2>1. ctrl' \in Seq({"error"}) /\ Len(ctrl') <= CtrlCapacity
      BY <1>0, <1>8 DEF Report, StreamTypeOK
    <2>2. QED BY <1>8, <2>1 DEF Report, StreamTypeOK, schedVars, collVars, histVars, DispatcherState
  <1>9. CASE YieldPending
    BY <1>9 DEF YieldPending, StreamTypeOK, schedVars, dispVars, histVars
  <1>10. CASE AsyncError
    <2>1. /\ cursor' \in Int /\ delivered' \subseteq Seqs /\ pending' \in BOOLEAN
          /\ batch' = <<>> \/ batch' = batch
          /\ timer' = "ahead" /\ deadline' = "ahead"
      BY <1>10, YieldErrorTypes DEF AsyncError, StreamTypeOK
    <2>2. batch' \in Seq(0..MaxSeq) /\ Len(batch') < BatchSize
      BY <2>1, BatchFits
    <2>3. QED BY <1>10, <2>1, <2>2 DEF AsyncError, StreamTypeOK, schedVars, dispVars
  <1>11. CASE CollectCtrl
    <2>1. /\ cursor' \in Int /\ delivered' \subseteq Seqs /\ pending' \in BOOLEAN
          /\ batch' = <<>> \/ batch' = batch
          /\ timer' = "ahead" /\ deadline' = "ahead"
      BY <1>11, YieldErrorTypes DEF CollectCtrl, StreamTypeOK
    <2>2. batch' \in Seq(0..MaxSeq) /\ Len(batch') < BatchSize
      BY <2>1, BatchFits
    <2>3. ctrl' \in Seq({"error"}) /\ Len(ctrl') <= CtrlCapacity
      BY <1>0, <1>11 DEF CollectCtrl, StreamTypeOK
    <2>4. QED BY <1>11, <2>1, <2>2, <2>3 DEF CollectCtrl, StreamTypeOK, schedVars, dispVars
  <1>12. CASE CollectResync
    <2>1. Append(batch, 0) \in Seq(0..MaxSeq) /\ Len(Append(batch, 0)) = Len(batch) + 1
      BY <1>0 DEF StreamTypeOK
    <2>2. /\ cursor' \in Int /\ delivered' \subseteq Seqs
          /\ batch' = <<>> \/ (batch' = Append(batch, 0) /\ Len(batch) + 1 < BatchSize)
          /\ timer' \in {"ahead", "past"} /\ deadline' \in {"ahead", "past"}
      <3>1. CASE Flush(inflight, Append(batch, 0))
        BY <2>1, <3>1, FlushTypes DEF StreamTypeOK
      <3>2. CASE /\ Len(batch) + 1 < BatchSize
                 /\ batch' = Append(batch, 0)
                 /\ UNCHANGED <<cursor, delivered, timer, deadline>>
        BY <3>2 DEF StreamTypeOK
      <3>3. QED BY <1>12, <3>1, <3>2 DEF CollectResync
    <2>3. batch' \in Seq(0..MaxSeq) /\ Len(batch') < BatchSize
      <3>1. CASE batch' = <<>> BY <3>1, BatchFits
      <3>2. CASE batch' = Append(batch, 0) /\ Len(batch) + 1 < BatchSize
        BY <2>1, <3>2
      <3>3. QED BY <2>2, <3>1, <3>2
    <2>4. QED BY <1>12, <2>2, <2>3 DEF CollectResync, StreamTypeOK, schedVars, dispVars
  <1>13. CASE CollectResult
    <2> DEFINE s == seqOf[Head(results).unit]
               f == InflightRemove(inflight, s)
    <2>1. s \in Seqs
      BY <1>13, ResultSeq DEF CollectResult, Collect
    <2>2. f \in [Seqs -> Nat]
      BY <2>1, InflightTypes DEF StreamTypeOK
    <2>3. Append(batch, s) \in Seq(0..MaxSeq) /\ Len(Append(batch, s)) = Len(batch) + 1
      <3>1. s \in 0..MaxSeq BY <1>0, <2>1 DEF Seqs
      <3>2. QED BY <3>1 DEF StreamTypeOK
    <2>4. /\ cursor' \in Int /\ delivered' \subseteq Seqs /\ pending' \in BOOLEAN
          /\ \/ batch' = <<>> \/ batch' = batch
             \/ (batch' = Append(batch, s) /\ Len(batch) + 1 < BatchSize)
          /\ timer' \in {"ahead", "past"} /\ deadline' \in {"ahead", "past"}
          /\ silent' \subseteq Seqs /\ failed' \subseteq Seqs
      <3>1. CASE Flush(f, Append(batch, s)) /\ UNCHANGED <<pending, silent, failed>>
        BY <2>2, <2>3, <3>1, FlushTypes DEF StreamTypeOK
      <3>2. CASE /\ Len(batch) + 1 < BatchSize
                 /\ batch' = Append(batch, s)
                 /\ UNCHANGED <<cursor, pending, delivered, timer, deadline, silent, failed>>
        BY <3>2 DEF StreamTypeOK
      <3>3. CASE /\ silent' = silent \cup {s}
                 /\ UNCHANGED <<cursor, batch, pending, delivered, timer, deadline, failed>>
        BY <2>1, <3>3 DEF StreamTypeOK
      <3>4. CASE failed' = failed \cup {s} /\ YieldError(f) /\ UNCHANGED silent
        BY <2>1, <2>2, <3>4, YieldErrorTypes DEF StreamTypeOK
      <3>5. QED BY <1>13, <3>1, <3>2, <3>3, <3>4 DEF CollectResult
    <2>5. batch' \in Seq(0..MaxSeq) /\ Len(batch') < BatchSize
      <3>1. CASE batch' = <<>> \/ batch' = batch BY <3>1, BatchFits
      <3>2. CASE batch' = Append(batch, s) /\ Len(batch) + 1 < BatchSize
        BY <2>3, <3>2
      <3>3. QED BY <2>4, <3>1, <3>2
    <2>6. /\ inflight' = f /\ submitted' = submitted
          /\ UNCHANGED <<dispVars, ended, notices, seqOf, ctrl, start, resubs, missed>>
      BY <1>13 DEF CollectResult, Collect
    <2>7. QED BY <2>2, <2>4, <2>5, <2>6 DEF StreamTypeOK, dispVars
  <1>14. CASE Elapse
    BY <1>14 DEF Elapse, StreamTypeOK, schedVars, dispVars, histVars
  <1>15. CASE Tick
    <2>1. /\ cursor' \in Int /\ delivered' \subseteq Seqs
          /\ batch' = <<>> \/ batch' = batch
          /\ timer' = "ahead" /\ deadline' \in {"ahead", "past"}
      <3>1. CASE Flush(inflight, batch)
        BY <3>1, FlushTypes DEF StreamTypeOK
      <3>2. CASE AdvanceCursor(inflight, <<>>) /\ timer' = "ahead"
                 /\ UNCHANGED <<batch, delivered, deadline>>
        <4>1. <<>> \in Seq(0..MaxSeq) OBVIOUS
        <4>2. cursor' \in Int BY <3>2, <4>1, CursorAdvances DEF StreamTypeOK
        <4>3. QED BY <3>2, <4>2 DEF StreamTypeOK
      <3>3. QED BY <1>15, <3>1, <3>2 DEF Tick
    <2>2. batch' \in Seq(0..MaxSeq) /\ Len(batch') < BatchSize
      BY <2>1, BatchFits
    <2>3. QED BY <1>15, <2>1, <2>2 DEF Tick, StreamTypeOK, schedVars, dispVars
  <1>16. CASE EndOfResults
    <2>1. /\ cursor' \in Int /\ delivered' \subseteq Seqs /\ ended' \in BOOLEAN
          /\ batch' = <<>> \/ batch' = batch
          /\ timer' \in {"ahead", "past"} /\ deadline' \in {"ahead", "past"}
      <3>1. CASE Flush(inflight, batch) /\ UNCHANGED ended
        BY <3>1, FlushTypes DEF StreamTypeOK
      <3>2. CASE ended' = TRUE /\ UNCHANGED <<cursor, batch, delivered, timer, deadline>>
        BY <3>2 DEF StreamTypeOK
      <3>3. QED BY <1>16, <3>1, <3>2 DEF EndOfResults
    <2>2. batch' \in Seq(0..MaxSeq) /\ Len(batch') < BatchSize
      BY <2>1, BatchFits
    <2>3. QED BY <1>16, <2>1, <2>2 DEF EndOfResults, StreamTypeOK, schedVars, dispVars
  <1>17. ASSUME NEW w \in Workers, Worker(w) \/ WorkerPanics(w) PROVE StreamTypeOK'
    <2>1. submitted' = submitted /\ UNCHANGED streamVars
      BY <1>17 DEF Worker, WorkerPanics, WorkerStep, Recv, Exit, RunDone, SendResult,
         SendFails, Release, NextInChain, EndChain, Panic
    <2>2. QED BY <2>1 DEF StreamTypeOK, streamVars
  <1>18. CASE Resubscribe
    <2>1. ctrl' \in Seq({"error"}) /\ seqOf' \in Seq(Seqs) /\ batch' \in Seq(0..MaxSeq)
          /\ Len(ctrl') = 0 /\ Len(seqOf') = 0 /\ Len(batch') = 0 /\ submitted' = 0
      BY <1>18 DEF Resubscribe, SchedReset
    <2>2. /\ inflight' \in [Seqs -> Nat] /\ dpc' = "connect" /\ dseq' = 0 /\ dnext' = "connect"
          /\ pending' = FALSE /\ ended' = FALSE /\ timer' = "ahead" /\ deadline' = "ahead"
          /\ resubs' \in Nat /\ dseq' \in 0..MaxSeq
          /\ UNCHANGED <<cursor, start, delivered, silent, failed, missed, pos, connects, notices>>
      BY <1>0, <1>18 DEF Resubscribe, RearmDeadline, StreamTypeOK
    <2>3. Len(ctrl') <= CtrlCapacity /\ Len(batch') < BatchSize /\ Len(seqOf') = submitted'
      BY <1>0, <2>1
    <2>4. QED BY <2>1, <2>2, <2>3 DEF StreamTypeOK, DispatcherState
  <1>19. CASE UNCHANGED vars BY <1>19 DEF vars, schedVars, streamVars, StreamTypeOK
  <1>20. QED
    BY <1>1, <1>2, <1>3, <1>4, <1>5, <1>6, <1>7, <1>8, <1>9, <1>10, <1>11, <1>12, <1>13,
       <1>14, <1>15, <1>16, <1>17, <1>18, <1>19
       DEF StreamNext, DispatcherStep, CollectorStep

-----------------------------------------------------------------------------
(* A cursor that moves to the watermark covers only what is accounted for.  *)
(* R is the set of seqs that were reached, A of those that may be covered.  *)
LEMMA CursorCovers ==
  ASSUME cursor \in Int, start \in Int,
         NEW f \in [Seqs -> Nat], NEW b \in Seq(0..MaxSeq), AdvanceCursor(f, b),
         NEW A, NEW R, R \subseteq Seqs,
         \A s \in Seqs : start < s /\ s <= cursor => s \in A,
         \A s \in Seqs, t \in R : start < s /\ s <= t => s \in A \/ f[s] > 0,
         \A m \in Seqs : f[m] > 0 => m \in R \/ m - 1 \in R \/ m = 1,
         \A i \in 1..Len(b) : b[i] # 0 => b[i] \in R
  PROVE  \A s \in Seqs : start < s /\ s <= cursor' => s \in A
  <1> SUFFICES ASSUME NEW s \in Seqs, start < s, s <= cursor'
               PROVE  s \in A
    OBVIOUS
  <1>0. MaxSeq \in Nat /\ s \in Nat /\ s >= 1
    BY StreamAssumption DEF Seqs
  <1>1. CASE cursor' = cursor BY <1>1
  <1>2. CASE cursor' = Watermark(f, b)
    <2>1. ASSUME NEW m \in Seqs, f[m] > 0, Watermark(f, b) = m - 1,
                 \A x \in Seqs : x < m => f[x] = 0
          PROVE  s \in A
      <3>1. m \in Nat /\ s < m /\ m # 1 BY <1>0, <1>2, <2>1 DEF Seqs
      <3>2. f[s] = 0 BY <2>1, <3>1
      <3>3. m \in R \/ m - 1 \in R BY <2>1, <3>1
      <3>4. s <= m /\ s <= m - 1 BY <1>0, <3>1
      <3>5. QED BY <3>2, <3>3, <3>4
    <2>2. ASSUME \A x \in Seqs : f[x] = 0, NEW i \in 1..Len(b), Watermark(f, b) = b[i]
          PROVE  s \in A
      <3>1. b[i] # 0 BY <1>0, <1>2, <2>2
      <3>2. b[i] \in R BY <3>1
      <3>3. f[s] = 0 BY <2>2
      <3>4. QED BY <1>2, <2>2, <3>2, <3>3
    <2>3. Watermark(f, b) # 0 BY <1>0, <1>2
    <2>4. QED BY <2>1, <2>2, <2>3, WatermarkIs
  <1>3. QED BY <1>1, <1>2, CursorAdvances

(* A step of the collector keeps the coverage: b is the batch it flushed,   *)
(* if it moved the cursor.                                                 *)
LEMMA CollectorCovers ==
  ASSUME StreamTypeOK, CoverageInv, inflight' \in [Seqs -> Nat],
         UNCHANGED <<dispVars, seqOf, start, missed>>,
         NEW b \in Seq(0..MaxSeq),
         cursor' = cursor \/ (AdvanceCursor(inflight', b) /\ batch' = <<>>),
         \A i \in 1..Len(b) : b[i] # 0 => b[i] \in Elems(seqOf),
         \A i \in 1..Len(batch') : batch'[i] # 0 => batch'[i] \in Elems(seqOf),
         \A s \in Seqs : inflight'[s] <= inflight[s],
         \A s \in Seqs : Accounted(s) => Accounted(s)',
         \A s \in Seqs : Dispatched(s) =>
           Accounted(s)' \/ Dispatched(s)' \/ \E i \in 1..Len(batch') : batch'[i] = s,
         \A s \in Seqs : inflight[s] > 0 =>
           Accounted(s)' \/ inflight'[s] > 0 \/ \E i \in 1..Len(batch') : batch'[i] = s,
         \A s \in Seqs : (\E i \in 1..Len(batch) : batch[i] = s) =>
           Accounted(s)' \/ \E i \in 1..Len(batch') : batch'[i] = s
  PROVE  CoverageInv'
  <1> DEFINE A == {s \in Seqs : Accounted(s)' \/ s \in missed}
             R == {t \in Seqs : Reached(t)}
             InBatch(s) == \E i \in 1..Len(batch) : batch[i] = s
             InBatchNext(s) == \E i \in 1..Len(batch') : batch'[i] = s
  <1>0. /\ MaxSeq \in Nat /\ cursor \in Int /\ start \in Int /\ pos \in Nat
        /\ inflight \in [Seqs -> Nat] /\ batch \in Seq(0..MaxSeq)
        /\ dpc' = dpc /\ dseq' = dseq /\ dnext' = dnext /\ pos' = pos
        /\ dpc = "reserved" => dseq \in Seqs
    BY StreamAssumption DEF StreamTypeOK, dispVars
  <1>1. \A s \in Seqs : s \in Nat /\ s # 0 BY <1>0 DEF Seqs
  <1>2. \A s \in Seqs : InBatch(s) => Accounted(s)' \/ InBatchNext(s)
    OBVIOUS
  <1>3. \A s \in Seqs : Dispatched(s) => inflight[s] > 0
    BY <1>0 DEF Dispatched
  <1>4. \A s \in Seqs, t \in R : start < s /\ s <= t =>
          Accounted(s)' \/ s \in missed \/ Dispatched(s)' \/ InBatchNext(s)
    BY <1>2 DEF CoverageInv
  <1>5. \A s \in Seqs : Dispatched(s)' => inflight'[s] > 0 /\ Dispatched(s)
    <2> SUFFICES ASSUME NEW s \in Seqs, Dispatched(s)' PROVE inflight'[s] > 0 /\ Dispatched(s)
      OBVIOUS
    <2>1. inflight'[s] \in Nat /\ inflight[s] \in Nat /\ inflight'[s] <= inflight[s] BY <1>0
    <2>2. QED BY <1>0, <2>1 DEF Dispatched
  <1>6. NoSkippedEvent'
    <2>1. \A s \in Seqs : start < s /\ s <= cursor => s \in A
      BY DEF CoverageInv, NoSkippedEvent
    <2>2. CASE cursor' = cursor
      BY <2>1, <2>2 DEF NoSkippedEvent
    <2>3. CASE AdvanceCursor(inflight', b) /\ batch' = <<>>
      <3>1. \A s \in Seqs, t \in R : start < s /\ s <= t => s \in A \/ inflight'[s] > 0
        BY <1>4, <1>5, <2>3
      <3>2. ASSUME NEW m \in Seqs, inflight'[m] > 0
            PROVE  m \in R \/ m - 1 \in R \/ m = 1
        <4>1. inflight[m] > 0 BY <1>0, <3>2
        <4>2. CASE Dispatched(m) BY <4>2 DEF CoverageInv, Reached
        <4>3. CASE ~Dispatched(m)
          <5>1. dpc = "reserved" /\ dseq = m BY <1>0, <4>1, <4>3 DEF Dispatched
          <5>2. m = pos BY <5>1 DEF CoverageInv
          <5>3. m # 1 => m - 1 \in Seqs /\ m - 1 < pos BY <1>0, <5>2 DEF Seqs
          <5>4. QED BY <5>1, <5>3 DEF Reached, Connected
        <4>4. QED BY <4>2, <4>3
      <3>3. \A i \in 1..Len(b) : b[i] # 0 => b[i] \in R
        BY <1>0 DEF Reached, Seqs
      <3>4. \A s \in Seqs : start < s /\ s <= cursor' => s \in A
        <4>1. R \subseteq Seqs OBVIOUS
        <4> HIDE DEF A, R
        <4>2. QED BY <1>0, <2>1, <2>3, <3>1, <3>2, <3>3, <4>1, CursorCovers
      <3>5. QED BY <3>4 DEF NoSkippedEvent
    <2>4. QED BY <2>2, <2>3
  <1>7. ASSUME NEW s \in Seqs, NEW t \in Seqs, start < s, s <= t, Reached(t)'
        PROVE  Accounted(s)' \/ s \in missed \/ Dispatched(s)' \/ InBatchNext(s)
    <2>1. CASE t <= cursor'
      <3>1. cursor' \in Int BY <1>0, CursorAdvances
      <3>2. s <= cursor' BY <1>1, <1>7, <2>1, <3>1
      <3>3. QED BY <1>6, <1>7, <3>2 DEF NoSkippedEvent
    <2>2. CASE ~(t <= cursor')
      <3>1. Reached(t) BY <1>0, <1>7, <2>2 DEF Reached, Connected
      <3>2. QED BY <1>4, <1>7, <3>1
    <2>3. QED BY <2>1, <2>2
  <1>8. dpc' = "reserved" => dseq' = pos' /\ InHand(dseq)'
    <2> SUFFICES ASSUME dpc = "reserved" PROVE dseq = pos /\ InHand(dseq)'
      BY <1>0
    <2>1. dseq \in Seqs /\ dseq = pos /\ InHand(dseq) BY <1>0 DEF CoverageInv
    <2>2. Accounted(dseq)' \/ inflight'[dseq] > 0 \/ InBatchNext(dseq)
      <3> DEFINE d == dseq
      <3>1. d \in Seqs /\ (Accounted(d) \/ inflight[d] > 0 \/ InBatch(d)) BY <2>1 DEF InHand
      <3>2. Accounted(dseq)' <=> dseq \in delivered' \cup silent' \cup failed'
        BY <1>0 DEF Accounted
      <3>3. \A s \in Seqs : Accounted(s)' <=> s \in delivered' \cup silent' \cup failed'
        BY DEF Accounted
      <3> HIDE DEF d
      <3>4. d \in delivered' \cup silent' \cup failed' \/ inflight'[d] > 0 \/ InBatchNext(d)
        BY <1>2, <3>1, <3>3
      <3>5. QED BY <3>2, <3>4 DEF d
    <2>3. QED BY <1>0, <2>1, <2>2 DEF InHand
  <1>9. \A s \in Seqs : Dispatched(s)' => s \in Elems(seqOf)'
    BY <1>5 DEF CoverageInv, Elems
  <1>10. \A i \in 1..Len(batch') : batch'[i] # 0 => batch'[i] \in Elems(seqOf)'
    BY DEF Elems
  <1>11. QED BY <1>6, <1>7, <1>8, <1>9, <1>10 DEF CoverageInv

(* A collector step that flushes the batch b and leaves the reservations,   *)
(* or releases that of the seq r, which it then accounts for.               *)
LEMMA FlushCovers ==
  ASSUME StreamTypeOK, CoverageInv, inflight' \in [Seqs -> Nat],
         UNCHANGED <<dispVars, seqOf, start, missed>>,
         NEW b \in Seq(0..MaxSeq), Flush(inflight', b),
         \A i \in 1..Len(b) : b[i] # 0 => b[i] \in Elems(seqOf),
         \A i \in 1..Len(batch) : \E j \in 1..Len(b) : b[j] = batch[i],
         silent \subseteq silent', failed \subseteq failed',
         \A s \in Seqs : inflight'[s] <= inflight[s],
         \A s \in Seqs : inflight'[s] # inflight[s] => Accounted(s)'
  PROVE  CoverageInv'
  <1>0. MaxSeq \in Nat /\ inflight \in [Seqs -> Nat] BY StreamAssumption DEF StreamTypeOK
  <1>1. /\ AdvanceCursor(inflight', b) /\ batch' = <<>>
        /\ delivered' = delivered \cup ({b[i] : i \in 1..Len(b)} \ {0})
    BY DEF Flush
  <1>2. \A i \in 1..Len(batch') : batch'[i] # 0 => batch'[i] \in Elems(seqOf)
    BY <1>1
  <1>3. \A s \in Seqs : Accounted(s) => Accounted(s)'
    BY <1>1 DEF Accounted
  <1>4. \A s \in Seqs : (\E i \in 1..Len(batch) : batch[i] = s) => Accounted(s)'
    <2> SUFFICES ASSUME NEW s \in Seqs, NEW i \in 1..Len(batch), batch[i] = s
                 PROVE  Accounted(s)'
      OBVIOUS
    <2>1. PICK j \in 1..Len(b) : b[j] = batch[i] OBVIOUS
    <2>2. s # 0 BY <1>0 DEF Seqs
    <2>3. s \in delivered' BY <1>1, <2>1, <2>2
    <2>4. QED BY <2>3 DEF Accounted
  <1>5. \A s \in Seqs : Dispatched(s) => Accounted(s)' \/ Dispatched(s)'
    BY DEF Dispatched, dispVars
  <1>6. \A s \in Seqs : inflight[s] > 0 => Accounted(s)' \/ inflight'[s] > 0
    OBVIOUS
  <1>7. QED BY <1>1, <1>2, <1>3, <1>4, <1>5, <1>6, CollectorCovers

(* A step that yields an error and releases no reservation but that of a    *)
(* seq it accounts for keeps the coverage.                                 *)
LEMMA YieldErrorCovers ==
  ASSUME StreamTypeOK, CoverageInv, inflight' \in [Seqs -> Nat],
         UNCHANGED <<dispVars, seqOf, start, missed>>,
         YieldError(inflight'),
         silent \subseteq silent', failed \subseteq failed',
         \A s \in Seqs : inflight'[s] <= inflight[s],
         \A s \in Seqs : inflight'[s] # inflight[s] => Accounted(s)'
  PROVE  CoverageInv'
  <1>0. batch \in Seq(0..MaxSeq) BY DEF StreamTypeOK
  <1>1. CASE Flush(inflight', batch)
    <2>1. \A i \in 1..Len(batch) : batch[i] # 0 => batch[i] \in Elems(seqOf)
      BY DEF CoverageInv
    <2>2. \A i \in 1..Len(batch) : \E j \in 1..Len(batch) : batch[j] = batch[i]
      OBVIOUS
    <2>3. QED BY <1>0, <1>1, <2>1, <2>2, FlushCovers
  <1>2. CASE UNCHANGED <<cursor, batch, pending, delivered>>
    <2>1. \A i \in 1..Len(batch) : batch[i] # 0 => batch[i] \in Elems(seqOf)
      BY DEF CoverageInv
    <2>2. \A s \in Seqs : Accounted(s) => Accounted(s)'
      BY <1>2 DEF Accounted
    <2>3. \A s \in Seqs : Dispatched(s) => Accounted(s)' \/ Dispatched(s)'
      BY DEF Dispatched, dispVars
    <2>4. QED BY <1>0, <1>2, <2>1, <2>2, <2>3, CollectorCovers
  <1>3. QED BY <1>1, <1>2 DEF YieldError

(* Appending to the batch. *)
LEMMA BatchAppend ==
  ASSUME StreamTypeOK, CoverageInv, NEW e \in 0..MaxSeq, e # 0 => e \in Elems(seqOf)
  PROVE  /\ Append(batch, e) \in Seq(0..MaxSeq)
         /\ \A i \in 1..Len(Append(batch, e)) :
              Append(batch, e)[i] # 0 => Append(batch, e)[i] \in Elems(seqOf)
         /\ \A i \in 1..Len(batch) : \E j \in 1..Len(Append(batch, e)) :
              Append(batch, e)[j] = batch[i]
         /\ \E j \in 1..Len(Append(batch, e)) : Append(batch, e)[j] = e
  <1> DEFINE b == Append(batch, e)
  <1>1. /\ b \in Seq(0..MaxSeq) /\ Len(batch) \in Nat /\ Len(b) = Len(batch) + 1
        /\ \A i \in 1..Len(batch) : b[i] = batch[i]
        /\ b[Len(batch) + 1] = e
    BY AppendElements DEF StreamTypeOK
  <1> HIDE DEF b
  <1>2. \A i \in 1..Len(b) : i \in 1..Len(batch) \/ i = Len(batch) + 1
    BY <1>1
  <1>3. (\A i \in 1..Len(batch) : i \in 1..Len(b)) /\ Len(batch) + 1 \in 1..Len(b)
    BY <1>1
  <1>4. \A i \in 1..Len(b) : b[i] # 0 => b[i] \in Elems(seqOf)
    BY <1>1, <1>2 DEF CoverageInv
  <1>5. \A i \in 1..Len(batch) : \E j \in 1..Len(b) : b[j] = batch[i]
    BY <1>1, <1>3
  <1>6. \E j \in 1..Len(b) : b[j] = e
    BY <1>1, <1>3
  <1>7. QED BY <1>1, <1>4, <1>5, <1>6 DEF b

(* Releasing one reservation of the seq s. *)
LEMMA Released ==
  ASSUME NEW f \in [Seqs -> Nat], NEW s \in Seqs
  PROVE  /\ InflightRemove(f, s) \in [Seqs -> Nat]
         /\ \A t \in Seqs : t # s => InflightRemove(f, s)[t] = f[t]
         /\ \A t \in Seqs : InflightRemove(f, s)[t] <= f[t]
         /\ f[s] > 0 => InflightRemove(f, s)[s] = f[s] - 1
  <1>1. InflightRemove(f, s) \in [Seqs -> Nat] BY InflightTypes
  <1>2. f[s] \in Nat OBVIOUS
  <1>3. \A t \in Seqs : f[t] \in Nat OBVIOUS
  <1>4. QED BY <1>1, <1>2, <1>3 DEF InflightRemove

(* The result branch of the collector keeps the coverage. *)
LEMMA CollectResultCovers ==
  ASSUME SchedInv, StreamTypeOK, CoverageInv, CollectResult
  PROVE  CoverageInv'
  <1> DEFINE s == seqOf[Head(results).unit]
             f == InflightRemove(inflight, s)
             b == Append(batch, s)
  <1>1. s \in Seqs /\ s \in Elems(seqOf)
    BY ResultSeq DEF CollectResult, Collect
  <1>2. s \in 0..MaxSeq /\ s # 0
    BY <1>1, StreamAssumption DEF Seqs
  <1>3. /\ inflight' = f
        /\ UNCHANGED <<dispVars, seqOf, start, missed>>
    BY DEF CollectResult
  <1>4. /\ inflight \in [Seqs -> Nat] /\ f \in [Seqs -> Nat]
        /\ \A t \in Seqs : t # s => f[t] = inflight[t]
        /\ \A t \in Seqs : f[t] <= inflight[t]
    BY <1>1, Released DEF StreamTypeOK
  <1>5. /\ b \in Seq(0..MaxSeq)
        /\ \A i \in 1..Len(b) : b[i] # 0 => b[i] \in Elems(seqOf)
        /\ \A i \in 1..Len(batch) : \E j \in 1..Len(b) : b[j] = batch[i]
        /\ \E j \in 1..Len(b) : b[j] = s
    BY <1>1, <1>2, BatchAppend
  <1>6. CASE Flush(f, b) /\ UNCHANGED <<pending, silent, failed>>
    <2>1. s \in delivered'
      BY <1>2, <1>5, <1>6 DEF Flush
    <2>2. \A t \in Seqs : inflight'[t] # inflight[t] => Accounted(t)'
      BY <1>3, <1>4, <2>1 DEF Accounted
    <2> HIDE DEF b, f
    <2>3. QED BY <1>3, <1>4, <1>5, <1>6, <2>2, FlushCovers
  <1>7. CASE /\ batch' = b
             /\ UNCHANGED <<cursor, pending, delivered, timer, deadline, silent, failed>>
    <2>1. \A t \in Seqs : Accounted(t) => Accounted(t)'
      BY <1>7 DEF Accounted
    <2>2. \A t \in Seqs : (\E i \in 1..Len(batch) : batch[i] = t) => \E i \in 1..Len(batch') : batch'[i] = t
      BY <1>5, <1>7
    <2>3. \A t \in Seqs : t # s => (Dispatched(t) => Dispatched(t)')
      BY <1>3, <1>4 DEF Dispatched, dispVars
    <2> HIDE DEF b, f
    <2>4. QED BY <1>3, <1>4, <1>5, <1>7, <2>1, <2>2, <2>3, CollectorCovers
  <1>8. CASE /\ silent' = silent \cup {s}
             /\ UNCHANGED <<cursor, batch, pending, delivered, timer, deadline, failed>>
    <2>1. \A t \in Seqs : Accounted(t) => Accounted(t)'
      BY <1>8 DEF Accounted
    <2>2. \A t \in Seqs : Dispatched(t) => Accounted(t)' \/ Dispatched(t)'
      BY <1>3, <1>4, <1>8 DEF Dispatched, dispVars, Accounted
    <2>3. \A t \in Seqs : inflight[t] > 0 => Accounted(t)' \/ inflight'[t] > 0
      BY <1>3, <1>4, <1>8 DEF Accounted
    <2>4. batch \in Seq(0..MaxSeq) /\ \A i \in 1..Len(batch) : batch[i] # 0 => batch[i] \in Elems(seqOf)
      BY DEF CoverageInv, StreamTypeOK
    <2> HIDE DEF b, f, s
    <2>5. QED BY <1>3, <1>4, <1>8, <2>1, <2>2, <2>3, <2>4, CollectorCovers
  <1>9. CASE failed' = failed \cup {s} /\ YieldError(f) /\ UNCHANGED silent
    <2>1. \A t \in Seqs : inflight'[t] # inflight[t] => Accounted(t)'
      BY <1>3, <1>4, <1>9 DEF Accounted
    <2> HIDE DEF f
    <2>2. QED BY <1>3, <1>4, <1>9, <2>1, YieldErrorCovers
  <1>10. QED BY <1>6, <1>7, <1>8, <1>9 DEF CollectResult

(* Submitting the reserved frame keeps the coverage. *)
LEMMA SubmitCovers ==
  ASSUME StreamTypeOK, CoverageInv, Submit
  PROVE  CoverageInv'
  <1>0. /\ MaxSeq \in Nat /\ cursor \in Int /\ start \in Int /\ pos \in Nat
        /\ inflight \in [Seqs -> Nat] /\ seqOf \in Seq(Seqs)
    BY StreamAssumption DEF StreamTypeOK
  <1>1. /\ dpc = "reserved" /\ dseq \in Seqs /\ dseq = pos /\ InHand(dseq)
        /\ UNCHANGED <<cursor, batch, pos, start, delivered, silent, failed, missed>>
    BY DEF Submit, StreamTypeOK, CoverageInv, collVars
  <1>2. \A s \in Seqs : s \in Nat BY <1>0 DEF Seqs
  <1>3. NoSkippedEvent' BY <1>1 DEF CoverageInv, NoSkippedEvent, Accounted
  <1>4. \A s \in Seqs : Accounted(s)' <=> Accounted(s) BY <1>1 DEF Accounted
  <1>5. CASE /\ seqOf' = Append(seqOf, dseq) /\ dpc' \in {"read", "overflow"}
             /\ UNCHANGED inflight
    <2>1. Elems(seqOf)' = Elems(seqOf) \cup {dseq}
      <3>1. /\ Len(seqOf) \in Nat /\ Len(seqOf') = Len(seqOf) + 1
            /\ \A i \in 1..Len(seqOf) : seqOf'[i] = seqOf[i]
            /\ seqOf'[Len(seqOf) + 1] = dseq
        BY <1>0, <1>1, <1>5, AppendElements
      <3>2. \A i \in 1..Len(seqOf') : i \in 1..Len(seqOf) \/ i = Len(seqOf) + 1
        BY <3>1
      <3>3. (\A i \in 1..Len(seqOf) : i \in 1..Len(seqOf')) /\ Len(seqOf) + 1 \in 1..Len(seqOf')
        BY <3>1
      <3>4. QED BY <3>1, <3>2, <3>3 DEF Elems
    <2>2. \A s \in Seqs : Dispatched(s)' <=> inflight[s] > 0
      BY <1>5 DEF Dispatched
    <2>3. \A s \in Seqs : Dispatched(s) \/ s = dseq => s \in Elems(seqOf)'
      BY <2>1 DEF CoverageInv
    <2>4. \A s \in Seqs : inflight[s] > 0 => Dispatched(s) \/ s = dseq
      BY DEF Dispatched
    <2>5. \A s \in Seqs : Dispatched(s) => inflight[s] > 0
      BY <1>0 DEF Dispatched
    <2>6. \A t \in Seqs : Reached(t)' => Reached(t) \/ t = dseq
      <3> SUFFICES ASSUME NEW t \in Seqs, Reached(t)', t # dseq PROVE Reached(t)
        OBVIOUS
      <3>1. t \in Elems(seqOf) \/ t <= cursor \/ t <= pos
        BY <1>1, <1>5, <2>1 DEF Reached
      <3>2. t <= pos => t < pos BY <1>0, <1>1, <1>2
      <3>3. QED BY <1>1, <3>1, <3>2 DEF Reached, Connected
    <2>7. ASSUME NEW s \in Seqs, NEW t \in Seqs, start < s, s <= t, Reached(t)'
          PROVE  \/ Accounted(s) \/ s \in missed \/ inflight[s] > 0
                 \/ \E i \in 1..Len(batch) : batch[i] = s
      <3>1. CASE s = dseq BY <1>1, <3>1 DEF InHand
      <3>2. CASE s # dseq /\ t = dseq
        <4>1. s < pos BY <1>0, <1>1, <1>2, <2>7, <3>2
        <4>2. Reached(s) /\ s <= s BY <1>1, <1>2, <4>1 DEF Reached, Connected
        <4>3. QED BY <2>5, <2>7, <4>2 DEF CoverageInv
      <3>3. CASE Reached(t) BY <2>5, <2>7, <3>3 DEF CoverageInv
      <3>4. QED BY <2>6, <2>7, <3>1, <3>2, <3>3
    <2>8. \A i \in 1..Len(batch') : batch'[i] # 0 => batch'[i] \in Elems(seqOf)'
      BY <1>1, <2>1 DEF CoverageInv
    <2>9. QED BY <1>1, <1>3, <1>4, <1>5, <2>2, <2>3, <2>4, <2>7, <2>8 DEF CoverageInv
  <1>6. CASE inflight' = InflightRemove(inflight, dseq) /\ dpc' = "exited" /\ UNCHANGED seqOf
    <2>1. /\ \A t \in Seqs : t # dseq => inflight'[t] = inflight[t]
          /\ \A t \in Seqs : inflight'[t] <= inflight[t]
          /\ inflight[dseq] > 0 => inflight'[dseq] = inflight[dseq] - 1
          /\ inflight' \in [Seqs -> Nat]
      BY <1>0, <1>1, <1>6, Released
    <2>2. \A s \in Seqs : Dispatched(s)' <=> Dispatched(s)
      <3> SUFFICES ASSUME NEW s \in Seqs PROVE Dispatched(s)' <=> Dispatched(s)
        OBVIOUS
      <3>1. Dispatched(s)' <=> inflight'[s] > 0 BY <1>6 DEF Dispatched
      <3>2. CASE s = dseq
        <4>1. Dispatched(s) <=> inflight[s] > 1 BY <1>1, <3>2 DEF Dispatched
        <4>2. inflight[s] \in Nat /\ inflight'[s] \in Nat BY <1>0, <2>1
        <4>3. QED BY <2>1, <3>1, <3>2, <4>1, <4>2
      <3>3. CASE s # dseq
        <4>1. Dispatched(s) <=> inflight[s] > 0 BY <3>3 DEF Dispatched
        <4>2. QED BY <2>1, <3>1, <3>3, <4>1
      <3>4. QED BY <3>2, <3>3
    <2>3. \A t \in Seqs : Reached(t)' => Reached(t)
      BY <1>1, <1>6 DEF Reached, Connected, Elems
    <2>4. QED BY <1>1, <1>3, <1>4, <1>6, <2>2, <2>3 DEF CoverageInv, Elems
  <1>7. QED BY <1>5, <1>6 DEF Submit

(* A step of the stream keeps the coverage. *)
LEMMA CoverageStep ==
  ASSUME SchedInv, StreamTypeOK, CoverageInv, [StreamNext]_vars
  PROVE  CoverageInv'
  <1>0. /\ MaxSeq \in Nat /\ cursor \in Int /\ start \in Int /\ pos \in Nat
        /\ inflight \in [Seqs -> Nat] /\ batch \in Seq(0..MaxSeq)
    BY StreamAssumption DEF StreamTypeOK
  <1>00. \A s \in Seqs : s \in Nat /\ s # 0 BY <1>0 DEF Seqs
  <1> DEFINE InBatch(s) == \E i \in 1..Len(batch) : batch[i] = s
  <1>1. CASE Connect
    <2>1. /\ dpc = "connect" /\ dpc' = "read"
          /\ UNCHANGED <<cursor, batch, inflight, seqOf, start, delivered, silent, failed>>
      BY <1>1 DEF Connect, collVars
    <2>2. missed \subseteq missed' BY <1>1 DEF Connect
    <2>3. \A s \in Seqs : (Dispatched(s)' <=> Dispatched(s)) /\ (Accounted(s)' <=> Accounted(s))
      BY <2>1 DEF Dispatched, Accounted
    <2>4. NoSkippedEvent' BY <2>1, <2>2 DEF CoverageInv, NoSkippedEvent, Accounted
    <2>5. ASSUME NEW s \in Seqs, NEW t \in Seqs, start < s, s <= t, Reached(t)'
          PROVE  Accounted(s) \/ s \in missed' \/ Dispatched(s) \/ InBatch(s)
      <3>1. CASE Reached(t) BY <2>2, <2>5, <3>1 DEF CoverageInv
      <3>2. CASE ~Reached(t)
        <4>1. t <= pos' /\ ~(t <= cursor) BY <2>1, <2>5, <3>2 DEF Reached, Elems
        <4>2. /\ pos' \in pos..MaxSeq
              /\ missed' = missed \cup {x \in 1..pos' : ~InHand(x)}
          BY <1>1, <4>1 DEF Connect
        <4>3. s \in 1..pos' BY <1>0, <1>00, <2>5, <4>1, <4>2 DEF Seqs
        <4>4. s \in missed' \/ InHand(s) BY <4>2, <4>3
        <4>5. inflight[s] > 0 => Dispatched(s) BY <2>1 DEF Dispatched
        <4>6. QED BY <4>4, <4>5 DEF InHand
      <3>3. QED BY <3>1, <3>2
    <2>6. QED BY <2>1, <2>3, <2>4, <2>5 DEF CoverageInv, Elems
  <1>2. CASE \/ ConnectFails \/ Disconnect \/ Report
             \/ YieldPending \/ Elapse \/ UNCHANGED vars
             \/ \E w \in Workers : Worker(w) \/ WorkerPanics(w)
    <2>1. /\ UNCHANGED <<cursor, batch, inflight, seqOf, start, delivered, silent, failed, missed>>
          /\ UNCHANGED <<dseq, pos>>
          /\ dpc' = "reserved" <=> dpc = "reserved"
          /\ Connected' => Connected
      BY <1>2 DEF ConnectFails, Disconnect, Report, YieldPending, Elapse, vars, streamVars,
         Worker, WorkerPanics, collVars, histVars, dispVars, Connected, StreamTypeOK
    <2>2. \A s \in Seqs : (Dispatched(s)' <=> Dispatched(s)) /\ (Accounted(s)' <=> Accounted(s))
      BY <2>1 DEF Dispatched, Accounted
    <2>3. \A t \in Seqs : Reached(t)' => Reached(t)
      BY <2>1 DEF Reached, Elems
    <2>4. NoSkippedEvent' BY <2>1 DEF CoverageInv, NoSkippedEvent, Accounted
    <2>5. dpc' = "reserved" => dseq' = pos' /\ InHand(dseq)'
      BY <2>1 DEF CoverageInv, InHand, Accounted
    <2>6. QED BY <2>1, <2>2, <2>3, <2>4, <2>5 DEF CoverageInv, Elems
  <1>3. CASE ReadFrame
    <2>1. /\ dpc = "read" /\ dpc' = "reserved" /\ dseq' = pos' /\ pos' = pos + 1
          /\ pos + 1 \in Seqs /\ inflight' = InflightAdd(inflight, pos + 1)
          /\ UNCHANGED <<cursor, batch, seqOf, start, delivered, silent, failed, missed>>
      BY <1>0, <1>3 DEF ReadFrame, collVars, histVars, Seqs
    <2>2. /\ inflight'[pos + 1] = inflight[pos + 1] + 1
          /\ \A s \in Seqs : s # pos + 1 => inflight'[s] = inflight[s]
      BY <1>0, <2>1 DEF InflightAdd
    <2>3. \A s \in Seqs : (Dispatched(s)' <=> Dispatched(s)) /\ (Accounted(s)' <=> Accounted(s))
      <3> SUFFICES ASSUME NEW s \in Seqs
                   PROVE  (Dispatched(s)' <=> Dispatched(s)) /\ (Accounted(s)' <=> Accounted(s))
        OBVIOUS
      <3>1. Accounted(s)' <=> Accounted(s) BY <2>1 DEF Accounted
      <3>2. inflight[s] \in Nat BY <1>0
      <3>3. Dispatched(s)' <=> Dispatched(s)
        BY <2>1, <2>2, <3>2 DEF Dispatched
      <3>4. QED BY <3>1, <3>3
    <2>4. \A t \in Seqs : Reached(t)' => Reached(t)
      <3> SUFFICES ASSUME NEW t \in Seqs, Reached(t)' PROVE Reached(t)
        OBVIOUS
      <3>1. t \in Elems(seqOf) \/ t <= cursor \/ t < pos + 1
        BY <2>1 DEF Reached, Elems
      <3>2. t < pos + 1 => t <= pos BY <1>0, <1>00
      <3>3. QED BY <2>1, <3>1, <3>2 DEF Reached, Connected
    <2>5. NoSkippedEvent' BY <2>1 DEF CoverageInv, NoSkippedEvent, Accounted
    <2>6. InHand(dseq)'
      <3>1. inflight[pos + 1] \in Nat BY <1>0, <2>1
      <3>2. inflight'[dseq'] > 0 BY <2>1, <2>2, <3>1
      <3>3. QED BY <3>2 DEF InHand
    <2>7. QED BY <2>1, <2>3, <2>4, <2>5, <2>6 DEF CoverageInv, Elems
  <1>4. CASE ReadGarbage
    <2>1. /\ dpc = "read" /\ dpc' = "report" /\ dnext' = "read" /\ pos' = pos + 1
          /\ pos + 1 \in Seqs /\ failed' = failed \cup {pos + 1}
          /\ UNCHANGED <<cursor, batch, inflight, seqOf, start, delivered, silent, missed>>
      BY <1>0, <1>4 DEF ReadGarbage, collVars, Seqs
    <2>2. \A s \in Seqs : Dispatched(s)' <=> Dispatched(s)
      BY <2>1 DEF Dispatched
    <2>3. \A s \in Seqs : Accounted(s) \/ s = pos + 1 => Accounted(s)'
      BY <2>1 DEF Accounted
    <2>4. NoSkippedEvent' BY <2>1 DEF CoverageInv, NoSkippedEvent, Accounted
    <2>5. ASSUME NEW s \in Seqs, NEW t \in Seqs, start < s, s <= t, Reached(t)'
          PROVE  Accounted(s)' \/ s \in missed \/ Dispatched(s) \/ InBatch(s)
      <3>1. t \in Elems(seqOf) \/ t <= cursor \/ t <= pos + 1
        BY <2>1, <2>5 DEF Reached, Elems
      <3>2. CASE Reached(t) BY <2>3, <2>5, <3>2 DEF CoverageInv
      <3>3. CASE ~Reached(t)
        <4>1. t = pos + 1
          BY <1>0, <1>00, <2>1, <3>1, <3>3 DEF Reached, Connected
        <4>2. CASE s = pos + 1 BY <2>3, <4>2
        <4>3. CASE s # pos + 1
          <5>1. s <= pos /\ s <= s BY <1>0, <1>00, <2>5, <4>1, <4>3
          <5>2. Reached(s) BY <2>1, <5>1 DEF Reached, Connected
          <5>3. QED BY <2>3, <2>5, <5>1, <5>2 DEF CoverageInv
        <4>4. QED BY <4>2, <4>3
      <3>4. QED BY <3>2, <3>3
    <2>6. QED BY <2>1, <2>2, <2>4, <2>5 DEF CoverageInv, Elems
  <1>5. CASE Submit BY <1>5, SubmitCovers
  <1>6. CASE ReleaseDropped
    <2>1. /\ dpc = "overflow" /\ dpc' = "report" /\ dnext' = "read" /\ dseq \in Seqs
          /\ inflight' = InflightRemove(inflight, dseq) /\ failed' = failed \cup {dseq}
          /\ UNCHANGED <<cursor, batch, seqOf, start, delivered, silent, missed, pos>>
      BY <1>6 DEF ReleaseDropped, collVars, StreamTypeOK
    <2>2. /\ \A t \in Seqs : t # dseq => inflight'[t] = inflight[t]
          /\ \A t \in Seqs : inflight'[t] <= inflight[t]
          /\ inflight' \in [Seqs -> Nat]
      BY <1>0, <2>1, Released
    <2>3. \A s \in Seqs : Accounted(s) \/ s = dseq => Accounted(s)'
      BY <2>1 DEF Accounted
    <2>4. \A s \in Seqs : (Dispatched(s)' <=> inflight'[s] > 0) /\ (Dispatched(s) <=> inflight[s] > 0)
      BY <2>1 DEF Dispatched
    <2>5. \A s \in Seqs : Dispatched(s)' => Dispatched(s)
      <3> SUFFICES ASSUME NEW s \in Seqs, inflight'[s] > 0 PROVE inflight[s] > 0
        BY <2>4
      <3>1. inflight'[s] \in Nat /\ inflight[s] \in Nat /\ inflight'[s] <= inflight[s]
        BY <1>0, <2>2
      <3>2. QED BY <3>1
    <2>6. \A s \in Seqs : Dispatched(s) => Dispatched(s)' \/ Accounted(s)'
      BY <2>2, <2>3, <2>4
    <2>7. \A t \in Seqs : Reached(t)' => Reached(t)
      BY <2>1 DEF Reached, Connected, Elems
    <2>8. NoSkippedEvent' BY <2>1 DEF CoverageInv, NoSkippedEvent, Accounted
    <2>9. QED BY <2>1, <2>3, <2>5, <2>6, <2>7, <2>8 DEF CoverageInv, Elems
  <1>7. CASE AsyncError
    <2>1. /\ YieldError(inflight) /\ UNCHANGED <<inflight, dispVars, seqOf, start, missed, silent, failed>>
      BY <1>7 DEF AsyncError
    <2>2. \A s \in Seqs : inflight'[s] <= inflight[s] BY <1>0, <2>1
    <2>3. QED BY <1>0, <2>1, <2>2, YieldErrorCovers
  <1>8. CASE CollectCtrl
    <2>1. /\ YieldError(inflight) /\ UNCHANGED <<inflight, dispVars, seqOf, start, missed, silent, failed>>
      BY <1>8 DEF CollectCtrl
    <2>2. \A s \in Seqs : inflight'[s] <= inflight[s] BY <1>0, <2>1
    <2>3. QED BY <1>0, <2>1, <2>2, YieldErrorCovers
  <1>9. CASE CollectResync
    <2> DEFINE b == Append(batch, 0)
    <2>1. /\ b \in Seq(0..MaxSeq)
          /\ \A i \in 1..Len(b) : b[i] # 0 => b[i] \in Elems(seqOf)
          /\ \A i \in 1..Len(batch) : \E j \in 1..Len(b) : b[j] = batch[i]
      BY <1>0, BatchAppend
    <2>2. UNCHANGED <<inflight, dispVars, seqOf, start, missed, silent, failed>>
      BY <1>9 DEF CollectResync
    <2>3. \A s \in Seqs : inflight'[s] <= inflight[s] BY <1>0, <2>2
    <2>4. CASE Flush(inflight, b)
      <3> HIDE DEF b
      <3>1. QED BY <1>0, <2>1, <2>2, <2>3, <2>4, FlushCovers
    <2>5. CASE batch' = b /\ UNCHANGED <<cursor, delivered, timer, deadline>>
      <3> HIDE DEF b
      <3>1. \A s \in Seqs : (Accounted(s) => Accounted(s)') /\ (Dispatched(s) => Dispatched(s)')
        BY <2>2, <2>5 DEF Accounted, Dispatched, dispVars
      <3>2. QED BY <1>0, <2>1, <2>2, <2>3, <2>5, <3>1, CollectorCovers
    <2>6. QED BY <1>9, <2>4, <2>5 DEF CollectResync
  <1>10. CASE CollectResult BY <1>10, CollectResultCovers
  <1>11. CASE Tick \/ EndOfResults
    <2>1. UNCHANGED <<inflight, dispVars, seqOf, start, missed, silent, failed>>
      BY <1>11 DEF Tick, EndOfResults
    <2>2. \A s \in Seqs : inflight'[s] <= inflight[s] BY <1>0, <2>1
    <2>3. \A i \in 1..Len(batch) : batch[i] # 0 => batch[i] \in Elems(seqOf)
      BY DEF CoverageInv
    <2>4. CASE Flush(inflight, batch)
      <3>1. \A i \in 1..Len(batch) : \E j \in 1..Len(batch) : batch[j] = batch[i]
        OBVIOUS
      <3>2. QED BY <1>0, <2>1, <2>2, <2>3, <2>4, <3>1, FlushCovers
    <2>5. CASE /\ batch = <<>> /\ UNCHANGED <<batch, delivered>>
               /\ AdvanceCursor(inflight, <<>>) \/ UNCHANGED cursor
      <3>1. \A s \in Seqs : (Accounted(s) => Accounted(s)') /\ (Dispatched(s) => Dispatched(s)')
        BY <2>1, <2>5 DEF Accounted, Dispatched, dispVars
      <3>2. QED BY <1>0, <2>1, <2>2, <2>3, <2>5, <3>1, CollectorCovers
    <2>6. QED BY <1>11, <2>4, <2>5 DEF Tick, EndOfResults
  <1>12. CASE Resubscribe
    <2>1. /\ dpc' = "connect" /\ inflight' = [s \in Seqs |-> 0] /\ seqOf' = <<>> /\ batch' = <<>>
          /\ UNCHANGED <<cursor, start, delivered, silent, failed, missed>>
      BY <1>12 DEF Resubscribe
    <2>2. NoSkippedEvent' BY <2>1 DEF CoverageInv, NoSkippedEvent, Accounted
    <2>3. \A s \in Seqs : ~Dispatched(s)' BY <2>1 DEF Dispatched
    <2>4. ASSUME NEW s \in Seqs, NEW t \in Seqs, start < s, s <= t, Reached(t)'
          PROVE  Accounted(s)' \/ s \in missed'
      <3>1. Elems(seqOf)' = {} BY <2>1 DEF Elems
      <3>2. t <= cursor BY <2>1, <2>4, <3>1 DEF Reached, Connected
      <3>3. s <= cursor BY <1>0, <1>00, <2>4, <3>2
      <3>4. QED BY <2>1, <2>2, <2>4, <3>3 DEF NoSkippedEvent
    <2>5. QED BY <2>1, <2>2, <2>3, <2>4 DEF CoverageInv
  <1>13. QED
    BY <1>1, <1>2, <1>3, <1>4, <1>5, <1>6, <1>7, <1>8, <1>9, <1>10, <1>11, <1>12
       DEF StreamNext, DispatcherStep, CollectorStep

-----------------------------------------------------------------------------
(* What holds in every state of the stream. *)
LEMMA StreamInductive == StreamSpec => [](SchedInv /\ StreamTypeOK /\ CoverageInv)
  <1>1. StreamInit => SchedInv /\ StreamTypeOK /\ CoverageInv
    <2> SUFFICES ASSUME StreamInit PROVE SchedInv /\ StreamTypeOK /\ CoverageInv
      OBVIOUS
    <2>0. MaxSeq \in Nat /\ BatchSize \in Nat \ {0} /\ CtrlCapacity \in Nat \ {0}
          /\ StartCursors \subseteq Int
      BY StreamAssumption
    <2>1. SchedInit /\ submitted = 0 BY DEF StreamInit, SchedInit
    <2>2. SchedTypeOK
      BY <2>1 DEF SchedInit, SchedTypeOK, NoJob, WorkerState, AddOutcome, Unit, Job
    <2>3. OwnershipInv /\ ResultInv
      BY <2>1 DEF SchedInit, OwnershipInv, SingleOwner, Busy, ResultInv
    <2>4. OrderInv
      BY <2>1 DEF SchedInit, OrderInv, QueueOrder, Increasing
    <2>5. UnitsKnown
      BY <2>1 DEF SchedInit, UnitsKnown, Carries, Busy
    <2>6. /\ ctrl \in Seq({"error"}) /\ seqOf \in Seq(Seqs) /\ batch \in Seq(0..MaxSeq)
          /\ Len(ctrl) = 0 /\ Len(seqOf) = 0 /\ Len(batch) = 0
          /\ inflight \in [Seqs -> Nat] /\ dseq \in 0..MaxSeq
          /\ start \in Int /\ cursor \in Int
      BY <2>0 DEF StreamInit
    <2>7. Len(ctrl) <= CtrlCapacity /\ Len(batch) < BatchSize /\ Len(seqOf) = submitted
      BY <2>0, <2>1, <2>6
    <2>8. StreamTypeOK
      BY <2>6, <2>7 DEF StreamInit, StreamTypeOK, DispatcherState
    <2>9. CoverageInv
      <3>1. \A s \in Seqs : s \in Nat BY <2>0 DEF Seqs
      <3>2. \A s \in Seqs : ~(start < s /\ s <= cursor)
        BY <2>6, <3>1 DEF StreamInit
      <3>3. Elems(seqOf) = {} BY <2>6 DEF Elems
      <3>4. \A s \in Seqs : ~Dispatched(s) BY DEF StreamInit, Dispatched
      <3>5. \A t \in Seqs : Reached(t) => t <= cursor
        BY <3>3 DEF StreamInit, Reached, Connected
      <3>6. \A s, t \in Seqs : ~(start < s /\ s <= t /\ Reached(t))
        BY <2>6, <3>1, <3>2, <3>5 DEF StreamInit
      <3>7. dpc # "reserved" /\ NoSkippedEvent BY <3>2 DEF StreamInit, NoSkippedEvent
      <3>8. QED BY <2>6, <3>4, <3>6, <3>7 DEF CoverageInv
    <2>10. QED BY <2>2, <2>3, <2>4, <2>5, <2>8, <2>9 DEF SchedInv
  <1>2. SchedInv /\ StreamTypeOK /\ CoverageInv /\ [StreamNext]_vars
          => (SchedInv /\ StreamTypeOK /\ CoverageInv)'
    BY SchedInvStep, StreamTypeStep, CoverageStep
  <1>3. QED BY <1>1, <1>2, PTL DEF StreamSpec

(* Type correctness of the stream: the control channel and the batch never  *)
(* grow beyond their capacities.                                           *)
THEOREM StreamTypeCorrect == StreamSpec => []StreamTypeOK
  BY StreamInductive, PTL

(* The cursor never covers an event that is not accounted for, through      *)
(* overflow, reconnects, worker panics, batch timeouts and resubscriptions: *)
(* a restart from the cursor skips nothing.                                *)
THEOREM StreamNoSkippedEvent == StreamSpec => []NoSkippedEvent
  <1>1. CoverageInv => NoSkippedEvent BY DEF CoverageInv
  <1>2. QED BY <1>1, StreamInductive, PTL

-----------------------------------------------------------------------------
(* The steps of a worker of a stream that is open. *)
Drives(w) == Recv(w) \/ RunDone(w) \/ SendResult(w) \/ NextInChain(w) \/ EndChain(w) \/ Panic(w)

(* Seen from the scheduler of an open stream: a frame is submitted, a       *)
(* result collected, a worker goes on, or the scheduler is replaced.        *)
LEMMA StreamCases ==
  ASSUME StreamTypeOK, SchedulerOpen, [StreamNext]_vars
  PROVE  \/ Submit
         \/ CollectResult
         \/ \E w \in Workers : Drives(w) /\ UNCHANGED streamVars
         \/ Resubscribe
         \/ UNCHANGED schedVars
  <1>1. CASE \E w \in Workers : Worker(w) \/ WorkerPanics(w)
    BY <1>1 DEF Worker, WorkerPanics, WorkerStep, Drives, SchedulerOpen, Exit, SendFails, Release
  <1>2. CASE \/ Connect \/ ConnectFails \/ ReadFrame \/ ReadGarbage \/ Disconnect
             \/ ReleaseDropped \/ Report
             \/ YieldPending \/ CollectCtrl \/ Tick \/ EndOfResults
             \/ AsyncError \/ CollectResync \/ Elapse \/ UNCHANGED vars
    BY <1>2 DEF Connect, ConnectFails, ReadFrame, ReadGarbage, Disconnect, ReleaseDropped,
       Report, YieldPending, CollectCtrl, Tick, EndOfResults, AsyncError, CollectResync,
       Elapse, vars
  <1>3. QED BY <1>1, <1>2 DEF StreamNext, DispatcherStep, CollectorStep

(* The scheduler of a live stream stays open. *)
LEMMA SchedulerOpenStep ==
  ASSUME SchedInv, StreamTypeOK, SchedulerOpen, [StreamNext]_vars
  PROVE  SchedulerOpen'
  <1>0. pc \in [Workers -> WorkerState] BY DEF SchedInv, SchedTypeOK
  <1>1. CASE Submit
    BY <1>1 DEF Submit, AddWork, AddWorkClaim, AddWorkQueue, AddWorkRefused, SchedulerOpen
  <1>2. CASE CollectResult
    BY <1>2 DEF CollectResult, Collect, SchedulerOpen
  <1>3. ASSUME NEW w \in Workers, Drives(w) PROVE SchedulerOpen'
    BY <1>0, <1>3 DEF Drives, Recv, RunDone, SendResult, NextInChain, EndChain, Panic, SchedulerOpen
  <1>4. CASE Resubscribe
    BY <1>4 DEF Resubscribe, SchedReset, SchedulerOpen
  <1>5. CASE UNCHANGED schedVars
    BY <1>5 DEF schedVars, SchedulerOpen
  <1>6. QED BY <1>1, <1>2, <1>3, <1>4, <1>5, StreamCases

(* The key of a worker that panicked stays its own, and its unit stays the  *)
(* youngest of the key that ran.                                           *)
LEMMA DeadOwnersStep ==
  ASSUME SchedInv, StreamTypeOK, SchedulerOpen, DeadOwners, [StreamNext]_vars
  PROVE  DeadOwners'
  <1>0. /\ feeder \in Seq(Job) /\ pc \in [Workers -> WorkerState] /\ results \in Seq(Job)
        /\ cur \in [Workers -> Job \cup {NoJob}] /\ lastRun \in [Keys -> Nat]
        /\ queue \in [Keys -> Seq(Nat)]
    BY DEF SchedInv, SchedTypeOK, Unit
  <1>00. \A w \in Workers : pc[w] \notin {"idle", "ended"} => cur[w].key \in Keys
    BY DEF SchedInv, SchedTypeOK, Job
  <1>1. ASSUME NEW k \in Keys, AddWorkClaim(k) PROVE DeadOwners'
    <2> DEFINE e == [key |-> k, unit |-> submitted + 1]
    <2>1. e \in Job /\ e.key = k BY DEF Job, Unit, SchedInv, SchedTypeOK
    <2> HIDE DEF e
    <2>2. /\ Len(feeder) \in Nat /\ Len(feeder') = Len(feeder) + 1
          /\ \A i \in 1..Len(feeder) : feeder'[i] = feeder[i]
          /\ feeder'[Len(feeder) + 1] = e
      BY <1>0, <1>1, <2>1, AppendElements DEF AddWorkClaim, e
    <2>3. \A i \in 1..Len(feeder') : i \in 1..Len(feeder) \/ i = Len(feeder) + 1
      BY <2>2
    <2>4. /\ k \notin active /\ active' = active \cup {k}
          /\ UNCHANGED <<pc, cur, results, collected, lastRun>>
      BY <1>1 DEF AddWorkClaim
    <2>5. QED BY <2>1, <2>2, <2>3, <2>4 DEF DeadOwners, OwnerOrder, Busy
  <1>2. ASSUME NEW k \in Keys, AddWorkQueue(k) \/ AddWorkRefused PROVE DeadOwners'
    BY <1>2 DEF AddWorkQueue, AddWorkRefused, DeadOwners, OwnerOrder, Busy
  <1>3. CASE Collect
    <2>1. /\ Head(results) = results[1] /\ Len(results) \in Nat \ {0}
          /\ Len(results') = Len(results) - 1
          /\ \A i \in 1..Len(results') : i + 1 \in 1..Len(results) /\ results'[i] = results[i + 1]
      BY <1>0, <1>3, TailElements DEF Collect
    <2>2. /\ collected' = collected \cup {results[1]} /\ 1 \in 1..Len(results)
          /\ UNCHANGED <<feeder, active, pc, cur, lastRun>>
      BY <1>3, <2>1 DEF Collect
    <2>3. ASSUME NEW w \in Workers, OwnerOrder(w) PROVE OwnerOrder(w)'
      BY <2>1, <2>2, <2>3 DEF OwnerOrder
    <2>4. QED BY <2>2, <2>3 DEF DeadOwners, Busy
  <1>4. ASSUME NEW w \in Workers, Recv(w) PROVE DeadOwners'
    <2>1. /\ Head(feeder) = feeder[1] /\ 1 \in 1..Len(feeder)
          /\ \A i \in 1..Len(feeder') : i + 1 \in 1..Len(feeder) /\ feeder'[i] = feeder[i + 1]
      BY <1>0, <1>4, TailElements DEF Recv
    <2>2. feeder[1].key \in Keys BY <2>1, JobFields DEF SchedInv
    <2>3. /\ cur'[w] = feeder[1] /\ pc'[w] = "running"
          /\ \A v \in Workers \ {w} : cur'[v] = cur[v] /\ pc'[v] = pc[v]
          /\ \A h \in Keys \ {feeder[1].key} : lastRun'[h] = lastRun[h]
          /\ UNCHANGED <<active, results, collected>>
      BY <1>0, <1>4, <2>1, <2>2 DEF Recv
    <2>4. ASSUME NEW v \in Workers, pc'[v] = "dead"
          PROVE  /\ OwnerOrder(v)' /\ cur'[v].key \in active'
                 /\ \A u \in Workers : Busy(u)' => cur'[u].key # cur'[v].key
                 /\ \A i \in 1..Len(feeder') : feeder'[i].key # cur'[v].key
      <3>1. v # w /\ pc[v] = "dead" /\ cur'[v] = cur[v] BY <2>3, <2>4
      <3>2. cur[v].key \in Keys /\ cur[v].key # feeder[1].key
        BY <1>00, <2>1, <3>1 DEF DeadOwners
      <3>3. OwnerOrder(v)' BY <2>3, <3>1, <3>2 DEF DeadOwners, OwnerOrder
      <3>4. \A u \in Workers : Busy(u)' => u = w \/ (Busy(u) /\ cur'[u] = cur[u])
        BY <2>3 DEF Busy
      <3>5. QED BY <2>1, <2>3, <3>1, <3>2, <3>3, <3>4 DEF DeadOwners
    <2>5. QED BY <2>4 DEF DeadOwners
  <1>5. ASSUME NEW w \in Workers, RunDone(w) PROVE DeadOwners'
    <2>1. /\ \A v \in Workers : Busy(v)' <=> Busy(v)
          /\ \A v \in Workers : pc'[v] = "dead" <=> pc[v] = "dead"
          /\ UNCHANGED <<active, feeder, cur, results, collected, lastRun>>
      BY <1>0, <1>5 DEF RunDone, Busy
    <2>2. QED BY <2>1 DEF DeadOwners, OwnerOrder
  <1>6. ASSUME NEW w \in Workers, SendResult(w) PROVE DeadOwners'
    <2>1. /\ pc[w] = "sending" /\ results' = Append(results, cur[w])
          /\ UNCHANGED <<active, feeder, cur, collected, lastRun>>
          /\ pc' = [pc EXCEPT ![w] = "settling"]
      BY <1>6 DEF SendResult
    <2>2. /\ \A v \in Workers : Busy(v)' <=> Busy(v)
          /\ \A v \in Workers : pc'[v] = "dead" <=> pc[v] = "dead"
      BY <1>0, <2>1 DEF Busy
    <2>3. cur[w] \in Job BY <2>1 DEF SchedInv, SchedTypeOK
    <2>4. /\ Len(results) \in Nat /\ Len(results') = Len(results) + 1
          /\ \A i \in 1..Len(results) : results'[i] = results[i]
          /\ results'[Len(results) + 1] = cur[w]
      BY <1>0, <2>1, <2>3, AppendElements
    <2>5. \A i \in 1..Len(results') : i \in 1..Len(results) \/ i = Len(results) + 1
      BY <2>4
    <2>6. Busy(w) BY <2>1 DEF Busy
    <2>7. ASSUME NEW v \in Workers, pc[v] = "dead" PROVE OwnerOrder(v)'
      <3>1. OwnerOrder(v) /\ cur[w].key # cur[v].key BY <2>6, <2>7 DEF DeadOwners
      <3>2. QED BY <2>1, <2>4, <2>5, <3>1 DEF OwnerOrder
    <2>8. QED BY <2>1, <2>2, <2>7 DEF DeadOwners
  <1>7. ASSUME NEW w \in Workers, NextInChain(w) PROVE DeadOwners'
    <2> DEFINE k == cur[w].key
    <2>1. Busy(w) /\ k \in Keys BY <1>00, <1>7 DEF NextInChain, Busy
    <2>2. /\ cur'[w].key = k /\ pc'[w] = "running"
          /\ \A v \in Workers \ {w} : cur'[v] = cur[v] /\ pc'[v] = pc[v]
          /\ \A h \in Keys \ {k} : lastRun'[h] = lastRun[h]
          /\ UNCHANGED <<active, feeder, results, collected>>
      BY <1>0, <1>7, <2>1 DEF NextInChain
    <2>3. ASSUME NEW v \in Workers, pc'[v] = "dead"
          PROVE  /\ OwnerOrder(v)' /\ cur'[v].key \in active'
                 /\ \A u \in Workers : Busy(u)' => cur'[u].key # cur'[v].key
                 /\ \A i \in 1..Len(feeder') : feeder'[i].key # cur'[v].key
      <3>1. v # w /\ pc[v] = "dead" /\ cur'[v] = cur[v] BY <2>2, <2>3
      <3>2. cur[v].key \in Keys /\ cur[v].key # k
        BY <1>00, <2>1, <3>1 DEF DeadOwners
      <3>3. OwnerOrder(v)' BY <2>2, <3>1, <3>2 DEF DeadOwners, OwnerOrder
      <3>4. \A u \in Workers : Busy(u)' => Busy(u) /\ cur'[u].key = cur[u].key
        BY <2>1, <2>2 DEF Busy
      <3>5. QED BY <2>2, <3>1, <3>3, <3>4 DEF DeadOwners
    <2>4. QED BY <2>3 DEF DeadOwners
  <1>8. ASSUME NEW w \in Workers, EndChain(w) PROVE DeadOwners'
    <2>1. Busy(w) BY <1>8 DEF EndChain, Busy
    <2>2. /\ active' = active \ {cur[w].key}
          /\ \A v \in Workers : pc'[v] = "dead" => pc[v] = "dead" /\ cur'[v] = cur[v]
          /\ \A v \in Workers : Busy(v)' => Busy(v) /\ cur'[v] = cur[v]
          /\ UNCHANGED <<feeder, results, collected, lastRun>>
      BY <1>0, <1>8 DEF EndChain, Busy
    <2>3. QED BY <2>1, <2>2 DEF DeadOwners, OwnerOrder
  <1>9. ASSUME NEW w \in Workers, Panic(w) PROVE DeadOwners'
    <2>1. /\ pc[w] = "running" /\ pc'[w] = "dead" /\ \A v \in Workers \ {w} : pc'[v] = pc[v]
          /\ UNCHANGED <<active, feeder, cur, results, collected, lastRun>>
      BY <1>0, <1>9 DEF Panic
    <2>2. OwnerOrder(w) /\ Busy(w) BY <2>1 DEF SchedInv, ResultInv, Busy
    <2>3. /\ cur[w].key \in active
          /\ \A v \in Workers \ {w} : Busy(v) => cur[v].key # cur[w].key
          /\ \A i \in 1..Len(feeder) : feeder[i].key # cur[w].key
      BY <2>2 DEF SchedInv, OwnershipInv, SingleOwner
    <2>4. \A v \in Workers : Busy(v)' => v # w /\ Busy(v) BY <2>1 DEF Busy
    <2>5. QED BY <2>1, <2>2, <2>3, <2>4 DEF DeadOwners, OwnerOrder
  <1>10. CASE Submit
    <2>1. KeyOf[dseq] \in Keys BY <1>10, StreamAssumption DEF Submit, StreamTypeOK
    <2>2. QED BY <1>1, <1>2, <1>10, <2>1 DEF Submit, AddWork
  <1>11. CASE Resubscribe BY <1>11 DEF Resubscribe, SchedReset, DeadOwners
  <1>12. CASE UNCHANGED schedVars
    BY <1>12 DEF schedVars, DeadOwners, OwnerOrder, Busy
  <1>13. CASE CollectResult BY <1>3, <1>13 DEF CollectResult
  <1>14. QED
    BY <1>4, <1>5, <1>6, <1>7, <1>8, <1>9, <1>10, <1>11, <1>12, <1>13, StreamCases DEF Drives

-----------------------------------------------------------------------------
(* Where UnitsInSystem finds a unit, place by place. *)
InSystem(u) ==
  \/ \E i \in 1..Len(feeder) : feeder[i].unit = u
  \/ \E k \in Keys : \E i \in 1..Len(queue[k]) : queue[k][i] = u
  \/ \E w \in Workers : pc[w] \in {"running", "sending", "dead"} /\ cur[w].unit = u
  \/ \E i \in 1..Len(results) : results[i].unit = u

LEMMA UnitsInSystemAre ==
  /\ \A u : u \in UnitsInSystem <=> InSystem(u)
  /\ \A u : u \in UnitsInSystem' <=> InSystem(u)'
  BY DEF UnitsInSystem, InSystem, Waiting, Elems

(* The units in the system are submitted ones, and each carries its key. *)
LEMMA InSystemSubmitted ==
  ASSUME SchedInv
  PROVE  \A u : InSystem(u) => u \in 1..submitted
  <1> SUFFICES ASSUME NEW u, InSystem(u) PROVE u \in 1..submitted
    OBVIOUS
  <1>0. submitted \in Nat BY DEF SchedInv, SchedTypeOK
  <1>1. ASSUME NEW i \in 1..Len(feeder), feeder[i].unit = u PROVE u \in 1..submitted
    <2>1. feeder[i].key \in Keys /\ u \in Nat BY <1>1, JobFields DEF SchedInv
    <2>2. Carries(feeder[i].key, u) BY <1>1 DEF Carries
    <2>3. QED BY <1>0, <2>1, <2>2 DEF SchedInv, UnitsKnown
  <1>2. ASSUME NEW w \in Workers, pc[w] \in {"running", "sending", "dead"}, cur[w].unit = u
        PROVE  u \in 1..submitted
    <2>1. cur[w].key \in Keys /\ u \in Nat BY <1>2 DEF SchedInv, SchedTypeOK, Job, Unit
    <2>2. Carries(cur[w].key, u) BY <1>2 DEF Carries
    <2>3. QED BY <1>0, <2>1, <2>2 DEF SchedInv, UnitsKnown
  <1>3. QED BY <1>1, <1>2, UnitsSubmitted DEF InSystem

(* A worker moves its unit along but neither adds nor loses one. *)
LEMMA DrivesKeepsUnits ==
  ASSUME SchedInv, NEW w \in Workers, Drives(w)
  PROVE  \A u : InSystem(u)' <=> InSystem(u)
  <1> SUFFICES ASSUME NEW u PROVE InSystem(u)' <=> InSystem(u)
    OBVIOUS
  <1>0. /\ feeder \in Seq(Job) /\ pc \in [Workers -> WorkerState] /\ results \in Seq(Job)
        /\ cur \in [Workers -> Job \cup {NoJob}] /\ queue \in [Keys -> Seq(Nat)]
    BY DEF SchedInv, SchedTypeOK, Unit
  <1>1. CASE Recv(w)
    <2>1. /\ Head(feeder) = feeder[1] /\ Len(feeder) \in Nat \ {0}
          /\ Len(feeder') = Len(feeder) - 1
          /\ \A i \in 1..Len(feeder') : i + 1 \in 1..Len(feeder) /\ feeder'[i] = feeder[i + 1]
      BY <1>0, <1>1, TailElements DEF Recv
    <2>2. /\ pc[w] = "idle" /\ pc'[w] = "running" /\ cur'[w] = feeder[1]
          /\ \A v \in Workers \ {w} : cur'[v] = cur[v] /\ pc'[v] = pc[v]
          /\ UNCHANGED <<queue, results>> /\ 1 \in 1..Len(feeder)
      BY <1>0, <1>1, <2>1 DEF Recv
    <2>3. \A i \in 1..Len(feeder) : i = 1 \/ (i - 1 \in 1..Len(feeder') /\ feeder'[i - 1] = feeder[i])
      <3> SUFFICES ASSUME NEW i \in 1..Len(feeder), i # 1
                   PROVE  i - 1 \in 1..Len(feeder') /\ feeder'[i - 1] = feeder[i]
        OBVIOUS
      <3>1. i - 1 \in 1..Len(feeder') /\ (i - 1) + 1 = i BY <2>1
      <3>2. QED BY <2>1, <3>1
    <2>4. InSystem(u) => InSystem(u)'
      BY <2>2, <2>3 DEF InSystem
    <2>5. InSystem(u)' => InSystem(u)
      BY <2>1, <2>2 DEF InSystem
    <2>6. QED BY <2>4, <2>5
  <1>2. CASE RunDone(w) \/ Panic(w)
    <2>1. /\ \A v \in Workers : pc'[v] \in {"running", "sending", "dead"} <=>
                                pc[v] \in {"running", "sending", "dead"}
          /\ UNCHANGED <<feeder, queue, cur, results>>
      BY <1>0, <1>2 DEF RunDone, Panic
    <2>2. QED BY <2>1 DEF InSystem
  <1>3. CASE SendResult(w)
    <2>1. /\ pc[w] = "sending" /\ results' = Append(results, cur[w])
          /\ pc'[w] = "settling" /\ \A v \in Workers \ {w} : pc'[v] = pc[v]
          /\ UNCHANGED <<feeder, queue, cur>>
      BY <1>0, <1>3 DEF SendResult
    <2>2. cur[w] \in Job BY <2>1 DEF SchedInv, SchedTypeOK
    <2>3. /\ Len(results) \in Nat /\ Len(results') = Len(results) + 1
          /\ \A i \in 1..Len(results) : results'[i] = results[i]
          /\ results'[Len(results) + 1] = cur[w]
      BY <1>0, <2>1, <2>2, AppendElements
    <2>4. /\ \A i \in 1..Len(results') : i \in 1..Len(results) \/ i = Len(results) + 1
          /\ \A i \in 1..Len(results) : i \in 1..Len(results')
          /\ Len(results) + 1 \in 1..Len(results')
      BY <2>3
    <2>5. InSystem(u) => InSystem(u)' BY <2>1, <2>3, <2>4 DEF InSystem
    <2>6. InSystem(u)' => InSystem(u) BY <2>1, <2>3, <2>4 DEF InSystem
    <2>7. QED BY <2>5, <2>6
  <1>4. CASE NextInChain(w)
    <2> DEFINE k == cur[w].key
    <2>1. k \in Keys /\ queue[k] # <<>>
      BY <1>4 DEF NextInChain, SchedInv, SchedTypeOK, Job
    <2>2. /\ Head(queue[k]) = queue[k][1] /\ Len(queue[k]) \in Nat \ {0}
          /\ Len(Tail(queue[k])) = Len(queue[k]) - 1
          /\ \A i \in 1..Len(Tail(queue[k])) :
               i + 1 \in 1..Len(queue[k]) /\ Tail(queue[k])[i] = queue[k][i + 1]
      BY <1>0, <2>1, TailElements
    <2>3. /\ queue'[k] = Tail(queue[k]) /\ \A h \in Keys \ {k} : queue'[h] = queue[h]
          /\ pc[w] = "settling" /\ pc'[w] = "running" /\ cur'[w].unit = queue[k][1]
          /\ \A v \in Workers \ {w} : cur'[v] = cur[v] /\ pc'[v] = pc[v]
          /\ UNCHANGED <<feeder, results>> /\ 1 \in 1..Len(queue[k])
      BY <1>0, <1>4, <2>1, <2>2 DEF NextInChain
    <2> HIDE DEF k
    <2>4. \A i \in 1..Len(queue'[k]) : i + 1 \in 1..Len(queue[k]) /\ queue'[k][i] = queue[k][i + 1]
      <3> SUFFICES ASSUME NEW i \in 1..Len(queue'[k])
                   PROVE  i + 1 \in 1..Len(queue[k]) /\ queue'[k][i] = queue[k][i + 1]
        OBVIOUS
      <3>1. i \in 1..Len(Tail(queue[k])) /\ queue'[k][i] = Tail(queue[k])[i]
        BY <2>3, Zenon
      <3>2. QED BY <2>2, <3>1, Zenon
    <2>5. \A i \in 1..Len(queue[k]) : i = 1 \/ (i - 1 \in 1..Len(queue'[k]) /\ queue'[k][i - 1] = queue[k][i])
      <3> SUFFICES ASSUME NEW i \in 1..Len(queue[k]), i # 1
                   PROVE  i - 1 \in 1..Len(queue'[k]) /\ queue'[k][i - 1] = queue[k][i]
        OBVIOUS
      <3>1. i - 1 \in 1..Len(Tail(queue[k])) /\ (i - 1) + 1 = i BY <2>2
      <3>2. Tail(queue[k])[i - 1] = queue[k][i] BY <2>2, <3>1
      <3>3. QED BY <2>3, <3>1, <3>2
    <2>6. InSystem(u) => InSystem(u)'
      <3>1. ASSUME NEW h \in Keys, NEW i \in 1..Len(queue[h]), queue[h][i] = u PROVE InSystem(u)'
        <4>1. CASE h = k /\ i = 1 BY <2>3, <3>1, <4>1 DEF InSystem
        <4>2. CASE h = k /\ i # 1 BY <2>1, <2>5, <3>1, <4>2 DEF InSystem
        <4>3. CASE h # k BY <2>3, <3>1, <4>3 DEF InSystem
        <4>4. QED BY <4>1, <4>2, <4>3
      <3>2. ASSUME NEW v \in Workers, pc[v] \in {"running", "sending", "dead"}, cur[v].unit = u
            PROVE  InSystem(u)'
        BY <2>3, <3>2 DEF InSystem
      <3>3. QED BY <2>3, <3>1, <3>2 DEF InSystem
    <2>7. InSystem(u)' => InSystem(u)
      <3>1. ASSUME NEW h \in Keys, NEW i \in 1..Len(queue'[h]), queue'[h][i] = u PROVE InSystem(u)
        <4>1. CASE h = k BY <2>1, <2>4, <3>1, <4>1 DEF InSystem
        <4>2. CASE h # k BY <2>3, <3>1, <4>2 DEF InSystem
        <4>3. QED BY <4>1, <4>2
      <3>2. ASSUME NEW v \in Workers, pc'[v] \in {"running", "sending", "dead"}, cur'[v].unit = u
            PROVE  InSystem(u)
        BY <2>1, <2>3, <3>2 DEF InSystem
      <3>3. QED BY <2>3, <3>1, <3>2 DEF InSystem
    <2>8. QED BY <2>6, <2>7
  <1>5. CASE EndChain(w)
    <2>1. /\ \A v \in Workers : pc'[v] \in {"running", "sending", "dead"} <=>
                                pc[v] \in {"running", "sending", "dead"}
          /\ \A v \in Workers : pc[v] \in {"running", "sending", "dead"} => cur'[v] = cur[v]
          /\ UNCHANGED <<feeder, queue, results>>
      BY <1>0, <1>5 DEF EndChain
    <2>2. QED BY <2>1 DEF InSystem
  <1>6. QED BY <1>1, <1>2, <1>3, <1>4, <1>5 DEF Drives

(* A collected unit was in the result channel only, and there once. *)
LEMMA CollectRemovesUnit ==
  ASSUME SchedInv, DeadOwners, Collect
  PROVE  /\ InSystem(results[1].unit)
         /\ \A u : InSystem(u)' <=> InSystem(u) /\ u # results[1].unit
  <1>0. /\ results \in Seq(Job) /\ queue \in [Keys -> Seq(Nat)] /\ lastRun \in [Keys -> Nat]
    BY DEF SchedInv, SchedTypeOK, Unit
  <1>1. /\ Head(results) = results[1] /\ Len(results) \in Nat \ {0}
        /\ Len(results') = Len(results) - 1 /\ 1 \in 1..Len(results)
        /\ \A i \in 1..Len(results') : i + 1 \in 1..Len(results) /\ results'[i] = results[i + 1]
    BY <1>0, TailElements DEF Collect
  <1>2. UNCHANGED <<feeder, queue, pc, cur>> BY DEF Collect
  <1> DEFINE x == results[1].unit
             h == results[1].key
  <1>3. x \in Nat /\ h \in Keys BY <1>1, JobFields DEF SchedInv
  <1>4. Carries(h, x) BY <1>1 DEF Carries
  <1>5. x <= lastRun[h] /\ lastRun[h] \in Nat
    BY <1>0, <1>1, <1>3 DEF SchedInv, ResultInv, ChannelOrder
  <1> HIDE DEF x, h
  <1>6. ASSUME NEW i \in 1..Len(feeder), feeder[i].unit = x PROVE FALSE
    <2>1. feeder[i].key \in Keys BY JobFields DEF SchedInv
    <2>2. Carries(feeder[i].key, x) BY <1>6 DEF Carries
    <2>3. feeder[i].key = h BY <1>3, <1>4, <2>1, <2>2 DEF SchedInv, UnitsKnown
    <2>4. lastRun[h] < x BY <1>6, <2>3 DEF SchedInv, OrderInv, FeederOrder
    <2>5. QED BY <1>3, <1>5, <2>4
  <1>7. ASSUME NEW k \in Keys, NEW i \in 1..Len(queue[k]), queue[k][i] = x PROVE FALSE
    <2>1. Carries(k, x) BY <1>7 DEF Carries
    <2>2. k = h BY <1>3, <1>4, <2>1 DEF SchedInv, UnitsKnown
    <2>3. lastRun[h] < x BY <1>7, <2>2 DEF SchedInv, OrderInv, QueueOrder
    <2>4. QED BY <1>3, <1>5, <2>3
  <1>8. ASSUME NEW w \in Workers, pc[w] \in {"running", "sending", "dead"}, cur[w].unit = x PROVE FALSE
    <2>1. cur[w].key \in Keys BY <1>8 DEF SchedInv, SchedTypeOK, Job
    <2>2. Carries(cur[w].key, x) BY <1>8 DEF Carries
    <2>3. cur[w].key = h BY <1>3, <1>4, <2>1, <2>2 DEF SchedInv, UnitsKnown
    <2>4. OwnerOrder(w) BY <1>8 DEF SchedInv, ResultInv, DeadOwners
    <2>5. x < x BY <1>1, <1>8, <2>3, <2>4 DEF OwnerOrder, x, h
    <2>6. QED BY <1>3, <2>5
  <1>9. ASSUME NEW i \in 1..Len(results), results[i].unit = x PROVE i = 1
    <2>1. results[i].key \in Keys BY JobFields DEF SchedInv
    <2>2. Carries(results[i].key, x) BY <1>9 DEF Carries
    <2>3. results[i].key = h BY <1>3, <1>4, <2>1, <2>2 DEF SchedInv, UnitsKnown
    <2>4. 1 < i => x < x
      BY <1>1, <1>9, <2>3 DEF SchedInv, ResultInv, ChannelOrder, x, h
    <2>5. QED BY <1>1, <1>3, <2>4
  <1>10. \A i \in 1..Len(results) : i = 1 \/ (i - 1 \in 1..Len(results') /\ results'[i - 1] = results[i])
    <2> SUFFICES ASSUME NEW i \in 1..Len(results), i # 1
                 PROVE  i - 1 \in 1..Len(results') /\ results'[i - 1] = results[i]
      OBVIOUS
    <2>1. i - 1 \in 1..Len(results') /\ (i - 1) + 1 = i BY <1>1
    <2>2. QED BY <1>1, <2>1
  <1>11. ASSUME NEW u, InSystem(u), u # x PROVE InSystem(u)'
    BY <1>2, <1>10, <1>11 DEF InSystem, x
  <1>12. ASSUME NEW u, InSystem(u)' PROVE InSystem(u) /\ u # x
    <2>1. ASSUME NEW i \in 1..Len(results'), results'[i].unit = u PROVE InSystem(u) /\ u # x
      <3>1. i + 1 \in 1..Len(results) /\ results[i + 1].unit = u /\ i + 1 # 1
        BY <1>1, <2>1
      <3>2. QED BY <1>9, <3>1 DEF InSystem
    <2>2. QED BY <1>2, <1>6, <1>7, <1>8, <1>12, <2>1 DEF InSystem
  <1>13. InSystem(x) BY <1>1 DEF InSystem, x
  <1>14. QED BY <1>11, <1>12, <1>13 DEF x

(* The oldest unit of a queue is in the system there and nowhere else. *)
LEMMA QueueHeadOnce ==
  ASSUME SchedInv, DeadOwners, NEW k \in Keys, 1 \in 1..Len(queue[k])
  PROVE  /\ \A i \in 1..Len(feeder) : feeder[i].unit # queue[k][1]
         /\ \A h \in Keys : \A i \in 1..Len(queue[h]) : queue[h][i] = queue[k][1] => h = k /\ i = 1
         /\ \A w \in Workers : pc[w] \in {"running", "sending", "dead"} => cur[w].unit # queue[k][1]
         /\ \A i \in 1..Len(results) : results[i].unit # queue[k][1]
  <1> DEFINE x == queue[k][1]
  <1>0. /\ x \in Nat /\ lastRun \in [Keys -> Nat] BY DEF SchedInv, SchedTypeOK, Unit
  <1>1. Carries(k, x) BY DEF Carries
  <1>2. lastRun[k] < x BY DEF SchedInv, OrderInv, QueueOrder
  <1>3. /\ \A i \in 1..Len(feeder) : feeder[i].unit # x
        /\ \A h \in Keys : \A i \in 1..Len(queue[h]) : queue[h][i] = x => h = k /\ i = 1
        /\ \A w \in Workers : Busy(w) => cur[w].unit # x
    BY EvictedIsNowhereElse DEF SchedInv
  <1> HIDE DEF x
  <1>4. ASSUME NEW w \in Workers, pc[w] = "dead", cur[w].unit = x PROVE FALSE
    <2>1. cur[w].key \in Keys BY <1>4 DEF SchedInv, SchedTypeOK, Job
    <2>2. Carries(cur[w].key, x) BY <1>4 DEF Carries
    <2>3. cur[w].key = k BY <1>0, <1>1, <2>1, <2>2 DEF SchedInv, UnitsKnown
    <2>4. x = lastRun[k] BY <1>4, <2>3 DEF DeadOwners, OwnerOrder
    <2>5. QED BY <1>0, <1>2, <2>4
  <1>5. ASSUME NEW i \in 1..Len(results), results[i].unit = x PROVE FALSE
    <2>1. results[i].key \in Keys BY JobFields DEF SchedInv
    <2>2. Carries(results[i].key, x) BY <1>5 DEF Carries
    <2>3. results[i].key = k BY <1>0, <1>1, <2>1, <2>2 DEF SchedInv, UnitsKnown
    <2>4. x <= lastRun[k] BY <1>5, <2>3 DEF SchedInv, ResultInv, ChannelOrder
    <2>5. QED BY <1>0, <1>2, <2>4
  <1>6. QED BY <1>3, <1>4, <1>5 DEF Busy, x

(* What add_work does to the units in the system, answer by answer. *)
LEMMA AddWorkUnits ==
  ASSUME SchedInv, DeadOwners, NEW k \in Keys, AddWork(k)
  PROVE  /\ last'.kind = "Queued" => \A u : InSystem(u)' <=> InSystem(u) \/ u = submitted + 1
         /\ last'.kind = "Dropped" =>
              /\ InSystem(last'.unit)
              /\ \A u : InSystem(u)' <=> (InSystem(u) /\ u # last'.unit) \/ u = submitted + 1
         /\ last'.kind = "ShuttingDown" => \A u : InSystem(u)' <=> InSystem(u)
  <1>0. /\ feeder \in Seq(Job) /\ queue \in [Keys -> Seq(Nat)] /\ submitted \in Nat
    BY DEF SchedInv, SchedTypeOK, Unit
  <1>1. CASE AddWorkClaim(k)
    <2> DEFINE e == [key |-> k, unit |-> submitted + 1]
    <2>1. e \in Job /\ e.unit = submitted + 1 BY <1>0 DEF Job, Unit
    <2> HIDE DEF e
    <2>2. /\ Len(feeder) \in Nat /\ Len(feeder') = Len(feeder) + 1
          /\ \A i \in 1..Len(feeder) : feeder'[i] = feeder[i]
          /\ feeder'[Len(feeder) + 1] = e
      BY <1>0, <1>1, <2>1, AppendElements DEF AddWorkClaim, e
    <2>3. /\ \A i \in 1..Len(feeder') : i \in 1..Len(feeder) \/ i = Len(feeder) + 1
          /\ \A i \in 1..Len(feeder) : i \in 1..Len(feeder')
          /\ Len(feeder) + 1 \in 1..Len(feeder')
      BY <2>2
    <2>4. UNCHANGED <<queue, pc, cur, results>> /\ last'.kind = "Queued"
      BY <1>1 DEF AddWorkClaim
    <2>5. ASSUME NEW u, InSystem(u)' PROVE InSystem(u) \/ u = submitted + 1
      BY <2>1, <2>2, <2>3, <2>4, <2>5 DEF InSystem
    <2>6. ASSUME NEW u, InSystem(u) \/ u = submitted + 1 PROVE InSystem(u)'
      BY <2>1, <2>2, <2>3, <2>4, <2>6 DEF InSystem
    <2>7. QED BY <2>4, <2>5, <2>6
  <1>2. CASE AddWorkQueue(k)
    <2>0. /\ UNCHANGED <<feeder, pc, cur, results>>
          /\ queue[k] \in Seq(Nat) /\ submitted + 1 \in Nat
      BY <1>0, <1>2 DEF AddWorkQueue
    <2>1. CASE KeyQueueCap > 0 /\ Len(queue[k]) >= KeyQueueCap
      <3>1. queue[k] # <<>> BY <2>0, <2>1, CapAssumption
      <3> DEFINE t == Tail(queue[k])
                 q == Append(t, submitted + 1)
      <3>2. /\ Head(queue[k]) = queue[k][1] /\ t \in Seq(Nat) /\ Len(queue[k]) \in Nat \ {0}
            /\ Len(t) = Len(queue[k]) - 1
            /\ \A i \in 1..Len(t) : i + 1 \in 1..Len(queue[k]) /\ t[i] = queue[k][i + 1]
        BY <2>0, <3>1, TailElements
      <3> HIDE DEF t
      <3>3. /\ Len(t) \in Nat /\ Len(q) = Len(t) + 1
            /\ \A i \in 1..Len(t) : q[i] = t[i]
            /\ q[Len(t) + 1] = submitted + 1
        BY <2>0, <3>2, AppendElements
      <3>4. /\ queue'[k] = q /\ \A h \in Keys \ {k} : queue'[h] = queue[h]
            /\ last'.kind = "Dropped" /\ last'.unit = queue[k][1] /\ 1 \in 1..Len(queue[k])
        BY <1>0, <1>2, <2>1, <3>2 DEF AddWorkQueue, t
      <3> HIDE DEF q
      <3>5. /\ \A i \in 1..Len(q) : i \in 1..Len(t) \/ i = Len(t) + 1
            /\ \A i \in 1..Len(t) : i \in 1..Len(q)
            /\ Len(t) + 1 \in 1..Len(q)
        BY <3>3
      <3>6. \A i \in 1..Len(queue[k]) : i = 1 \/ (i - 1 \in 1..Len(q) /\ q[i - 1] = queue[k][i])
        <4> SUFFICES ASSUME NEW i \in 1..Len(queue[k]), i # 1
                     PROVE  i - 1 \in 1..Len(q) /\ q[i - 1] = queue[k][i]
          OBVIOUS
        <4>1. i - 1 \in 1..Len(t) /\ (i - 1) + 1 = i BY <3>2
        <4>2. QED BY <3>2, <3>3, <3>5, <4>1
      <3>7. \A i \in 1..Len(q) : \/ i + 1 \in 1..Len(queue[k]) /\ i + 1 # 1 /\ q[i] = queue[k][i + 1]
                                 \/ q[i] = submitted + 1
        BY <3>2, <3>3, <3>5
      <3> DEFINE x == queue[k][1]
      <3>8. /\ \A i \in 1..Len(feeder) : feeder[i].unit # x
            /\ \A h \in Keys : \A i \in 1..Len(queue[h]) : queue[h][i] = x => h = k /\ i = 1
            /\ \A w \in Workers : pc[w] \in {"running", "sending", "dead"} => cur[w].unit # x
            /\ \A i \in 1..Len(results) : results[i].unit # x
            /\ x # submitted + 1 /\ InSystem(x)
        <4>1. x # submitted + 1 BY <1>0, <3>4, UnitsSubmitted
        <4>2. InSystem(x) BY <3>4 DEF InSystem
        <4>3. QED BY <3>4, <4>1, <4>2, QueueHeadOnce
      <3> HIDE DEF x
      <3>9. ASSUME NEW u, InSystem(u)' PROVE (InSystem(u) /\ u # x) \/ u = submitted + 1
        <4>1. ASSUME NEW h \in Keys, NEW i \in 1..Len(queue'[h]), queue'[h][i] = u
              PROVE  (InSystem(u) /\ u # x) \/ u = submitted + 1
          <5>1. CASE h = k BY <3>4, <3>7, <3>8, <4>1, <5>1 DEF InSystem
          <5>2. CASE h # k BY <3>4, <3>8, <4>1, <5>2 DEF InSystem
          <5>3. QED BY <5>1, <5>2
        <4>2. QED BY <2>0, <3>8, <3>9, <4>1 DEF InSystem
      <3>10. ASSUME NEW u, InSystem(u), u # x PROVE InSystem(u)'
        <4>1. ASSUME NEW h \in Keys, NEW i \in 1..Len(queue[h]), queue[h][i] = u PROVE InSystem(u)'
          <5>1. CASE h = k
            <6>1. i - 1 \in 1..Len(q) /\ q[i - 1] = u BY <3>6, <3>10, <4>1, <5>1 DEF x
            <6>2. QED BY <3>4, <6>1 DEF InSystem
          <5>2. CASE h # k BY <3>4, <4>1, <5>2 DEF InSystem
          <5>3. QED BY <5>1, <5>2
        <4>2. QED BY <2>0, <3>10, <4>1 DEF InSystem
      <3>11. ASSUME NEW u, u = submitted + 1 PROVE InSystem(u)'
        BY <3>3, <3>4, <3>5, <3>11 DEF InSystem
      <3>12. QED BY <3>4, <3>8, <3>9, <3>10, <3>11 DEF x
    <2>2. CASE ~(KeyQueueCap > 0 /\ Len(queue[k]) >= KeyQueueCap)
      <3> DEFINE q == Append(queue[k], submitted + 1)
      <3>1. /\ Len(queue[k]) \in Nat /\ Len(q) = Len(queue[k]) + 1
            /\ \A i \in 1..Len(queue[k]) : q[i] = queue[k][i]
            /\ q[Len(queue[k]) + 1] = submitted + 1
        BY <2>0, AppendElements
      <3>2. /\ queue'[k] = q /\ \A h \in Keys \ {k} : queue'[h] = queue[h]
            /\ last'.kind = "Queued"
        BY <1>0, <1>2, <2>2 DEF AddWorkQueue
      <3> HIDE DEF q
      <3>3. /\ \A i \in 1..Len(q) : i \in 1..Len(queue[k]) \/ i = Len(queue[k]) + 1
            /\ \A i \in 1..Len(queue[k]) : i \in 1..Len(q)
            /\ Len(queue[k]) + 1 \in 1..Len(q)
        BY <3>1
      <3>4. ASSUME NEW u, InSystem(u)' PROVE InSystem(u) \/ u = submitted + 1
        <4>1. ASSUME NEW h \in Keys, NEW i \in 1..Len(queue'[h]), queue'[h][i] = u
              PROVE  InSystem(u) \/ u = submitted + 1
          <5>1. CASE h = k BY <3>1, <3>2, <3>3, <4>1, <5>1 DEF InSystem
          <5>2. CASE h # k BY <3>2, <4>1, <5>2 DEF InSystem
          <5>3. QED BY <5>1, <5>2
        <4>2. QED BY <2>0, <3>4, <4>1 DEF InSystem
      <3>5. ASSUME NEW u, InSystem(u) PROVE InSystem(u)'
        <4>1. ASSUME NEW h \in Keys, NEW i \in 1..Len(queue[h]), queue[h][i] = u PROVE InSystem(u)'
          <5>1. CASE h = k BY <3>1, <3>2, <3>3, <4>1, <5>1 DEF InSystem
          <5>2. CASE h # k BY <3>2, <4>1, <5>2 DEF InSystem
          <5>3. QED BY <5>1, <5>2
        <4>2. QED BY <2>0, <3>5, <4>1 DEF InSystem
      <3>6. ASSUME NEW u, u = submitted + 1 PROVE InSystem(u)'
        BY <3>1, <3>2, <3>3, <3>6 DEF InSystem
      <3>7. QED BY <3>2, <3>4, <3>5, <3>6
    <2>3. QED BY <2>1, <2>2
  <1>3. CASE AddWorkRefused
    <2>1. UNCHANGED <<feeder, queue, pc, cur, results>> /\ last'.kind = "ShuttingDown"
      BY <1>3 DEF AddWorkRefused
    <2>2. QED BY <2>1 DEF InSystem
  <1>4. QED BY <1>1, <1>2, <1>3 DEF AddWork

-----------------------------------------------------------------------------
(* The units in the system that carry seq s, and the frame the dispatcher   *)
(* holds.                                                                  *)
Holding(s) == {u \in UnitsInSystem : seqOf[u] = s}
Reserving(s) == dpc \in {"reserved", "overflow"} /\ dseq = s

LEMMA HoldingIs ==
  ASSUME SchedInv
  PROVE  /\ \A s : IsFiniteSet(Holding(s)) /\ Cardinality(Holding(s)) \in Nat
         /\ \A s, u : u \in Holding(s) <=> InSystem(u) /\ seqOf[u] = s
         /\ \A s, u : u \in Holding(s)' <=> InSystem(u)' /\ seqOf'[u] = s
  <1>1. \A s, u : u \in Holding(s) <=> InSystem(u) /\ seqOf[u] = s
    BY UnitsInSystemAre DEF Holding
  <1>2. \A s, u : u \in Holding(s)' <=> InSystem(u)' /\ seqOf'[u] = s
    BY UnitsInSystemAre DEF Holding
  <1>3. submitted \in Nat /\ IsFiniteSet(1..submitted)
    BY FS_Interval DEF SchedInv, SchedTypeOK
  <1>4. ASSUME NEW s PROVE IsFiniteSet(Holding(s)) /\ Cardinality(Holding(s)) \in Nat
    <2>1. Holding(s) \in SUBSET (1..submitted) BY <1>1, InSystemSubmitted
    <2>2. IsFiniteSet(Holding(s)) BY <1>3, <2>1, FS_Subset
    <2>3. QED BY <2>2, FS_CardinalityType
  <1>5. QED BY <1>1, <1>2, <1>4

LEMMA InflightMatchesIs ==
  /\ InflightMatches <=>
       \A s \in Seqs : inflight[s] = Cardinality(Holding(s)) + (IF Reserving(s) THEN 1 ELSE 0)
  /\ InflightMatches' <=>
       \A s \in Seqs : inflight'[s] = Cardinality(Holding(s)') + (IF Reserving(s)' THEN 1 ELSE 0)
  BY DEF InflightMatches, Holding, Reserving

(* A submitted frame moves from the dispatcher's hand into the system; an   *)
(* evicted one moves the other way; a refused one is released.             *)
LEMMA SubmitInflight ==
  ASSUME SchedInv, StreamTypeOK, DeadOwners, InflightMatches, Submit
  PROVE  InflightMatches'
  <1>0. /\ dseq \in Seqs /\ KeyOf[dseq] \in Keys /\ AddWork(KeyOf[dseq])
        /\ submitted \in Nat /\ inflight \in [Seqs -> Nat]
        /\ seqOf \in Seq(Seqs) /\ Len(seqOf) = submitted /\ dpc = "reserved"
    BY StreamAssumption DEF Submit, StreamTypeOK, SchedInv, SchedTypeOK
  <1>1. /\ \A s : IsFiniteSet(Holding(s)) /\ Cardinality(Holding(s)) \in Nat
        /\ \A s, u : u \in Holding(s) <=> InSystem(u) /\ seqOf[u] = s
        /\ \A s, u : u \in Holding(s)' <=> InSystem(u)' /\ seqOf'[u] = s
    BY HoldingIs
  <1>2. \A s \in Seqs : inflight[s] = Cardinality(Holding(s)) + (IF s = dseq THEN 1 ELSE 0)
    BY <1>0, InflightMatchesIs DEF Reserving
  <1>3. /\ last'.kind = "Queued" => \A u : InSystem(u)' <=> InSystem(u) \/ u = submitted + 1
        /\ last'.kind = "Dropped" =>
             /\ InSystem(last'.unit)
             /\ \A u : InSystem(u)' <=> (InSystem(u) /\ u # last'.unit) \/ u = submitted + 1
        /\ last'.kind = "ShuttingDown" => \A u : InSystem(u)' <=> InSystem(u)
    BY <1>0, AddWorkUnits
  <1>4. \A u : InSystem(u) => u \in 1..submitted BY InSystemSubmitted
  <1>5. seqOf' = Append(seqOf, dseq) =>
          /\ \A u \in 1..submitted : seqOf'[u] = seqOf[u]
          /\ seqOf'[submitted + 1] = dseq
    BY <1>0, AppendElements
  <1>6. ~InSystem(submitted + 1) BY <1>0, <1>4
  <1>7. CASE /\ last'.kind = "Queued" /\ seqOf' = Append(seqOf, dseq)
             /\ dpc' = "read" /\ UNCHANGED inflight
    <2>0. /\ \A u \in 1..submitted : seqOf'[u] = seqOf[u]
          /\ seqOf'[submitted + 1] = dseq
          /\ \A u : InSystem(u)' <=> InSystem(u) \/ u = submitted + 1
      BY <1>3, <1>5, <1>7
    <2>1. ASSUME NEW s \in Seqs
          PROVE  Cardinality(Holding(s)') = Cardinality(Holding(s)) + (IF s = dseq THEN 1 ELSE 0)
      <3>1. CASE s = dseq
        <4>1. Holding(s)' = Holding(s) \cup {submitted + 1}
          <5>1. \A u : u \in Holding(s)' <=> u \in Holding(s) \/ u = submitted + 1
            BY <1>1, <1>4, <2>0, <3>1
          <5>2. QED BY <5>1
        <4>2. submitted + 1 \notin Holding(s) BY <1>1, <1>6
        <4>3. QED BY <1>1, <3>1, <4>1, <4>2, FS_AddElement
      <3>2. CASE s # dseq
        <4>1. Holding(s)' = Holding(s)
          <5>1. \A u : u \in Holding(s)' <=> u \in Holding(s)
            BY <1>1, <1>4, <2>0, <3>2
          <5>2. QED BY <5>1
        <4>2. QED BY <1>1, <3>2, <4>1
      <3>3. QED BY <3>1, <3>2
    <2>2. \A s : ~Reserving(s)' BY <1>7 DEF Reserving
    <2>3. \A s \in Seqs : Cardinality(Holding(s)') \in Nat BY <1>1, <2>1
    <2>4. QED BY <1>2, <1>7, <2>1, <2>2, <2>3, InflightMatchesIs
  <1>8. CASE /\ last'.kind = "Dropped" /\ seqOf' = Append(seqOf, dseq)
             /\ dseq' = seqOf[last'.unit] /\ dpc' = "overflow" /\ UNCHANGED inflight
    <2> DEFINE x == last'.unit
    <2>1. /\ InSystem(x) /\ x \in 1..submitted
          /\ \A u : InSystem(u)' <=> (InSystem(u) /\ u # x) \/ u = submitted + 1
      BY <1>3, <1>4, <1>8
    <2>0. /\ \A u \in 1..submitted : seqOf'[u] = seqOf[u]
          /\ seqOf'[submitted + 1] = dseq
      BY <1>5, <1>8
    <2>2. dseq' = seqOf[x] BY <1>8
    <2> HIDE DEF x
    <2>3. ASSUME NEW s \in Seqs
          PROVE  Cardinality(Holding(s)') + (IF seqOf[x] = s THEN 1 ELSE 0)
                   = Cardinality(Holding(s)) + (IF s = dseq THEN 1 ELSE 0)
      <3> DEFINE R == Holding(s) \ {x}
      <3>1. /\ IsFiniteSet(R)
            /\ Cardinality(R) = IF seqOf[x] = s THEN Cardinality(Holding(s)) - 1
                                ELSE Cardinality(Holding(s))
        BY <1>1, <2>1, FS_RemoveElement
      <3>2. CASE s = dseq
        <4>1. Holding(s)' = R \cup {submitted + 1}
          <5>1. \A u : u \in Holding(s)' <=> (u \in Holding(s) /\ u # x) \/ u = submitted + 1
            BY <1>1, <1>4, <2>0, <2>1, <3>2
          <5>2. QED BY <5>1
        <4>2. submitted + 1 \notin R BY <1>1, <1>6
        <4>3. Cardinality(Holding(s)') = Cardinality(R) + 1
          BY <3>1, <4>1, <4>2, FS_AddElement
        <4>4. QED BY <1>1, <3>1, <3>2, <4>3
      <3>3. CASE s # dseq
        <4>1. Holding(s)' = R
          <5>1. \A u : u \in Holding(s)' <=> u \in Holding(s) /\ u # x
            BY <1>1, <1>4, <2>0, <2>1, <3>3
          <5>2. QED BY <5>1
        <4>2. QED BY <1>1, <3>1, <3>3, <4>1
      <3>4. QED BY <3>2, <3>3
    <2>4. \A s : Reserving(s)' <=> seqOf[x] = s BY <1>8, <2>2 DEF Reserving
    <2>5. QED BY <1>2, <1>8, <2>3, <2>4, InflightMatchesIs
  <1>9. CASE /\ last'.kind = "ShuttingDown" /\ dpc' = "exited" /\ seqOf' = seqOf
             /\ inflight' = InflightRemove(inflight, dseq)
    <2>1. \A s : Holding(s)' = Holding(s) BY <1>1, <1>3, <1>9
    <2>2. \A s : ~Reserving(s)' BY <1>9 DEF Reserving
    <2>3. inflight[dseq] > 0 BY <1>0, <1>1, <1>2
    <2>4. \A s \in Seqs : inflight'[s] = inflight[s] - (IF s = dseq THEN 1 ELSE 0)
      BY <1>0, <1>9, <2>3 DEF InflightRemove
    <2>5. \A s \in Seqs : inflight'[s] = Cardinality(Holding(s)') + 0
      BY <1>1, <1>2, <2>1, <2>4
    <2>6. QED BY <2>2, <2>5, InflightMatchesIs
  <1>10. QED BY <1>7, <1>8, <1>9 DEF Submit

(* The other steps that touch the count. *)
LEMMA ReadInflight ==
  ASSUME SchedInv, StreamTypeOK, InflightMatches, ReadFrame
  PROVE  InflightMatches'
  <1>0. inflight \in [Seqs -> Nat] /\ pos \in Nat BY DEF StreamTypeOK
  <1>1. \A s : Cardinality(Holding(s)) \in Nat BY HoldingIs
  <1>2. UNCHANGED <<schedVars, seqOf>> /\ pos + 1 \in Seqs /\ ~(dpc \in {"reserved", "overflow"})
    BY <1>0, StreamAssumption DEF ReadFrame, Seqs
  <1>3. \A s : Holding(s)' = Holding(s)
    BY <1>2 DEF Holding, UnitsInSystem, Waiting, Elems, schedVars
  <1>4. \A s : Reserving(s)' <=> s = pos + 1 BY DEF ReadFrame, Reserving
  <1>5. \A s \in Seqs : inflight'[s] = inflight[s] + (IF s = pos + 1 THEN 1 ELSE 0)
    BY <1>0, <1>2 DEF ReadFrame, InflightAdd
  <1>6. \A s \in Seqs : inflight[s] = Cardinality(Holding(s)) BY <1>1, <1>2, InflightMatchesIs DEF Reserving
  <1>7. QED BY <1>3, <1>4, <1>5, <1>6, InflightMatchesIs

LEMMA ReleaseInflight ==
  ASSUME SchedInv, StreamTypeOK, InflightMatches, ReleaseDropped
  PROVE  InflightMatches'
  <1>0. inflight \in [Seqs -> Nat] /\ dseq \in Seqs BY DEF StreamTypeOK, ReleaseDropped
  <1>1. \A s : Cardinality(Holding(s)) \in Nat BY HoldingIs
  <1>2. UNCHANGED <<schedVars, seqOf>> /\ dpc = "overflow" /\ dpc' = "report" BY DEF ReleaseDropped
  <1>3. \A s : Holding(s)' = Holding(s)
    BY <1>2 DEF Holding, UnitsInSystem, Waiting, Elems, schedVars
  <1>4. \A s : ~Reserving(s)' BY <1>2 DEF Reserving
  <1>5. \A s \in Seqs : inflight[s] = Cardinality(Holding(s)) + (IF s = dseq THEN 1 ELSE 0)
    BY <1>2, InflightMatchesIs DEF Reserving
  <1>6. inflight[dseq] > 0 BY <1>0, <1>1, <1>5
  <1>7. \A s \in Seqs : inflight'[s] = inflight[s] - (IF s = dseq THEN 1 ELSE 0)
    BY <1>0, <1>6 DEF ReleaseDropped, InflightRemove
  <1>8. \A s \in Seqs : inflight'[s] = Cardinality(Holding(s)') + 0
    BY <1>1, <1>3, <1>5, <1>7
  <1>9. QED BY <1>4, <1>8, InflightMatchesIs

LEMMA CollectInflight ==
  ASSUME SchedInv, StreamTypeOK, DeadOwners, InflightMatches, CollectResult
  PROVE  InflightMatches'
  <1> DEFINE x == results[1].unit
  <1>0. /\ inflight \in [Seqs -> Nat] /\ Collect /\ UNCHANGED <<seqOf, dpc, dseq>>
        /\ Head(results) = results[1] /\ inflight' = InflightRemove(inflight, seqOf[x])
    BY TailElements DEF StreamTypeOK, CollectResult, Collect, dispVars, SchedInv, SchedTypeOK
  <1>1. /\ \A s : IsFiniteSet(Holding(s)) /\ Cardinality(Holding(s)) \in Nat
        /\ \A s, u : u \in Holding(s) <=> InSystem(u) /\ seqOf[u] = s
        /\ \A s, u : u \in Holding(s)' <=> InSystem(u)' /\ seqOf'[u] = s
    BY HoldingIs
  <1>2. InSystem(x) /\ \A u : InSystem(u)' <=> InSystem(u) /\ u # x
    BY <1>0, CollectRemovesUnit
  <1>3. x \in 1..submitted /\ seqOf[x] \in Seqs
    BY <1>2, InSystemSubmitted DEF StreamTypeOK
  <1> HIDE DEF x
  <1>4. \A s : Holding(s)' = Holding(s) \ {x} BY <1>0, <1>1, <1>2
  <1>5. \A s : x \in Holding(s) <=> s = seqOf[x] BY <1>1, <1>2
  <1>6. \A s : Cardinality(Holding(s)') =
                 IF s = seqOf[x] THEN Cardinality(Holding(s)) - 1 ELSE Cardinality(Holding(s))
    BY <1>1, <1>4, <1>5, FS_RemoveElement
  <1>7. \A s \in Seqs : inflight[s] = Cardinality(Holding(s)) + (IF Reserving(s) THEN 1 ELSE 0)
    BY InflightMatchesIs
  <1>8. \A s : Reserving(s)' <=> Reserving(s) BY <1>0 DEF Reserving
  <1>9. inflight[seqOf[x]] > 0
    <2>1. Cardinality(Holding(seqOf[x])) # 0 BY <1>1, <1>5, FS_EmptySet
    <2>2. QED BY <1>1, <1>3, <1>7, <2>1
  <1>10. \A s \in Seqs : inflight'[s] = inflight[s] - (IF s = seqOf[x] THEN 1 ELSE 0)
    BY <1>0, <1>3, <1>9 DEF InflightRemove
  <1>11. \A s \in Seqs : inflight'[s] = Cardinality(Holding(s)') + (IF Reserving(s)' THEN 1 ELSE 0)
    BY <1>1, <1>6, <1>7, <1>8, <1>10
  <1>12. QED BY <1>11, InflightMatchesIs

LEMMA InflightStep ==
  ASSUME SchedInv, StreamTypeOK, SchedulerOpen, DeadOwners, InflightMatches, [StreamNext]_vars
  PROVE  InflightMatches'
  <1>1. CASE Submit BY <1>1, SubmitInflight
  <1>2. CASE ReadFrame BY <1>2, ReadInflight
  <1>3. CASE ReleaseDropped BY <1>3, ReleaseInflight
  <1>4. CASE CollectResult BY <1>4, CollectInflight
  <1>5. ASSUME NEW w \in Workers, Drives(w), UNCHANGED streamVars PROVE InflightMatches'
    <2>1. \A u : InSystem(u)' <=> InSystem(u) BY <1>5, DrivesKeepsUnits
    <2>2. UNCHANGED <<seqOf, inflight, dpc, dseq>> BY <1>5 DEF streamVars
    <2>3. \A s : Holding(s)' = Holding(s) BY <2>1, <2>2, HoldingIs
    <2>4. QED BY <2>2, <2>3, InflightMatchesIs DEF Reserving
  <1>6. CASE Resubscribe
    <2>1. /\ feeder' = <<>> /\ queue' = [k \in Keys |-> <<>>] /\ results' = <<>>
          /\ pc' = [w \in Workers |-> "idle"] /\ dpc' = "connect"
          /\ inflight' = [s \in Seqs |-> 0]
      BY <1>6 DEF Resubscribe, SchedReset
    <2>2. \A u : ~InSystem(u)' BY <2>1 DEF InSystem
    <2>3. \A s : Holding(s)' = {} BY <2>2, HoldingIs
    <2>4. \A s \in Seqs : inflight'[s] = 0 /\ Cardinality(Holding(s)') = 0 /\ ~Reserving(s)'
      BY <2>1, <2>3, FS_EmptySet DEF Reserving
    <2>5. QED BY <2>4, InflightMatchesIs
  <1>7. CASE \/ Connect \/ ConnectFails \/ ReadGarbage \/ Disconnect \/ Report
             \/ YieldPending \/ CollectCtrl \/ Tick \/ EndOfResults
             \/ AsyncError \/ CollectResync \/ Elapse \/ UNCHANGED vars
    <2>1. UNCHANGED <<schedVars, seqOf, inflight>>
      BY <1>7 DEF Connect, ConnectFails, ReadGarbage, Disconnect, Report, YieldPending,
         CollectCtrl, Tick, EndOfResults, AsyncError, CollectResync, Elapse, vars, streamVars
    <2>2. \A s : Reserving(s)' <=> Reserving(s)
      BY <1>7 DEF Connect, ConnectFails, ReadGarbage, Disconnect, Report, YieldPending,
         CollectCtrl, Tick, EndOfResults, AsyncError, CollectResync, Elapse, vars, streamVars,
         dispVars, Reserving, StreamTypeOK
    <2>3. \A s : Holding(s)' = Holding(s)
      BY <2>1 DEF Holding, UnitsInSystem, Waiting, Elems, schedVars
    <2>4. QED BY <2>1, <2>2, <2>3, InflightMatchesIs
  <1>8. QED
    <2>1. CASE \E w \in Workers : Worker(w) \/ WorkerPanics(w)
      BY <1>5, <2>1 DEF Worker, WorkerPanics, WorkerStep, Drives, SchedulerOpen, Exit, SendFails, Release
    <2>2. QED BY <1>1, <1>2, <1>3, <1>4, <1>6, <1>7, <2>1 DEF StreamNext, DispatcherStep, CollectorStep

(* Through overflow, reconnects, panics and resubscriptions a seq is in     *)
(* flight exactly as often as frames of it are reserved, waiting, being     *)
(* verified or unread: the watermark is neither held back by a reservation  *)
(* nobody releases nor moved past a frame that is still on its way.         *)
THEOREM StreamReservations == StreamSpec => []StreamInv
  <1> DEFINE I == SchedInv /\ StreamTypeOK /\ SchedulerOpen /\ DeadOwners /\ InflightMatches
  <1>1. StreamInit /\ SchedInv /\ StreamTypeOK => I
    <2> SUFFICES ASSUME StreamInit, SchedInv, StreamTypeOK
                 PROVE  SchedulerOpen /\ DeadOwners /\ InflightMatches
      OBVIOUS
    <2>1. /\ feeder = <<>> /\ queue = [k \in Keys |-> <<>>] /\ results = <<>>
          /\ pc = [w \in Workers |-> "idle"] /\ dpc = "connect" /\ life = "open" /\ rxOpen
          /\ inflight = [s \in Seqs |-> 0]
      BY DEF StreamInit, SchedInit
    <2>2. SchedulerOpen /\ DeadOwners BY <2>1 DEF SchedulerOpen, DeadOwners
    <2>3. \A u : ~InSystem(u) BY <2>1 DEF InSystem
    <2>4. \A s : Holding(s) = {} BY <2>3, HoldingIs
    <2>5. InflightMatches
      <3>1. \A s \in Seqs : inflight[s] = 0 /\ Cardinality(Holding(s)) = 0 /\ ~Reserving(s)
        BY <2>1, <2>4, FS_EmptySet DEF Reserving
      <3>2. QED BY <3>1, InflightMatchesIs
    <2>6. QED BY <2>2, <2>5
  <1>2. I /\ SchedInv' /\ StreamTypeOK' /\ [StreamNext]_vars => I'
    BY SchedulerOpenStep, DeadOwnersStep, InflightStep
  <1>3. I => StreamInv BY DEF StreamInv
  <1>4. QED BY <1>1, <1>2, <1>3, StreamInductive, PTL DEF StreamSpec

=============================================================================
