-------------------------- MODULE SchedulerProofs --------------------------
(***************************************************************************)
(* Proofs about the keyed FIFO scheduler: types, exclusive ownership of a  *)
(* key, submission order, and that no accepted unit is stranded or lost,   *)
(* for every set of keys and workers and every queue cap.                  *)
(***************************************************************************)
EXTENDS Scheduler, TLAPS

(* Dropping the head of a sequence shifts its elements by one position. *)
LEMMA TailElements ==
  ASSUME NEW S, NEW s \in Seq(S), s # <<>>
  PROVE  /\ Head(s) \in S /\ Head(s) = s[1]
         /\ Tail(s) \in Seq(S)
         /\ Len(s) \in Nat \ {0}
         /\ Len(Tail(s)) = Len(s) - 1
         /\ \A i \in 1..Len(Tail(s)) : i + 1 \in 1..Len(s) /\ Tail(s)[i] = s[i + 1]
  OBVIOUS

(* Appending keeps the old elements where they are. *)
LEMMA AppendElements ==
  ASSUME NEW S, NEW s \in Seq(S), NEW e \in S
  PROVE  /\ Append(s, e) \in Seq(S)
         /\ Len(s) \in Nat
         /\ Len(Append(s, e)) = Len(s) + 1
         /\ \A i \in 1..Len(s) : Append(s, e)[i] = s[i]
         /\ Append(s, e)[Len(s) + 1] = e
  OBVIOUS

(* The tail of an increasing queue is increasing and all above its head. *)
LEMMA IncreasingTail ==
  ASSUME NEW s \in Seq(Nat), s # <<>>, Increasing(s)
  PROVE  /\ Increasing(Tail(s))
         /\ \A i \in 1..Len(Tail(s)) : Tail(s)[i] > Head(s)
  <1>1. \A i \in 1..Len(Tail(s)) : i + 1 \in 1..Len(s) /\ Tail(s)[i] = s[i + 1]
    BY TailElements, SMT
  <1>2. Head(s) = s[1] /\ Len(s) \in Nat \ {0} /\ Len(Tail(s)) = Len(s) - 1
    BY TailElements, SMT
  <1>3. Increasing(Tail(s))
    BY <1>1, <1>2 DEF Increasing
  <1>4. \A i \in 1..Len(Tail(s)) : Tail(s)[i] > Head(s)
    BY <1>1, <1>2 DEF Increasing
  <1>5. QED BY <1>3, <1>4

(* Appending a unit above all the elements keeps a queue increasing. *)
LEMMA IncreasingAppend ==
  ASSUME NEW s \in Seq(Nat), NEW e \in Nat, Increasing(s),
         \A i \in 1..Len(s) : s[i] < e
  PROVE  Increasing(Append(s, e))
  <1>1. /\ Len(s) \in Nat
        /\ Len(Append(s, e)) = Len(s) + 1
        /\ \A i \in 1..Len(s) : Append(s, e)[i] = s[i]
        /\ Append(s, e)[Len(s) + 1] = e
    BY AppendElements, SMT
  <1>2. QED BY <1>1 DEF Increasing

-----------------------------------------------------------------------------
(* A step of the scheduler keeps its types. *)
LEMMA SchedTypeStep ==
  ASSUME SchedTypeOK, [SchedNext]_schedVars
  PROVE  SchedTypeOK'
  <1> USE DEF SchedTypeOK, Unit, Job, WorkerState, AddOutcome
  <1>1. ASSUME NEW k \in Keys, AddWorkClaim(k) PROVE SchedTypeOK'
    BY <1>1 DEF AddWorkClaim
  <1>2. ASSUME NEW k \in Keys, AddWorkQueue(k) PROVE SchedTypeOK'
    <2>1. /\ Append(queue[k], submitted + 1) \in Seq(Nat)
          /\ queue[k] # <<>> => Head(queue[k]) \in Nat
          /\ queue[k] # <<>> => Append(Tail(queue[k]), submitted + 1) \in Seq(Nat)
      OBVIOUS
    <2>2. KeyQueueCap > 0 /\ Len(queue[k]) >= KeyQueueCap => queue[k] # <<>>
      BY CapAssumption
    <2>3. queue' \in [Keys -> Seq(Nat)]
      BY <1>2, <2>1, <2>2 DEF AddWorkQueue
    <2>4. dropped' \subseteq Nat
      BY <1>2, <2>1, <2>2 DEF AddWorkQueue
    <2>6. last' \in AddOutcome
      <3>1. \A u \in Nat : [kind |-> "Dropped", unit |-> u] \in AddOutcome
        OBVIOUS
      <3>2. \A u \in Nat : [kind |-> "Queued", unit |-> u] \in AddOutcome
        OBVIOUS
      <3> HIDE DEF AddOutcome
      <3>3. QED BY <1>2, <2>1, <2>2, <3>1, <3>2 DEF AddWorkQueue
    <2> HIDE DEF AddOutcome
    <2>5. QED BY <1>2, <2>3, <2>4, <2>6 DEF AddWorkQueue
  <1>3. CASE AddWorkRefused BY <1>3 DEF AddWorkRefused
  <1>4. CASE Shutdown BY <1>4 DEF Shutdown
  <1>5. CASE Abort BY <1>5 DEF Abort
  <1>6. ASSUME NEW w \in Workers, Recv(w) PROVE SchedTypeOK'
    <2>1. Head(feeder) \in Job /\ Tail(feeder) \in Seq(Job)
      <3> HIDE DEF Job
      <3>1. QED BY <1>6, TailElements DEF Recv
    <2>2. Head(feeder).key \in Keys /\ Head(feeder).unit \in Nat
      BY <2>1
    <2>3. QED BY <1>6, <2>1, <2>2 DEF Recv
  <1>7. ASSUME NEW w \in Workers, Exit(w) PROVE SchedTypeOK'
    BY <1>7 DEF Exit
  <1>8. ASSUME NEW w \in Workers, RunDone(w) PROVE SchedTypeOK'
    BY <1>8 DEF RunDone
  <1>9. ASSUME NEW w \in Workers, SendResult(w) PROVE SchedTypeOK'
    <2>1. cur[w] \in Job
      BY <1>9 DEF SendResult
    <2>2. results' \in Seq(Job)
      <3> HIDE DEF Job
      <3>1. QED BY <1>9, <2>1, AppendElements DEF SendResult
    <2> HIDE DEF Job
    <2>3. QED BY <1>9, <2>2 DEF SendResult
  <1>10. ASSUME NEW w \in Workers, SendFails(w) PROVE SchedTypeOK'
    BY <1>10 DEF SendFails
  <1>11. ASSUME NEW w \in Workers, Release(w) PROVE SchedTypeOK'
    <2>1. /\ cur[w].key \in Keys /\ cur[w].unit \in Nat
          /\ queue[cur[w].key] \in Seq(Nat)
      BY <1>11 DEF Release
    <2>2. Elems(queue[cur[w].key]) \subseteq Nat
      BY <2>1 DEF Elems
    <2>3. queue' \in [Keys -> Seq(Nat)]
      BY <1>11, <2>1 DEF Release
    <2>4. QED BY <1>11, <2>1, <2>2, <2>3 DEF Release
  <1>12. ASSUME NEW w \in Workers, NextInChain(w) PROVE SchedTypeOK'
    <2> DEFINE k == cur[w].key
    <2>1. k \in Keys /\ queue[k] \in Seq(Nat) /\ queue[k] # <<>>
      BY <1>12 DEF NextInChain
    <2>2. Head(queue[k]) \in Nat /\ Tail(queue[k]) \in Seq(Nat)
      BY <2>1, TailElements
    <2>3. [key |-> k, unit |-> Head(queue[k])] \in Job
      BY <2>1, <2>2
    <2>4. QED BY <1>12, <2>1, <2>2, <2>3 DEF NextInChain
  <1>13. ASSUME NEW w \in Workers, EndChain(w) PROVE SchedTypeOK'
    BY <1>13 DEF EndChain
  <1>14. ASSUME NEW w \in Workers, Panic(w) PROVE SchedTypeOK'
    BY <1>14 DEF Panic
  <1>15. ASSUME NEW w \in Workers, Cancel(w) PROVE SchedTypeOK'
    BY <1>15 DEF Cancel
  <1>16. CASE Collect
    <2>1. Head(results) \in Job /\ Tail(results) \in Seq(Job)
      BY <1>16, TailElements DEF Collect
    <2>2. QED BY <1>16, <2>1 DEF Collect
  <1>17. CASE DropReceiver BY <1>17 DEF DropReceiver
  <1>18. CASE UNCHANGED schedVars BY <1>18 DEF schedVars
  <1>19. QED
    BY <1>1, <1>2, <1>3, <1>4, <1>5, <1>6, <1>7, <1>8, <1>9, <1>10, <1>11,
       <1>12, <1>13, <1>14, <1>15, <1>16, <1>17, <1>18
       DEF SchedNext, AddWork, WorkerStep

(* Type correctness of the scheduler. *)
THEOREM SchedTypeCorrect == SchedSpec => []SchedTypeOK
  <1>1. SchedInit => SchedTypeOK
    BY DEF SchedInit, SchedTypeOK, NoJob, WorkerState, AddOutcome, Unit, Job
  <1>2. SchedTypeOK /\ [SchedNext]_schedVars => SchedTypeOK'
    BY SchedTypeStep
  <1>3. QED BY <1>1, <1>2, PTL DEF SchedSpec

-----------------------------------------------------------------------------
(* The steps of SchedNext that leave ownership, order and results alone. *)
Quiet == Shutdown \/ Abort \/ AddWorkRefused \/ DropReceiver \/ UNCHANGED schedVars

(* A step that only moves one worker along, without a new key or unit. *)
Advances(w) == Exit(w) \/ RunDone(w) \/ SendFails(w) \/ Panic(w) \/ Cancel(w)

(* The case split every invariance proof below uses. *)
LEMMA SchedCases ==
  ASSUME [SchedNext]_schedVars
  PROVE  \/ \E k \in Keys : AddWorkClaim(k) \/ AddWorkQueue(k)
         \/ Quiet
         \/ \E w \in Workers : Recv(w) \/ SendResult(w) \/ Release(w)
                               \/ NextInChain(w) \/ EndChain(w) \/ Advances(w)
         \/ Collect
  BY DEF SchedNext, AddWork, WorkerStep, Quiet, Advances

(* A step of the scheduler keeps one owner per key. *)
LEMMA SchedOwnershipStep ==
  ASSUME SchedTypeOK, OwnershipInv, [SchedNext]_schedVars
  PROVE  OwnershipInv'
  <1>0. /\ feeder \in Seq(Job) /\ pc \in [Workers -> WorkerState]
        /\ cur \in [Workers -> Job \cup {NoJob}]
    BY DEF SchedTypeOK
  <1> USE DEF OwnershipInv, SingleOwner, Busy
  <1>1. ASSUME NEW k \in Keys, AddWorkClaim(k) PROVE OwnershipInv'
    <2> DEFINE e == [key |-> k, unit |-> submitted + 1]
    <2>1. e \in Job /\ e.key = k
      BY DEF Job, Unit, SchedTypeOK
    <2> HIDE DEF e
    <2>2. /\ Len(feeder) \in Nat /\ Len(feeder') = Len(feeder) + 1
          /\ \A i \in 1..Len(feeder) : feeder'[i] = feeder[i]
          /\ feeder'[Len(feeder) + 1] = e
      BY <1>0, <1>1, <2>1, AppendElements DEF AddWorkClaim, e
    <2>3. active' = active \cup {k} /\ k \notin active /\ UNCHANGED <<pc, cur>>
      BY <1>1 DEF AddWorkClaim
    <2>4. QED BY <2>1, <2>2, <2>3
  <1>2. ASSUME NEW k \in Keys, AddWorkQueue(k) PROVE OwnershipInv'
    BY <1>2 DEF AddWorkQueue
  <1>3. CASE Quiet
    BY <1>3 DEF Quiet, Shutdown, Abort, AddWorkRefused, DropReceiver, schedVars
  <1>4. ASSUME NEW w \in Workers, Recv(w) PROVE OwnershipInv'
    <2>1. /\ Head(feeder) = feeder[1] /\ Len(feeder) \in Nat \ {0}
          /\ Len(feeder') = Len(feeder) - 1
          /\ \A i \in 1..Len(feeder') : i + 1 \in 1..Len(feeder) /\ feeder'[i] = feeder[i + 1]
      BY <1>0, <1>4, TailElements DEF Recv
    <2>2. /\ cur' = [cur EXCEPT ![w] = feeder[1]]
          /\ pc' = [pc EXCEPT ![w] = "running"]
          /\ active' = active
      BY <1>4, <2>1 DEF Recv
    <2>3. \A v \in Workers : Busy(v) => cur[v].key # feeder[1].key
      BY <2>1
    <2>4. \A i \in 1..Len(feeder') : feeder'[i].key # feeder[1].key
      BY <2>1
    <2>5. /\ cur'[w] = feeder[1] /\ \A v \in Workers \ {w} : cur'[v] = cur[v]
          /\ pc'[w] = "running" /\ \A v \in Workers \ {w} : pc'[v] = pc[v]
      BY <1>0, <2>2
    <2>6. SingleOwner'
      <3>1. \A v \in Workers : Busy(v)' => v = w \/ (Busy(v) /\ cur'[v] = cur[v])
        BY <2>5
      <3>2. \A u, v \in Workers :
              Busy(u)' /\ Busy(v)' /\ cur'[u].key = cur'[v].key => u = v
        BY <2>3, <2>5, <3>1
      <3>3. \A v \in Workers : \A i \in 1..Len(feeder') :
              Busy(v)' => cur'[v].key # feeder'[i].key
        BY <2>1, <2>4, <2>5, <3>1
      <3>4. QED BY <3>2, <3>3
    <2>7. \A v \in Workers : Busy(v)' => cur'[v].key \in active'
      BY <2>1, <2>2, <2>5
    <2>8. \A i \in 1..Len(feeder') : feeder'[i].key \in active'
      BY <2>1, <2>2
    <2>9. ASSUME NEW i \in 1..Len(feeder'), NEW j \in 1..Len(feeder'),
                 feeder'[i].key = feeder'[j].key
          PROVE  i = j
      <3>1. /\ i + 1 \in 1..Len(feeder) /\ j + 1 \in 1..Len(feeder)
            /\ feeder[i + 1].key = feeder[j + 1].key
        BY <2>1, <2>9
      <3>2. i + 1 = j + 1 BY <3>1
      <3>3. QED BY <2>1, <3>2
    <2> HIDE DEF SingleOwner
    <2>10. QED BY <2>6, <2>7, <2>8, <2>9
  <1>5. ASSUME NEW w \in Workers, SendResult(w) PROVE OwnershipInv'
    BY <1>0, <1>5 DEF SendResult
  <1>6. ASSUME NEW w \in Workers, Release(w) PROVE OwnershipInv'
    BY <1>0, <1>6 DEF Release
  <1>7. ASSUME NEW w \in Workers, NextInChain(w) PROVE OwnershipInv'
    BY <1>0, <1>7 DEF NextInChain
  <1>8. ASSUME NEW w \in Workers, EndChain(w) PROVE OwnershipInv'
    BY <1>0, <1>8 DEF EndChain
  <1>9. ASSUME NEW w \in Workers, Advances(w) PROVE OwnershipInv'
    BY <1>0, <1>9 DEF Advances, Exit, RunDone, SendFails, Panic, Cancel
  <1>10. CASE Collect BY <1>10 DEF Collect
  <1>11. QED
    BY <1>1, <1>2, <1>3, <1>4, <1>5, <1>6, <1>7, <1>8, <1>9, <1>10, SchedCases

(* Ownership: a key has one owner at a time, so units that share a key      *)
(* never run concurrently.                                                 *)
THEOREM SchedOwnership == SchedSpec => []OwnershipInv
  <1>1. SchedInit => OwnershipInv
    BY DEF SchedInit, OwnershipInv, SingleOwner, Busy
  <1>2. SchedTypeOK /\ OwnershipInv /\ [SchedNext]_schedVars => OwnershipInv'
    BY SchedOwnershipStep
  <1>3. QED BY <1>1, <1>2, SchedTypeCorrect, PTL DEF SchedSpec

(* At most one worker drives a key, and never while its head is in the feeder. *)
THEOREM SchedSingleOwner == SchedSpec => []SingleOwner
  <1>1. OwnershipInv => SingleOwner BY DEF OwnershipInv
  <1>2. QED BY <1>1, SchedOwnership, PTL

-----------------------------------------------------------------------------
(* What waits in the feeder and in the result channel are jobs. *)
LEMMA JobFields ==
  ASSUME SchedTypeOK
  PROVE  /\ \A i \in 1..Len(feeder) : feeder[i].key \in Keys /\ feeder[i].unit \in Nat
         /\ \A i \in 1..Len(results) : results[i].key \in Keys /\ results[i].unit \in Nat
  <1>1. /\ \A i \in 1..Len(feeder) : feeder[i] \in Job
        /\ \A i \in 1..Len(results) : results[i] \in Job
    BY DEF SchedTypeOK
  <1>2. \A j \in Job : j.key \in Keys /\ j.unit \in Nat
    BY DEF Job, Unit
  <1>3. QED BY <1>1, <1>2

(* A step of the scheduler keeps what waits for a key in order. *)
LEMMA SchedOrderStep ==
  ASSUME SchedTypeOK, OwnershipInv, OrderInv, [SchedNext]_schedVars
  PROVE  OrderInv'
  <1>0. /\ feeder \in Seq(Job) /\ pc \in [Workers -> WorkerState]
        /\ cur \in [Workers -> Job \cup {NoJob}]
        /\ queue \in [Keys -> Seq(Nat)] /\ lastRun \in [Keys -> Nat]
        /\ submitted \in Nat /\ active \subseteq Keys
    BY DEF SchedTypeOK, Unit
  <1>00. \A i \in 1..Len(feeder) : feeder[i].key \in Keys /\ feeder[i].unit \in Nat
    BY JobFields
  <1>1. ASSUME NEW k \in Keys, AddWorkClaim(k) PROVE OrderInv'
    <2> DEFINE e == [key |-> k, unit |-> submitted + 1]
    <2>1. e \in Job /\ e.key = k /\ e.unit = submitted + 1
      BY <1>0, <1>00 DEF Job, Unit
    <2> HIDE DEF e
    <2>2. /\ Len(feeder) \in Nat /\ Len(feeder') = Len(feeder) + 1
          /\ \A i \in 1..Len(feeder) : feeder'[i] = feeder[i]
          /\ feeder'[Len(feeder) + 1] = e
      BY <1>0, <1>00, <1>1, <2>1, AppendElements DEF AddWorkClaim, e
    <2>3. /\ k \notin active /\ active' = active \cup {k} /\ submitted' = submitted + 1
          /\ UNCHANGED <<queue, lastRun>>
      BY <1>1 DEF AddWorkClaim
    <2>4. queue[k] = <<>> BY <2>3 DEF OrderInv, QueueOrder
    <2>5. \A h \in Keys : QueueOrder(h)'
      BY <1>0, <2>3 DEF OrderInv, QueueOrder, Increasing
    <2>6. ASSUME NEW i \in 1..Len(feeder') PROVE FeederOrder(i)'
      <3>1. CASE i \in 1..Len(feeder)
        <4>1. FeederOrder(i) /\ feeder'[i] = feeder[i] BY <2>2, <3>1 DEF OrderInv
        <4>2. feeder[i].unit <= submitted => feeder[i].unit <= submitted'
          BY <1>0, <1>00, <2>3, <3>1
        <4>3. QED BY <2>3, <4>1, <4>2 DEF FeederOrder
      <3>2. CASE i = Len(feeder) + 1
        BY <1>0, <2>1, <2>2, <2>3, <2>4, <3>2 DEF OrderInv, QueueOrder, FeederOrder
      <3>3. QED BY <2>2, <3>1, <3>2
    <2>7. QED BY <2>5, <2>6 DEF OrderInv
  <1>2. ASSUME NEW k \in Keys, AddWorkQueue(k) PROVE OrderInv'
    <2> DEFINE q == queue[k]
               base == IF KeyQueueCap > 0 /\ Len(q) >= KeyQueueCap THEN Tail(q) ELSE q
    <2>1. q \in Seq(Nat) /\ (KeyQueueCap > 0 /\ Len(q) >= KeyQueueCap => q # <<>>)
      BY <1>0, <1>00, CapAssumption
    <2>2. Increasing(q) /\ \A i \in 1..Len(q) : lastRun[k] < q[i] /\ q[i] <= submitted
      BY DEF OrderInv, QueueOrder
    <2>3. /\ base \in Seq(Nat) /\ Increasing(base)
          /\ \A i \in 1..Len(base) : \E j \in 1..Len(q) : base[i] = q[j]
      BY <2>1, <2>2, TailElements, IncreasingTail
    <2>4. /\ queue' = [queue EXCEPT ![k] = Append(base, submitted + 1)]
          /\ k \in active /\ submitted' = submitted + 1
          /\ UNCHANGED <<feeder, active, lastRun>>
      BY <1>2 DEF AddWorkQueue
    <2> HIDE DEF base, q
    <2>5. \A i \in 1..Len(base) : base[i] \in Nat /\ lastRun[k] < base[i] /\ base[i] < submitted + 1
      <3>1. \A i \in 1..Len(q) : q[i] \in Nat BY <2>1
      <3>2. \A n \in Nat : n <= submitted => n < submitted + 1 BY <1>0
      <3>3. QED BY <2>2, <2>3, <3>1, <3>2
    <2>6. Increasing(Append(base, submitted + 1))
      <3>1. submitted + 1 \in Nat BY <1>0
      <3>2. QED BY <2>3, <2>5, <3>1, IncreasingAppend
    <2>7. /\ Len(base) \in Nat
          /\ Len(Append(base, submitted + 1)) = Len(base) + 1
          /\ \A i \in 1..Len(base) : Append(base, submitted + 1)[i] = base[i]
          /\ Append(base, submitted + 1)[Len(base) + 1] = submitted + 1
      BY <1>0, <1>00, <2>3, AppendElements
    <2>8. queue'[k] = Append(base, submitted + 1) /\ \A h \in Keys \ {k} : queue'[h] = queue[h]
      BY <1>0, <1>00, <2>4
    <2>9. ASSUME NEW h \in Keys
          PROVE  QueueOrder(h)'
      <3>1. CASE h = k BY <1>0, <1>00, <2>4, <2>5, <2>6, <2>7, <2>8, <3>1 DEF OrderInv, QueueOrder
      <3>2. CASE h # k
        <4>1. queue'[h] = queue[h] BY <2>8, <3>2
        <4>2. queue[h] \in Seq(Nat) /\ lastRun[h] \in Nat BY <1>0
        <4>3. QED BY <1>0, <2>4, <4>1, <4>2 DEF OrderInv, QueueOrder
      <3>3. QED BY <3>1, <3>2
    <2>10. ASSUME NEW i \in 1..Len(feeder)
           PROVE  FeederOrder(i)'
      <3>1. CASE feeder[i].key = k
        <4>1. \A j \in 1..Len(base) : feeder[i].unit < base[j]
          BY <2>3, <3>1 DEF OrderInv, FeederOrder, q
        <4>2. QED BY <1>0, <1>00, <2>4, <2>7, <2>8, <3>1, <4>1 DEF OrderInv, FeederOrder
      <3>2. CASE feeder[i].key # k
        <4>1. queue'[feeder[i].key] = queue[feeder[i].key] BY <1>0, <1>00, <2>8, <3>2
        <4>2. feeder[i].unit <= submitted => feeder[i].unit <= submitted'
          BY <1>0, <1>00, <2>4
        <4>3. QED BY <2>4, <4>1, <4>2 DEF OrderInv, FeederOrder
      <3>3. QED BY <3>1, <3>2
    <2>11. QED BY <2>4, <2>9, <2>10 DEF OrderInv
  <1>3. CASE Quiet
    BY <1>3 DEF Quiet, Shutdown, Abort, AddWorkRefused, DropReceiver, schedVars, OrderInv,
       QueueOrder, FeederOrder
  <1>4. ASSUME NEW w \in Workers, Recv(w) PROVE OrderInv'
    <2>1. /\ Head(feeder) = feeder[1] /\ Len(feeder) \in Nat \ {0}
          /\ Len(feeder') = Len(feeder) - 1
          /\ \A i \in 1..Len(feeder') : i + 1 \in 1..Len(feeder) /\ feeder'[i] = feeder[i + 1]
      BY <1>0, <1>00, <1>4, TailElements DEF Recv
    <2> DEFINE k == feeder[1].key
    <2>2. lastRun' = [lastRun EXCEPT ![k] = feeder[1].unit] /\ UNCHANGED <<queue, submitted, active>>
      BY <1>4, <2>1 DEF Recv
    <2>3. k \in Keys /\ lastRun'[k] = feeder[1].unit /\ \A h \in Keys \ {k} : lastRun'[h] = lastRun[h]
      BY <1>0, <1>00, <2>1, <2>2
    <2>4. \A i \in 1..Len(feeder') : feeder'[i].key # k
      BY <2>1 DEF OwnershipInv
    <2>5. ASSUME NEW h \in Keys PROVE QueueOrder(h)'
      <3>1. CASE h = k
        <4>1. FeederOrder(1) /\ QueueOrder(k) BY <2>1, <2>3 DEF OrderInv
        <4>2. QED BY <2>2, <2>3, <3>1, <4>1 DEF FeederOrder, QueueOrder
      <3>2. CASE h # k
        BY <2>2, <2>3, <3>2 DEF OrderInv, QueueOrder
      <3>3. QED BY <3>1, <3>2
    <2>6. ASSUME NEW i \in 1..Len(feeder') PROVE FeederOrder(i)'
      <3>1. FeederOrder(i + 1) /\ feeder'[i] = feeder[i + 1] /\ feeder'[i].key \in Keys \ {k}
        BY <1>00, <2>1, <2>4 DEF OrderInv
      <3>2. QED BY <2>2, <2>3, <3>1 DEF FeederOrder
    <2>7. QED BY <2>5, <2>6 DEF OrderInv
  <1>5. ASSUME NEW w \in Workers, SendResult(w) PROVE OrderInv'
    BY <1>5 DEF SendResult, OrderInv, QueueOrder, FeederOrder
  <1>6. ASSUME NEW w \in Workers, Release(w) PROVE OrderInv'
    <2> DEFINE k == cur[w].key
    <2>1. /\ queue' = [queue EXCEPT ![k] = <<>>] /\ active' = active \ {k}
          /\ UNCHANGED <<feeder, submitted, lastRun>>
      BY <1>6 DEF Release
    <2>2. k \in Keys /\ queue'[k] = <<>> /\ \A h \in Keys \ {k} : queue'[h] = queue[h]
      BY <1>0, <1>00, <1>6, <2>1 DEF Release, SchedTypeOK, Job
    <2>3. QED BY <1>0, <1>00, <2>1, <2>2 DEF OrderInv, QueueOrder, FeederOrder, Increasing
  <1>7. ASSUME NEW w \in Workers, NextInChain(w) PROVE OrderInv'
    <2> DEFINE k == cur[w].key
    <2>1. /\ queue' = [queue EXCEPT ![k] = Tail(@)] /\ queue[k] # <<>>
          /\ lastRun' = [lastRun EXCEPT ![k] = Head(queue[k])]
          /\ UNCHANGED <<feeder, submitted, active>>
      BY <1>7 DEF NextInChain
    <2>2. k \in Keys /\ Busy(w)
      BY <1>7 DEF NextInChain, SchedTypeOK, Job, Busy
    <2>3. /\ queue'[k] = Tail(queue[k]) /\ lastRun'[k] = Head(queue[k])
          /\ \A h \in Keys \ {k} : queue'[h] = queue[h] /\ lastRun'[h] = lastRun[h]
      BY <1>0, <1>00, <2>1, <2>2
    <2>4. queue[k] \in Seq(Nat) /\ Increasing(queue[k])
      BY <1>0, <2>2 DEF OrderInv, QueueOrder
    <2>5. /\ Head(queue[k]) = queue[k][1] /\ Head(queue[k]) \in Nat
          /\ Len(queue[k]) \in Nat \ {0} /\ Len(queue'[k]) = Len(queue[k]) - 1
          /\ \A i \in 1..Len(queue'[k]) : i + 1 \in 1..Len(queue[k]) /\ queue'[k][i] = queue[k][i + 1]
      <3> HIDE DEF k
      <3>1. queue[k] # <<>> BY <2>1
      <3>2. /\ Head(queue[k]) = queue[k][1] /\ Head(queue[k]) \in Nat
            /\ Len(queue[k]) \in Nat \ {0} /\ Len(Tail(queue[k])) = Len(queue[k]) - 1
            /\ \A i \in 1..Len(Tail(queue[k])) :
                 i + 1 \in 1..Len(queue[k]) /\ Tail(queue[k])[i] = queue[k][i + 1]
        BY <2>4, <3>1, TailElements
      <3>3. QED BY <2>3, <3>2
    <2>6. Increasing(queue'[k]) /\ \A i \in 1..Len(queue'[k]) : queue'[k][i] > Head(queue[k])
      BY <2>1, <2>3, <2>4, IncreasingTail
    <2>7. \A i \in 1..Len(feeder) : feeder[i].key # k
      BY <2>2 DEF OwnershipInv, SingleOwner
    <2>8. ASSUME NEW h \in Keys
          PROVE  QueueOrder(h)'
      <3>1. CASE h = k
        <4>1. QueueOrder(k) /\ 1 \in 1..Len(queue[k]) BY <2>2, <2>5 DEF OrderInv
        <4>2. lastRun'[k] <= submitted BY <2>3, <2>5, <4>1 DEF QueueOrder
        <4>3. \A i \in 1..Len(queue'[k]) : queue'[k][i] <= submitted
          BY <2>5, <4>1 DEF QueueOrder
        <4>4. k \in active BY <2>1, <4>1 DEF QueueOrder
        <4>5. \A i \in 1..Len(queue'[k]) : lastRun'[k] < queue'[k][i]
          BY <2>3, <2>6
        <4>6. QED BY <2>1, <2>6, <3>1, <4>2, <4>3, <4>4, <4>5 DEF QueueOrder
      <3>2. CASE h # k BY <2>1, <2>3, <3>2 DEF OrderInv, QueueOrder
      <3>3. QED BY <3>1, <3>2
    <2>9. \A i \in 1..Len(feeder) : FeederOrder(i)'
      BY <1>00, <2>1, <2>3, <2>7 DEF OrderInv, FeederOrder
    <2>10. QED BY <2>1, <2>8, <2>9 DEF OrderInv
  <1>8. ASSUME NEW w \in Workers, EndChain(w) PROVE OrderInv'
    BY <1>0, <1>8 DEF EndChain, OrderInv, QueueOrder, FeederOrder
  <1>9. ASSUME NEW w \in Workers, Advances(w) PROVE OrderInv'
    BY <1>9 DEF Advances, Exit, RunDone, SendFails, Panic, Cancel, OrderInv,
       QueueOrder, FeederOrder
  <1>10. CASE Collect BY <1>10 DEF Collect, OrderInv, QueueOrder, FeederOrder
  <1>11. QED
    BY <1>1, <1>2, <1>3, <1>4, <1>5, <1>6, <1>7, <1>8, <1>9, <1>10, SchedCases

(* Order: per key, the last unit that ran, the head waiting in the feeder   *)
(* and the queue behind it ascend.                                         *)
THEOREM SchedOrder == SchedSpec => []OrderInv
  <1>1. SchedInit => OrderInv
    BY DEF SchedInit, OrderInv, QueueOrder, Increasing
  <1>2. SchedTypeOK /\ OwnershipInv /\ OrderInv /\ [SchedNext]_schedVars => OrderInv'
    BY SchedOrderStep
  <1>3. QED BY <1>1, <1>2, SchedTypeCorrect, SchedOwnership, PTL DEF SchedSpec

(* `run' is called with the units of one key in submission order, each at   *)
(* most once.                                                              *)
THEOREM SchedRunInOrder == SchedSpec => RunInOrder
  <1> DEFINE A == \A w \in Workers :
                    pc[w] # "running" /\ pc'[w] = "running"
                      => cur'[w].unit > lastRun[cur'[w].key]
  <1>1. SchedTypeOK /\ OrderInv /\ [SchedNext]_schedVars => [A]_schedVars
    <2> SUFFICES ASSUME SchedTypeOK, OrderInv, [SchedNext]_schedVars,
                        NEW w \in Workers, pc[w] # "running", pc'[w] = "running"
                 PROVE  cur'[w].unit > lastRun[cur'[w].key]
      OBVIOUS
    <2>0. /\ feeder \in Seq(Job) /\ pc \in [Workers -> WorkerState]
          /\ cur \in [Workers -> Job \cup {NoJob}]
          /\ queue \in [Keys -> Seq(Nat)] /\ lastRun \in [Keys -> Nat]
      BY DEF SchedTypeOK, Unit
    <2>00. \A i \in 1..Len(feeder) : feeder[i].key \in Keys /\ feeder[i].unit \in Nat
      BY JobFields
    <2>1. ASSUME NEW v \in Workers, Recv(v) PROVE cur'[w].unit > lastRun[cur'[w].key]
      <3>1. Head(feeder) = feeder[1] /\ Len(feeder) \in Nat \ {0}
        BY <2>0, <2>00, <2>1, TailElements DEF Recv
      <3>2. w = v /\ cur'[w] = feeder[1]
        BY <2>0, <2>00, <2>1, <3>1 DEF Recv
      <3>3. QED BY <2>0, <2>00, <3>1, <3>2 DEF OrderInv, FeederOrder
    <2>2. ASSUME NEW v \in Workers, NextInChain(v) PROVE cur'[w].unit > lastRun[cur'[w].key]
      <3> DEFINE k == cur[v].key
      <3>1. k \in Keys BY <2>2 DEF NextInChain, SchedTypeOK, Job
      <3>2. Head(queue[k]) = queue[k][1] /\ Len(queue[k]) \in Nat \ {0} /\ Head(queue[k]) \in Nat
        BY <2>0, <2>00, <2>2, <3>1, TailElements DEF NextInChain
      <3>3. w = v /\ cur'[w] = [key |-> k, unit |-> Head(queue[k])]
        BY <2>0, <2>00, <2>2 DEF NextInChain
      <3>4. cur'[w].key = k /\ cur'[w].unit = Head(queue[k])
        BY <3>3
      <3>5. QED BY <2>0, <2>00, <3>1, <3>2, <3>4 DEF OrderInv, QueueOrder
    <2>3. \/ \E v \in Workers : Recv(v) \/ NextInChain(v)
          \/ pc'[w] # "running" \/ pc'[w] = pc[w]
      BY <2>0, <2>00, SchedCases DEF AddWorkClaim, AddWorkQueue, Quiet, Shutdown, Abort,
         AddWorkRefused, DropReceiver, schedVars, SendResult, Release, EndChain,
         Advances, Exit, RunDone, SendFails, Panic, Cancel, Collect
    <2>4. QED BY <2>1, <2>2, <2>3
  <1>2. QED BY <1>1, SchedTypeCorrect, SchedOrder, PTL DEF SchedSpec, RunInOrder

-----------------------------------------------------------------------------
(* Calling `run' with a unit of key k above lastRun[k], by a worker that is  *)
(* then k's only owner, keeps the results in order.                        *)
LEMMA RunKeepsResults ==
  ASSUME SchedTypeOK, ResultInv,
         NEW w \in Workers, NEW k \in Keys, NEW u \in Nat,
         lastRun[k] < u,
         lastRun' = [lastRun EXCEPT ![k] = u],
         cur' = [cur EXCEPT ![w] = [key |-> k, unit |-> u]],
         pc' = [pc EXCEPT ![w] = "running"],
         \A v \in Workers \ {w} : Busy(v) => cur[v].key # k,
         UNCHANGED <<results, collected>>
  PROVE  ResultInv'
  <1>0. /\ lastRun \in [Keys -> Nat] /\ cur \in [Workers -> Job \cup {NoJob}]
        /\ pc \in [Workers -> WorkerState]
    BY DEF SchedTypeOK, Unit
  <1>1. /\ lastRun'[k] = u /\ \A h \in Keys \ {k} : lastRun'[h] = lastRun[h]
        /\ cur'[w].key = k /\ cur'[w].unit = u
        /\ \A v \in Workers \ {w} : cur'[v] = cur[v] /\ pc'[v] = pc[v]
        /\ \A h \in Keys : lastRun[h] \in Nat
    BY <1>0
  <1>2. \A j \in collected : j.key \in Keys /\ j.unit \in Nat
    BY DEF SchedTypeOK, Job, Unit
  <1>3. \A h \in Keys, n \in Nat : n <= lastRun[h] => n <= lastRun'[h] /\ (h = k => n < u)
    BY <1>1
  <1>4. \A j \in collected : j.unit <= lastRun'[j.key] /\ (j.key = k => j.unit < u)
    BY <1>2, <1>3 DEF ResultInv
  <1>5. \A i \in 1..Len(results) :
          results[i].unit <= lastRun'[results[i].key] /\ (results[i].key = k => results[i].unit < u)
    BY <1>3, JobFields DEF ResultInv, ChannelOrder
  <1>6. \A i \in 1..Len(results) : ChannelOrder(i)'
    BY <1>5 DEF ResultInv, ChannelOrder
  <1>7. OwnerOrder(w)'
    BY <1>1, <1>4, <1>5 DEF OwnerOrder
  <1>8. ASSUME NEW v \in Workers \ {w}, pc'[v] \in {"running", "sending"} PROVE OwnerOrder(v)'
    <2>1. pc[v] \in {"running", "sending"} /\ cur'[v] = cur[v] BY <1>1, <1>8
    <2>2. Busy(v) /\ OwnerOrder(v) BY <2>1 DEF Busy, ResultInv
    <2>3. cur[v].key \in Keys \ {k} BY <2>1, <2>2 DEF SchedTypeOK, Job
    <2>4. QED BY <1>1, <2>1, <2>2, <2>3 DEF OwnerOrder
  <1>9. QED BY <1>4, <1>6, <1>7, <1>8 DEF ResultInv

(* A step of the scheduler keeps the results of a key in order. *)
LEMMA SchedResultsStep ==
  ASSUME SchedTypeOK, OwnershipInv, OrderInv, ResultInv, [SchedNext]_schedVars
  PROVE  ResultInv'
  <1>0. /\ feeder \in Seq(Job) /\ results \in Seq(Job)
        /\ pc \in [Workers -> WorkerState]
        /\ cur \in [Workers -> Job \cup {NoJob}]
        /\ queue \in [Keys -> Seq(Nat)]
    BY DEF SchedTypeOK, Unit
  <1>1. ASSUME NEW k \in Keys, AddWorkClaim(k) PROVE ResultInv'
    BY <1>1 DEF AddWorkClaim, ResultInv, ChannelOrder, OwnerOrder
  <1>2. ASSUME NEW k \in Keys, AddWorkQueue(k) PROVE ResultInv'
    BY <1>2 DEF AddWorkQueue, ResultInv, ChannelOrder, OwnerOrder
  <1>3. CASE Quiet
    BY <1>3 DEF Quiet, Shutdown, Abort, AddWorkRefused, DropReceiver, schedVars,
       ResultInv, ChannelOrder, OwnerOrder
  <1>4. ASSUME NEW w \in Workers, Recv(w) PROVE ResultInv'
    <2> DEFINE k == Head(feeder).key
               u == Head(feeder).unit
    <2>1. Head(feeder) = feeder[1] /\ Len(feeder) \in Nat \ {0} /\ Head(feeder) \in Job
      BY <1>0, <1>4, TailElements DEF Recv
    <2>2. k \in Keys /\ u \in Nat /\ Head(feeder) = [key |-> k, unit |-> u]
      BY <2>1 DEF Job, Unit
    <2>3. lastRun[k] < u
      BY <2>1 DEF OrderInv, FeederOrder
    <2>4. \A v \in Workers \ {w} : Busy(v) => cur[v].key # k
      BY <2>1 DEF OwnershipInv, SingleOwner
    <2>5. /\ lastRun' = [lastRun EXCEPT ![k] = u]
          /\ cur' = [cur EXCEPT ![w] = [key |-> k, unit |-> u]]
          /\ pc' = [pc EXCEPT ![w] = "running"]
          /\ UNCHANGED <<results, collected>>
      BY <1>4, <2>2 DEF Recv
    <2> HIDE DEF k, u
    <2>6. QED BY <2>2, <2>3, <2>4, <2>5, RunKeepsResults
  <1>5. ASSUME NEW w \in Workers, SendResult(w) PROVE ResultInv'
    <2>1. /\ pc[w] = "sending" /\ results' = Append(results, cur[w])
          /\ pc' = [pc EXCEPT ![w] = "settling"] /\ UNCHANGED <<cur, lastRun, collected>>
      BY <1>5 DEF SendResult
    <2>2. cur[w] \in Job /\ OwnerOrder(w) /\ Busy(w)
      BY <2>1 DEF SchedTypeOK, ResultInv, Busy
    <2>3. /\ Len(results) \in Nat /\ Len(results') = Len(results) + 1
          /\ \A i \in 1..Len(results) : results'[i] = results[i]
          /\ results'[Len(results) + 1] = cur[w]
      BY <1>0, <2>1, <2>2, AppendElements
    <2>4. lastRun[cur[w].key] \in Nat
      BY <2>2 DEF SchedTypeOK, Job, Unit
    <2>5. ASSUME NEW i \in 1..Len(results') PROVE ChannelOrder(i)'
      <3>1. CASE i \in 1..Len(results)
        <4>1. ChannelOrder(i) /\ results'[i] = results[i]
          BY <2>3, <3>1 DEF ResultInv
        <4>2. \A h \in 1..Len(results') : h < i => h \in 1..Len(results) /\ results'[h] = results[h]
          BY <2>3, <3>1
        <4>3. QED BY <2>1, <4>1, <4>2 DEF ChannelOrder
      <3>2. CASE i = Len(results) + 1
        <4>1. \A h \in 1..Len(results') : h < i => h \in 1..Len(results) /\ results'[h] = results[h]
          BY <2>3, <3>2
        <4>2. results'[i] = cur[w] BY <2>3, <3>2
        <4>3. QED BY <2>1, <2>2, <2>4, <4>1, <4>2 DEF ChannelOrder, OwnerOrder
      <3>3. QED BY <2>3, <3>1, <3>2
    <2>6. ASSUME NEW v \in Workers, pc'[v] \in {"running", "sending"} PROVE OwnerOrder(v)'
      <3>1. v # w /\ pc[v] \in {"running", "sending"}
        BY <1>0, <2>1, <2>6
      <3>2. Busy(v) /\ OwnerOrder(v) BY <3>1 DEF Busy, ResultInv
      <3>3. cur[v].key # cur[w].key
        BY <2>2, <3>1, <3>2 DEF OwnershipInv, SingleOwner
      <3>4. \A i \in 1..Len(results') :
              (i \in 1..Len(results) /\ results'[i] = results[i]) \/ results'[i] = cur[w]
        BY <2>3
      <3>5. QED BY <2>1, <3>2, <3>3, <3>4 DEF OwnerOrder
    <2>7. QED BY <2>1, <2>5, <2>6 DEF ResultInv
  <1>6. ASSUME NEW w \in Workers, Release(w) PROVE ResultInv'
    BY <1>0, <1>6 DEF Release, ResultInv, ChannelOrder, OwnerOrder
  <1>7. ASSUME NEW w \in Workers, NextInChain(w) PROVE ResultInv'
    <2> DEFINE k == cur[w].key
               u == Head(queue[k])
    <2>1. k \in Keys /\ Busy(w) /\ queue[k] # <<>>
      BY <1>7 DEF NextInChain, SchedTypeOK, Job, Busy
    <2>2. Head(queue[k]) = queue[k][1] /\ Len(queue[k]) \in Nat \ {0} /\ u \in Nat
      BY <1>0, <2>1, TailElements
    <2>3. lastRun[k] < u
      BY <2>1, <2>2 DEF OrderInv, QueueOrder
    <2>4. \A v \in Workers \ {w} : Busy(v) => cur[v].key # k
      BY <2>1 DEF OwnershipInv, SingleOwner
    <2>5. /\ lastRun' = [lastRun EXCEPT ![k] = u]
          /\ cur' = [cur EXCEPT ![w] = [key |-> k, unit |-> u]]
          /\ pc' = [pc EXCEPT ![w] = "running"]
          /\ UNCHANGED <<results, collected>>
      BY <1>7 DEF NextInChain
    <2> HIDE DEF k, u
    <2>6. QED BY <2>1, <2>2, <2>3, <2>4, <2>5, RunKeepsResults
  <1>8. ASSUME NEW w \in Workers, EndChain(w) PROVE ResultInv'
    BY <1>0, <1>8 DEF EndChain, ResultInv, ChannelOrder, OwnerOrder
  <1>9. ASSUME NEW w \in Workers, Advances(w) PROVE ResultInv'
    BY <1>0, <1>9 DEF Advances, Exit, RunDone, SendFails, Panic, Cancel, ResultInv,
       ChannelOrder, OwnerOrder
  <1>10. CASE Collect
    <2>1. /\ Head(results) = results[1] /\ Len(results) \in Nat \ {0}
          /\ Len(results') = Len(results) - 1
          /\ \A i \in 1..Len(results') : i + 1 \in 1..Len(results) /\ results'[i] = results[i + 1]
      BY <1>0, <1>10, TailElements DEF Collect
    <2>2. collected' = collected \cup {results[1]} /\ UNCHANGED <<lastRun, pc, cur>>
      BY <1>10, <2>1 DEF Collect
    <2>3. ASSUME NEW i \in 1..Len(results') PROVE ChannelOrder(i)'
      <3>1. ChannelOrder(i + 1) /\ i + 1 \in 1..Len(results) /\ results'[i] = results[i + 1]
        BY <2>1 DEF ResultInv
      <3>2. results[1].key = results'[i].key => results[1].unit < results'[i].unit
        BY <2>1, <3>1 DEF ChannelOrder
      <3>3. \A h \in 1..Len(results') : h < i =>
              h + 1 \in 1..Len(results) /\ h + 1 < i + 1 /\ results'[h] = results[h + 1]
        BY <2>1
      <3>4. QED BY <2>2, <3>1, <3>2, <3>3 DEF ChannelOrder
    <2>4. ASSUME NEW w \in Workers, pc'[w] \in {"running", "sending"} PROVE OwnerOrder(w)'
      <3>1. OwnerOrder(w) BY <2>2, <2>4 DEF ResultInv
      <3>2. QED BY <2>1, <2>2, <3>1 DEF OwnerOrder
    <2>5. \A j \in collected' : j.unit <= lastRun'[j.key]
      BY <2>1, <2>2 DEF ResultInv, ChannelOrder
    <2>6. QED BY <2>3, <2>4, <2>5 DEF ResultInv
  <1>11. QED
    BY <1>1, <1>2, <1>3, <1>4, <1>5, <1>6, <1>7, <1>8, <1>9, <1>10, SchedCases

(* Results: per key, what was collected, what lies in the result channel    *)
(* and what the owner is about to send ascend.                             *)
THEOREM SchedResults == SchedSpec => []ResultInv
  <1>1. SchedInit => ResultInv
    BY DEF SchedInit, ResultInv
  <1>2. SchedTypeOK /\ OwnershipInv /\ OrderInv /\ ResultInv /\ [SchedNext]_schedVars
          => ResultInv'
    BY SchedResultsStep
  <1>3. QED BY <1>1, <1>2, SchedTypeCorrect, SchedOwnership, SchedOrder, PTL DEF SchedSpec

(* The caller receives the results of one key in submission order, each once. *)
THEOREM SchedResultsInOrder == SchedSpec => ResultsInOrder
  <1> DEFINE A == Len(results') < Len(results) =>
                    \A j \in collected : j.key = Head(results).key => j.unit < Head(results).unit
  <1>1. SchedTypeOK /\ ResultInv /\ [SchedNext]_schedVars => [A]_schedVars
    <2> SUFFICES ASSUME SchedTypeOK, ResultInv, Len(results') < Len(results)
                 PROVE  \A j \in collected : j.key = Head(results).key => j.unit < Head(results).unit
      OBVIOUS
    <2>1. results \in Seq(Job) BY DEF SchedTypeOK
    <2>2. CASE results = <<>> 
      BY <2>2 DEF ResultInv
    <2>3. CASE results # <<>>
      <3>1. Head(results) = results[1] /\ Len(results) \in Nat \ {0}
        BY <2>1, <2>3, TailElements
      <3>2. QED BY <3>1 DEF ResultInv, ChannelOrder
    <2>4. QED BY <2>2, <2>3
  <1>2. QED BY <1>1, SchedTypeCorrect, SchedResults, PTL DEF SchedSpec, ResultsInOrder
-----------------------------------------------------------------------------
(* A step of the scheduler leaves every active key with an owner. *)
LEMMA KeysOwnedStep ==
  ASSUME SchedTypeOK, OwnershipInv, KeysOwned, [SchedNext]_schedVars
  PROVE  KeysOwned'
  <1>0. /\ feeder \in Seq(Job) /\ pc \in [Workers -> WorkerState]
        /\ cur \in [Workers -> Job \cup {NoJob}]
    BY DEF SchedTypeOK
  <1>1. ASSUME NEW k \in Keys, AddWorkClaim(k) PROVE KeysOwned'
    <2> DEFINE e == [key |-> k, unit |-> submitted + 1]
    <2>1. e \in Job /\ e.key = k
      BY DEF Job, Unit, SchedTypeOK
    <2> HIDE DEF e
    <2>2. /\ Len(feeder) \in Nat /\ Len(feeder') = Len(feeder) + 1
          /\ \A i \in 1..Len(feeder) : feeder'[i] = feeder[i]
          /\ feeder'[Len(feeder) + 1] = e
      BY <1>0, <1>1, <2>1, AppendElements DEF AddWorkClaim, e
    <2>3. active' = active \cup {k} /\ UNCHANGED <<pc, cur>>
      BY <1>1 DEF AddWorkClaim
    <2>4. \A i \in 1..Len(feeder) : i \in 1..Len(feeder')
      BY <2>2
    <2>5. Len(feeder) + 1 \in 1..Len(feeder')
      BY <2>2
    <2>6. ASSUME NEW h \in active
          PROVE  \/ \E w \in Workers : cur'[w].key = h /\ (Busy(w)' \/ pc'[w] = "dead")
                 \/ \E i \in 1..Len(feeder') : feeder'[i].key = h
      <3>1. CASE \E w \in Workers : cur[w].key = h /\ (Busy(w) \/ pc[w] = "dead")
        BY <2>3, <3>1 DEF Busy
      <3>2. CASE \E i \in 1..Len(feeder) : feeder[i].key = h
        BY <2>2, <2>4, <3>2
      <3>3. QED BY <3>1, <3>2 DEF KeysOwned
    <2>7. \E i \in 1..Len(feeder') : feeder'[i].key = k
      BY <2>1, <2>2, <2>5
    <2>8. QED BY <2>3, <2>6, <2>7 DEF KeysOwned
  <1>2. ASSUME NEW k \in Keys, AddWorkQueue(k) PROVE KeysOwned'
    BY <1>2 DEF AddWorkQueue, KeysOwned, Busy
  <1>3. CASE Quiet
    BY <1>3 DEF Quiet, Shutdown, Abort, AddWorkRefused, DropReceiver, schedVars, KeysOwned, Busy
  <1>4. ASSUME NEW w \in Workers, Recv(w) PROVE KeysOwned'
    <2>1. /\ Head(feeder) = feeder[1] /\ Len(feeder) \in Nat \ {0}
          /\ Len(feeder') = Len(feeder) - 1
          /\ \A i \in 1..Len(feeder') : i + 1 \in 1..Len(feeder) /\ feeder'[i] = feeder[i + 1]
      BY <1>0, <1>4, TailElements DEF Recv
    <2>2. /\ pc[w] = "idle" /\ active' = active
          /\ cur'[w] = feeder[1] /\ \A v \in Workers \ {w} : cur'[v] = cur[v]
          /\ pc'[w] = "running" /\ \A v \in Workers \ {w} : pc'[v] = pc[v]
      BY <1>0, <1>4, <2>1 DEF Recv
    <2>3. ASSUME NEW h \in active
          PROVE  \/ \E v \in Workers : cur'[v].key = h /\ (Busy(v)' \/ pc'[v] = "dead")
                 \/ \E i \in 1..Len(feeder') : feeder'[i].key = h
      <3>1. CASE \E v \in Workers : cur[v].key = h /\ (Busy(v) \/ pc[v] = "dead")
        BY <2>2, <3>1 DEF Busy
      <3>2. ASSUME NEW i \in 1..Len(feeder), feeder[i].key = h
            PROVE  \/ \E v \in Workers : cur'[v].key = h /\ (Busy(v)' \/ pc'[v] = "dead")
                   \/ \E j \in 1..Len(feeder') : feeder'[j].key = h
        <4>1. CASE i = 1 BY <2>2, <3>2, <4>1 DEF Busy
        <4>2. CASE i # 1
          <5>1. i - 1 \in 1..Len(feeder') /\ (i - 1) + 1 = i BY <2>1, <4>2
          <5>2. feeder'[i - 1] = feeder[i] BY <2>1, <5>1
          <5>3. QED BY <3>2, <5>1, <5>2
        <4>3. QED BY <4>1, <4>2
      <3>3. QED BY <3>1, <3>2 DEF KeysOwned
    <2>4. QED BY <2>2, <2>3 DEF KeysOwned
  <1>5. ASSUME NEW w \in Workers, SendResult(w) PROVE KeysOwned'
    BY <1>0, <1>5 DEF SendResult, KeysOwned, Busy
  <1>6. ASSUME NEW w \in Workers, Release(w) PROVE KeysOwned'
    BY <1>0, <1>6 DEF Release, KeysOwned, Busy
  <1>7. ASSUME NEW w \in Workers, NextInChain(w) PROVE KeysOwned'
    BY <1>0, <1>7 DEF NextInChain, KeysOwned, Busy
  <1>8. ASSUME NEW w \in Workers, EndChain(w) PROVE KeysOwned'
    BY <1>0, <1>8 DEF EndChain, KeysOwned, Busy
  <1>9. ASSUME NEW w \in Workers, Advances(w) PROVE KeysOwned'
    BY <1>0, <1>9 DEF Advances, Exit, RunDone, SendFails, Panic, Cancel, KeysOwned, Busy
  <1>10. CASE Collect BY <1>10 DEF Collect, KeysOwned, Busy
  <1>11. QED
    BY <1>1, <1>2, <1>3, <1>4, <1>5, <1>6, <1>7, <1>8, <1>9, <1>10, SchedCases

(* A unit waits in a queue only while its key is claimed by an owner that   *)
(* is going to drain the queue, or that died holding the key.               *)
THEOREM SchedNoStrandedUnit == SchedSpec => []NoStrandedUnit
  <1>1. SchedInit => KeysOwned
    BY DEF SchedInit, KeysOwned
  <1>2. SchedTypeOK /\ OwnershipInv /\ KeysOwned /\ [SchedNext]_schedVars => KeysOwned'
    BY KeysOwnedStep
  <1>3. OrderInv /\ KeysOwned => NoStrandedUnit
    BY DEF OrderInv, QueueOrder, KeysOwned, NoStrandedUnit
  <1>4. QED BY <1>1, <1>2, <1>3, SchedTypeCorrect, SchedOwnership, SchedOrder, PTL DEF SchedSpec

-----------------------------------------------------------------------------
(* The queue of a key after add_work on it: what was there, possibly        *)
(* without its head, and the new unit.                                     *)
LEMMA QueuedElements ==
  ASSUME SchedTypeOK, NEW k \in Keys, AddWorkQueue(k)
  PROVE  /\ queue'[k] \in Seq(Nat)
         /\ \A h \in Keys \ {k} : queue'[h] = queue[h]
         /\ Len(queue'[k]) \in Nat \ {0} /\ queue'[k][Len(queue'[k])] = submitted + 1
         /\ \A i \in 1..Len(queue'[k]) : i < Len(queue'[k]) =>
              \/ i \in 1..Len(queue[k]) /\ queue'[k][i] = queue[k][i]
              \/ i + 1 \in 1..Len(queue[k]) /\ queue'[k][i] = queue[k][i + 1]
         /\ \/ /\ dropped' = dropped \cup {queue[k][1]} /\ 1 \in 1..Len(queue[k])
               /\ Len(queue'[k]) = Len(queue[k])
               /\ \A i \in 1..Len(queue'[k]) : i < Len(queue'[k]) =>
                    i + 1 \in 1..Len(queue[k]) /\ queue'[k][i] = queue[k][i + 1]
            \/ /\ dropped' = dropped
               /\ Len(queue'[k]) = Len(queue[k]) + 1
               /\ \A i \in 1..Len(queue[k]) : queue'[k][i] = queue[k][i]
  <1>1. queue \in [Keys -> Seq(Nat)] /\ submitted \in Nat /\ submitted + 1 \in Nat
    BY DEF SchedTypeOK, Unit
  <1> DEFINE q == queue[k]
             full == KeyQueueCap > 0 /\ Len(q) >= KeyQueueCap
             base == IF full THEN Tail(q) ELSE q
  <1>2. q \in Seq(Nat) /\ (full => q # <<>>)
    BY <1>1, CapAssumption
  <1>3. /\ queue' = [queue EXCEPT ![k] = Append(base, submitted + 1)]
        /\ full => dropped' = dropped \cup {Head(q)}
        /\ ~full => dropped' = dropped
    BY DEF AddWorkQueue
  <1>4. queue'[k] = Append(base, submitted + 1) /\ \A h \in Keys \ {k} : queue'[h] = queue[h]
    BY <1>1, <1>3
  <1>5. CASE full
    <2>1. /\ base = Tail(q) /\ base \in Seq(Nat) /\ Head(q) = q[1]
          /\ Len(q) \in Nat \ {0} /\ Len(base) = Len(q) - 1
          /\ \A i \in 1..Len(base) : i + 1 \in 1..Len(q) /\ base[i] = q[i + 1]
      <3> HIDE DEF q
      <3>1. base = Tail(q) BY <1>5
      <3>2. QED BY <1>2, <1>5, <3>1, TailElements
    <2> HIDE DEF base
    <2>2. /\ queue'[k] \in Seq(Nat) /\ Len(queue'[k]) = Len(base) + 1
          /\ \A i \in 1..Len(base) : queue'[k][i] = base[i]
          /\ queue'[k][Len(base) + 1] = submitted + 1
      BY <1>1, <1>4, <2>1, AppendElements
    <2> HIDE DEF q
    <2>3. Len(queue'[k]) = Len(q) /\ Len(base) \in Nat
      BY <2>1, <2>2
    <2>4. ASSUME NEW i \in 1..Len(queue'[k]), i < Len(queue'[k])
          PROVE  i + 1 \in 1..Len(q) /\ queue'[k][i] = q[i + 1]
      <3>1. i \in 1..Len(base) BY <2>1, <2>3, <2>4
      <3>2. QED BY <2>1, <2>2, <3>1, Zenon
    <2>5. 1 \in 1..Len(q) /\ dropped' = dropped \cup {q[1]}
      BY <1>3, <1>5, <2>1
    <2>6. queue'[k][Len(queue'[k])] = submitted + 1 /\ Len(queue'[k]) \in Nat \ {0}
      BY <2>1, <2>2, <2>3
    <2>7. QED BY <1>4, <2>2, <2>3, <2>4, <2>5, <2>6 DEF q
  <1>6. CASE ~full
    <2>1. base = q BY <1>6
    <2> HIDE DEF base
    <2>2. /\ queue'[k] \in Seq(Nat) /\ Len(q) \in Nat /\ Len(queue'[k]) = Len(q) + 1
          /\ \A i \in 1..Len(q) : queue'[k][i] = q[i]
          /\ queue'[k][Len(q) + 1] = submitted + 1
      BY <1>1, <1>2, <1>4, <2>1, AppendElements
    <2>3. dropped' = dropped BY <1>3, <1>6
    <2> HIDE DEF q
    <2>4. \A i \in 1..Len(queue'[k]) : i < Len(queue'[k]) =>
            i \in 1..Len(q) /\ queue'[k][i] = q[i]
      BY <2>2
    <2>5. queue'[k][Len(queue'[k])] = submitted + 1 /\ Len(queue'[k]) \in Nat \ {0}
      BY <2>2
    <2>6. QED BY <1>4, <2>2, <2>3, <2>4, <2>5 DEF q
  <1>7. QED BY <1>5, <1>6

(* Units are only moved: a step brings a new one in by add_work or none. *)
LEMMA UnitsOnlyMove ==
  ASSUME SchedTypeOK, [SchedNext]_schedVars
  PROVE  \/ /\ submitted' = submitted
            /\ \A h \in Keys, u \in Nat : Carries(h, u)' => Carries(h, u)
         \/ \E k \in Keys :
              /\ submitted' = submitted + 1
              /\ \A h \in Keys, u \in Nat :
                   Carries(h, u)' => Carries(h, u) \/ (h = k /\ u = submitted + 1)
  <1> DEFINE G == \/ /\ submitted' = submitted
                     /\ \A h \in Keys, u \in Nat : Carries(h, u)' => Carries(h, u)
                  \/ \E k \in Keys :
                       /\ submitted' = submitted + 1
                       /\ \A h \in Keys, u \in Nat :
                            Carries(h, u)' => Carries(h, u) \/ (h = k /\ u = submitted + 1)
  <1>0. /\ feeder \in Seq(Job) /\ pc \in [Workers -> WorkerState]
        /\ cur \in [Workers -> Job \cup {NoJob}] /\ results \in Seq(Job)
        /\ queue \in [Keys -> Seq(Nat)] /\ submitted \in Nat
    BY DEF SchedTypeOK, Unit
  <1>1. ASSUME NEW k \in Keys, AddWorkClaim(k) PROVE G
    <2> DEFINE e == [key |-> k, unit |-> submitted + 1]
    <2>1. e \in Job /\ e.key = k /\ e.unit = submitted + 1
      BY <1>0 DEF Job, Unit
    <2> HIDE DEF e
    <2>2. /\ Len(feeder) \in Nat /\ Len(feeder') = Len(feeder) + 1
          /\ \A i \in 1..Len(feeder) : feeder'[i] = feeder[i]
          /\ feeder'[Len(feeder) + 1] = e
      BY <1>0, <1>1, <2>1, AppendElements DEF AddWorkClaim, e
    <2>3. submitted' = submitted + 1 /\ UNCHANGED <<pc, cur, queue, results, collected>>
      BY <1>1 DEF AddWorkClaim
    <2>4. \A i \in 1..Len(feeder') : i \in 1..Len(feeder) \/ i = Len(feeder) + 1
      BY <2>2
    <2>5. \A h \in Keys, u \in Nat :
            Carries(h, u)' => Carries(h, u) \/ (h = k /\ u = submitted + 1)
      BY <2>1, <2>2, <2>3, <2>4 DEF Carries
    <2>6. QED BY <2>3, <2>5
  <1>2. ASSUME NEW k \in Keys, AddWorkQueue(k) PROVE G
    <2>1. /\ \A h \in Keys \ {k} : queue'[h] = queue[h]
          /\ Len(queue'[k]) \in Nat \ {0} /\ queue'[k][Len(queue'[k])] = submitted + 1
          /\ \A i \in 1..Len(queue'[k]) : i < Len(queue'[k]) =>
               \/ i \in 1..Len(queue[k]) /\ queue'[k][i] = queue[k][i]
               \/ i + 1 \in 1..Len(queue[k]) /\ queue'[k][i] = queue[k][i + 1]
      BY <1>2, QueuedElements
    <2>2. submitted' = submitted + 1 /\ UNCHANGED <<feeder, pc, cur, results, collected>>
      BY <1>2 DEF AddWorkQueue
    <2>3. ASSUME NEW i \in 1..Len(queue'[k])
          PROVE  queue'[k][i] = submitted + 1 \/ \E j \in 1..Len(queue[k]) : queue'[k][i] = queue[k][j]
      <3>1. CASE i < Len(queue'[k]) BY <2>1, <3>1
      <3>2. CASE i = Len(queue'[k]) BY <2>1, <3>2
      <3>3. QED BY <2>1, <3>1, <3>2
    <2>4. \A h \in Keys, u \in Nat :
            Carries(h, u)' => Carries(h, u) \/ (h = k /\ u = submitted + 1)
      BY <2>1, <2>2, <2>3 DEF Carries
    <2>5. QED BY <2>2, <2>4
  <1>3. CASE Quiet
    BY <1>3 DEF Quiet, Shutdown, Abort, AddWorkRefused, DropReceiver, schedVars, Carries
  <1>4. ASSUME NEW w \in Workers, Recv(w) PROVE G
    <2>1. /\ Head(feeder) = feeder[1] /\ Len(feeder) \in Nat \ {0}
          /\ Len(feeder') = Len(feeder) - 1
          /\ \A i \in 1..Len(feeder') : i + 1 \in 1..Len(feeder) /\ feeder'[i] = feeder[i + 1]
      BY <1>0, <1>4, TailElements DEF Recv
    <2>2. /\ submitted' = submitted /\ UNCHANGED <<queue, results, collected>>
          /\ cur'[w] = feeder[1] /\ \A v \in Workers \ {w} : cur'[v] = cur[v] /\ pc'[v] = pc[v]
          /\ 1 \in 1..Len(feeder)
      BY <1>0, <1>4, <2>1 DEF Recv
    <2>3. \A h \in Keys, u \in Nat : Carries(h, u)' => Carries(h, u)
      BY <2>1, <2>2 DEF Carries
    <2>4. QED BY <2>2, <2>3
  <1>5. ASSUME NEW w \in Workers, SendResult(w) PROVE G
    <2>1. pc[w] = "sending" /\ results' = Append(results, cur[w])
          /\ submitted' = submitted /\ pc' = [pc EXCEPT ![w] = "settling"]
          /\ UNCHANGED <<feeder, queue, cur, collected>>
      BY <1>5 DEF SendResult
    <2>2. cur[w] \in Job BY <2>1 DEF SchedTypeOK
    <2>3. /\ Len(results) \in Nat /\ Len(results') = Len(results) + 1
          /\ \A i \in 1..Len(results) : results'[i] = results[i]
          /\ results'[Len(results) + 1] = cur[w]
      BY <1>0, <2>1, <2>2, AppendElements
    <2>4. \A i \in 1..Len(results') : i \in 1..Len(results) \/ i = Len(results) + 1
      BY <2>3
    <2>5. \A v \in Workers : pc'[v] \notin {"idle", "ended"} => pc[v] \notin {"idle", "ended"}
      BY <1>0, <2>1
    <2>6. \A h \in Keys, u \in Nat : Carries(h, u)' => Carries(h, u)
      BY <2>1, <2>3, <2>4, <2>5 DEF Carries
    <2>7. QED BY <2>1, <2>6
  <1>6. ASSUME NEW w \in Workers, Release(w) PROVE G
    <2>1. cur[w].key \in Keys BY <1>6 DEF Release, SchedTypeOK, Job
    <2>2. \A h \in Keys : queue'[h] = queue[h] \/ queue'[h] = <<>>
      BY <1>0, <1>6, <2>1 DEF Release
    <2>3. \A v \in Workers : pc'[v] \notin {"idle", "ended"} =>
            pc[v] \notin {"idle", "ended"} /\ cur'[v] = cur[v]
      BY <1>0, <1>6 DEF Release
    <2>4. submitted' = submitted /\ UNCHANGED <<feeder, results, collected>>
      BY <1>6 DEF Release
    <2>5. \A h \in Keys, u \in Nat : Carries(h, u)' => Carries(h, u)
      BY <2>2, <2>3, <2>4 DEF Carries
    <2>6. QED BY <2>4, <2>5
  <1>7. ASSUME NEW w \in Workers, NextInChain(w) PROVE G
    <2> DEFINE k == cur[w].key
    <2>1. k \in Keys /\ queue[k] # <<>> BY <1>7 DEF NextInChain, SchedTypeOK, Job
    <2>2. /\ Head(queue[k]) = queue[k][1] /\ Len(queue[k]) \in Nat \ {0}
          /\ Len(Tail(queue[k])) = Len(queue[k]) - 1
          /\ \A i \in 1..Len(Tail(queue[k])) :
               i + 1 \in 1..Len(queue[k]) /\ Tail(queue[k])[i] = queue[k][i + 1]
      BY <1>0, <2>1, TailElements
    <2>3. /\ queue'[k] = Tail(queue[k]) /\ \A h \in Keys \ {k} : queue'[h] = queue[h]
          /\ cur'[w].key = k /\ cur'[w].unit = queue[k][1]
          /\ \A v \in Workers \ {w} : cur'[v] = cur[v] /\ pc'[v] = pc[v]
          /\ submitted' = submitted /\ UNCHANGED <<feeder, results, collected>>
          /\ 1 \in 1..Len(queue[k])
      BY <1>0, <1>7, <2>1, <2>2 DEF NextInChain
    <2> HIDE DEF k
    <2>4. ASSUME NEW i \in 1..Len(queue'[k])
          PROVE  i + 1 \in 1..Len(queue[k]) /\ queue'[k][i] = queue[k][i + 1]
      <3>1. i \in 1..Len(Tail(queue[k])) /\ queue'[k][i] = Tail(queue[k])[i]
        BY <2>3, Zenon
      <3>2. QED BY <2>2, <3>1, Zenon
    <2>5. ASSUME NEW h \in Keys, NEW u \in Nat, Carries(h, u)' PROVE Carries(h, u)
      <3>1. ASSUME NEW i \in 1..Len(queue'[h])
            PROVE  \E j \in 1..Len(queue[h]) : queue'[h][i] = queue[h][j]
        <4>1. CASE h = k
          <5>1. i + 1 \in 1..Len(queue[k]) /\ queue'[k][i] = queue[k][i + 1] BY <2>4, <4>1
          <5>2. QED BY <4>1, <5>1
        <4>2. CASE h # k BY <2>3, <4>2
        <4>3. QED BY <4>1, <4>2
      <3>2. \A v \in Workers : pc'[v] \notin {"idle", "ended"} /\ cur'[v].key = h /\ cur'[v].unit = u
              => Carries(h, u)
        BY <2>3 DEF Carries
      <3>3. QED BY <2>3, <2>5, <3>1, <3>2 DEF Carries
    <2>6. QED BY <2>3, <2>5
  <1>8. ASSUME NEW w \in Workers, EndChain(w) PROVE G
    <2>1. \A v \in Workers : pc'[v] \notin {"idle", "ended"} =>
            pc[v] \notin {"idle", "ended"} /\ cur'[v] = cur[v]
      BY <1>0, <1>8 DEF EndChain
    <2>2. submitted' = submitted /\ UNCHANGED <<feeder, queue, results, collected>>
      BY <1>8 DEF EndChain
    <2>3. QED BY <2>1, <2>2 DEF Carries
  <1>9. ASSUME NEW w \in Workers, Advances(w) PROVE G
    <2>1. \A v \in Workers : pc'[v] \notin {"idle", "ended"} => pc[v] \notin {"idle", "ended"}
      BY <1>0, <1>9 DEF Advances, Exit, RunDone, SendFails, Panic, Cancel
    <2>2. submitted' = submitted /\ UNCHANGED <<feeder, queue, cur, results, collected>>
      BY <1>9 DEF Advances, Exit, RunDone, SendFails, Panic, Cancel
    <2>3. QED BY <2>1, <2>2 DEF Carries
  <1>10. CASE Collect
    <2>1. /\ Head(results) = results[1] /\ Len(results) \in Nat \ {0}
          /\ Len(results') = Len(results) - 1
          /\ \A i \in 1..Len(results') : i + 1 \in 1..Len(results) /\ results'[i] = results[i + 1]
      BY <1>0, <1>10, TailElements DEF Collect
    <2>2. /\ collected' = collected \cup {results[1]} /\ 1 \in 1..Len(results)
          /\ submitted' = submitted /\ UNCHANGED <<feeder, queue, pc, cur>>
      BY <1>10, <2>1 DEF Collect
    <2>3. QED BY <2>1, <2>2 DEF Carries
  <1>11. QED
    BY <1>1, <1>2, <1>3, <1>4, <1>5, <1>6, <1>7, <1>8, <1>9, <1>10, SchedCases

(* A step of the scheduler keeps the units numbered, each with its one key. *)
LEMMA UnitsKnownStep ==
  ASSUME SchedTypeOK, OwnershipInv, OrderInv, UnitsKnown, [SchedNext]_schedVars
  PROVE  UnitsKnown'
  <1>0. /\ feeder \in Seq(Job) /\ pc \in [Workers -> WorkerState]
        /\ cur \in [Workers -> Job \cup {NoJob}] /\ lastRun \in [Keys -> Nat]
        /\ queue \in [Keys -> Seq(Nat)] /\ submitted \in Nat /\ dropped \subseteq Nat
    BY DEF SchedTypeOK, Unit
  <1>1. /\ \A k \in Keys, u \in Nat : Carries(k, u)' => 1 <= u /\ u <= submitted'
        /\ \A k, h \in Keys, u \in Nat : Carries(k, u)' /\ Carries(h, u)' => k = h
    <2>1. CASE /\ submitted' = submitted
               /\ \A h \in Keys, u \in Nat : Carries(h, u)' => Carries(h, u)
      BY <2>1 DEF UnitsKnown
    <2>2. ASSUME NEW k \in Keys,
                 submitted' = submitted + 1,
                 \A h \in Keys, u \in Nat :
                   Carries(h, u)' => Carries(h, u) \/ (h = k /\ u = submitted + 1)
          PROVE  /\ \A h \in Keys, u \in Nat : Carries(h, u)' => 1 <= u /\ u <= submitted'
                 /\ \A g, h \in Keys, u \in Nat : Carries(g, u)' /\ Carries(h, u)' => g = h
      <3>1. \A h \in Keys : ~Carries(h, submitted + 1)
        BY <1>0 DEF UnitsKnown
      <3>2. QED BY <1>0, <2>2, <3>1 DEF UnitsKnown
    <2>3. QED BY <2>1, <2>2, UnitsOnlyMove
  <1>2. \A w \in Workers : Busy(w) => cur[w].key \in Keys /\ cur[w].unit \in Nat
    BY DEF Busy, SchedTypeOK, Job, Unit
  <1>3. ASSUME NEW v \in Workers, Busy(v)' PROVE cur'[v].unit <= lastRun'[cur'[v].key]
    <2>1. ASSUME NEW w \in Workers, Recv(w) PROVE cur'[v].unit <= lastRun'[cur'[v].key]
      <3>1. Head(feeder) \in Job /\ Head(feeder) = feeder[1] /\ 1 \in 1..Len(feeder)
        BY <1>0, <2>1, TailElements DEF Recv
      <3>2. feeder[1].key \in Keys /\ feeder[1].unit \in Nat
        BY <3>1, JobFields
      <3>3. /\ cur'[w] = feeder[1] /\ \A u \in Workers \ {w} : cur'[u] = cur[u] /\ pc'[u] = pc[u]
            /\ lastRun'[feeder[1].key] = feeder[1].unit
            /\ \A h \in Keys \ {feeder[1].key} : lastRun'[h] = lastRun[h]
        BY <1>0, <2>1, <3>1, <3>2 DEF Recv
      <3>4. CASE v = w BY <3>2, <3>3, <3>4
      <3>5. CASE v # w
        <4>1. Busy(v) /\ cur'[v] = cur[v] BY <1>3, <3>3, <3>5 DEF Busy
        <4>2. cur[v].key # feeder[1].key
          BY <3>1, <4>1 DEF OwnershipInv, SingleOwner
        <4>3. QED BY <1>2, <3>3, <4>1, <4>2 DEF UnitsKnown
      <3>6. QED BY <3>4, <3>5
    <2>2. ASSUME NEW w \in Workers, NextInChain(w) PROVE cur'[v].unit <= lastRun'[cur'[v].key]
      <3> DEFINE k == cur[w].key
      <3>1. Busy(w) /\ k \in Keys /\ queue[k] # <<>>
        BY <1>2, <2>2 DEF NextInChain, Busy
      <3>2. Head(queue[k]) \in Nat
        BY <1>0, <3>1, TailElements
      <3>3. /\ cur'[w].key = k /\ cur'[w].unit = Head(queue[k])
            /\ \A u \in Workers \ {w} : cur'[u] = cur[u] /\ pc'[u] = pc[u]
            /\ lastRun'[k] = Head(queue[k]) /\ \A h \in Keys \ {k} : lastRun'[h] = lastRun[h]
        BY <1>0, <2>2, <3>1 DEF NextInChain
      <3>4. CASE v = w BY <3>2, <3>3, <3>4
      <3>5. CASE v # w
        <4>1. Busy(v) /\ cur'[v] = cur[v] BY <1>3, <3>3, <3>5 DEF Busy
        <4>2. cur[v].key # k
          BY <3>1, <3>5, <4>1 DEF OwnershipInv, SingleOwner
        <4>3. QED BY <1>2, <3>3, <4>1, <4>2 DEF UnitsKnown
      <3>6. QED BY <3>4, <3>5
    <2>3. \/ \E w \in Workers : Recv(w) \/ NextInChain(w)
          \/ Busy(v) /\ cur'[v] = cur[v] /\ lastRun' = lastRun
      BY <1>0, <1>3, SchedCases DEF AddWorkClaim, AddWorkQueue, Quiet, Shutdown, Abort,
         AddWorkRefused, DropReceiver, schedVars, SendResult, Release, EndChain,
         Advances, Exit, RunDone, SendFails, Panic, Cancel, Collect, Busy
    <2>4. QED BY <2>1, <2>2, <2>3 DEF UnitsKnown
  <1>4. ASSUME NEW u \in dropped' PROVE u <= submitted'
    <2>1. ASSUME NEW k \in Keys, AddWorkQueue(k) PROVE u <= submitted'
      <3>1. u \in dropped \/ (u = queue[k][1] /\ 1 \in 1..Len(queue[k]))
        BY <1>4, <2>1, QueuedElements
      <3>2. CASE u \in dropped
        BY <1>0, <2>1, <3>2 DEF UnitsKnown, AddWorkQueue
      <3>3. CASE u = queue[k][1] /\ 1 \in 1..Len(queue[k])
        <4>1. queue[k][1] \in Nat BY <1>0, <3>3
        <4>2. queue[k][1] <= submitted BY <3>3 DEF OrderInv, QueueOrder
        <4>3. QED BY <1>0, <2>1, <3>3, <4>1, <4>2 DEF AddWorkQueue
      <3>4. QED BY <3>1, <3>2, <3>3
    <2>2. \/ \E k \in Keys : AddWorkQueue(k)
          \/ u \in dropped /\ (submitted' = submitted \/ submitted' = submitted + 1)
      BY <1>4, SchedCases DEF AddWorkClaim, Quiet, Shutdown, Abort, Recv, NextInChain,
         AddWorkRefused, DropReceiver, schedVars, SendResult, Release, EndChain,
         Advances, Exit, RunDone, SendFails, Panic, Cancel, Collect
    <2>3. CASE u \in dropped /\ (submitted' = submitted \/ submitted' = submitted + 1)
      <3>1. u \in Nat /\ u <= submitted BY <1>0, <2>3 DEF UnitsKnown
      <3>2. QED BY <1>0, <2>3, <3>1
    <2>4. QED BY <2>1, <2>2, <2>3
  <1>5. QED BY <1>1, <1>3, <1>4 DEF UnitsKnown

(* Every accepted unit keeps the one key it was submitted with. *)
THEOREM SchedUnitsKnown == SchedSpec => []UnitsKnown
  <1>1. SchedInit => UnitsKnown
    BY DEF SchedInit, UnitsKnown, Carries, Busy
  <1>2. SchedTypeOK /\ OwnershipInv /\ OrderInv /\ UnitsKnown /\ [SchedNext]_schedVars
          => UnitsKnown'
    BY UnitsKnownStep
  <1>3. QED BY <1>1, <1>2, SchedTypeCorrect, SchedOwnership, SchedOrder, PTL DEF SchedSpec

-----------------------------------------------------------------------------
(* A unit waits when it is in the feeder or in a queue. *)
LEMMA WaitingUnits ==
  \A u : u \in Waiting <=> \/ \E i \in 1..Len(feeder) : feeder[i].unit = u
                           \/ \E k \in Keys : \E i \in 1..Len(queue[k]) : queue[k][i] = u
  BY DEF Waiting, Elems

(* Where NoUnitLost finds a unit, place by place. *)
Placed(u) ==
  \/ \E i \in 1..Len(feeder) : feeder[i].unit = u
  \/ \E k \in Keys : \E i \in 1..Len(queue[k]) : queue[k][i] = u
  \/ \E w \in Workers : pc[w] \in {"running", "sending", "releasing", "dead"} /\ cur[w].unit = u
  \/ u \in dropped
  \/ u \in abandoned
  \/ \E i \in 1..Len(results) : results[i].unit = u
  \/ \E j \in collected : j.unit = u

LEMMA PlacedUnits == NoUnitLost <=> \A u \in 1..submitted : Placed(u)
  <1>1. \A u : u \in Held <=> \E w \in Workers :
          pc[w] \in {"running", "sending", "releasing", "dead"} /\ cur[w].unit = u
    BY DEF Held
  <1>2. QED BY <1>1, WaitingUnits DEF NoUnitLost, Placed

(* A unit that has a place keeps one through every step. *)
LEMMA PlacedStep ==
  ASSUME SchedTypeOK, [SchedNext]_schedVars, NEW u, Placed(u)
  PROVE  Placed(u)'
  <1>0. /\ feeder \in Seq(Job) /\ pc \in [Workers -> WorkerState]
        /\ cur \in [Workers -> Job \cup {NoJob}] /\ results \in Seq(Job)
        /\ queue \in [Keys -> Seq(Nat)] /\ submitted \in Nat
    BY DEF SchedTypeOK, Unit
  <1>1. ASSUME NEW k \in Keys, AddWorkClaim(k) PROVE Placed(u)'
    <2>1. [key |-> k, unit |-> submitted + 1] \in Job
      BY <1>0 DEF Job, Unit
    <2>2. /\ Len(feeder) \in Nat /\ Len(feeder') = Len(feeder) + 1
          /\ \A i \in 1..Len(feeder) : feeder'[i] = feeder[i]
      BY <1>0, <1>1, <2>1, AppendElements DEF AddWorkClaim
    <2>3. UNCHANGED <<pc, cur, queue, results, collected, dropped, abandoned>>
      BY <1>1 DEF AddWorkClaim
    <2>4. \A i \in 1..Len(feeder) : i \in 1..Len(feeder')
      BY <2>2
    <2>5. QED BY <2>2, <2>3, <2>4 DEF Placed
  <1>2. ASSUME NEW k \in Keys, AddWorkQueue(k) PROVE Placed(u)'
    <2>1. UNCHANGED <<feeder, pc, cur, results, collected, abandoned>>
      BY <1>2 DEF AddWorkQueue
    <2>2. /\ queue'[k] \in Seq(Nat) /\ Len(queue'[k]) \in Nat \ {0}
          /\ \A h \in Keys \ {k} : queue'[h] = queue[h]
      BY <1>2, QueuedElements
    <2>3. CASE /\ dropped' = dropped \cup {queue[k][1]} /\ 1 \in 1..Len(queue[k])
               /\ Len(queue'[k]) = Len(queue[k])
               /\ \A i \in 1..Len(queue'[k]) : i < Len(queue'[k]) =>
                    i + 1 \in 1..Len(queue[k]) /\ queue'[k][i] = queue[k][i + 1]
      <3>1. ASSUME NEW i \in 1..Len(queue[k]), queue[k][i] = u, i # 1 PROVE Placed(u)'
        <4>1. i - 1 \in 1..Len(queue'[k]) /\ i - 1 < Len(queue'[k]) /\ (i - 1) + 1 = i
          BY <2>2, <2>3, <3>1
        <4>2. queue'[k][i - 1] = queue[k][i] BY <2>3, <4>1
        <4>3. QED BY <3>1, <4>1, <4>2 DEF Placed
      <3>2. QED BY <2>1, <2>2, <2>3, <3>1 DEF Placed
    <2>4. CASE /\ dropped' = dropped
               /\ Len(queue'[k]) = Len(queue[k]) + 1
               /\ \A i \in 1..Len(queue[k]) : queue'[k][i] = queue[k][i]
      <3>1. Len(queue[k]) \in Nat BY <1>0
      <3>2. \A i \in 1..Len(queue[k]) : i \in 1..Len(queue'[k]) BY <2>4, <3>1
      <3>3. QED BY <2>1, <2>2, <2>4, <3>2 DEF Placed
    <2>5. QED BY <1>2, <2>3, <2>4, QueuedElements
  <1>3. CASE Quiet
    BY <1>3 DEF Quiet, Shutdown, Abort, AddWorkRefused, DropReceiver, schedVars, Placed
  <1>4. ASSUME NEW w \in Workers, Recv(w) PROVE Placed(u)'
    <2>1. /\ Head(feeder) = feeder[1] /\ Len(feeder) \in Nat \ {0}
          /\ Len(feeder') = Len(feeder) - 1
          /\ \A i \in 1..Len(feeder') : i + 1 \in 1..Len(feeder) /\ feeder'[i] = feeder[i + 1]
      BY <1>0, <1>4, TailElements DEF Recv
    <2>2. /\ UNCHANGED <<queue, results, collected, dropped, abandoned>>
          /\ pc[w] = "idle" /\ pc'[w] = "running" /\ cur'[w] = feeder[1]
          /\ \A v \in Workers \ {w} : cur'[v] = cur[v] /\ pc'[v] = pc[v]
      BY <1>0, <1>4, <2>1 DEF Recv
    <2>3. ASSUME NEW i \in 1..Len(feeder), feeder[i].unit = u PROVE Placed(u)'
      <3>1. CASE i = 1 BY <2>2, <2>3, <3>1 DEF Placed
      <3>2. CASE i # 1
        <4>1. i - 1 \in 1..Len(feeder') /\ (i - 1) + 1 = i BY <2>1, <3>2
        <4>2. feeder'[i - 1] = feeder[i] BY <2>1, <4>1
        <4>3. QED BY <2>3, <4>1, <4>2 DEF Placed
      <3>3. QED BY <3>1, <3>2
    <2>4. QED BY <2>2, <2>3 DEF Placed
  <1>5. ASSUME NEW w \in Workers, SendResult(w) PROVE Placed(u)'
    <2>1. /\ pc[w] = "sending" /\ results' = Append(results, cur[w])
          /\ \A v \in Workers \ {w} : pc'[v] = pc[v]
          /\ UNCHANGED <<feeder, queue, cur, collected, dropped, abandoned>>
      BY <1>0, <1>5 DEF SendResult
    <2>2. cur[w] \in Job BY <2>1 DEF SchedTypeOK
    <2>3. /\ Len(results) \in Nat /\ Len(results') = Len(results) + 1
          /\ \A i \in 1..Len(results) : results'[i] = results[i]
          /\ results'[Len(results) + 1] = cur[w]
      BY <1>0, <2>1, <2>2, AppendElements
    <2>4. /\ \A i \in 1..Len(results) : i \in 1..Len(results')
          /\ Len(results) + 1 \in 1..Len(results')
      BY <2>3
    <2>5. QED BY <2>1, <2>3, <2>4 DEF Placed
  <1>6. ASSUME NEW w \in Workers, Release(w) PROVE Placed(u)'
    <2>1. cur[w].key \in Keys BY <1>6 DEF Release, SchedTypeOK, Job
    <2>2. /\ \A h \in Keys \ {cur[w].key} : queue'[h] = queue[h]
          /\ abandoned' = abandoned \cup Elems(queue[cur[w].key]) \cup {cur[w].unit}
          /\ \A v \in Workers \ {w} : pc'[v] = pc[v] /\ cur'[v] = cur[v]
          /\ UNCHANGED <<feeder, results, collected, dropped>>
      BY <1>0, <1>6, <2>1 DEF Release
    <2>3. QED BY <2>1, <2>2 DEF Placed, Elems
  <1>7. ASSUME NEW w \in Workers, NextInChain(w) PROVE Placed(u)'
    <2> DEFINE k == cur[w].key
    <2>1. k \in Keys /\ queue[k] # <<>> BY <1>7 DEF NextInChain, SchedTypeOK, Job
    <2>2. /\ Head(queue[k]) = queue[k][1] /\ Len(queue[k]) \in Nat \ {0}
          /\ Len(Tail(queue[k])) = Len(queue[k]) - 1
          /\ \A i \in 1..Len(Tail(queue[k])) :
               i + 1 \in 1..Len(queue[k]) /\ Tail(queue[k])[i] = queue[k][i + 1]
      BY <1>0, <2>1, TailElements
    <2>3. /\ queue'[k] = Tail(queue[k]) /\ \A h \in Keys \ {k} : queue'[h] = queue[h]
          /\ pc[w] = "settling" /\ pc'[w] = "running" /\ cur'[w].unit = queue[k][1]
          /\ \A v \in Workers \ {w} : cur'[v] = cur[v] /\ pc'[v] = pc[v]
          /\ UNCHANGED <<feeder, results, collected, dropped, abandoned>>
      BY <1>0, <1>7, <2>1, <2>2 DEF NextInChain
    <2> HIDE DEF k
    <2>4. ASSUME NEW i \in 1..Len(queue[k]), queue[k][i] = u PROVE Placed(u)'
      <3>1. CASE i = 1 BY <2>3, <2>4, <3>1 DEF Placed
      <3>2. CASE i # 1
        <4>1. i - 1 \in 1..Len(Tail(queue[k])) /\ (i - 1) + 1 = i BY <2>2, <3>2
        <4>2. Tail(queue[k])[i - 1] = queue[k][i] BY <2>2, <4>1
        <4>3. i - 1 \in 1..Len(queue'[k]) /\ queue'[k][i - 1] = u BY <2>3, <2>4, <4>1, <4>2
        <4>4. QED BY <2>1, <4>3 DEF Placed
      <3>3. QED BY <3>1, <3>2
    <2>5. ASSUME NEW h \in Keys, NEW i \in 1..Len(queue[h]), queue[h][i] = u PROVE Placed(u)'
      <3>1. CASE h = k BY <2>4, <2>5, <3>1
      <3>2. CASE h # k BY <2>3, <2>5, <3>2 DEF Placed
      <3>3. QED BY <3>1, <3>2
    <2>6. CASE \E v \in Workers : pc[v] \in {"running", "sending", "releasing", "dead"} /\ cur[v].unit = u
      BY <2>3, <2>6 DEF Placed
    <2>7. QED BY <2>3, <2>5, <2>6 DEF Placed
  <1>8. ASSUME NEW w \in Workers, EndChain(w) PROVE Placed(u)'
    <2>1. \A v \in Workers : pc[v] \in {"running", "sending", "releasing", "dead"} =>
            pc'[v] = pc[v] /\ cur'[v] = cur[v]
      BY <1>0, <1>8 DEF EndChain
    <2>2. UNCHANGED <<feeder, queue, results, collected, dropped, abandoned>>
      BY <1>8 DEF EndChain
    <2>3. QED BY <2>1, <2>2 DEF Placed
  <1>9. ASSUME NEW w \in Workers, Advances(w) PROVE Placed(u)'
    <2>1. \A v \in Workers : pc[v] \in {"running", "sending", "releasing", "dead"} =>
            pc'[v] \in {"running", "sending", "releasing", "dead"}
      BY <1>0, <1>9 DEF Advances, Exit, RunDone, SendFails, Panic, Cancel
    <2>2. UNCHANGED <<feeder, queue, cur, results, collected, dropped, abandoned>>
      BY <1>9 DEF Advances, Exit, RunDone, SendFails, Panic, Cancel
    <2>3. QED BY <2>1, <2>2 DEF Placed
  <1>10. CASE Collect
    <2>1. /\ Head(results) = results[1] /\ Len(results) \in Nat \ {0}
          /\ Len(results') = Len(results) - 1
          /\ \A i \in 1..Len(results') : i + 1 \in 1..Len(results) /\ results'[i] = results[i + 1]
      BY <1>0, <1>10, TailElements DEF Collect
    <2>2. /\ collected' = collected \cup {results[1]}
          /\ UNCHANGED <<feeder, queue, pc, cur, dropped, abandoned>>
      BY <1>10, <2>1 DEF Collect
    <2>3. ASSUME NEW i \in 1..Len(results), results[i].unit = u PROVE Placed(u)'
      <3>1. CASE i = 1 BY <2>2, <2>3, <3>1 DEF Placed
      <3>2. CASE i # 1
        <4>1. i - 1 \in 1..Len(results') /\ (i - 1) + 1 = i BY <2>1, <3>2
        <4>2. results'[i - 1] = results[i] BY <2>1, <4>1
        <4>3. QED BY <2>3, <4>1, <4>2 DEF Placed
      <3>3. QED BY <3>1, <3>2
    <2>4. QED BY <2>2, <2>3 DEF Placed
  <1>11. QED
    BY <1>1, <1>2, <1>3, <1>4, <1>5, <1>6, <1>7, <1>8, <1>9, <1>10, SchedCases

(* A unit that is accepted has a place at once. *)
LEMMA NewUnitPlaced ==
  ASSUME SchedTypeOK, [SchedNext]_schedVars, submitted' # submitted
  PROVE  submitted' = submitted + 1 /\ \A u : u = submitted + 1 => Placed(u)'
  <1>0. /\ feeder \in Seq(Job) /\ submitted \in Nat
    BY DEF SchedTypeOK
  <1>1. ASSUME NEW k \in Keys, AddWorkClaim(k)
        PROVE  submitted' = submitted + 1 /\ \A u : u = submitted + 1 => Placed(u)'
    <2> DEFINE e == [key |-> k, unit |-> submitted + 1]
    <2>1. e \in Job /\ e.unit = submitted + 1
      BY <1>0 DEF Job, Unit
    <2> HIDE DEF e
    <2>2. /\ Len(feeder) \in Nat /\ Len(feeder') = Len(feeder) + 1
          /\ feeder'[Len(feeder) + 1] = e
      BY <1>0, <1>1, <2>1, AppendElements DEF AddWorkClaim, e
    <2>3. Len(feeder) + 1 \in 1..Len(feeder') BY <2>2
    <2>4. QED BY <1>1, <2>1, <2>2, <2>3 DEF AddWorkClaim, Placed
  <1>2. ASSUME NEW k \in Keys, AddWorkQueue(k)
        PROVE  submitted' = submitted + 1 /\ \A u : u = submitted + 1 => Placed(u)'
    <2>1. Len(queue'[k]) \in Nat \ {0} /\ queue'[k][Len(queue'[k])] = submitted + 1
      BY <1>2, QueuedElements
    <2>2. Len(queue'[k]) \in 1..Len(queue'[k]) BY <2>1
    <2>3. QED BY <1>2, <2>1, <2>2 DEF AddWorkQueue, Placed
  <1>3. \E k \in Keys : AddWorkClaim(k) \/ AddWorkQueue(k)
    BY SchedCases DEF Quiet, Shutdown, Abort, AddWorkRefused, DropReceiver, schedVars,
       Recv, SendResult, Release, NextInChain, EndChain, Advances, Exit, RunDone,
       SendFails, Panic, Cancel, Collect
  <1>4. QED BY <1>1, <1>2, <1>3

(* What is evicted is nowhere else: it is younger than what its key's owner *)
(* holds and than the head in the feeder, and in no other queue.            *)
LEMMA EvictedIsNowhereElse ==
  ASSUME SchedTypeOK, OrderInv, UnitsKnown, NEW k \in Keys, 1 \in 1..Len(queue[k])
  PROVE  /\ \A w \in Workers : Busy(w) => cur[w].unit # queue[k][1]
         /\ \A i \in 1..Len(feeder) : feeder[i].unit # queue[k][1]
         /\ \A h \in Keys : \A i \in 1..Len(queue[h]) : queue[h][i] = queue[k][1] => h = k /\ i = 1
  <1>0. /\ queue \in [Keys -> Seq(Nat)] /\ lastRun \in [Keys -> Nat] /\ queue[k][1] \in Nat
    BY DEF SchedTypeOK, Unit
  <1>1. Carries(k, queue[k][1]) /\ QueueOrder(k)
    BY DEF Carries, OrderInv
  <1>2. ASSUME NEW w \in Workers, Busy(w), cur[w].unit = queue[k][1] PROVE FALSE
    <2>1. cur[w].key \in Keys /\ pc[w] \notin {"idle", "ended"}
      BY <1>2 DEF Busy, SchedTypeOK, Job
    <2>2. Carries(cur[w].key, queue[k][1]) BY <1>2, <2>1 DEF Carries
    <2>3. cur[w].key = k BY <1>0, <1>1, <2>1, <2>2 DEF UnitsKnown
    <2>4. queue[k][1] <= lastRun[k] BY <1>2, <2>3 DEF UnitsKnown
    <2>5. QED BY <1>0, <1>1, <2>4 DEF QueueOrder
  <1>3. ASSUME NEW i \in 1..Len(feeder), feeder[i].unit = queue[k][1] PROVE FALSE
    <2>1. feeder[i].key \in Keys /\ feeder[i].unit \in Nat BY JobFields
    <2>2. Carries(feeder[i].key, queue[k][1]) BY <1>3 DEF Carries
    <2>3. feeder[i].key = k BY <1>0, <1>1, <2>1, <2>2 DEF UnitsKnown
    <2>4. QED BY <1>0, <1>3, <2>1, <2>3 DEF OrderInv, FeederOrder
  <1>4. ASSUME NEW h \in Keys, NEW i \in 1..Len(queue[h]), queue[h][i] = queue[k][1]
        PROVE  h = k /\ i = 1
    <2>1. Carries(h, queue[k][1]) BY <1>4 DEF Carries
    <2>2. h = k BY <1>0, <1>1, <2>1 DEF UnitsKnown
    <2>3. i = 1 BY <1>0, <1>1, <1>4, <2>2 DEF QueueOrder, Increasing
    <2>4. QED BY <2>2, <2>3
  <1>5. QED BY <1>2, <1>3, <1>4

(* No busy worker holds, and nothing waiting is, a dropped unit. *)
LEMMA DroppedApart ==
  DroppedNeverRuns <=>
    /\ \A w \in Workers : Busy(w) => cur[w].unit \notin dropped
    /\ \A i \in 1..Len(feeder) : feeder[i].unit \notin dropped
    /\ \A k \in Keys : \A i \in 1..Len(queue[k]) : queue[k][i] \notin dropped
  <1>1. dropped \cap Waiting = {} <=> \A u \in dropped : u \notin Waiting
    OBVIOUS
  <1>2. QED BY <1>1, WaitingUnits DEF DroppedNeverRuns

(* A step of the scheduler never runs or keeps waiting what was dropped. *)
LEMMA DroppedStep ==
  ASSUME SchedTypeOK, OrderInv, UnitsKnown, DroppedNeverRuns, [SchedNext]_schedVars
  PROVE  DroppedNeverRuns'
  <1> DEFINE D == /\ \A w \in Workers : Busy(w)' => cur'[w].unit \notin dropped'
                  /\ \A i \in 1..Len(feeder') : feeder'[i].unit \notin dropped'
                  /\ \A k \in Keys : \A i \in 1..Len(queue'[k]) : queue'[k][i] \notin dropped'
  <1> SUFFICES D
    <2>1. \A u : u \in Waiting' <=> \/ \E i \in 1..Len(feeder') : feeder'[i].unit = u
                                    \/ \E k \in Keys : \E i \in 1..Len(queue'[k]) : queue'[k][i] = u
      BY DEF Waiting, Elems
    <2>2. QED BY <2>1 DEF DroppedNeverRuns
  <1>0. /\ feeder \in Seq(Job) /\ pc \in [Workers -> WorkerState]
        /\ cur \in [Workers -> Job \cup {NoJob}] /\ submitted \in Nat
        /\ queue \in [Keys -> Seq(Nat)] /\ dropped \subseteq Nat
    BY DEF SchedTypeOK, Unit
  <1>00. /\ \A w \in Workers : Busy(w) => cur[w].unit \notin dropped
         /\ \A i \in 1..Len(feeder) : feeder[i].unit \notin dropped
         /\ \A k \in Keys : \A i \in 1..Len(queue[k]) : queue[k][i] \notin dropped
    BY DroppedApart
  <1>000. submitted + 1 \notin dropped
    BY <1>0 DEF UnitsKnown
  <1>1. ASSUME NEW k \in Keys, AddWorkClaim(k) PROVE D
    <2> DEFINE e == [key |-> k, unit |-> submitted + 1]
    <2>1. e \in Job /\ e.unit = submitted + 1
      BY <1>0 DEF Job, Unit
    <2> HIDE DEF e
    <2>2. /\ Len(feeder) \in Nat /\ Len(feeder') = Len(feeder) + 1
          /\ \A i \in 1..Len(feeder) : feeder'[i] = feeder[i]
          /\ feeder'[Len(feeder) + 1] = e
      BY <1>0, <1>1, <2>1, AppendElements DEF AddWorkClaim, e
    <2>3. \A i \in 1..Len(feeder') : i \in 1..Len(feeder) \/ i = Len(feeder) + 1
      BY <2>2
    <2>4. UNCHANGED <<pc, cur, queue, dropped>> BY <1>1 DEF AddWorkClaim
    <2>5. QED BY <1>00, <1>000, <2>1, <2>2, <2>3, <2>4 DEF Busy
  <1>2. ASSUME NEW k \in Keys, AddWorkQueue(k) PROVE D
    <2>1. UNCHANGED <<feeder, pc, cur>> BY <1>2 DEF AddWorkQueue
    <2>2. /\ \A h \in Keys \ {k} : queue'[h] = queue[h]
          /\ Len(queue'[k]) \in Nat \ {0} /\ queue'[k][Len(queue'[k])] = submitted + 1
      BY <1>2, QueuedElements
    <2>3. CASE /\ dropped' = dropped \cup {queue[k][1]} /\ 1 \in 1..Len(queue[k])
               /\ Len(queue'[k]) = Len(queue[k])
               /\ \A i \in 1..Len(queue'[k]) : i < Len(queue'[k]) =>
                    i + 1 \in 1..Len(queue[k]) /\ queue'[k][i] = queue[k][i + 1]
      <3>1. /\ \A w \in Workers : Busy(w) => cur[w].unit # queue[k][1]
            /\ \A i \in 1..Len(feeder) : feeder[i].unit # queue[k][1]
            /\ \A h \in Keys : \A i \in 1..Len(queue[h]) :
                 queue[h][i] = queue[k][1] => h = k /\ i = 1
        BY <2>3, EvictedIsNowhereElse
      <3>2. ASSUME NEW i \in 1..Len(queue'[k]) PROVE queue'[k][i] \notin dropped'
        <4>1. CASE i < Len(queue'[k])
          <5>1. i + 1 \in 1..Len(queue[k]) /\ queue'[k][i] = queue[k][i + 1] /\ i + 1 # 1
            BY <2>2, <2>3, <4>1
          <5>2. QED BY <1>00, <2>3, <3>1, <5>1
        <4>2. CASE i = Len(queue'[k])
          <5>1. queue[k][1] <= submitted /\ queue[k][1] \in Nat
            BY <1>0, <2>3 DEF OrderInv, QueueOrder
          <5>2. submitted + 1 # queue[k][1] BY <1>0, <5>1
          <5>3. QED BY <1>000, <2>2, <2>3, <4>2, <5>2
        <4>3. QED BY <2>2, <4>1, <4>2
      <3>3. ASSUME NEW h \in Keys, NEW i \in 1..Len(queue'[h]) PROVE queue'[h][i] \notin dropped'
        <4>1. CASE h = k BY <3>2, <4>1
        <4>2. CASE h # k BY <1>00, <2>2, <2>3, <3>1, <4>2
        <4>3. QED BY <4>1, <4>2
      <3>4. QED BY <1>00, <2>1, <2>3, <3>1, <3>3 DEF Busy
    <2>4. CASE /\ dropped' = dropped
               /\ Len(queue'[k]) = Len(queue[k]) + 1
               /\ \A i \in 1..Len(queue[k]) : queue'[k][i] = queue[k][i]
      <3>1. Len(queue[k]) \in Nat BY <1>0
      <3>2. \A i \in 1..Len(queue'[k]) : i \in 1..Len(queue[k]) \/ i = Len(queue'[k])
        BY <2>4, <3>1
      <3>3. QED BY <1>00, <1>000, <2>1, <2>2, <2>4, <3>2 DEF Busy
    <2>5. QED BY <1>2, <2>3, <2>4, QueuedElements
  <1>3. CASE Quiet
    BY <1>00, <1>3 DEF Quiet, Shutdown, Abort, AddWorkRefused, DropReceiver, schedVars, Busy
  <1>4. ASSUME NEW w \in Workers, Recv(w) PROVE D
    <2>1. /\ Head(feeder) = feeder[1] /\ Len(feeder) \in Nat \ {0}
          /\ \A i \in 1..Len(feeder') : i + 1 \in 1..Len(feeder) /\ feeder'[i] = feeder[i + 1]
      BY <1>0, <1>4, TailElements DEF Recv
    <2>2. /\ UNCHANGED <<queue, dropped>> /\ cur'[w] = feeder[1] /\ 1 \in 1..Len(feeder)
          /\ \A v \in Workers \ {w} : cur'[v] = cur[v] /\ pc'[v] = pc[v]
      BY <1>0, <1>4, <2>1 DEF Recv
    <2>3. QED BY <1>00, <2>1, <2>2 DEF Busy
  <1>5. ASSUME NEW w \in Workers, NextInChain(w) PROVE D
    <2> DEFINE k == cur[w].key
    <2>1. k \in Keys /\ queue[k] # <<>> BY <1>5 DEF NextInChain, SchedTypeOK, Job
    <2>2. /\ Head(queue[k]) = queue[k][1] /\ Len(queue[k]) \in Nat \ {0}
          /\ \A i \in 1..Len(Tail(queue[k])) :
               i + 1 \in 1..Len(queue[k]) /\ Tail(queue[k])[i] = queue[k][i + 1]
      BY <1>0, <2>1, TailElements
    <2>3. /\ queue'[k] = Tail(queue[k]) /\ \A h \in Keys \ {k} : queue'[h] = queue[h]
          /\ cur'[w].unit = queue[k][1] /\ 1 \in 1..Len(queue[k])
          /\ \A v \in Workers \ {w} : cur'[v] = cur[v] /\ pc'[v] = pc[v]
          /\ UNCHANGED <<feeder, dropped>>
      BY <1>0, <1>5, <2>1, <2>2 DEF NextInChain
    <2> HIDE DEF k
    <2>4. ASSUME NEW h \in Keys, NEW i \in 1..Len(queue'[h]) PROVE queue'[h][i] \notin dropped
      <3>1. CASE h = k
        <4>1. i \in 1..Len(Tail(queue[k])) /\ queue'[h][i] = Tail(queue[k])[i]
          BY <2>3, <3>1, Zenon
        <4>2. i + 1 \in 1..Len(queue[k]) /\ queue'[h][i] = queue[k][i + 1]
          BY <2>2, <4>1, Zenon
        <4>3. QED BY <1>00, <2>1, <4>2
      <3>2. CASE h # k BY <1>00, <2>3, <3>2
      <3>3. QED BY <3>1, <3>2
    <2>5. \A v \in Workers : Busy(v)' => cur'[v].unit \notin dropped
      BY <1>00, <2>1, <2>3 DEF Busy
    <2>6. QED BY <1>00, <2>3, <2>4, <2>5
  <1>6. ASSUME NEW w \in Workers, Release(w) PROVE D
    <2>1. cur[w].key \in Keys BY <1>6 DEF Release, SchedTypeOK, Job
    <2>2. /\ \A h \in Keys : queue'[h] = queue[h] \/ queue'[h] = <<>>
          /\ \A v \in Workers : Busy(v)' => Busy(v) /\ cur'[v] = cur[v]
          /\ UNCHANGED <<feeder, dropped>>
      BY <1>0, <1>6, <2>1 DEF Release, Busy
    <2>3. QED BY <1>00, <2>2
  <1>7. ASSUME NEW w \in Workers, SendResult(w) \/ EndChain(w) \/ Advances(w) PROVE D
    <2>1. /\ \A v \in Workers : Busy(v)' => Busy(v) /\ cur'[v] = cur[v]
          /\ UNCHANGED <<feeder, queue, dropped>>
      BY <1>0, <1>7 DEF SendResult, EndChain, Advances, Exit, RunDone, SendFails, Panic, Cancel, Busy
    <2>2. QED BY <1>00, <2>1
  <1>8. CASE Collect BY <1>00, <1>8 DEF Collect, Busy
  <1>9. QED
    BY <1>1, <1>2, <1>3, <1>4, <1>5, <1>6, <1>7, <1>8, SchedCases

(* Every accepted unit is accounted for through overflow, panic, shutdown,  *)
(* abort and a lost receiver, and a unit reported as dropped never runs.    *)
THEOREM SchedUnitsAccounted == SchedSpec => []UnitsAccounted
  <1>1. SchedInit => UnitsAccounted
    BY DEF SchedInit, UnitsAccounted, NoUnitLost, DroppedNeverRuns, Busy
  <1>2. SchedTypeOK /\ OrderInv /\ UnitsKnown /\ UnitsAccounted /\ [SchedNext]_schedVars
          => UnitsAccounted'
    <2> SUFFICES ASSUME SchedTypeOK, OrderInv, UnitsKnown, UnitsAccounted, [SchedNext]_schedVars
                 PROVE  UnitsAccounted'
      OBVIOUS
    <2>1. DroppedNeverRuns' BY DroppedStep DEF UnitsAccounted
    <2>2. ASSUME NEW u \in 1..submitted' PROVE Placed(u)'
      <3>1. submitted \in Nat BY DEF SchedTypeOK
      <3>2. CASE u \in 1..submitted
        <4>1. Placed(u) BY <3>2, PlacedUnits DEF UnitsAccounted
        <4>2. QED BY <4>1, PlacedStep
      <3>3. CASE u \notin 1..submitted
        <4>1. submitted' # submitted BY <3>3
        <4>2. submitted' = submitted + 1 /\ \A x : x = submitted + 1 => Placed(x)'
          BY <4>1, NewUnitPlaced
        <4>3. u = submitted + 1 BY <3>1, <3>3, <4>2
        <4>4. QED BY <4>2, <4>3
      <3>4. QED BY <3>2, <3>3
    <2>3. NoUnitLost'
      <3>1. \A u : u \in Waiting' <=> \/ \E i \in 1..Len(feeder') : feeder'[i].unit = u
                                      \/ \E k \in Keys : \E i \in 1..Len(queue'[k]) : queue'[k][i] = u
        BY DEF Waiting, Elems
      <3>2. \A u : u \in Held' <=> \E w \in Workers :
              pc'[w] \in {"running", "sending", "releasing", "dead"} /\ cur'[w].unit = u
        BY DEF Held
      <3>3. QED BY <2>2, <3>1, <3>2 DEF NoUnitLost, Placed
    <2>4. QED BY <2>1, <2>3 DEF UnitsAccounted
  <1>3. QED BY <1>1, <1>2, SchedTypeCorrect, SchedOrder, SchedUnitsKnown, PTL DEF SchedSpec

=============================================================================
