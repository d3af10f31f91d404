----------------------------- MODULE Scheduler -----------------------------
(***************************************************************************)
(* The keyed FIFO scheduler of src/src/streaming/parallel.rs.              *)
(*                                                                         *)
(* add_work(key, unit) hands a unit to a fixed pool of worker tasks.  The  *)
(* first unit of an idle key goes through the feeder channel to a free     *)
(* worker; while that worker owns the key, later units of the key wait in  *)
(* the key's queue and the same worker drains them one by one.  A result   *)
(* of every unit that ran goes into a bounded result channel.              *)
(*                                                                         *)
(* A unit is a natural number: the position of its add_work call among the *)
(* calls that were accepted.  What `run' computes is left out.             *)
(***************************************************************************)
EXTENDS Naturals, Sequences, FiniteSets

CONSTANTS
  Keys,            \* keys of the work units (repository DIDs in the firehose client)
  Workers,         \* worker tasks
  KeyQueueCap,     \* per-key queue cap, 0 = unbounded
  ResultCapacity,  \* capacity of the result channel
  MaxUnits,        \* bound: add_work calls made
  PanicBudget      \* bound: how many times `run' panics

ASSUME WorkersAssumption == Workers # {}
ASSUME CapAssumption ==
  /\ KeyQueueCap \in Nat
  /\ ResultCapacity \in Nat \ {0}
  /\ MaxUnits \in Nat
  /\ PanicBudget \in Nat

VARIABLES
  life,       \* of the Scheduler value: "open", "shutdown" or "aborted"
  feeder,     \* feeder channel: heads of freshly activated keys, in order
  active,     \* keys of the `active' map
  queue,      \* queue[k]: the units waiting behind k's owner
  pc,         \* where each worker task is
  cur,        \* the [key, unit] a worker is busy with
  results,    \* the result channel
  rxOpen,     \* the caller still holds the result receiver
  last,       \* what the most recent add_work returned
  submitted,  \* number of accepted add_work calls
  lastRun,    \* history: per key, the last unit `run' was called with
  collected,  \* history: the jobs whose result the caller received
  dropped,    \* history: units evicted from a full queue
  abandoned   \* history: units discarded when the receiver was gone

schedVars == <<life, feeder, active, queue, pc, cur, results, rxOpen, last,
               submitted, lastRun, collected, dropped, abandoned>>

Unit == Nat
Job == [key : Keys, unit : Unit]
NoJob == [key |-> "none", unit |-> 0]
Elems(s) == {s[i] : i \in 1..Len(s)}
AddOutcome == [kind : {"Queued", "Dropped", "ShuttingDown"}, unit : Unit]
WorkerState == {"idle", "running", "sending", "settling", "releasing", "ended", "dead"}

-----------------------------------------------------------------------------
SchedInit ==
  /\ life = "open"
  /\ feeder = <<>>
  /\ active = {}
  /\ queue = [k \in Keys |-> <<>>]
  /\ pc = [w \in Workers |-> "idle"]
  /\ cur = [w \in Workers |-> NoJob]
  /\ results = <<>>
  /\ rxOpen = TRUE
  /\ last = [kind |-> "Queued", unit |-> 0]
  /\ submitted = 0
  /\ lastRun = [k \in Keys |-> 0]
  /\ collected = {}
  /\ dropped = {}
  /\ abandoned = {}

(* `feeder_tx.is_closed()': the shared receiver lives as long as a worker does. *)
FeederClosed == \A w \in Workers : pc[w] \in {"ended", "dead"}

-----------------------------------------------------------------------------
(* add_work on a key nobody owns: claim the key and feed its head unit. *)
AddWorkClaim(k) ==
  /\ life = "open"
  /\ submitted < MaxUnits
  /\ ~FeederClosed
  /\ k \notin active
  /\ submitted' = submitted + 1
  /\ active' = active \cup {k}
  /\ feeder' = Append(feeder, [key |-> k, unit |-> submitted + 1])
  /\ last' = [kind |-> "Queued", unit |-> submitted + 1]
  /\ UNCHANGED <<life, queue, pc, cur, results, rxOpen, lastRun, collected,
                 dropped, abandoned>>

(* Mutant: an overflow evicts the oldest unit without reporting it. *)
AddWorkQueueSilent(k) ==
  /\ life = "open"
  /\ submitted < MaxUnits
  /\ k \in active
  /\ submitted' = submitted + 1
  /\ queue' = [queue EXCEPT ![k] = Append(IF KeyQueueCap > 0 /\ Len(@) >= KeyQueueCap
                                          THEN Tail(@) ELSE @, submitted + 1)]
  /\ last' = [kind |-> "Queued", unit |-> submitted + 1]
  /\ UNCHANGED <<life, feeder, active, pc, cur, results, rxOpen, lastRun,
                 collected, dropped, abandoned>>

(* add_work on an owned key: append to its queue, evicting the oldest       *)
(* queued unit when the queue is at its cap.  is_closed() was read before   *)
(* the lock was awaited, so the last worker may be gone by now.            *)
AddWorkQueue(k) ==
  /\ life = "open"
  /\ submitted < MaxUnits
  /\ k \in active
  /\ submitted' = submitted + 1
  /\ \/ /\ KeyQueueCap > 0 /\ Len(queue[k]) >= KeyQueueCap
        /\ queue' = [queue EXCEPT ![k] = Append(Tail(@), submitted + 1)]
        /\ dropped' = dropped \cup {Head(queue[k])}
        /\ last' = [kind |-> "Dropped", unit |-> Head(queue[k])]
     \/ /\ ~(KeyQueueCap > 0 /\ Len(queue[k]) >= KeyQueueCap)
        /\ queue' = [queue EXCEPT ![k] = Append(@, submitted + 1)]
        /\ last' = [kind |-> "Queued", unit |-> submitted + 1]
        /\ UNCHANGED dropped
  /\ UNCHANGED <<life, feeder, active, pc, cur, results, rxOpen, lastRun,
                 collected, abandoned>>

(* add_work once every worker task has ended: the unit is handed back. *)
AddWorkRefused ==
  /\ life = "open"
  /\ FeederClosed
  /\ last' = [kind |-> "ShuttingDown", unit |-> submitted + 1]
  /\ UNCHANGED <<life, feeder, active, queue, pc, cur, results, rxOpen,
                 submitted, lastRun, collected, dropped, abandoned>>

AddWork(k) == AddWorkClaim(k) \/ AddWorkQueue(k) \/ AddWorkRefused

(* shutdown(): the only feeder sender is dropped; the call then waits for   *)
(* every worker to end.                                                    *)
Shutdown ==
  /\ life = "open"
  /\ life' = "shutdown"
  /\ UNCHANGED <<feeder, active, queue, pc, cur, results, rxOpen, last,
                 submitted, lastRun, collected, dropped, abandoned>>

(* abort(), or dropping the Scheduler: every task is told to stop.  A       *)
(* pending shutdown() has already taken the handles, so dropping its future *)
(* aborts nothing.                                                         *)
Abort ==
  /\ life = "open"
  /\ life' = "aborted"
  /\ UNCHANGED <<feeder, active, queue, pc, cur, results, rxOpen, last,
                 submitted, lastRun, collected, dropped, abandoned>>

-----------------------------------------------------------------------------
(* worker_loop: take the next freshly activated key and start its chain. *)
Recv(w) ==
  /\ pc[w] = "idle"
  /\ feeder # <<>>
  /\ feeder' = Tail(feeder)
  /\ cur' = [cur EXCEPT ![w] = Head(feeder)]
  /\ pc' = [pc EXCEPT ![w] = "running"]
  /\ lastRun' = [lastRun EXCEPT ![Head(feeder).key] = Head(feeder).unit]
  /\ UNCHANGED <<life, active, queue, results, rxOpen, last, submitted,
                 collected, dropped, abandoned>>

(* Mutant: a worker leaves a closed feeder without emptying it. *)
ExitEarly(w) ==
  /\ pc[w] = "idle"
  /\ life # "open"
  /\ pc' = [pc EXCEPT ![w] = "ended"]
  /\ UNCHANGED <<life, feeder, active, queue, cur, results, rxOpen, last,
                 submitted, lastRun, collected, dropped, abandoned>>

(* Mutant: the workers keep a feeder sender alive, so it never closes. *)
ExitNeverOnShutdown(w) ==
  /\ pc[w] = "idle"
  /\ feeder = <<>>
  /\ life = "aborted"
  /\ pc' = [pc EXCEPT ![w] = "ended"]
  /\ UNCHANGED <<life, feeder, active, queue, cur, results, rxOpen, last,
                 submitted, lastRun, collected, dropped, abandoned>>

(* worker_loop: the closed feeder has been emptied, the task returns. *)
Exit(w) ==
  /\ pc[w] = "idle"
  /\ feeder = <<>>
  /\ life # "open"
  /\ pc' = [pc EXCEPT ![w] = "ended"]
  /\ UNCHANGED <<life, feeder, active, queue, cur, results, rxOpen, last,
                 submitted, lastRun, collected, dropped, abandoned>>

(* Mutant: the key is released before the result is sent. *)
RunDoneReleases(w) ==
  /\ pc[w] = "running"
  /\ pc' = [pc EXCEPT ![w] = "sending"]
  /\ active' = active \ {cur[w].key}
  /\ UNCHANGED <<life, feeder, queue, cur, results, rxOpen, last,
                 submitted, lastRun, collected, dropped, abandoned>>

(* `run(work).await' completes. *)
RunDone(w) ==
  /\ pc[w] = "running"
  /\ pc' = [pc EXCEPT ![w] = "sending"]
  /\ UNCHANGED <<life, feeder, active, queue, cur, results, rxOpen, last,
                 submitted, lastRun, collected, dropped, abandoned>>

(* `run' panics: the worker task dies where it stands, its key stays claimed. *)
Panic(w) ==
  /\ pc[w] = "running"
  /\ Cardinality({v \in Workers : pc[v] = "dead"}) < PanicBudget
  /\ pc' = [pc EXCEPT ![w] = "dead"]
  /\ UNCHANGED <<life, feeder, active, queue, cur, results, rxOpen, last,
                 submitted, lastRun, collected, dropped, abandoned>>

(* The result channel has room for the worker's result. *)
SendResult(w) ==
  /\ pc[w] = "sending"
  /\ rxOpen
  /\ Len(results) < ResultCapacity
  /\ results' = Append(results, cur[w])
  /\ pc' = [pc EXCEPT ![w] = "settling"]
  /\ UNCHANGED <<life, feeder, active, queue, cur, rxOpen, last, submitted,
                 lastRun, collected, dropped, abandoned>>

(* The receiver is gone: the send fails, full channel or not. *)
SendFails(w) ==
  /\ pc[w] = "sending"
  /\ ~rxOpen
  /\ pc' = [pc EXCEPT ![w] = "releasing"]
  /\ UNCHANGED <<life, feeder, active, queue, cur, results, rxOpen, last,
                 submitted, lastRun, collected, dropped, abandoned>>

(* run_chain after a failed send: the key is released, its queue discarded. *)
Release(w) ==
  LET k == cur[w].key IN
  /\ pc[w] = "releasing"
  /\ active' = active \ {k}
  /\ abandoned' = abandoned \cup Elems(queue[k]) \cup {cur[w].unit}
  /\ queue' = [queue EXCEPT ![k] = <<>>]
  /\ cur' = [cur EXCEPT ![w] = NoJob]
  /\ pc' = [pc EXCEPT ![w] = "idle"]
  /\ UNCHANGED <<life, feeder, results, rxOpen, last, submitted,
                 lastRun, collected, dropped>>

(* Mutant: the youngest queued unit is taken instead of the oldest. *)
NextInChainPops(w) ==
  LET k == cur[w].key
      n == Len(queue[k]) IN
  /\ pc[w] = "settling"
  /\ queue[k] # <<>>
  /\ cur' = [cur EXCEPT ![w] = [key |-> k, unit |-> queue[k][n]]]
  /\ queue' = [queue EXCEPT ![k] = SubSeq(@, 1, n - 1)]
  /\ pc' = [pc EXCEPT ![w] = "running"]
  /\ lastRun' = [lastRun EXCEPT ![k] = queue[k][n]]
  /\ UNCHANGED <<life, feeder, active, results, rxOpen, last, submitted,
                 collected, dropped, abandoned>>

(* run_chain, queue not empty: go on with the key's next unit. *)
NextInChain(w) ==
  LET k == cur[w].key IN
  /\ pc[w] = "settling"
  /\ queue[k] # <<>>
  /\ cur' = [cur EXCEPT ![w] = [key |-> k, unit |-> Head(queue[k])]]
  /\ queue' = [queue EXCEPT ![k] = Tail(@)]
  /\ pc' = [pc EXCEPT ![w] = "running"]
  /\ lastRun' = [lastRun EXCEPT ![k] = Head(queue[k])]
  /\ UNCHANGED <<life, feeder, active, results, rxOpen, last, submitted,
                 collected, dropped, abandoned>>

(* Mutant: the key is released without looking at its queue again. *)
EndChainUnchecked(w) ==
  LET k == cur[w].key IN
  /\ pc[w] = "settling"
  /\ active' = active \ {k}
  /\ cur' = [cur EXCEPT ![w] = NoJob]
  /\ pc' = [pc EXCEPT ![w] = "idle"]
  /\ UNCHANGED <<life, feeder, queue, results, rxOpen, last, submitted,
                 lastRun, collected, dropped, abandoned>>

(* run_chain, queue empty: release the key and return to the feeder. *)
EndChain(w) ==
  LET k == cur[w].key IN
  /\ pc[w] = "settling"
  /\ queue[k] = <<>>
  /\ active' = active \ {k}
  /\ cur' = [cur EXCEPT ![w] = NoJob]
  /\ pc' = [pc EXCEPT ![w] = "idle"]
  /\ UNCHANGED <<life, feeder, queue, results, rxOpen, last, submitted,
                 lastRun, collected, dropped, abandoned>>

(* Mutant: every cancelled task counts as dead with a job in its hands. *)
CancelAllDead(w) ==
  /\ life = "aborted"
  /\ pc[w] \notin {"ended", "dead"}
  /\ pc' = [pc EXCEPT ![w] = "dead"]
  /\ UNCHANGED <<life, feeder, active, queue, cur, results, rxOpen, last,
                 submitted, lastRun, collected, dropped, abandoned>>

(* An aborted task is cancelled at one of its awaits. *)
Cancel(w) ==
  /\ life = "aborted"
  /\ pc[w] \notin {"ended", "dead"}
  /\ pc' = [pc EXCEPT ![w] = IF @ = "idle" THEN "ended" ELSE "dead"]
  /\ UNCHANGED <<life, feeder, active, queue, cur, results, rxOpen, last,
                 submitted, lastRun, collected, dropped, abandoned>>

WorkerStep(w) ==
  Recv(w) \/ Exit(w) \/ RunDone(w) \/ SendResult(w) \/ SendFails(w)
  \/ Release(w) \/ NextInChain(w) \/ EndChain(w)

-----------------------------------------------------------------------------
(* The caller receives a result. *)
Collect ==
  /\ rxOpen
  /\ results # <<>>
  /\ results' = Tail(results)
  /\ collected' = collected \cup {Head(results)}
  /\ UNCHANGED <<life, feeder, active, queue, pc, cur, rxOpen, last,
                 submitted, lastRun, dropped, abandoned>>

(* The caller drops the result receiver. *)
DropReceiver ==
  /\ rxOpen
  /\ rxOpen' = FALSE
  /\ UNCHANGED <<life, feeder, active, queue, pc, cur, results, last,
                 submitted, lastRun, collected, dropped, abandoned>>

SchedNext ==
  \/ \E k \in Keys : AddWork(k)
  \/ Shutdown
  \/ Abort
  \/ \E w \in Workers : WorkerStep(w) \/ Panic(w) \/ Cancel(w)
  \/ Collect
  \/ DropReceiver

SchedSpec == SchedInit /\ [][SchedNext]_schedVars

-----------------------------------------------------------------------------
(* Properties                                                              *)

(* Every variable of the scheduler has its type. *)
SchedTypeOK ==
  /\ life \in {"open", "shutdown", "aborted"}
  /\ feeder \in Seq(Job)
  /\ active \subseteq Keys
  /\ queue \in [Keys -> Seq(Unit)]
  /\ pc \in [Workers -> WorkerState]
  /\ cur \in [Workers -> Job \cup {NoJob}]
  /\ \A w \in Workers : pc[w] \notin {"idle", "ended"} => cur[w] \in Job
  /\ results \in Seq(Job)
  /\ rxOpen \in BOOLEAN
  /\ last \in AddOutcome
  /\ submitted \in Nat
  /\ lastRun \in [Keys -> Unit]
  /\ collected \subseteq Job
  /\ dropped \subseteq Unit
  /\ abandoned \subseteq Unit

Busy(w) == pc[w] \in {"running", "sending", "settling", "releasing"}

(* Units that share a key never run concurrently: at most one worker is in  *)
(* run_chain for a key, and never while the key's head waits in the feeder. *)
SingleOwner ==
  /\ \A v, w \in Workers :
       Busy(v) /\ Busy(w) /\ cur[v].key = cur[w].key => v = w
  /\ \A w \in Workers : \A i \in 1..Len(feeder) :
       Busy(w) => cur[w].key # feeder[i].key

(* Same-key units run in the order they were submitted, each at most once:  *)
(* `run' is only ever called with a unit younger than the key's last one.   *)
RunInOrder ==
  [][\A w \in Workers :
       pc[w] # "running" /\ pc'[w] = "running"
         => cur'[w].unit > lastRun[cur'[w].key]]_schedVars

(* The caller receives the results of one key in submission order, each once. *)
ResultsInOrder ==
  [][Len(results') < Len(results) =>
       \A j \in collected : j.key = Head(results).key => j.unit < Head(results).unit]_schedVars

(* A unit waits in a queue only behind an owner of its key that is going to *)
(* drain the queue (or that died while it held the key): no unit is        *)
(* stranded behind a key that was already released.                        *)
NoStrandedUnit ==
  \A k \in Keys : queue[k] # <<>> =>
    /\ k \in active
    /\ \/ \E w \in Workers : cur[w].key = k /\ (Busy(w) \/ pc[w] = "dead")
       \/ \E i \in 1..Len(feeder) : feeder[i].key = k

(* Where a unit is: waiting, being run, or done with. *)
Waiting == {feeder[i].unit : i \in 1..Len(feeder)} \cup UNION {Elems(queue[k]) : k \in Keys}
Held == {cur[w].unit : w \in {v \in Workers : pc[v] \in {"running", "sending", "releasing", "dead"}}}

(* No accepted unit disappears: until its result is received it waits, is   *)
(* held by a worker, lies in the result channel, or was reported dropped    *)
(* or discarded with the receiver.                                         *)
NoUnitLost ==
  \A u \in 1..submitted :
    \/ u \in Waiting \cup Held \cup dropped \cup abandoned
    \/ \E i \in 1..Len(results) : results[i].unit = u
    \/ \E j \in collected : j.unit = u

(* A dropped unit never runs, and what is dropped is older than everything  *)
(* still waiting for the same key.                                         *)
DroppedNeverRuns ==
  /\ \A w \in Workers : Busy(w) => cur[w].unit \notin dropped
  /\ dropped \cap Waiting = {}

(* Through overflow, shutdown, abort and a lost receiver, each unit         *)
(* add_work accepted can be accounted for, and one reported as dropped is   *)
(* not run after all.                                                       *)
UnitsAccounted == NoUnitLost /\ DroppedNeverRuns

-----------------------------------------------------------------------------
(* What makes ownership and order inductive.                               *)

Increasing(s) == \A i, j \in 1..Len(s) : i < j => s[i] < s[j]

(* A key is in `active' while a worker drives its chain or its head waits   *)
(* in the feeder, and these exclude each other.                            *)
OwnershipInv ==
  /\ SingleOwner
  /\ \A w \in Workers : Busy(w) => cur[w].key \in active
  /\ \A i \in 1..Len(feeder) : feeder[i].key \in active
  /\ \A i, j \in 1..Len(feeder) : feeder[i].key = feeder[j].key => i = j

(* Per key, what ran, then the head in the feeder, then the queue ascend.   *)
QueueOrder(k) ==
  /\ lastRun[k] <= submitted
  /\ queue[k] # <<>> => k \in active
  /\ Increasing(queue[k])
  /\ \A i \in 1..Len(queue[k]) : lastRun[k] < queue[k][i] /\ queue[k][i] <= submitted

FeederOrder(i) ==
  LET k == feeder[i].key IN
  /\ lastRun[k] < feeder[i].unit /\ feeder[i].unit <= submitted
  /\ \A j \in 1..Len(queue[k]) : feeder[i].unit < queue[k][j]

OrderInv ==
  /\ \A k \in Keys : QueueOrder(k)
  /\ \A i \in 1..Len(feeder) : FeederOrder(i)

(* Per key, what was collected, then what is in the result channel, then    *)
(* what the owner is about to send ascend, up to the last unit that ran.    *)
ChannelOrder(i) ==
  /\ results[i].unit <= lastRun[results[i].key]
  /\ \A j \in collected : j.key = results[i].key => j.unit < results[i].unit
  /\ \A h \in 1..Len(results) :
       h < i /\ results[h].key = results[i].key => results[h].unit < results[i].unit

OwnerOrder(w) ==
  /\ cur[w].unit = lastRun[cur[w].key]
  /\ \A j \in collected : j.key = cur[w].key => j.unit < cur[w].unit
  /\ \A i \in 1..Len(results) : results[i].key = cur[w].key => results[i].unit < cur[w].unit

ResultInv ==
  /\ \A j \in collected : j.unit <= lastRun[j.key]
  /\ \A i \in 1..Len(results) : ChannelOrder(i)
  /\ \A w \in Workers : pc[w] \in {"running", "sending"} => OwnerOrder(w)

-----------------------------------------------------------------------------
(* What makes the fate of the units inductive.                             *)

(* Every key in `active' has an owner: a worker that drives its chain or    *)
(* died doing so, or its head in the feeder.                               *)
KeysOwned ==
  \A k \in active :
    \/ \E w \in Workers : cur[w].key = k /\ (Busy(w) \/ pc[w] = "dead")
    \/ \E i \in 1..Len(feeder) : feeder[i].key = k

(* Unit u of key k is in the scheduler, or was and its result was received. *)
Carries(k, u) ==
  \/ \E i \in 1..Len(feeder) : feeder[i].key = k /\ feeder[i].unit = u
  \/ \E i \in 1..Len(queue[k]) : queue[k][i] = u
  \/ \E w \in Workers : pc[w] \notin {"idle", "ended"} /\ cur[w].key = k /\ cur[w].unit = u
  \/ \E i \in 1..Len(results) : results[i].key = k /\ results[i].unit = u
  \/ \E j \in collected : j.key = k /\ j.unit = u

(* Units are numbered by the accepted calls, so each has the one key it was *)
(* submitted with, and what an owner holds has already been run.           *)
UnitsKnown ==
  /\ \A k \in Keys, u \in Nat : Carries(k, u) => 1 <= u /\ u <= submitted
  /\ \A k, h \in Keys, u \in Nat : Carries(k, u) /\ Carries(h, u) => k = h
  /\ \A w \in Workers : Busy(w) => cur[w].unit <= lastRun[cur[w].key]
  /\ \A u \in dropped : u <= submitted

=============================================================================
