--------------------------- MODULE ParallelStream ---------------------------
(***************************************************************************)
(* The verifier-aware parallel firehose path of                            *)
(* src/src/streaming/client.rs: a dispatcher task reads frames from the    *)
(* relay and feeds the keyed scheduler, a collector (the stream the        *)
(* consumer polls) batches the results and advances the cursor by          *)
(* watermark.  The scheduler is the one of Scheduler.tla: a unit of work   *)
(* is one submitted frame, seqOf says which firehose seq it carries.       *)
(*                                                                         *)
(* What the verifier answers for a frame is a free choice: an event, a     *)
(* silent drop or an error.                                                *)
(***************************************************************************)
EXTENDS Scheduler, Integers, FiniteSetsExt

CONSTANTS
  MaxSeq,        \* bound: the relay publishes seqs 1..MaxSeq
  KeyOf,         \* KeyOf[s]: the DID of the frame with seq s
  BatchSize,     \* Config::batch_size
  CtrlCapacity,  \* capacity of the control-error channel
  StartCursors,  \* possible values of Config::cursor (-1 = none)
  MaxConnects,   \* bound: connection attempts
  MaxResubscribes, \* bound: times the consumer drops the stream and subscribes again
  MaxNotices     \* bound: resync events and async errors of the verifier

Seqs == 1..MaxSeq

ASSUME StreamAssumption ==
  /\ MaxSeq \in Nat /\ KeyOf \in [Seqs -> Keys]
  /\ BatchSize \in Nat \ {0} /\ CtrlCapacity \in Nat \ {0}
  /\ StartCursors \subseteq Int /\ MaxConnects \in Nat /\ MaxNotices \in Nat
  /\ MaxResubscribes \in Nat

VARIABLES
  cursor,     \* Client::cursor, shared by dispatcher and collector
  start,      \* history: the cursor the client was created with
  inflight,   \* InflightSeqs: how often each seq is in flight
  dpc,        \* where the dispatcher is
  dseq,       \* the seq the dispatcher is handling
  dnext,      \* where it goes on after a report: "read" or "connect"
  pos,        \* the last seq the relay sent on the current connection
  connects,   \* connection attempts so far
  resubs,     \* times the stream was dropped and subscribed to again
  seqOf,      \* seqOf[u]: the seq submitted as unit u
  ctrl,       \* the control-error channel
  batch,      \* the collector's partial batch: seqs, 0 for a resync event
  pending,    \* an error waits behind a flushed batch
  ended,      \* the stream has returned None
  timer,      \* the time state.deadline stands for: "ahead" or "past"
  deadline,   \* the deadline the running poll sleeps on: "ahead" or "past"
  notices,    \* resync events and async errors received
  delivered,  \* history: seqs yielded to the consumer in a batch
  silent,     \* history: seqs the verifier dropped silently
  failed,     \* history: seqs reported as an error (verification, parse, overflow)
  missed      \* history: seqs a connection without a cursor never saw

streamVars == <<cursor, start, inflight, dpc, dseq, dnext, pos, connects, resubs,
                seqOf, ctrl, batch, pending, ended, timer, deadline, notices,
                delivered, silent, failed, missed>>
vars == <<schedVars, streamVars>>

dispVars == <<dpc, dseq, dnext, pos, connects>>
collVars == <<cursor, batch, pending, ended, timer, deadline, notices>>
histVars == <<start, resubs, delivered, silent, failed, missed>>

DispatcherState == {"connect", "read", "reserved", "overflow", "report", "exited"}

-----------------------------------------------------------------------------
(* InflightSeqs: a sorted multiset of seqs. *)
InflightAdd(f, s) == [f EXCEPT ![s] = @ + 1]
InflightRemove(f, s) == IF f[s] > 0 THEN [f EXCEPT ![s] = @ - 1] ELSE f
InflightMin(f) ==
  LET present == {s \in Seqs : f[s] > 0} IN
  IF present = {} THEN 0 ELSE Min(present)

(* Mutant: the smallest in-flight seq itself counts as processed. *)
WatermarkOffByOne(f, b) ==
  IF InflightMin(f) > 0 THEN InflightMin(f) ELSE Max({b[i] : i \in 1..Len(b)} \cup {0})

(* parallel_advance_cursor: the watermark below everything in flight, or    *)
(* the highest seq of the flushed batch when nothing is in flight.          *)
Watermark(f, b) ==
  IF InflightMin(f) > 0 THEN InflightMin(f) - 1 ELSE Max({b[i] : i \in 1..Len(b)} \cup {0})

AdvanceCursor(f, b) ==
  cursor' = IF Watermark(f, b) > 0 THEN Max({cursor, Watermark(f, b)}) ELSE cursor

(* Every return to the consumer clears state.deadline; the next poll arms   *)
(* a new one.                                                              *)
RearmDeadline == timer' = "ahead" /\ deadline' = "ahead"

(* parallel_flush of batch b with f in flight. *)
Flush(f, b) ==
  /\ AdvanceCursor(f, b)
  /\ batch' = <<>>
  /\ delivered' = delivered \cup ({b[i] : i \in 1..Len(b)} \ {0})
  /\ RearmDeadline

(* parallel_yield_error: a partial batch goes first, the error follows. *)
YieldError(f) ==
  \/ /\ batch # <<>>
     /\ pending' = TRUE
     /\ Flush(f, batch)
  \/ /\ batch = <<>>
     /\ RearmDeadline
     /\ UNCHANGED <<cursor, batch, pending, delivered>>

-----------------------------------------------------------------------------
(* The seq was handed to the consumer, dropped on purpose, or became an error. *)
Accounted(s) == s \in delivered \cup silent \cup failed

(* The seq is accounted for, or will be without being read again. *)
InHand(s) == Accounted(s) \/ inflight[s] > 0 \/ \E i \in 1..Len(batch) : batch[i] = s

StreamInit ==
  /\ SchedInit
  /\ start \in StartCursors /\ cursor = start
  /\ inflight = [s \in Seqs |-> 0]
  /\ dpc = "connect" /\ dseq = 0 /\ dnext = "connect"
  /\ pos = 0 /\ connects = 0 /\ resubs = 0
  /\ seqOf = <<>>
  /\ ctrl = <<>> /\ batch = <<>> /\ pending = FALSE /\ ended = FALSE
  /\ timer = "ahead" /\ deadline = "ahead"
  /\ notices = 0
  /\ delivered = {} /\ silent = {} /\ failed = {} /\ missed = {}

(* dispatch_loop: connect from the cursor; without one the relay starts at  *)
(* its head, wherever that is by now.                                      *)
Connect ==
  /\ dpc = "connect"
  /\ connects < MaxConnects
  /\ connects' = connects + 1
  /\ \/ cursor > 0 /\ pos' = cursor /\ UNCHANGED missed
     \/ /\ cursor <= 0
        /\ pos' \in pos..MaxSeq
        /\ missed' = missed \cup {s \in 1..pos' : ~InHand(s)}
  /\ dpc' = "read"
  /\ UNCHANGED <<schedVars, collVars, inflight, dseq, dnext, seqOf, ctrl,
                 start, resubs, delivered, silent, failed>>

(* The connection attempt fails: report it, back off, try again. *)
ConnectFails ==
  /\ dpc = "connect"
  /\ connects < MaxConnects
  /\ connects' = connects + 1
  /\ dpc' = "report" /\ dnext' = "connect"
  /\ UNCHANGED <<schedVars, collVars, histVars, inflight, dseq, pos, seqOf, ctrl>>

(* Mutant: the seq is not reserved before the frame is dispatched. *)
ReadFrameUnreserved ==
  /\ dpc = "read"
  /\ pos < MaxSeq
  /\ submitted < MaxUnits
  /\ pos' = pos + 1 /\ dseq' = pos + 1
  /\ dpc' = "reserved"
  /\ UNCHANGED <<schedVars, collVars, histVars, inflight, dnext, connects, seqOf, ctrl>>

(* A frame with a DID: its seq is reserved before it is dispatched. *)
ReadFrame ==
  /\ dpc = "read"
  /\ pos < MaxSeq
  /\ submitted < MaxUnits
  /\ pos' = pos + 1 /\ dseq' = pos + 1
  /\ inflight' = InflightAdd(inflight, pos + 1)
  /\ dpc' = "reserved"
  /\ UNCHANGED <<schedVars, collVars, histVars, dnext, connects, seqOf, ctrl>>

(* A frame that does not parse. *)
ReadGarbage ==
  /\ dpc = "read"
  /\ pos < MaxSeq
  /\ pos' = pos + 1
  /\ failed' = failed \cup {pos + 1}
  /\ dpc' = "report" /\ dnext' = "read"
  /\ UNCHANGED <<schedVars, collVars, inflight, dseq, connects, seqOf, ctrl,
                 start, resubs, delivered, silent, missed>>

(* The relay closes the connection, or the websocket fails. *)
Disconnect ==
  /\ dpc = "read"
  /\ dnext' = "connect"
  /\ dpc' \in {"connect", "report"}
  /\ UNCHANGED <<schedVars, collVars, histVars, inflight, dseq, pos, connects, seqOf, ctrl>>

(* Mutant: the seq that is released is the submitted one, not the evicted one. *)
SubmitReleasesWrong ==
  /\ dpc = "reserved"
  /\ AddWork(KeyOf[dseq])
  /\ \/ /\ last'.kind = "Queued"
        /\ seqOf' = Append(seqOf, dseq)
        /\ dpc' = "read"
        /\ UNCHANGED <<dseq, inflight, failed>>
     \/ /\ last'.kind = "Dropped"
        /\ seqOf' = Append(seqOf, dseq)
        /\ dpc' = "overflow"
        /\ UNCHANGED <<dseq, inflight, failed>>
     \/ /\ last'.kind = "ShuttingDown"
        /\ inflight' = InflightRemove(inflight, dseq)
        /\ dpc' = "exited"
        /\ UNCHANGED <<dseq, seqOf, failed>>
  /\ UNCHANGED <<collVars, dnext, pos, connects, ctrl, start, resubs, delivered, silent, missed>>

(* add_work answers: go on, or handle the evicted unit, or give up. *)
Submit ==
  /\ dpc = "reserved"
  /\ AddWork(KeyOf[dseq])
  /\ \/ /\ last'.kind = "Queued"
        /\ seqOf' = Append(seqOf, dseq)
        /\ dpc' = "read"
        /\ UNCHANGED <<dseq, inflight, failed>>
     \/ /\ last'.kind = "Dropped"
        /\ seqOf' = Append(seqOf, dseq)
        /\ dseq' = seqOf[last'.unit]
        /\ dpc' = "overflow"
        /\ UNCHANGED <<inflight, failed>>
     \/ /\ last'.kind = "ShuttingDown"
        /\ inflight' = InflightRemove(inflight, dseq)
        /\ dpc' = "exited"
        /\ UNCHANGED <<dseq, seqOf, failed>>
  /\ UNCHANGED <<collVars, dnext, pos, connects, ctrl, start, resubs, delivered, silent, missed>>

(* The evicted unit's seq leaves the in-flight set; its QueueOverflow error *)
(* is about to be sent.                                                    *)
ReleaseDropped ==
  /\ dpc = "overflow"
  /\ inflight' = InflightRemove(inflight, dseq)
  /\ failed' = failed \cup {dseq}
  /\ dpc' = "report" /\ dnext' = "read"
  /\ UNCHANGED <<schedVars, collVars, dseq, pos, connects, seqOf, ctrl,
                 start, resubs, delivered, silent, missed>>

(* ctrl_tx.send: wait for room in the control channel. *)
Report ==
  /\ dpc = "report"
  /\ Len(ctrl) < CtrlCapacity
  /\ ctrl' = Append(ctrl, "error")
  /\ dpc' = dnext
  /\ UNCHANGED <<schedVars, collVars, histVars, inflight, dseq, dnext, pos, connects, seqOf>>

DispatcherStep ==
  Connect \/ ConnectFails \/ ReadFrame \/ ReadGarbage \/ Disconnect
  \/ Submit \/ ReleaseDropped \/ Report

-----------------------------------------------------------------------------
(* The collector.  It runs only while polled; its select! is biased.       *)
Polling == ~ended /\ ~pending

(* A stashed error is yielded at the start of the next poll. *)
YieldPending ==
  /\ pending
  /\ pending' = FALSE
  /\ UNCHANGED <<schedVars, dispVars, histVars, cursor, batch, ended, timer,
                 deadline, notices, inflight, seqOf, ctrl>>

(* An error of an async resync worker, or a resync event that does not convert. *)
AsyncError ==
  /\ Polling
  /\ notices < MaxNotices
  /\ notices' = notices + 1
  /\ YieldError(inflight)
  /\ UNCHANGED <<schedVars, dispVars, ended, inflight, seqOf, ctrl, start, resubs,
                 silent, failed, missed>>

(* A control error of the dispatcher. *)
CollectCtrl ==
  /\ Polling
  /\ ctrl # <<>>
  /\ ctrl' = Tail(ctrl)
  /\ YieldError(inflight)
  /\ UNCHANGED <<schedVars, dispVars, ended, notices, inflight, seqOf, start,
                 resubs, silent, failed, missed>>

(* A resync event of the verifier joins the batch with seq 0. *)
CollectResync ==
  /\ Polling
  /\ ctrl = <<>>
  /\ notices < MaxNotices
  /\ notices' = notices + 1
  /\ \/ /\ Len(batch) + 1 >= BatchSize
        /\ Flush(inflight, Append(batch, 0))
     \/ /\ Len(batch) + 1 < BatchSize
        /\ batch' = Append(batch, 0)
        /\ UNCHANGED <<cursor, delivered, timer, deadline>>
  /\ UNCHANGED <<schedVars, dispVars, pending, ended, inflight, seqOf, ctrl, start,
                 resubs, silent, failed, missed>>

(* A verified result of the scheduler: release its seq, then batch the      *)
(* event, skip a silent drop, or yield the error.                          *)
CollectResult ==
  /\ Polling
  /\ ctrl = <<>>
  /\ Collect
  /\ LET s == seqOf[Head(results).unit]
         f == InflightRemove(inflight, s) IN
     /\ inflight' = f
     /\ \/ /\ Len(batch) + 1 >= BatchSize
           /\ Flush(f, Append(batch, s))
           /\ UNCHANGED <<pending, silent, failed>>
        \/ /\ Len(batch) + 1 < BatchSize
           /\ batch' = Append(batch, s)
           /\ UNCHANGED <<cursor, pending, delivered, timer, deadline, silent, failed>>
        \/ /\ silent' = silent \cup {s}
           /\ UNCHANGED <<cursor, batch, pending, delivered, timer, deadline, failed>>
        \/ /\ failed' = failed \cup {s}
           /\ YieldError(f)
           /\ UNCHANGED silent
  /\ UNCHANGED <<dispVars, ended, notices, seqOf, ctrl, start, resubs, missed>>

(* batch_timeout elapses. *)
Elapse ==
  /\ Polling
  /\ deadline = "ahead" \/ timer = "ahead"
  /\ timer' = "past" /\ deadline' = "past"
  /\ UNCHANGED <<schedVars, dispVars, histVars, cursor, batch, pending, ended,
                 notices, inflight, seqOf, ctrl>>

(* Mutant: a partial batch waits until it is full. *)
TickNoFlush ==
  /\ Polling
  /\ deadline = "past"
  /\ ctrl = <<>> /\ results = <<>>
  /\ IF batch = <<>> THEN AdvanceCursor(inflight, <<>>) ELSE UNCHANGED cursor
  /\ timer' = "ahead"
  /\ UNCHANGED <<schedVars, dispVars, batch, delivered, deadline, pending, ended,
                 notices, inflight, seqOf, ctrl, start, resubs, silent, failed, missed>>

(* The deadline branch: flush a partial batch; when idle, advance the       *)
(* cursor and re-arm state.deadline (but not the deadline this poll sleeps  *)
(* on).                                                                    *)
Tick ==
  /\ Polling
  /\ deadline = "past"
  /\ ctrl = <<>> /\ results = <<>>
  /\ \/ /\ batch # <<>>
        /\ Flush(inflight, batch)
     \/ /\ batch = <<>>
        /\ AdvanceCursor(inflight, <<>>)
        /\ timer' = "ahead"
        /\ UNCHANGED <<batch, delivered, deadline>>
  /\ UNCHANGED <<schedVars, dispVars, pending, ended, notices, inflight, seqOf,
                 ctrl, start, resubs, silent, failed, missed>>

(* Every worker is gone: flush what is left, then end the stream. *)
EndOfResults ==
  /\ Polling
  /\ ctrl = <<>> /\ results = <<>> /\ FeederClosed
  /\ \/ batch # <<>> /\ Flush(inflight, batch) /\ UNCHANGED ended
     \/ batch = <<>> /\ ended' = TRUE /\ UNCHANGED <<cursor, batch, delivered, timer, deadline>>
  /\ UNCHANGED <<schedVars, dispVars, pending, notices, inflight, seqOf, ctrl,
                 start, resubs, silent, failed, missed>>

CollectorStep ==
  YieldPending \/ CollectCtrl \/ CollectResult \/ Tick \/ EndOfResults

-----------------------------------------------------------------------------
(* A worker task of the scheduler. *)
Worker(w) == WorkerStep(w) /\ UNCHANGED streamVars
WorkerPanics(w) == Panic(w) /\ UNCHANGED streamVars

(* Scheduler::new of the new subscription. *)
SchedReset ==
  /\ life' = "open" /\ feeder' = <<>> /\ active' = {} /\ rxOpen' = TRUE
  /\ queue' = [k \in Keys |-> <<>>]
  /\ pc' = [w \in Workers |-> "idle"] /\ cur' = [w \in Workers |-> NoJob]
  /\ results' = <<>>
  /\ last' = [kind |-> "Queued", unit |-> 0]
  /\ submitted' = 0 /\ lastRun' = [k \in Keys |-> 0]
  /\ collected' = {} /\ dropped' = {} /\ abandoned' = {}

(* The consumer drops the stream and subscribes again: only the cursor      *)
(* survives.                                                               *)
Resubscribe ==
  /\ resubs < MaxResubscribes
  /\ resubs' = resubs + 1
  /\ SchedReset
  /\ inflight' = [s \in Seqs |-> 0]
  /\ dpc' = "connect" /\ dseq' = 0 /\ dnext' = "connect"
  /\ seqOf' = <<>> /\ ctrl' = <<>> /\ batch' = <<>> /\ pending' = FALSE
  /\ ended' = FALSE
  /\ RearmDeadline
  /\ UNCHANGED <<cursor, start, delivered, silent, failed, missed, pos, connects, notices>>

StreamNext ==
  \/ DispatcherStep
  \/ CollectorStep
  \/ AsyncError
  \/ CollectResync
  \/ Elapse
  \/ \E w \in Workers : Worker(w) \/ WorkerPanics(w)
  \/ Resubscribe

StreamSpec == StreamInit /\ [][StreamNext]_vars

(* The runtime polls woken tasks and the consumer keeps polling the stream. *)
StreamFairness ==
  /\ WF_vars(Submit) /\ WF_vars(ReleaseDropped) /\ WF_vars(Report)
  /\ \A w \in Workers : WF_vars(Worker(w))
  /\ WF_vars(YieldPending) /\ WF_vars(CollectCtrl) /\ WF_vars(CollectResult)
  /\ WF_vars(Tick) /\ WF_vars(EndOfResults) /\ WF_vars(Elapse)

LiveStreamSpec == StreamSpec /\ StreamFairness

-----------------------------------------------------------------------------
(* Properties                                                              *)

(* Every variable of the stream has its type. *)
StreamTypeOK ==
  /\ cursor \in Int /\ start \in Int
  /\ inflight \in [Seqs -> Nat]
  /\ dpc \in DispatcherState
  /\ dseq \in 0..MaxSeq
  /\ dpc \in {"reserved", "overflow"} => dseq \in Seqs
  /\ dnext \in {"read", "connect"}
  /\ pos \in Nat /\ connects \in Nat /\ resubs \in Nat
  /\ seqOf \in Seq(Seqs) /\ Len(seqOf) = submitted
  /\ ctrl \in Seq({"error"}) /\ Len(ctrl) <= CtrlCapacity
  /\ batch \in Seq(0..MaxSeq) /\ Len(batch) < BatchSize
  /\ pending \in BOOLEAN /\ ended \in BOOLEAN
  /\ timer \in {"ahead", "past"} /\ deadline \in {"ahead", "past"}
  /\ notices \in Nat
  /\ delivered \subseteq Seqs /\ silent \subseteq Seqs
  /\ failed \subseteq Seqs /\ missed \subseteq Seqs

(* A restart from the cursor never skips an event: every seq the checkpoint *)
(* covers is accounted for, save those of a connection that had no cursor.  *)
NoSkippedEvent ==
  \A s \in Seqs : start < s /\ s <= cursor => Accounted(s) \/ s \in missed

(* A seq is in flight exactly as often as frames carrying it are reserved,  *)
(* waiting, being verified or unread in the result channel: neither the     *)
(* overflow nor the reconnect path loses or keeps a reservation.           *)
UnitsInSystem ==
  Waiting \cup {cur[w].unit : w \in {v \in Workers : pc[v] \in {"running", "sending", "dead"}}}
          \cup {results[i].unit : i \in 1..Len(results)}

InflightMatches ==
  \A s \in Seqs :
    inflight[s] = Cardinality({u \in UnitsInSystem : seqOf[u] = s})
                  + (IF dpc \in {"reserved", "overflow"} /\ dseq = s THEN 1 ELSE 0)

(* The state has its type, channels and batch within their capacities, and  *)
(* a seq is reserved exactly as often as frames of it are in the system.    *)
StreamInv == StreamTypeOK /\ InflightMatches

(* Every frame that was dispatched is eventually accounted for, as long as  *)
(* the consumer keeps polling.                                             *)
EveryFrameAccounted ==
  \A s \in Seqs : (inflight[s] > 0) ~> Accounted(s)

-----------------------------------------------------------------------------
(* What makes the watermark inductive.                                     *)

(* The dispatcher holds a connection it is going to read on. *)
Connected ==
  dpc \in {"read", "reserved", "overflow"} \/ (dpc = "report" /\ dnext = "read")

(* Frames of the seq were handed to the scheduler and are in flight: what   *)
(* is left of the count when the frame now being submitted is turned away.  *)
Dispatched(s) == inflight[s] > (IF dpc = "reserved" /\ dseq = s THEN 1 ELSE 0)

(* The stream has come as far as t: t was submitted to this scheduler, the  *)
(* cursor covers it, or the connection has read past it.                   *)
Reached(t) ==
  \/ t \in Elems(seqOf)
  \/ t <= cursor
  \/ Connected /\ (IF dpc = "reserved" THEN t < pos ELSE t <= pos)

(* Nothing below what was reached is left behind: it is accounted for, in   *)
(* flight, in the batch, or missed by a connection without a cursor.       *)
CoverageInv ==
  /\ NoSkippedEvent
  /\ dpc = "reserved" => dseq = pos /\ InHand(dseq)
  /\ \A s \in Seqs : Dispatched(s) => s \in Elems(seqOf)
  /\ \A i \in 1..Len(batch) : batch[i] # 0 => batch[i] \in Elems(seqOf)
  /\ \A s, t \in Seqs :
       start < s /\ s <= t /\ Reached(t) =>
         \/ Accounted(s) \/ s \in missed \/ Dispatched(s)
         \/ \E i \in 1..Len(batch) : batch[i] = s

(* What makes the count of the reservations inductive: the scheduler of a   *)
(* live stream is open and its receiver held, and the key of a worker that  *)
(* panicked stays its own.                                                 *)
SchedulerOpen == life = "open" /\ rxOpen /\ \A w \in Workers : pc[w] \notin {"releasing", "ended"}

DeadOwners ==
  \A w \in Workers : pc[w] = "dead" =>
    /\ OwnerOrder(w)
    /\ cur[w].key \in active
    /\ \A v \in Workers : Busy(v) => cur[v].key # cur[w].key
    /\ \A i \in 1..Len(feeder) : feeder[i].key # cur[w].key

=============================================================================
