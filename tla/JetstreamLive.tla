---------------------------- MODULE JetstreamLive ----------------------------
(* The live tail of a Jetstream v2 stream (jetstream/live.rs, LiveConsumer): *)
(* dial, session, deduplication by sequence, batching, dictionary recovery   *)
(* and reconnect, against a server that issues, forgets and garbles events.  *)
(* A sequence number stands for its event.                                   *)
EXTENDS Naturals, Sequences, SequencesExt, FiniteSetsExt

CONSTANTS
  MaxSeq,       \* bound: events the server issues
  Wanted,       \* the events config.filter admits
  MaxBatch,     \* config.max_batch
  Dicts,        \* dictionary ids
  Compression,  \* config.compression
  MayStop,      \* whether the consumer may answer a callback with false
  MayCancel     \* whether the CancelToken may fire

ASSUME LiveAssumption ==
  /\ MaxSeq \in Nat /\ Wanted \subseteq 1..MaxSeq
  /\ MaxBatch \in Nat \ {0}
  /\ MayStop \in BOOLEAN /\ MayCancel \in BOOLEAN /\ Compression \in BOOLEAN

VARIABLES
  server,       \* external: events issued and trimmed, current dictionary
  faults,       \* faults the environment may still inject
  cancelled,    \* the CancelToken
  consumer,     \* what the sink was handed, and whether it answered false
  stats,        \* AtomicStats: processed, sealed tip and coverage sequences
  seen,         \* the shared watermark of accepted sequences
  tail,         \* LiveConsumer: pc, StreamState, DictState, connection
  batch         \* the session's pending events

liveVars == <<server, faults, cancelled, consumer, stats, seen, tail, batch>>

Seqs == 1..MaxSeq
NoDict == "off"
TailPcs == {"off", "dict", "dial", "redict", "read", "report", "done"}
Outcomes == {"open", "backfill", "fatal", "stopped"}

LiveTypeOK ==
  /\ server \in [written : 0..MaxSeq, trimmed : 0..MaxSeq, sealed : 0..MaxSeq, dict : Dicts]
  /\ faults \in Nat
  /\ cancelled \in BOOLEAN
  /\ consumer \in [got : SUBSET Seqs, mark : 0..MaxSeq, lost : SUBSET Seqs,
                   gone : BOOLEAN, late : BOOLEAN]
  /\ stats \in [processed : 0..MaxSeq, tip : 0..MaxSeq, through : 0..MaxSeq]
  /\ seen \in 0..MaxSeq
  /\ tail \in [pc : TailPcs, last : 0..MaxSeq, next : 1..MaxSeq + 1,
               dict : Dicts \cup {NoDict}, outcome : Outcomes]
  /\ batch \in Seq(Seqs) /\ Len(batch) < MaxBatch

------------------------------------------------------------------------------
(* The sink. Handing over a batch moves it: it counts whatever the consumer  *)
(* answers (the EngineSink contract), and moves last_processed_seq.          *)

Max2(a, b) == IF a > b THEN a ELSE b

Answers == IF MayStop THEN BOOLEAN ELSE {TRUE}

(* The consumer after a callback that hands over the events of b (none for  *)
(* an error or an #info), reports the events of L as lost and answers ok.   *)
Called(c, b, L, ok) ==
  [got |-> c.got \cup ToSet(b), mark |-> IF b = <<>> THEN c.mark ELSE Last(b),
   lost |-> c.lost \cup L, gone |-> c.gone \/ ~ok, late |-> c.late \/ c.gone]

(* deliver_batch: nothing to do, and no callback, for an empty batch. *)
Flushed(c, b, ok) == IF b = <<>> THEN c ELSE Called(c, b, {}, ok)

Processed(b) ==
  [stats EXCEPT !.processed = IF b = <<>> THEN @ ELSE Max2(@, Last(b))]

(* deliver_batch(b), then, if the consumer is still there, one error        *)
(* callback that gives up the events of L.                                  *)
FlushAndReport(b, L) ==
  /\ stats' = Processed(b)
  /\ \E ok1, ok2 \in Answers :
       LET c == Flushed(consumer, b, ok1)
       IN consumer' = IF c.gone THEN c ELSE Called(c, <<>>, L, ok2)

(* deliver_batch(b) alone. *)
Flush(b) ==
  /\ stats' = Processed(b)
  /\ \E ok \in Answers : consumer' = Flushed(consumer, b, ok)

------------------------------------------------------------------------------
(* External: the server and the network. *)

ServerIssue ==
  /\ server.written < MaxSeq
  /\ server' = [server EXCEPT !.written = @ + 1]
  /\ UNCHANGED <<faults, cancelled, consumer, stats, seen, tail, batch>>

(* Retention moves on: a live cursor below it is too old from now on. *)
ServerTrim ==
  /\ server.trimmed < server.written
  /\ server' = [server EXCEPT !.trimmed = @ + 1]
  /\ UNCHANGED <<faults, cancelled, consumer, stats, seen, tail, batch>>

ServerRotateDict ==
  /\ faults > 0 /\ faults' = faults - 1
  /\ \E d \in Dicts \ {server.dict} : server' = [server EXCEPT !.dict = d]
  /\ UNCHANGED <<cancelled, consumer, stats, seen, tail, batch>>

Cancel ==
  /\ MayCancel /\ ~cancelled /\ cancelled' = TRUE
  /\ UNCHANGED <<server, faults, consumer, stats, seen, tail, batch>>

Fault == faults > 0 /\ faults' = faults - 1

------------------------------------------------------------------------------
(* LiveConsumer::run *)

(* initial_last_seq: a resume from n is exclusive, the mark is n itself. *)
StartedAt(n) ==
  [pc |-> "dict", last |-> n, next |-> 1, dict |-> NoDict, outcome |-> "open"]

Done(t, o) == [t EXCEPT !.pc = "done", !.outcome = o]

(* After callbacks: done when the consumer left, else on to pc. *)
GoOn(pc) ==
  tail' = IF consumer'.gone THEN Done(tail, "stopped") ELSE [tail EXCEPT !.pc = pc]

(* initial_dict_state, racing cancellation; any failure means no            *)
(* compression.                                                             *)
FetchDict ==
  /\ tail.pc = "dict"
  /\ \/ /\ cancelled /\ Compression
        /\ tail' = Done(tail, "open") /\ UNCHANGED faults
     \/ /\ ~Compression
        /\ tail' = [tail EXCEPT !.pc = "dial"] /\ UNCHANGED faults
     \/ /\ Compression
        /\ tail' = [tail EXCEPT !.pc = "dial", !.dict = server.dict] /\ UNCHANGED faults
     \/ /\ Compression /\ Fault
        /\ tail' = [tail EXCEPT !.pc = "dial"]
  /\ UNCHANGED <<server, cancelled, consumer, stats, seen, batch>>

(* The server has dropped events above the cursor. *)
TooOld == tail.last < server.trimmed

(* LiveBridge::deliver of a terminal CursorTooOld: not shown to the         *)
(* consumer; it sends the engine back to the archive if there is one.       *)
TooOldOutcome(canBackfill) == IF canBackfill THEN "backfill" ELSE "fatal"

UnknownDict == tail.dict # NoDict /\ tail.dict # server.dict

(* dial and handle_dial_error. The wire cursor is last_seq; the server      *)
(* replays from it inclusively, as far as it still has the event.           *)
Dial(canBackfill) ==
  /\ tail.pc = "dial"
  /\ \/ /\ cancelled
        /\ tail' = Done(tail, "open") /\ UNCHANGED faults
     \/ /\ TooOld
        /\ tail' = Done(tail, TooOldOutcome(canBackfill)) /\ UNCHANGED faults
     \/ /\ UnknownDict /\ ~TooOld
        /\ tail' = [tail EXCEPT !.pc = "redict"] /\ UNCHANGED faults
     \/ /\ ~TooOld /\ ~UnknownDict
        /\ tail' = [tail EXCEPT !.pc = "read", !.next = Max2(tail.last, server.trimmed + 1)]
        /\ UNCHANGED faults
     \/ /\ Fault
        /\ tail' = [tail EXCEPT !.pc = "report"]
  /\ UNCHANGED <<server, cancelled, consumer, stats, seen, batch>>

(* recover_dict: adopt a dictionary other than the rejected one; the same   *)
(* one again, or a failed fetch, sheds compression for good.                *)
RecoverDict ==
  /\ tail.pc = "redict"
  /\ \/ /\ cancelled
        /\ tail' = Done(tail, "open") /\ UNCHANGED faults
     \/ /\ tail' = [tail EXCEPT !.pc = "report",
                      !.dict = IF server.dict # tail.dict THEN server.dict ELSE NoDict]
        /\ UNCHANGED faults
     \/ /\ Fault
        /\ tail' = [tail EXCEPT !.pc = "report", !.dict = NoDict]
  /\ UNCHANGED <<server, cancelled, consumer, stats, seen, batch>>

(* sink.recoverable(cause), then backoff_sleep, racing cancellation. *)
ReportAndBackoff ==
  /\ tail.pc = "report"
  /\ FlushAndReport(<<>>, {})
  /\ tail' = IF consumer'.gone THEN Done(tail, "stopped")
             ELSE IF cancelled THEN Done(tail, "open")
             ELSE [tail EXCEPT !.pc = "dial"]
  /\ UNCHANGED <<server, faults, cancelled, seen, batch>>

------------------------------------------------------------------------------
(* session: one read. *)

Reading == tail.pc = "read"

(* The server has an event for this connection, and has not trimmed it. *)
Incoming == Reading /\ tail.next > server.trimmed /\ tail.next <= server.written

(* accept_event: drop what is at or below the high-water mark, advance for  *)
(* every event, batch the wanted ones and flush a full batch.               *)
Accept(fresh) ==
  /\ Incoming
  /\ LET s == tail.next
         b == IF fresh /\ s \in Wanted THEN Append(batch, s) ELSE batch
         full == Len(b) >= MaxBatch
         t == [tail EXCEPT !.next = s + 1, !.last = IF fresh THEN s ELSE @]
     IN /\ seen' = IF fresh THEN Max2(seen, s) ELSE seen
        /\ batch' = IF full THEN <<>> ELSE b
        /\ Flush(IF full THEN b ELSE <<>>)
        /\ tail' = IF full /\ consumer'.gone THEN Done(t, "stopped") ELSE t
  /\ UNCHANGED <<server, faults, cancelled>>

(* Mutant: the inclusive replay is not deduplicated. *)
AcceptEventTwice == Accept(TRUE)

AcceptEvent == Accept(tail.next > tail.last)

(* The server applies the filter too, and may leave an unwanted event out;  *)
(* a stray binary frame or unknown type is skipped likewise.                *)
SkipFrame ==
  /\ Incoming /\ tail.next \notin Wanted
  /\ tail' = [tail EXCEPT !.next = @ + 1]
  /\ UNCHANGED <<server, faults, cancelled, consumer, stats, seen, batch>>

(* A malformed event or a zstd frame that does not decode. *)
BadFrame ==
  /\ Incoming /\ Fault
  /\ FlushAndReport(batch, {tail.next} \cap Wanted)
  /\ batch' = <<>>
  /\ tail' = IF consumer'.gone THEN Done(tail, "stopped") ELSE [tail EXCEPT !.next = @ + 1]
  /\ UNCHANGED <<server, cancelled, seen>>

InfoFrame ==
  /\ Reading /\ Fault
  /\ FlushAndReport(batch, {}) /\ batch' = <<>> /\ GoOn("read")
  /\ UNCHANGED <<server, cancelled, seen>>

FlushTimer ==
  /\ Reading /\ batch # <<>>
  /\ Flush(batch) /\ batch' = <<>> /\ GoOn("read")
  /\ UNCHANGED <<server, faults, cancelled, seen>>

(* A close, a failed read, an oversized message, or an error frame that     *)
(* calls for a reconnect (ConsumerTooSlow and unknown names).               *)
ConnectionLost ==
  /\ Reading /\ Fault
  /\ Flush(batch) /\ batch' = <<>> /\ GoOn("report")
  /\ UNCHANGED <<server, cancelled, seen>>

(* An UnknownZstdDictionary error frame. *)
DictRejected ==
  /\ Reading /\ UnknownDict
  /\ Flush(batch) /\ batch' = <<>> /\ GoOn("redict")
  /\ UNCHANGED <<server, faults, cancelled, seen>>

(* A frame of a non-v2 endpoint or a fatal error frame, or CursorTooOld     *)
(* when the connection fell behind retention: flush, then the terminal      *)
(* error.                                                                   *)
FatalFrame(canBackfill) ==
  /\ Reading
  /\ Flush(batch) /\ batch' = <<>>
  /\ \/ /\ Fault
        /\ tail' = Done(tail, IF consumer'.gone THEN "stopped" ELSE "fatal")
     \/ /\ tail.next <= server.trimmed
        /\ tail' = Done(tail, IF consumer'.gone THEN "stopped" ELSE TooOldOutcome(canBackfill))
        /\ UNCHANGED faults
  /\ UNCHANGED <<server, cancelled, seen>>

(* Cancellation wins the read race: the pending batch is still delivered. *)
StopReading(b) ==
  /\ Reading /\ cancelled
  /\ Flush(b) /\ batch' = <<>>
  /\ tail' = Done(tail, IF consumer'.gone THEN "stopped" ELSE "open")
  /\ UNCHANGED <<server, faults, cancelled, seen>>

(* Mutant: cancellation drops the pending batch. *)
ReadCancelledUnflushed == StopReading(<<>>)
(* Mutant: a read does not race cancellation. *)
ReadNotCancelled == FALSE
ReadCancelled == StopReading(batch)

TailStep(canBackfill) ==
  \/ FetchDict \/ Dial(canBackfill) \/ RecoverDict \/ ReportAndBackoff
  \/ AcceptEvent \/ SkipFrame \/ FlushTimer \/ DictRejected \/ ReadCancelled
  \/ BadFrame \/ InfoFrame \/ ConnectionLost \/ FatalFrame(canBackfill)

Environment == ServerIssue \/ ServerTrim \/ ServerRotateDict \/ Cancel

TailOff == [StartedAt(0) EXCEPT !.pc = "off"]

LiveInit ==
  /\ server \in [written : 0..MaxSeq, trimmed : {0}, sealed : {0}, dict : Dicts]
  /\ cancelled = FALSE
  /\ tail = TailOff /\ batch = <<>>
==============================================================================
