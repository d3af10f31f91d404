--------------------------- MODULE JetstreamEngine ---------------------------
(* The replay/live engine of Jetstream v2 (jetstream/engine.rs, with the     *)
(* page bookkeeping of planner.rs): archive sweep, page by page, cutover to  *)
(* the live tail, and back to the archive when the live cursor is too old.   *)
EXTENDS JetstreamLive

CONSTANTS
  SegSize,      \* events per archive segment
  ChunkSizes,   \* rows a decoded chunk may hold
  MaxStalls,    \* config.max_rebackfill_stalls
  MaxPages,     \* limits.max_plan_pages
  BeforeSeq,    \* config.before_seq of a snapshot
  Modes,        \* subset of {"live", "both", "snapshot"}
  StartAt,      \* the cursors a consumer may begin with
  MaxFaults,    \* bound: faults of one behaviour
  MaxCrashes    \* bound: restarts of the consumer

ASSUME EngineAssumption ==
  /\ SegSize \in Nat \ {0} /\ MaxStalls \in Nat \ {0} /\ MaxPages \in Nat \ {0} /\ BeforeSeq \in 1..MaxSeq
  /\ Modes \subseteq {"live", "both", "snapshot"} /\ ChunkSizes \subseteq Nat \ {0}
  /\ StartAt \subseteq 0..MaxSeq /\ MaxFaults \in Nat /\ MaxCrashes \in Nat

VARIABLES
  mode,      \* whether there is an archive source, and snapshot_only
  origin,    \* the cursor the consumer first began with
  saved,     \* the cursor on the consumer's disk
  crashes,
  eng,       \* run_projected: phase, archive floor, progress markers, stalls
  sweep,     \* PlanSweep, and the delivery floor of replay_sweep
  page,      \* replay_page: entries not yet taken, the current one, its decoded rows
  buf,       \* its pending batch
  owed,      \* rows of the current entry that failed to decode, unreported
  forgotten  \* such rows whose report a stop or a crash cut off

engineVars == <<mode, origin, saved, crashes, eng, sweep, page, buf, owed, forgotten>>
vars == <<liveVars, engineVars>>

NoTip == MaxSeq + 1
NoEntry == [idx |-> 0, lo |-> 1, hi |-> 0, whole |-> TRUE]

EngineTypeOK ==
  /\ LiveTypeOK
  /\ mode \in Modes /\ origin \in 0..MaxSeq /\ saved \in 0..MaxSeq /\ crashes \in 0..MaxCrashes
  /\ eng.phase \in {"top", "plan", "page", "entry", "rows", "cutover", "live", "ended"}
  /\ eng.after \in 0..MaxSeq /\ eng.stalls \in 0..MaxStalls
  /\ sweep \in [tip : 0..NoTip, through : 0..MaxSeq, index : Nat, pages : 0..MaxPages,
                floor : 0..MaxSeq, after : 0..MaxSeq]
  /\ buf \in Seq(Seqs) /\ Len(buf) < MaxBatch
  /\ owed \subseteq Wanted /\ forgotten \subseteq Wanted

------------------------------------------------------------------------------
(* External: the archive. *)

SegIndex(s) == (s + SegSize - 1) \div SegSize

(* Sealing a segment makes its events available to planSnapshot. *)
ServerSeal ==
  /\ server.sealed + SegSize <= server.written
  /\ server' = [server EXCEPT !.sealed = @ + SegSize]
  /\ UNCHANGED <<faults, cancelled, consumer, stats, seen, tail, batch, engineVars>>

(* The entries of a page over (a, t]: one per segment, whole or as blocks   *)
(* of the requested rows only.                                              *)
Entry(i, a, t, w) ==
  LET lo == (i - 1) * SegSize + 1
      hi == i * SegSize
  IN [idx |-> i, lo |-> IF w THEN lo ELSE Max2(lo, a + 1),
      hi |-> IF w \/ hi < t THEN hi ELSE t, whole |-> w]

Entries(a, t, w) ==
  IF t <= a THEN <<>>
  ELSE LET first == SegIndex(a + 1)
       IN [k \in 1..(SegIndex(t) - first + 1) |-> Entry(first + k - 1, a, t, w)]

Answer(tip, t, es, bad) == [tip |-> tip, through |-> t, entries |-> es, bad |-> bad]

(* The pages a server may answer with. Its plan covers (through, t]; a      *)
(* faulty one reports another tip, no coverage, or an entry twice or early. *)
Pages ==
  LET a == sweep.through
      tip == IF sweep.tip # NoTip THEN sweep.tip
             ELSE IF mode = "snapshot" /\ BeforeSeq < server.sealed THEN BeforeSeq
             ELSE server.sealed
      ends == {t \in 0..tip : t > a \/ t = tip}
      sealedEnds == {t \in ends : t = tip \/ t % SegSize = 0}
      whole == Entries(a, tip, TRUE)
  IN {Answer(tip, t, Entries(a, t, FALSE), FALSE) : t \in ends}
     \cup {Answer(tip, t, Entries(a, t, TRUE), FALSE) : t \in sealedEnds}
     \cup {Answer(server.sealed, a, <<>>, TRUE), Answer(tip, tip, whole \o whole, TRUE),
           Answer(tip, tip, Reverse(whole), TRUE)}

------------------------------------------------------------------------------
(* run_projected *)

CanBackfill == mode # "live"

Ended == eng.phase = "ended"
End(res) == eng' = [eng EXCEPT !.phase = "ended", !.result = res]
To(ph) == eng' = [eng EXCEPT !.phase = ph]

ToOrStop(ph) == IF consumer'.gone THEN End("ok") ELSE To(ph)

StartSweep ==
  /\ eng.phase = "top"
  /\ \/ cancelled /\ End("ok") /\ UNCHANGED sweep
     \/ ~cancelled /\ ~CanBackfill /\ To("cutover") /\ UNCHANGED sweep
     \/ /\ ~cancelled /\ CanBackfill /\ To("plan")
        /\ sweep' = [tip |-> NoTip, through |-> eng.after, index |-> 0, pages |-> 0,
                     floor |-> eng.after, after |-> eng.after]
  /\ UNCHANGED <<liveVars, mode, origin, saved, crashes, page, buf, owed, forgotten>>

(* PlanSweep::absorb refuses a page over budget, with another tip, with     *)
(* decreasing segment indices, or that does not advance below the tip.      *)
PageRejected(p) ==
  LET idxs == <<sweep.index>> \o [i \in DOMAIN p.entries |-> p.entries[i].idx]
  IN \/ sweep.pages + 1 > MaxPages
     \/ sweep.tip # NoTip /\ p.tip # sweep.tip
     \/ \E i \in 1..Len(idxs) - 1 : idxs[i + 1] < idxs[i]
     \/ p.through <= sweep.through /\ p.through < p.tip

(* One turn of replay_sweep up to the downloads: plan a page and absorb it. *)
PlanPage ==
  /\ eng.phase = "plan"
  /\ \/ /\ cancelled
        /\ End("ok") /\ UNCHANGED <<faults, stats, sweep, page>>
     \/ /\ Fault   \* the request failed for good
        /\ End("fatal") /\ UNCHANGED <<stats, sweep, page>>
     \/ \E p \in Pages :
          /\ IF p.bad THEN Fault ELSE UNCHANGED faults
          /\ IF PageRejected(p)
             THEN End("fatal") /\ UNCHANGED <<stats, sweep, page>>
             ELSE /\ To("page")
                  /\ sweep' = [sweep EXCEPT
                       !.tip = p.tip, !.pages = @ + 1, !.after = sweep.through,
                       !.through = Max2(@, p.through),
                       !.index = IF p.entries = <<>> THEN @ ELSE Last(p.entries).idx]
                  /\ stats' = [stats EXCEPT !.tip = Max2(@, p.tip)]
                  /\ page' = [entries |-> p.entries, entry |-> NoEntry, rows |-> {}]
  /\ UNCHANGED <<server, cancelled, consumer, seen, tail, batch,
                 mode, origin, saved, crashes, buf, owed, forgotten>>

(* The end of a page: only now is it counted as covered. *)
FinishPage ==
  /\ eng.phase = "page" /\ page.entries = <<>>
  /\ stats' = [stats EXCEPT !.through = Max2(@, sweep.through)]
  /\ IF sweep.through < sweep.tip THEN To("plan")
     ELSE IF mode = "snapshot" THEN End("ok")
     ELSE To("cutover")
  /\ UNCHANGED <<server, faults, cancelled, consumer, seen, tail, batch,
                 mode, origin, saved, crashes, sweep, page, buf, owed, forgotten>>

(* The rows of an entry inside the window (page floor, tip]. *)
InWindow(e) == {s \in Wanted \cap e.lo..e.hi : s > sweep.after /\ s <= sweep.tip}

(* replay_page: downloads.next(). A failed entry is reported in order and   *)
(* the sweep goes on.                                                       *)
NextEntry ==
  /\ eng.phase = "page" /\ page.entries # <<>>
  /\ LET e == Head(page.entries) IN
     \/ /\ cancelled
        /\ Flush(buf) /\ buf' = <<>> /\ End("ok")
        /\ UNCHANGED <<faults, page>>
     \/ /\ ~cancelled /\ Fault
        /\ FlushAndReport(buf, InWindow(e)) /\ buf' = <<>>
        /\ page' = [page EXCEPT !.entries = Tail(@)]
        /\ ToOrStop("page")
     \/ /\ ~cancelled
        /\ page' = [page EXCEPT !.entries = Tail(@), !.entry = e]
        /\ To("entry")
        /\ UNCHANGED <<faults, consumer, stats, buf>>
  /\ UNCHANGED <<server, cancelled, seen, tail, batch,
                 mode, origin, saved, crashes, sweep, owed, forgotten>>

(* chunks.next(): some more rows of the entry, of which those in bad do not *)
(* decode; a sparse entry may fail part way.                                *)
NextChunk ==
  /\ eng.phase = "entry" /\ page.entry.lo <= page.entry.hi /\ ~cancelled
  /\ \E n \in ChunkSizes :
       LET e == page.entry
           end == IF e.lo + n - 1 < e.hi THEN e.lo + n - 1 ELSE e.hi
           chunk == Wanted \cap e.lo..end
       IN \E bad \in SUBSET chunk :
            /\ IF bad = {} THEN UNCHANGED faults
               ELSE faults >= Cardinality(bad) /\ faults' = faults - Cardinality(bad)
            /\ owed' = owed \cup bad
            /\ page' = [page EXCEPT !.entry.lo = end + 1,
                          !.rows = InWindow([e EXCEPT !.hi = end]) \ bad]
            /\ To("rows")
  /\ UNCHANGED <<server, cancelled, consumer, stats, seen, tail, batch,
                 mode, origin, saved, crashes, sweep, buf, forgotten>>

(* The loop over the rows of a chunk, in the order they are stored: collapse *)
(* the boundary event, refuse one that goes back, batch the others and      *)
(* flush a full batch.                                                      *)
ReplayRow ==
  /\ eng.phase = "rows" /\ page.rows # {}
  /\ LET s == Min(page.rows)
         b == Append(buf, s)
     IN \/ /\ s <= sweep.after \/ s = sweep.floor
           /\ To("rows") /\ UNCHANGED <<consumer, stats, sweep, buf>>
        \/ /\ s > sweep.after /\ s < sweep.floor
           /\ End("fatal") /\ UNCHANGED <<consumer, stats, sweep, buf>>
        \/ /\ s > sweep.after /\ s > sweep.floor
           /\ sweep' = [sweep EXCEPT !.floor = s]
           /\ IF Len(b) >= MaxBatch
              THEN Flush(b) /\ buf' = <<>> /\ ToOrStop("rows")
              ELSE buf' = b /\ To("rows") /\ UNCHANGED <<consumer, stats>>
  /\ page' = [page EXCEPT !.rows = @ \ {Min(@)}]
  /\ UNCHANGED <<server, faults, cancelled, seen, tail, batch,
                 mode, origin, saved, crashes, owed, forgotten>>

(* The end of a chunk: flush. *)
FinishChunk ==
  /\ eng.phase = "rows" /\ page.rows = {}
  /\ Flush(buf) /\ buf' = <<>> /\ ToOrStop("entry")
  /\ UNCHANGED <<server, faults, cancelled, seen, tail, batch,
                 mode, origin, saved, crashes, sweep, page, owed, forgotten>>

(* The end of an entry, or its failure part way: the bad rows of all its    *)
(* chunks are reported, then the failure, and the next entry is taken.      *)
FinishEntry ==
  /\ eng.phase = "entry" /\ ~cancelled
  /\ \/ page.entry.lo > page.entry.hi /\ UNCHANGED faults
     \/ page.entry.lo <= page.entry.hi /\ ~page.entry.whole /\ Fault
  /\ LET rest == InWindow(page.entry)
     IN IF owed = {} /\ rest = {} THEN UNCHANGED <<consumer, stats>>
        ELSE FlushAndReport(<<>>, owed \cup rest)
  /\ owed' = owed \ consumer'.lost
  /\ page' = [page EXCEPT !.entry = NoEntry]
  /\ ToOrStop("page")
  /\ UNCHANGED <<server, cancelled, seen, tail, batch,
                 mode, origin, saved, crashes, sweep, buf, forgotten>>

(* Cancellation seen between chunks: what was decoded is delivered, the     *)
(* entry is abandoned and with it the reports it still owed.                *)
EntryCancelled ==
  /\ eng.phase \in {"entry", "rows"} /\ cancelled
  /\ eng.phase = "rows" => page.rows = {}
  /\ Flush(buf) /\ buf' = <<>> /\ End("ok")
  /\ UNCHANGED <<server, faults, cancelled, seen, tail, batch,
                 mode, origin, saved, crashes, sweep, page, owed, forgotten>>

(* Mutant: the tail resumes one above the boundary. *)
ResumeAfterBoundary == Max2(Max2(stats.tip, stats.processed), seen) + 1

(* The live tail resumes exclusively from the boundary covered so far. *)
ResumeFrom == Max2(Max2(stats.tip, stats.processed), seen)

Cutover ==
  /\ eng.phase = "cutover"
  /\ IF cancelled THEN End("ok") /\ UNCHANGED tail
     ELSE /\ To("live")
          /\ tail' = StartedAt(IF CanBackfill THEN ResumeFrom ELSE eng.after)
  /\ UNCHANGED <<server, faults, cancelled, consumer, stats, seen, batch,
                 mode, origin, saved, crashes, sweep, page, buf, owed, forgotten>>

LiveStep ==
  /\ eng.phase = "live"
  /\ TailStep(CanBackfill)
  /\ UNCHANGED engineVars

(* The outcome of the live phase. CursorTooOld re-enters the archive from   *)
(* the highest accepted sequence, unless nothing has advanced for           *)
(* MaxStalls cycles.                                                        *)
LeaveLive(slack) ==
  /\ eng.phase = "live" /\ tail.pc = "done"
  /\ tail' = TailOff
  /\ LET now == <<stats.processed, seen, stats.tip>>
         advanced == \E i \in 1..3 : now[i] + slack > eng.prev[i]
         stalls == IF advanced THEN 0 ELSE eng.stalls + 1
     IN CASE tail.outcome \in {"open", "stopped"} -> End("ok")
          [] tail.outcome = "fatal" -> End("fatal")
          [] tail.outcome = "backfill" ->
               IF stalls >= MaxStalls THEN End("no_progress")
               ELSE eng' = [eng EXCEPT !.phase = "top", !.stalls = stalls, !.prev = now,
                                       !.after = Max2(stats.processed, seen)]
  /\ UNCHANGED <<server, faults, cancelled, consumer, stats, seen, batch,
                 mode, origin, saved, crashes, sweep, page, buf, owed, forgotten>>

(* Mutant: an unchanged marker counts as progress. *)
AfterLiveEqualIsProgress == LeaveLive(1)
AfterLive == LeaveLive(0)

------------------------------------------------------------------------------
(* The consumer: its disk, and its restarts with a new engine. *)

SaveCursor ==
  /\ saved # consumer.mark /\ saved' = consumer.mark
  /\ UNCHANGED <<liveVars, mode, origin, crashes, eng, sweep, page, buf, owed, forgotten>>

FreshEngine(c) ==
  [phase |-> "top", after |-> c, prev |-> <<c, c, 0>>, stalls |-> 0, result |-> "none"]

Sweep0(c) == [tip |-> NoTip, through |-> c, index |-> 0, pages |-> 0, floor |-> c, after |-> c]
Page0 == [entries |-> <<>>, entry |-> NoEntry, rows |-> {}]

Restart ==
  /\ crashes < MaxCrashes /\ crashes' = crashes + 1
  /\ consumer' = [consumer EXCEPT !.mark = saved, !.gone = FALSE]
  /\ cancelled' = FALSE
  /\ stats' = [processed |-> saved, tip |-> 0, through |-> 0]
  /\ seen' = saved
  /\ tail' = TailOff /\ batch' = <<>>
  /\ eng' = FreshEngine(saved) /\ sweep' = Sweep0(saved) /\ page' = Page0
  /\ buf' = <<>> /\ owed' = {} /\ forgotten' = forgotten \cup owed
  /\ UNCHANGED <<server, faults, mode, origin, saved>>

EngineInit ==
  /\ LiveInit
  /\ mode \in Modes
  /\ origin \in StartAt /\ saved = origin /\ server.written = origin
  /\ consumer = [got |-> {}, mark |-> origin, lost |-> {}, gone |-> FALSE, late |-> FALSE]
  /\ stats = [processed |-> origin, tip |-> 0, through |-> 0]
  /\ seen = origin
  /\ faults = MaxFaults /\ crashes = 0
  /\ eng = FreshEngine(origin) /\ sweep = Sweep0(origin) /\ page = Page0
  /\ buf = <<>> /\ owed = {} /\ forgotten = {}

EngineStep ==
  \/ StartSweep \/ PlanPage \/ FinishPage \/ NextEntry \/ NextChunk \/ ReplayRow
  \/ FinishChunk \/ FinishEntry \/ EntryCancelled \/ Cutover \/ LiveStep \/ AfterLive

EngineEnvironment ==
  \/ (Environment /\ UNCHANGED engineVars) \/ ServerSeal \/ SaveCursor \/ Restart

EngineNext == EngineStep \/ EngineEnvironment
EngineSpec == EngineInit /\ [][EngineNext]_vars
------------------------------------------------------------------------------
(* Properties *)

Excused == consumer.lost \cup owed \cup forgotten
Accounted(s) == s \in consumer.got \cup Excused

(* The engine keeps the contract of OrderedFeed: in order, once, no wanted   *)
(* event passed over, over archive replay, cutover, re-backfill and restart. *)
Feed == INSTANCE OrderedFeed WITH
  mark <- consumer.mark, got <- consumer.got, excused <- Excused

ImplementsFeed == Feed!FeedSpec

(* The seam: whatever is at or below the live tail's high-water mark, which  *)
(* deduplication will drop from now on, was delivered, is in the pending     *)
(* batch or was given up (engine.rs: cut over at max(S, last_processed_seq,  *)
(* live_seen_seq)).                                                          *)
SeamCovered ==
  eng.phase = "live" =>
    \A s \in Wanted : origin < s /\ s <= tail.last =>
      Accounted(s) \/ s \in ToSet(batch)

(* planned_through_seq never claims undelivered work (engine.rs: coverage is *)
(* published only after the page's work is delivered).                       *)
CoverageIsHonest ==
  \A s \in Wanted : origin < s /\ s <= stats.through => Accounted(s)

(* last_processed_seq, which a caller may persist, is what was delivered,    *)
(* also after a fatal error.                                                 *)
CursorConsistent == stats.processed = consumer.mark

(* A run that ends without an error and was not stopped by the consumer, a   *)
(* cancelled one included, has delivered every event it had accepted.        *)
CleanEnd ==
  eng.phase = "ended" /\ eng.result = "ok" /\ ~consumer.gone =>
    \A s \in Wanted : origin < s /\ s <= Max2(seen, sweep.floor) => Accounted(s)

(* Once a callback answered false the sink is not called again.              *)
NoCallAfterStop == ~consumer.late

(* The cursors and the type of the state: what the engine publishes, and the *)
(* mark from which the tail resumes and deduplicates, never cover an event   *)
(* that was not delivered, pending or given up.                              *)
EngineInv == EngineTypeOK /\ SeamCovered /\ CoverageIsHonest /\ CursorConsistent

(* However a run ends: cancelled or done, it owes the consumer nothing it    *)
(* had accepted; stopped by the consumer, it does not call it again.         *)
StopsCleanly == CleanEnd /\ NoCallAfterStop

(* Scheduling: the runtime polls the engine; the server and the consumer     *)
(* owe nothing.                                                              *)
LiveEngineSpec == EngineSpec /\ WF_vars(EngineStep)

(* Every wanted event the server issues is delivered or given up, or the run *)
(* ends: no reconnect or re-backfill cycle goes on for ever, and no partial  *)
(* batch waits for ever.                                                     *)
EveryEventArrives ==
  \A s \in Wanted :
    (s <= server.written /\ s > origin) ~> (Accounted(s) \/ Ended \/ crashes > 0)

(* Cancellation ends the run.                                                *)
CancelEnds == cancelled ~> (Ended \/ ~cancelled)

==============================================================================
