---------------------------- MODULE SerialStream ----------------------------
(***************************************************************************)
(* The serial streams of src/src/streaming/client.rs: subscribe_serial,    *)
(* with and without a verifier, and the Jetstream v1 stream, which is the  *)
(* same loop over another protocol.  One task polls the stream: it takes   *)
(* what the verifier's jobs have queued, connects, reads frames into a     *)
(* batch and yields the batch, moving the shared cursor as it does.  The   *)
(* consumer saves the cursor now and then, may drop the stream and         *)
(* subscribe again, and may crash.                                         *)
(*                                                                         *)
(* An event is its seq (time_us for Jetstream); the commits of a repo are  *)
(* its seqs, so the stored chain of a repo is the last seq verified.       *)
(***************************************************************************)
EXTENDS Naturals, Sequences, FiniteSets

CONSTANTS
  MaxSeq,        \* bound: events published
  Wanted,        \* events; the other seqs are #info and #sync frames
  Repos, RepoOf, \* RepoOf[s]: the repo event s belongs to
  Modes,         \* "plain", "jetstream", "verified", "async" (async_resync_workers > 0)
  StartAt,       \* the cursors a client is made with, 0 for none
  BatchSize,
  MaxFaults,     \* bound: connections lost, bad frames and failed resyncs
  MaxRestarts    \* bound: crashes and new subscriptions

Seqs == 1..MaxSeq

ASSUME SerialAssumption ==
  /\ MaxSeq \in Nat /\ MaxFaults \in Nat /\ MaxRestarts \in Nat /\ BatchSize \in Nat \ {0}
  /\ Wanted \subseteq Seqs /\ RepoOf \in [Wanted -> Repos]
  /\ Modes \subseteq {"plain", "jetstream", "verified", "async"}
  /\ StartAt \subseteq 0..MaxSeq

VARIABLES
  mode, persistent, origin, \* configuration: persistent is a StateStore on disk
  server,   \* [head, floor]: published and no longer retained seqs
  ws,       \* [on, at]: the connection and the seq it has got to
  cursor,   \* the cursor shared with Client::cursor, 0 for none
  batch, dropped, perr,  \* BatchState: batch, dropped_watermark, pending_error
  chain,    \* the verifier's StateStore: last seq of each repo
  job,      \* job[r] = [on, buf]: an asynchronous resync and its buffered commits
  channel,  \* [events, errors]: what jobs have queued for the stream
  listening, \* the stream owns the verifier's receivers, which can be taken once
  saved,    \* the cursor the consumer saved
  got,      \* history: events handed over
  healed,   \* history: events whose content a resync handed over
  reported, \* history: events reported as errors, or that no connection had
  quiet,    \* history: events the verifier dropped without a word
  atRisk,   \* history: events in memory only when the stream or the process ended
  faults, restarts

confVars == <<mode, persistent, origin>>
batchVars == <<batch, dropped, perr>>
verifierVars == <<chain, job, channel>>
consumerVars == <<saved, got, healed, reported, quiet>>
vars == <<confVars, server, ws, cursor, batchVars, verifierVars, listening,
          consumerVars, atRisk, faults, restarts>>

NoError == [on |-> FALSE, of |-> {}]
Error(S) == [on |-> TRUE, of |-> S]
Idle == [on |-> FALSE, buf |-> {}]
Offline == [on |-> FALSE, at |-> 0]

(* A batch item: an event of the stream, or a resync's with seq 0. *)
EventItem(s) == [seq |-> s, content |-> {s}]
ResyncItem(S) == [seq |-> 0, content |-> S]
Items(b) == {b[i] : i \in 1..Len(b)}
Carried(b) == UNION {x.content : x \in Items(b)}
Top(S) == IF S = {} THEN 0 ELSE CHOOSE s \in S : \A t \in S : t <= s

Of(r) == {s \in Wanted : RepoOf[s] = r}
Before(s) == Top({t \in Of(RepoOf[s]) : t < s})

SerialInit ==
  /\ mode \in Modes /\ origin \in StartAt
  /\ persistent \in BOOLEAN /\ (persistent => mode \in {"verified", "async"})
  /\ server = [head |-> origin, floor |-> 0]
  /\ ws = Offline /\ cursor = origin
  /\ batch = <<>> /\ dropped = 0 /\ perr = NoError
  /\ chain = [r \in Repos |-> 0]
  /\ job = [r \in Repos |-> Idle]
  /\ channel = [events |-> <<>>, errors |-> <<>>]
  /\ listening = (mode = "async")
  /\ saved = origin /\ got = {} /\ healed = {} /\ reported = {} /\ quiet = {}
  /\ atRisk = {} /\ faults = 0 /\ restarts = 0

-----------------------------------------------------------------------------
(* What the client cannot see: the relay, and the consumer's own choices. *)

Publish ==
  /\ server.head < MaxSeq
  /\ server' = [server EXCEPT !.head = @ + 1]
  /\ UNCHANGED <<confVars, ws, cursor, batchVars, verifierVars, listening, consumerVars,
                 atRisk, faults, restarts>>

(* The relay lets go, once, of everything it has. *)
Trim ==
  /\ server.floor = 0
  /\ server' = [server EXCEPT !.floor = server.head]
  /\ UNCHANGED <<confVars, ws, cursor, batchVars, verifierVars, listening, consumerVars,
                 atRisk, faults, restarts>>

Save ==
  /\ saved' = cursor
  /\ UNCHANGED <<confVars, server, ws, cursor, batchVars, verifierVars, listening,
                 got, healed, reported, quiet, atRisk, faults, restarts>>

(* Something goes wrong: a connection, a frame, a download, the store. *)
Fault == faults < MaxFaults /\ faults' = faults + 1

-----------------------------------------------------------------------------
(* Yielding. *)

(* Mutant: the silently dropped frames do not count. *)
CursorAfterNoWatermark(b, mark) == Top({cursor, Top({x.seq : x \in Items(b)})})

(* update_firehose_cursor, update_jetstream_cursor *)
CursorAfter(b, mark) == Top({cursor, mark, Top({x.seq : x \in Items(b)})})

(* The batch b goes to the consumer, and the cursor moves up before it does. *)
Yield(b) ==
  /\ cursor' = CursorAfter(b, dropped)
  /\ batch' = <<>> /\ dropped' = 0
  /\ got' = got \cup {x.seq : x \in {y \in Items(b) : y.seq > 0}}
  /\ healed' = healed \cup UNION {x.content : x \in {y \in Items(b) : y.seq = 0}}

Hold == UNCHANGED <<cursor, batch, dropped, got, healed>>

(* An item joins the batch, which is yielded when it is full. *)
Push(x) ==
  IF Len(batch) + 1 >= BatchSize THEN Yield(Append(batch, x))
  ELSE batch' = Append(batch, x) /\ UNCHANGED <<cursor, dropped, got, healed>>

(* Mutant: the error is yielded in the place of the partial batch. *)
FailDrops(S) ==
  /\ batch' = <<>> /\ reported' = reported \cup S
  /\ UNCHANGED <<perr, cursor, dropped, got, healed>>

(* An error about the events S: after the partial batch, if there is one. *)
Fail(S) ==
  \/ /\ batch # <<>>
     /\ Yield(batch) /\ perr' = Error(S) /\ UNCHANGED reported
  \/ /\ batch = <<>>
     /\ reported' = reported \cup S /\ UNCHANGED perr /\ Hold

YieldPending ==
  /\ perr.on
  /\ reported' = reported \cup perr.of
  /\ perr' = NoError
  /\ Hold
  /\ UNCHANGED <<confVars, server, ws, verifierVars, listening, saved, quiet, atRisk,
                 faults, restarts>>

(* The batch deadline passes: flush, or move the cursor over what was dropped. *)
Timer ==
  /\ ~perr.on /\ ws.on
  /\ Yield(batch)
  /\ UNCHANGED <<confVars, server, ws, perr, verifierVars, listening, saved, reported, quiet,
                 atRisk, faults, restarts>>

-----------------------------------------------------------------------------
(* The connection. *)

(* connect_ws sends the cursor only when there is one; what the relay no    *)
(* longer has, or published before a connection without cursor, is missed.  *)
Connect ==
  LET at == IF cursor > 0 THEN Top({cursor, server.floor}) ELSE server.head IN
  /\ ~perr.on /\ ~ws.on
  /\ ws' = [on |-> TRUE, at |-> at]
  /\ reported' = reported \cup {s \in Seqs : cursor < s /\ s <= at}
  /\ Hold
  /\ UNCHANGED <<confVars, server, perr, verifierVars, listening, saved, quiet, atRisk,
                 faults, restarts>>

ConnectFails ==
  /\ ~perr.on /\ ~ws.on
  /\ Fail({})
  /\ UNCHANGED <<confVars, server, ws, verifierVars, listening, saved, quiet, atRisk,
                 faults, restarts>>

(* The server closes: the batch, or the drops alone, move the cursor. *)
Closed ==
  /\ ~perr.on /\ ws.on /\ Fault
  /\ ws' = Offline
  /\ Yield(batch)
  /\ UNCHANGED <<confVars, server, perr, verifierVars, listening, saved, reported, quiet,
                 atRisk, restarts>>

(* The connection breaks: the same, and then an error. *)
Broken ==
  /\ ~perr.on /\ ws.on /\ Fault
  /\ ws' = Offline
  /\ Yield(batch)
  /\ perr' = IF batch = <<>> THEN perr ELSE Error({})
  /\ UNCHANGED <<confVars, server, verifierVars, listening, saved, reported, quiet, atRisk,
                 restarts>>

-----------------------------------------------------------------------------
(* Frames. *)

(* The next frame of the connection; trimming does not cut a stream short. *)
Incoming(s) == ~perr.on /\ ws.on /\ s = ws.at + 1 /\ s <= server.head

Read(s) == ws' = [ws EXCEPT !.at = s]

(* Info and sync frames do not parse to an event; Jetstream has pings. *)
SkipFrame(s) ==
  /\ Incoming(s) /\ s \notin Wanted
  /\ mode \in {"plain", "jetstream"} /\ Read(s) /\ Hold
  /\ UNCHANGED <<confVars, server, perr, verifierVars, listening, saved, reported, quiet,
                 atRisk, faults, restarts>>

PlainFrame(s) ==
  /\ Incoming(s) /\ s \in Wanted
  /\ mode \in {"plain", "jetstream"}
  /\ Read(s) /\ Push(EventItem(s))
  /\ UNCHANGED <<confVars, server, perr, verifierVars, listening, saved, reported, quiet,
                 atRisk, faults, restarts>>

(* A frame that does not parse, or that the verifier rejects. *)
BadFrame(s) ==
  /\ Incoming(s) /\ Fault
  /\ Read(s) /\ Fail({s})
  /\ UNCHANGED <<confVars, server, verifierVars, listening, saved, quiet, atRisk, restarts>>

Verified == mode \in {"verified", "async"}

(* A commit the stored chain leads up to, or the first of its repo. *)
Chains(s) == chain[RepoOf[s]] \in {0, Before(s)}

(* verify_raw_event: the chain is saved before the event is in the batch. *)
VerifiedFrame(s) ==
  /\ Incoming(s) /\ s \in Wanted /\ Verified
  /\ ~job[RepoOf[s]].on /\ chain[RepoOf[s]] < s /\ Chains(s)
  /\ Read(s) /\ Push(EventItem(s))
  /\ chain' = [chain EXCEPT ![RepoOf[s]] = s]
  /\ UNCHANGED <<confVars, server, perr, job, channel, listening, saved, reported, quiet,
                 atRisk, faults, restarts>>

(* A frame without an event: the seq counts for the next cursor. *)
Drop(s) ==
  /\ dropped' = Top({dropped, s})
  /\ quiet' = quiet \cup {s} /\ UNCHANGED reported
  /\ UNCHANGED <<cursor, batch, got, healed>>

(* A rev replay, or a #sync frame that changes nothing. *)
ReplayedFrame(s) ==
  /\ Incoming(s) /\ Verified
  /\ s \in Wanted => ~job[RepoOf[s]].on /\ s <= chain[RepoOf[s]]
  /\ Read(s) /\ Drop(s)
  /\ UNCHANGED <<confVars, server, perr, verifierVars, listening, saved, atRisk, faults,
                 restarts>>

(* Mutant: the commit that broke the chain is saved as it is queued. *)
QueuedFrameSaves(s) ==
  LET r == RepoOf[s] IN
  /\ Incoming(s) /\ s \in Wanted /\ mode = "async"
  /\ job[r].on \/ (s > chain[r] /\ ~Chains(s))
  /\ Read(s) /\ Drop(s)
  /\ job' = [job EXCEPT ![r] = [on |-> TRUE, buf |-> @.buf \cup {s}]]
  /\ chain' = [chain EXCEPT ![r] = s]
  /\ UNCHANGED <<confVars, server, perr, channel, listening, saved, atRisk, faults,
                 restarts>>

(* A commit that breaks the chain starts a resync, and waits for it as do   *)
(* the repo's later commits.                                                *)
QueuedFrame(s) ==
  LET r == RepoOf[s] IN
  /\ Incoming(s) /\ s \in Wanted /\ mode = "async"
  /\ job[r].on \/ (s > chain[r] /\ ~Chains(s))
  /\ Read(s) /\ Drop(s)
  /\ job' = [job EXCEPT ![r] = [on |-> TRUE, buf |-> @.buf \cup {s}]]
  /\ UNCHANGED <<confVars, server, perr, chain, channel, listening, saved, atRisk, faults,
                 restarts>>

(* Without workers a chain break is an error. *)
RefusedFrame(s) ==
  /\ Incoming(s) /\ s \in Wanted /\ mode = "verified"
  /\ s > chain[RepoOf[s]] /\ ~Chains(s)
  /\ Read(s) /\ Fail({s})
  /\ UNCHANGED <<confVars, server, verifierVars, listening, saved, quiet, atRisk, faults,
                 restarts>>

-----------------------------------------------------------------------------
(* Resync jobs, seen from the stream; Verifier has them in detail.  The     *)
(* mirror has the newest commit.  Without a receiver a send has no effect.  *)
Send(field, x) ==
  channel' = IF listening THEN [channel EXCEPT ![field] = Append(@, x)] ELSE channel

(* The job reports the repo; when the store fails it under an empty rev.    *)
JobDone(r) ==
  LET new == Top({s \in Of(r) : s <= server.head})
      content == {s \in Of(r) : s <= new} IN
  /\ job[r].on
  /\ chain' = [chain EXCEPT ![r] = new]
  /\ job' = [job EXCEPT ![r] = Idle]
  /\ \/ Send("events", [content |-> content, ok |-> TRUE]) /\ UNCHANGED faults
     \/ /\ Fault
        /\ Send("events", [content |-> content, ok |-> FALSE])
  /\ atRisk' = IF listening THEN atRisk ELSE atRisk \cup content
  /\ UNCHANGED <<confVars, server, ws, cursor, batchVars, listening, consumerVars, restarts>>

(* Mutant: a failed resync is not reported. *)
JobFailsQuietly(r) ==
  /\ job[r].on /\ Fault
  /\ job' = [job EXCEPT ![r] = Idle]
  /\ UNCHANGED <<confVars, server, ws, cursor, batchVars, chain, channel, listening,
                 consumerVars, atRisk, restarts>>

(* The error names what waited for the job. Unheard, only the stored chain  *)
(* remembers it.                                                            *)
JobFails(r) ==
  /\ job[r].on /\ Fault
  /\ job' = [job EXCEPT ![r] = Idle]
  /\ Send("errors", job[r].buf)
  /\ atRisk' = IF listening \/ persistent THEN atRisk ELSE atRisk \cup job[r].buf
  /\ UNCHANGED <<confVars, server, ws, cursor, batchVars, chain, listening, consumerVars,
                 restarts>>

(* take_async_error *)
TakeError ==
  /\ ~perr.on /\ channel.errors # <<>>
  /\ channel' = [channel EXCEPT !.errors = Tail(@)]
  /\ Fail(Head(channel.errors))
  /\ UNCHANGED <<confVars, server, ws, chain, job, listening, saved, quiet, atRisk, faults,
                 restarts>>

(* take_resync_event: an event without a rev is an error in its place. *)
TakeResync ==
  /\ ~perr.on /\ channel.events # <<>>
  /\ channel' = [channel EXCEPT !.events = Tail(@)]
  /\ LET e == Head(channel.events) IN
     \/ e.ok /\ Push(ResyncItem(e.content)) /\ UNCHANGED <<perr, reported>>
     \/ ~e.ok /\ Fail(e.content)
  /\ UNCHANGED <<confVars, server, ws, chain, job, listening, saved, quiet, atRisk, faults,
                 restarts>>

-----------------------------------------------------------------------------
(* Content that exists only in memory: resyncs on their way, commits that   *)
(* wait for one, failed resyncs and the error behind the batch.             *)
Arriving == UNION {channel.events[i].content : i \in 1..Len(channel.events)}
Healing == Arriving \cup UNION {x.content : x \in {y \in Items(batch) : y.seq = 0}}
Failing == UNION {channel.errors[i] : i \in 1..Len(channel.errors)}
Waiting == Failing \cup perr.of \cup UNION {job[r].buf : r \in Repos}

(* The stream is dropped and subscribe() called again: the verifier goes    *)
(* on, but its receivers went with the old stream.                          *)
Resubscribe ==
  /\ restarts < MaxRestarts /\ restarts' = restarts + 1
  /\ atRisk' = atRisk \cup Carried(batch) \cup Healing \cup perr.of
                     \cup IF persistent THEN {} ELSE Failing
  /\ ws' = Offline /\ batch' = <<>> /\ dropped' = 0 /\ perr' = NoError
  /\ channel' = [events |-> <<>>, errors |-> <<>>] /\ listening' = FALSE
  /\ UNCHANGED <<confVars, server, cursor, chain, job, consumerVars, faults>>

(* The process ends and begins again from the saved cursor. *)
Crash ==
  /\ restarts < MaxRestarts /\ restarts' = restarts + 1
  /\ atRisk' = atRisk \cup Healing \cup perr.of
                     \cup IF persistent THEN Carried(batch) ELSE Waiting
  /\ ws' = Offline /\ batch' = <<>> /\ dropped' = 0 /\ perr' = NoError
  /\ channel' = [events |-> <<>>, errors |-> <<>>] /\ listening' = (mode = "async")
  /\ cursor' = saved
  /\ job' = [r \in Repos |-> Idle]
  /\ chain' = IF persistent THEN chain ELSE [r \in Repos |-> 0]
  /\ UNCHANGED <<confVars, server, consumerVars, faults>>

FrameStep(s) ==
  \/ SkipFrame(s) \/ PlainFrame(s) \/ BadFrame(s)
  \/ VerifiedFrame(s) \/ ReplayedFrame(s) \/ QueuedFrame(s) \/ RefusedFrame(s)

PollStep ==
  \/ YieldPending \/ Timer \/ Connect \/ Closed \/ Broken
  \/ TakeError \/ TakeResync
  \/ \E s \in Seqs : FrameStep(s)

SerialNext ==
  \/ Publish \/ Trim \/ Save \/ Crash \/ Resubscribe
  \/ PollStep \/ ConnectFails
  \/ \E r \in Repos : JobDone(r) \/ JobFails(r)

SerialSpec == SerialInit /\ [][SerialNext]_vars

-----------------------------------------------------------------------------
(* The variables keep their types, the cursor never passes what was          *)
(* published, and a yielded batch is never larger than batch_size.           *)
SerialTypeOK ==
  /\ ws.at \in 0..MaxSeq /\ cursor \in 0..server.head /\ saved \in 0..server.head
  /\ dropped \in 0..MaxSeq /\ Len(batch) < BatchSize
  /\ \A x \in Items(batch) : x.seq \in Seqs \cup {0} /\ x.content \subseteq Seqs
  /\ chain \in [Repos -> 0..MaxSeq]
  /\ got \subseteq Wanted /\ healed \subseteq Wanted /\ reported \subseteq Seqs

(* The stream keeps the promise of OrderedFeed, in all its modes, with what  *)
(* the verifier drops or refuses and what no relay connection had counted    *)
(* as given up.                                                              *)
Excused == reported \cup quiet
Feed == INSTANCE OrderedFeed WITH mark <- cursor, excused <- Excused
ImplementsFeed == Feed!FeedSpec

(* Events the consumer will not see: passed by the cursor, neither handed    *)
(* over nor reported nor on their way, and no later commit of the repo will  *)
(* break on the chain and so fetch them.                                     *)
Lost == {s \in Wanted :
           /\ origin < s /\ s <= cursor
           /\ s \notin got \cup healed \cup reported
           /\ s \notin Carried(batch) \cup Healing \cup Waiting
           /\ chain[RepoOf[s]] >= s}

(* What the verifier drops without a word, as a replay or for a resync, is   *)
(* not lost while the client lives, through reconnects, rejected frames and  *)
(* failed resyncs.  A new subscription loses at most the batch, the error    *)
(* behind it, the resyncs on their way and the ones that end after their     *)
(* receiver is gone; a crash on a persistent store the batch, the error and  *)
(* the resyncs on their way.  A crash that takes the store with it loses the *)
(* commits that wait for a resync as well, and those whose failed resync     *)
(* went with an earlier stream.                                              *)
LossIsBounded == Lost \subseteq atRisk

(* The state has its type, the batch its capacity, and the loss its bound.   *)
SerialInv == SerialTypeOK /\ LossIsBounded

-----------------------------------------------------------------------------
(* The consumer polls the stream; connections and downloads end, and the     *)
(* relay answers once the faults are over.                                   *)
Fairness ==
  /\ WF_vars(YieldPending \/ Connect \/ TakeError \/ TakeResync)
  /\ WF_vars(Timer)
  /\ WF_vars(\E s \in Seqs : FrameStep(s))
  /\ \A r \in Repos : WF_vars(JobDone(r) \/ JobFails(r))

LiveSerialSpec == SerialSpec /\ Fairness

(* The cursor a consumer may save catches up with every event the relay      *)
(* published, batches that never fill and runs of silently dropped frames    *)
(* included, but for frames it was told are bad.                             *)
CursorCatchesUp == \A s \in Wanted : server.head >= s ~> (cursor >= s \/ s \in reported)

(* A commit that waits for a resync gets to the consumer with it, or is      *)
(* reported, unless its stream is dropped or the process ends.               *)
QueuedSettles ==
  \A s \in Wanted : s \in Waiting ~> (s \in healed \cup reported \/ restarts > 0)

-----------------------------------------------------------------------------
(* What makes types, promise and loss inductive.                             *)

(* An event item carries its own seq. *)
Item == {x \in [seq : Wanted \cup {0}, content : SUBSET Wanted] :
           x.seq # 0 => x.content = {x.seq}}

SerialState ==
  /\ persistent \in BOOLEAN /\ origin \in 0..MaxSeq /\ listening \in BOOLEAN
  /\ server \in [head : 0..MaxSeq, floor : 0..MaxSeq] /\ server.floor <= server.head
  /\ ws \in [on : BOOLEAN, at : 0..MaxSeq]
  /\ cursor \in 0..MaxSeq /\ saved \in 0..MaxSeq /\ dropped \in 0..MaxSeq
  /\ batch \in Seq(Item) /\ Len(batch) < BatchSize
  /\ perr \in [on : BOOLEAN, of : SUBSET Seqs]
  /\ chain \in [Repos -> 0..MaxSeq]
  /\ job \in [Repos -> [on : BOOLEAN, buf : SUBSET Wanted]]
  /\ channel \in [events : Seq([content : SUBSET Wanted, ok : BOOLEAN]),
                  errors : Seq(SUBSET Wanted)]
  /\ got \subseteq Wanted /\ healed \subseteq Wanted
  /\ reported \subseteq Seqs /\ quiet \subseteq Seqs

(* How far the stream has read. *)
ReadTo == IF ws.on THEN ws.at ELSE cursor

(* Between the cursor and the frame read last, an event is in the batch,     *)
(* given up, or about to be; the batch holds nothing else.                   *)
AheadOfCursor ==
  /\ saved <= cursor /\ cursor <= ReadTo /\ ReadTo <= server.head
  /\ \A s \in Wanted : cursor < s /\ s <= ReadTo =>
       s \in Excused \cup perr.of \/ \E x \in Items(batch) : x.seq = s
  /\ \A x \in Items(batch) : x.seq # 0 => cursor < x.seq /\ x.seq <= ReadTo
  /\ dropped <= ReadTo
  /\ perr.on => batch = <<>> /\ dropped = 0
  /\ ~perr.on => perr.of = {}

(* The store never knows of an event that is not kept somewhere, and an      *)
(* event the stream has read is kept, waits for its job, or is one the       *)
(* stored chain will break on.                                               *)
Kept == got \cup healed \cup reported \cup Carried(batch) \cup Arriving \cup perr.of \cup atRisk

KeptInv ==
  /\ \A s \in Wanted : origin < s /\ s <= chain[RepoOf[s]] => s \in Kept
  /\ \A s \in Wanted : origin < s /\ s <= ReadTo =>
       \/ s \in Kept \cup Failing
       \/ s \in job[RepoOf[s]].buf
       \/ persistent /\ chain[RepoOf[s]] > 0
  /\ \A r \in Repos : chain[r] > 0 => chain[r] \in Of(r) /\ chain[r] <= server.head
  /\ \A r \in Repos : job[r].on => chain[r] > 0
  /\ \A r \in Repos : ~job[r].on => job[r].buf = {}
  /\ \A r \in Repos : \A s \in job[r].buf : s \in Of(r) /\ s <= server.head
  /\ \A s \in Failing : chain[RepoOf[s]] > 0

=============================================================================
