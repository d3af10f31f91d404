------------------------------ MODULE Verifier ------------------------------
(***************************************************************************)
(* The Sync 1.1 verifier of src/src/sync/verifier.rs: the per-repo chain   *)
(* and hosting state behind the stripe locks, the commit, sync and account *)
(* handlers, full resyncs, and the asynchronous resync jobs with their     *)
(* buffer of commits, their channels and close().                          *)
(*                                                                         *)
(* Callers are the tasks that use the public API (scheduler workers, the   *)
(* serial stream); jobs are the tasks enqueue_resync spawns.  A repo has   *)
(* the revisions 1..MaxRev; DataOf[r] identifies the MST root at r, so     *)
(* DataOf[r] = DataOf[r-1] is a re-signed, unchanged repo.  What a frame   *)
(* looks like to the decoder and the signature check is its form.  The     *)
(* per-DID rate limiter, the network and the state store may fail at will. *)
(***************************************************************************)
EXTENDS Naturals, Sequences, FiniteSets

CONSTANTS
  Dids, Callers, Jobs,   \* Jobs: slots, bounding the jobs alive at once
  NoTask,                \* a stripe lock nobody holds
  Stripes, StripeOf,     \* lock_stripe
  MaxRev, DataOf,
  Forms,                 \* the forms of frame the upstream sends
  Kinds,                 \* the kinds of frame the upstream sends
  MaxSeq,                \* bound: account events carry seqs 1..MaxSeq
  MaxCalls,              \* bound: API calls
  StoreFaults,           \* whether the state store may fail
  Policies,              \* the VerifierPolicy values a verifier is made with
  Gate,                  \* HostingPolicy = Gate
  AcceptLegacy, Lenient, \* LegacyCommitPolicy = Accept; lenient_inversion
  AsyncWorkers,          \* whether async_resync_workers > 0
  PendingCapacity, ChannelCapacity,
  Serial,                \* the caller's task is also the one that drains the channels
  Close                  \* whether close() is called

Revs == 1..MaxRev
Forged == MaxRev + 1     \* the data root of a commit the account never signed
Tasks == Callers \cup Jobs

CommitForms == {"good", "legacy", "partial", "corrupt", "mismatch", "forged"}

ASSUME VerifierAssumption ==
  /\ Dids # {} /\ NoTask \notin Tasks /\ Callers \cap Jobs = {}
  /\ StripeOf \in [Dids -> Stripes]
  /\ MaxRev \in Nat /\ DataOf \in [Revs -> Revs]
  /\ Forms \subseteq CommitForms /\ Kinds \subseteq {"commit", "sync", "account"}
  /\ MaxSeq \in Nat /\ MaxCalls \in Nat
  /\ Policies \subseteq {"Resync", "Error"}
  /\ {StoreFaults, Gate, AcceptLegacy, Lenient, AsyncWorkers, Serial, Close} \subseteq BOOLEAN
  /\ PendingCapacity \in Nat /\ ChannelCapacity \in Nat \ {0}

(* A frame: for account events rev is the seq and "forged" means inactive. *)
Frames ==
  [kind : Kinds \cap {"commit"}, rev : Revs, form : Forms]
    \cup [kind : Kinds \cap {"sync"}, rev : Revs, form : Forms \cap {"good", "corrupt", "forged"}]
    \cup [kind : Kinds \cap {"account"}, rev : 1..MaxSeq, form : {"good", "forged"}]

NoFrame == [kind |-> "none", rev |-> 0, form |-> "good"]

VARIABLES
  policy,   \* VerifierPolicy, fixed when the verifier is made
  chain,    \* StateStore: chain[d] = [rev, data], rev 0 when there is none
  hosting,  \* StateStore: hosting[d] = [active, seq], seq 0 when there is none
  lock,     \* the stripe locks: who holds each
  pending,  \* AsyncResyncState::pending: [on, old, commits] for each DID
  handles,  \* AsyncResyncState::handles: the jobs close() can abort
  events,   \* the resync event channel
  errors,   \* how many errors the async error channel holds
  task,     \* what each task is doing
  cpc,      \* where close() is
  calls,    \* API calls so far
  adopted,  \* history: adopted[d] = revs whose content was verified and saved
  yielded   \* history: yielded[d] = revs whose content the consumer received

storeVars == <<chain, hosting>>
channelVars == <<events, errors>>
histVars == <<adopted, yielded>>
vars == <<chain, hosting, lock, pending, handles, events, errors, task, cpc,
          calls, adopted, yielded>>

NoPending == [on |-> FALSE, old |-> 0, commits |-> <<>>]

(* pc, the DID, the frame; seen: the chain state loaded under the lock;     *)
(* got: the fetched revision; ops: the revisions whose ops a job collected; *)
(* todo: drained commits still to replay; old, new: the revisions a job     *)
(* reports; next: where to go once an error is sent; job: a spawned job     *)
(* whose handle is not registered yet.                                      *)
IdleTask == [pc |-> "idle", did |-> CHOOSE d \in Dids : TRUE, frame |-> NoFrame,
             seen |-> [rev |-> 0, data |-> 0], got |-> 0, ops |-> <<>>,
             todo |-> <<>>, old |-> 0, new |-> 0, next |-> "idle",
             job |-> NoTask]

VerifierInit ==
  /\ policy \in Policies
  /\ chain = [d \in Dids |-> [rev |-> 0, data |-> 0]]
  /\ hosting = [d \in Dids |-> [active |-> TRUE, seq |-> 0]]
  /\ lock = [s \in Stripes |-> NoTask]
  /\ pending = [d \in Dids |-> NoPending]
  /\ handles = {}
  /\ events = <<>> /\ errors = 0
  /\ task = [t \in Tasks |-> IdleTask]
  /\ cpc = "open" /\ calls = 0
  /\ adopted = [d \in Dids |-> {}] /\ yielded = [d \in Dids |-> {}]

-----------------------------------------------------------------------------
(* Locks and channels. *)
closed == cpc # "open"
SendersTaken == cpc = "closed"

StripeFree(d) == lock[StripeOf[d]] = NoTask
Acquire(t, d) == lock' = [lock EXCEPT ![StripeOf[d]] = t]
LocksWithout(ts) == [s \in Stripes |-> IF lock[s] \in ts THEN NoTask ELSE lock[s]]
ReleaseLock(t) == lock' = LocksWithout({t})

(* Task t goes on as x. *)
Become(t, x) == task' = [task EXCEPT ![t] = x]

GateOpen(d) == ~Gate \/ hosting[d].active

(* Mutant: a job forgets the ops of the commits it replays. *)
AnswerOpsDropped(t, r) ==
  IF t \in Jobs
  THEN Become(t, [task[t] EXCEPT !.pc = "replay"]) /\ UNCHANGED yielded
  ELSE /\ Become(t, IdleTask)
       /\ yielded' = [yielded EXCEPT ![task[t].did] = @ \cup {r}]

(* Ok(Some(ops)): the ops reach the consumer in an event with the frame's   *)
(* revision, or the event the job builds.                                   *)
AnswerOps(t, r) ==
  IF t \in Jobs
  THEN /\ Become(t, [task[t] EXCEPT !.pc = "replay", !.ops = Append(task[t].ops, r)])
       /\ UNCHANGED yielded
  ELSE /\ Become(t, IdleTask)
       /\ yielded' = [yielded EXCEPT ![task[t].did] = @ \cup {r}]

(* Ok(None) *)
AnswerNothing(t) ==
  Become(t, IF t \in Jobs THEN [task[t] EXCEPT !.pc = "replay"] ELSE IdleTask)

(* Err(err): the caller gets it, a job sends it to the error channel. *)
AnswerError(t) ==
  Become(t, IF t \in Jobs THEN [task[t] EXCEPT !.pc = "sendError", !.next = "replay"]
            ELSE IdleTask)

-----------------------------------------------------------------------------
(* The next frame, from the moment its task looks for one.  The serial      *)
(* stream takes every queued error before it waits for a frame.             *)
Call(t) ==
  /\ task[t].pc = "idle"
  /\ calls < MaxCalls
  /\ Serial => errors = 0
  /\ \E d \in Dids, f \in Frames :
       Become(t, [IdleTask EXCEPT !.pc = f.kind, !.did = d, !.frame = f])
  /\ calls' = calls + 1
  /\ UNCHANGED <<storeVars, lock, pending, handles, channelVars, cpc, histVars>>

(* Mutant: the buffer's capacity is not checked. *)
BufferCommitUnbounded(t) ==
  LET d == task[t].did IN
  /\ task[t].pc = "commit"
  /\ IF AsyncWorkers /\ ~closed /\ pending[d].on
     THEN /\ pending' = [pending EXCEPT ![d].commits = Append(@, task[t].frame)]
          /\ AnswerNothing(t)
     ELSE Become(t, [task[t] EXCEPT !.pc = "lockCommit"]) /\ UNCHANGED pending
  /\ UNCHANGED <<storeVars, lock, handles, channelVars, cpc, calls, histVars>>

(* buffer_commit_if_resyncing: while a job runs for the DID, its commits    *)
(* wait in the buffer, and overflow is reported.                            *)
BufferCommit(t) ==
  LET d == task[t].did IN
  /\ task[t].pc = "commit"
  /\ \/ /\ AsyncWorkers /\ ~closed /\ pending[d].on
        /\ Len(pending[d].commits) < PendingCapacity
        /\ pending' = [pending EXCEPT ![d].commits = Append(@, task[t].frame)]
        /\ AnswerNothing(t)
     \/ /\ AsyncWorkers /\ ~closed /\ pending[d].on
        /\ Len(pending[d].commits) >= PendingCapacity
        /\ Become(t, [task[t] EXCEPT !.pc = "sendError", !.next = "idle"])
        /\ UNCHANGED pending
     \/ /\ ~(AsyncWorkers /\ ~closed /\ pending[d].on)
        /\ Become(t, [task[t] EXCEPT !.pc = "lockCommit"])
        /\ UNCHANGED pending
  /\ UNCHANGED <<storeVars, lock, handles, channelVars, cpc, calls, histVars>>

(* Mutant: no hosting gate. *)
LockCommitUngated(t) ==
  LET d == task[t].did IN
  /\ task[t].pc = "lockCommit"
  /\ StripeFree(d)
  /\ IF task[t].frame.rev <= chain[d].rev
     THEN AnswerNothing(t) /\ UNCHANGED lock
     ELSE /\ Acquire(t, d)
          /\ Become(t, [task[t] EXCEPT !.pc = "verifyCommit", !.seen = chain[d]])
  /\ UNCHANGED <<storeVars, pending, handles, channelVars, cpc, calls, histVars>>

(* The stripe lock, the hosting gate, the chain state and the replay check. *)
LockCommit(t) ==
  LET d == task[t].did IN
  /\ task[t].pc = "lockCommit"
  /\ StripeFree(d)
  /\ \/ /\ ~GateOpen(d) \/ StoreFaults
        /\ AnswerError(t)
        /\ UNCHANGED lock
     \/ /\ GateOpen(d) /\ task[t].frame.rev <= chain[d].rev
        /\ AnswerNothing(t)
        /\ UNCHANGED lock
     \/ /\ GateOpen(d) /\ task[t].frame.rev > chain[d].rev
        /\ Acquire(t, d)
        /\ Become(t, [task[t] EXCEPT !.pc = "verifyCommit", !.seen = chain[d]])
  /\ UNCHANGED <<storeVars, pending, handles, channelVars, cpc, calls, histVars>>

(* check_chain and previous_root for a commit on top of the loaded state c. *)
ChainVerdict(f, c) ==
  IF c.rev = 0 THEN "holds"
  ELSE IF f.form = "legacy" THEN IF AcceptLegacy THEN "holds" ELSE "refused"
  ELSE IF f.rev > 1 /\ DataOf[f.rev - 1] = c.data /\ (f.form = "partial" => Lenient)
       THEN "holds" ELSE "broken"

(* What verify_commit_internal decides for frame f on top of c: "recover"   *)
(* by a resync, "reject" for good, "save" it, or "saveBroken" under the     *)
(* Error policy.  A chain break is found before the signature is checked.   *)
Verdict(f, c) ==
  LET broken == ChainVerdict(f, c) = "broken" IN
  IF f.form = "mismatch" THEN "reject"
  ELSE IF f.form = "corrupt" \/ ChainVerdict(f, c) = "refused" \/ (broken /\ policy = "Resync")
       THEN "recover"
  ELSE IF f.form = "forged" THEN "reject"
  ELSE IF broken THEN "saveBroken" ELSE "save"

(* The commit is verified against what was loaded under the lock and saved. *)
SaveCommit(t) ==
  LET d == task[t].did
      f == task[t].frame IN
  /\ task[t].pc = "verifyCommit"
  /\ Verdict(f, task[t].seen) \in {"save", "saveBroken"}
  /\ chain' = [chain EXCEPT ![d] = [rev |-> f.rev,
                                    data |-> IF f.form = "forged" THEN Forged ELSE DataOf[f.rev]]]
  /\ \/ /\ Verdict(f, task[t].seen) = "save"
        /\ adopted' = [adopted EXCEPT ![d] = @ \cup {f.rev}]
        /\ AnswerOps(t, f.rev)
     \/ /\ Verdict(f, task[t].seen) = "saveBroken"
        /\ AnswerError(t)
        /\ UNCHANGED histVars
  /\ ReleaseLock(t)
  /\ UNCHANGED <<hosting, pending, handles, channelVars, cpc, calls>>

(* Field, signature, identity and CAR root errors, and a failing save. *)
RejectCommit(t) ==
  /\ task[t].pc = "verifyCommit"
  /\ Verdict(task[t].frame, task[t].seen) = "reject" \/ StoreFaults
  /\ AnswerError(t)
  /\ ReleaseLock(t)
  /\ UNCHANGED <<storeVars, pending, handles, channelVars, cpc, calls, histVars>>

(* handle_recoverable_resync *)
RecoverCommit(t) ==
  /\ task[t].pc = "verifyCommit"
  /\ Verdict(task[t].frame, task[t].seen) = "recover"
  /\ \/ /\ policy = "Resync" /\ t \in Callers /\ AsyncWorkers /\ ~closed
        /\ Become(t, [task[t] EXCEPT !.pc = "enqueue"])
        /\ UNCHANGED lock
     \/ /\ ~(policy = "Resync" /\ t \in Callers /\ AsyncWorkers /\ ~closed)
        /\ AnswerError(t)
        /\ ReleaseLock(t)
  /\ UNCHANGED <<storeVars, pending, handles, channelVars, cpc, calls, histVars>>

(* enqueue_resync, under the stripe lock: the commit joins the buffer of a  *)
(* job that appeared in the meantime, or a new job is spawned.              *)
EnqueueBuffered(t) ==
  LET d == task[t].did IN
  /\ task[t].pc = "enqueue"
  /\ pending[d].on
  /\ \/ /\ Len(pending[d].commits) < PendingCapacity
        /\ pending' = [pending EXCEPT ![d].commits = Append(@, task[t].frame)]
        /\ AnswerNothing(t)
        /\ ReleaseLock(t)
     \/ /\ Len(pending[d].commits) >= PendingCapacity
        /\ Become(t, [task[t] EXCEPT !.pc = "sendError", !.next = "idle"])
        /\ UNCHANGED <<pending, lock>>
  /\ UNCHANGED <<storeVars, handles, channelVars, cpc, calls, histVars>>

EnqueueSpawn(t) ==
  LET d == task[t].did IN
  /\ task[t].pc = "enqueue"
  /\ ~pending[d].on
  /\ pending' = [pending EXCEPT ![d] = [on |-> TRUE, old |-> task[t].seen.rev, commits |-> <<>>]]
  /\ \E j \in Jobs :
       /\ task[j].pc = "idle"
       /\ \A u \in Callers : task[u].job # j
       /\ task' = [task EXCEPT ![j] = [IdleTask EXCEPT !.pc = "start", !.did = d],
                               ![t] = [task[t] EXCEPT !.pc = "pushHandle", !.job = j]]
       /\ handles' = handles \ {j}
  /\ UNCHANGED <<storeVars, lock, channelVars, cpc, calls, histVars>>

(* spawn_resync_job registers the handle after the task was spawned. *)
PushHandle(t) ==
  /\ task[t].pc = "pushHandle"
  /\ handles' = {j \in handles : task[j].pc # "idle"} \cup {task[t].job}
  /\ AnswerNothing(t)
  /\ ReleaseLock(t)
  /\ UNCHANGED <<storeVars, pending, channelVars, cpc, calls, histVars>>

(* send_async_error: waits for room.  Once close() took the sender errors   *)
(* are dropped, but a send under way still has its clone.                   *)
SendError(t) ==
  /\ task[t].pc = "sendError"
  /\ \/ errors < ChannelCapacity /\ errors' = errors + 1
     \/ SendersTaken /\ UNCHANGED errors
  /\ Become(t, IF task[t].next = "idle" THEN IdleTask
               ELSE [task[t] EXCEPT !.pc = task[t].next])
  /\ ReleaseLock(t)
  /\ UNCHANGED <<storeVars, pending, handles, events, cpc, calls, histVars>>

-----------------------------------------------------------------------------
(* on_account_event: only a newer seq is stored.  The stream reports a      *)
(* failing store on the error channel and delivers the event all the same.  *)
AccountEvent(t) ==
  LET d == task[t].did
      f == task[t].frame IN
  /\ task[t].pc = "account"
  /\ StripeFree(d)
  /\ \/ /\ f.rev > hosting[d].seq
        /\ hosting' = [hosting EXCEPT ![d] = [active |-> f.form = "good", seq |-> f.rev]]
        /\ AnswerNothing(t)
     \/ /\ f.rev <= hosting[d].seq
        /\ AnswerNothing(t)
        /\ UNCHANGED hosting
     \/ /\ StoreFaults
        /\ Become(t, [task[t] EXCEPT !.pc = "sendError", !.next = "idle"])
        /\ UNCHANGED hosting
  /\ UNCHANGED <<chain, lock, pending, handles, channelVars, cpc, calls, histVars>>

(* verify_sync up to the comparison with the stored data root. *)
LockSync(t) ==
  LET d == task[t].did IN
  /\ task[t].pc = "sync"
  /\ StripeFree(d)
  /\ \/ /\ ~GateOpen(d) \/ StoreFaults
        /\ AnswerError(t)
        /\ UNCHANGED lock
     \/ /\ GateOpen(d) /\ task[t].frame.rev <= chain[d].rev
        /\ AnswerNothing(t)
        /\ UNCHANGED lock
     \/ /\ GateOpen(d) /\ task[t].frame.rev > chain[d].rev
        /\ Acquire(t, d)
        /\ Become(t, [task[t] EXCEPT !.pc = "verifySync", !.seen = chain[d]])
  /\ UNCHANGED <<storeVars, pending, handles, channelVars, cpc, calls, histVars>>

(* The #sync frame carries the stored data root; a forged one claims to.    *)
SyncIsNoOp(f, c) ==
  c.rev > 0 /\ f.form # "corrupt" /\ (f.form = "forged" \/ DataOf[f.rev] = c.data)

(* Mutant: the no-op fast path trusts the frame. *)
VerifySyncUnsigned(t) ==
  LET d == task[t].did
      f == task[t].frame IN
  /\ task[t].pc = "verifySync"
  /\ IF SyncIsNoOp(f, task[t].seen)
     THEN /\ chain' = [chain EXCEPT ![d] = [rev |-> f.rev, data |-> task[t].seen.data]]
          /\ AnswerNothing(t)
     ELSE Become(t, [task[t] EXCEPT !.pc = "resync"]) /\ UNCHANGED chain
  /\ ReleaseLock(t)
  /\ UNCHANGED <<hosting, pending, handles, channelVars, cpc, calls, histVars>>

(* The no-op fast path advances the revision; anything else is a resync.    *)
VerifySync(t) ==
  LET d == task[t].did
      f == task[t].frame IN
  /\ task[t].pc = "verifySync"
  /\ \/ /\ SyncIsNoOp(f, task[t].seen) /\ f.form # "forged"
        /\ chain' = [chain EXCEPT ![d] = [rev |-> f.rev, data |-> task[t].seen.data]]
        /\ AnswerNothing(t)
     \/ /\ SyncIsNoOp(f, task[t].seen) /\ (f.form = "forged" \/ StoreFaults)
        /\ AnswerError(t)
        /\ UNCHANGED chain
     \/ /\ ~SyncIsNoOp(f, task[t].seen)
        /\ Become(t, [task[t] EXCEPT !.pc = "resync"])
        /\ UNCHANGED chain
  /\ ReleaseLock(t)
  /\ UNCHANGED <<hosting, pending, handles, channelVars, cpc, calls, histVars>>

-----------------------------------------------------------------------------
(* resync, called by verify_sync and by the jobs.  A failing one is an      *)
(* error of the call; a job gives up, finish_resync_job comes first.        *)
ResyncFails(t) ==
  Become(t, IF t \in Jobs THEN [task[t] EXCEPT !.pc = "finish"] ELSE IdleTask)

(* The gate is checked under the lock, which is not kept for the fetch. *)
ResyncGate(t) ==
  /\ task[t].pc = "resync"
  /\ StripeFree(task[t].did)
  /\ \/ (~GateOpen(task[t].did) \/ StoreFaults) /\ ResyncFails(t)
     \/ GateOpen(task[t].did) /\ Become(t, [task[t] EXCEPT !.pc = "fetch"])
  /\ UNCHANGED <<storeVars, lock, pending, handles, channelVars, cpc, calls, histVars>>

(* allow_resync, the download and verify_loaded_repo: any revision of the   *)
(* repo, a stale one included, or a failure.                                *)
Fetch(t) ==
  /\ task[t].pc = "fetch"
  /\ \/ ResyncFails(t)
     \/ \E r \in Revs : Become(t, [task[t] EXCEPT !.pc = "adopt", !.got = r])
  /\ UNCHANGED <<storeVars, lock, pending, handles, channelVars, cpc, calls, histVars>>

(* Mutant: only an equal revision with other content is refused. *)
RegressesOnlyFork(r, c) == c.rev > 0 /\ r = c.rev /\ DataOf[r] # c.data

(* RevRegression: the fetched repo is older than what is stored, or         *)
(* contradicts it.                                                          *)
Regresses(r, c) == c.rev > 0 /\ (r < c.rev \/ (r = c.rev /\ DataOf[r] # c.data))

(* Mutant: the gate is not checked again after the fetch. *)
AdoptUngated(t) ==
  LET d == task[t].did
      r == task[t].got IN
  /\ task[t].pc = "adopt"
  /\ StripeFree(d)
  /\ IF Regresses(r, chain[d])
     THEN ResyncFails(t) /\ UNCHANGED <<chain, histVars>>
     ELSE /\ chain' = [chain EXCEPT ![d] = [rev |-> r, data |-> DataOf[r]]]
          /\ Become(t, [task[t] EXCEPT !.pc = IF t \in Jobs THEN "drain" ELSE "idle"])
          /\ UNCHANGED histVars
  /\ UNCHANGED <<hosting, lock, pending, handles, channelVars, cpc, calls>>

(* The lock and the gate again, then the fetched repo replaces the chain.   *)
Adopt(t) ==
  LET d == task[t].did
      r == task[t].got IN
  /\ task[t].pc = "adopt"
  /\ StripeFree(d)
  /\ \/ /\ ~GateOpen(d) \/ Regresses(r, chain[d]) \/ StoreFaults
        /\ ResyncFails(t)
        /\ UNCHANGED <<chain, histVars>>
     \/ /\ GateOpen(d) /\ ~Regresses(r, chain[d])
        /\ chain' = [chain EXCEPT ![d] = [rev |-> r, data |-> DataOf[r]]]
        /\ adopted' = [adopted EXCEPT ![d] = @ \cup {r}]
        /\ IF t \in Jobs
           THEN /\ Become(t, [task[t] EXCEPT !.pc = "drain", !.ops = <<r>>])
                /\ UNCHANGED yielded
           ELSE AnswerOps(t, r)
  /\ UNCHANGED <<hosting, lock, pending, handles, channelVars, cpc, calls>>

-----------------------------------------------------------------------------
(* run_resync_job *)
JobStart(j) ==
  LET d == task[j].did IN
  /\ task[j].pc = "start"
  /\ \/ pending[d].on /\ Become(j, [task[j] EXCEPT !.pc = "resync", !.old = pending[d].old])
     \/ ~pending[d].on /\ Become(j, IdleTask)
  /\ UNCHANGED <<storeVars, lock, pending, handles, channelVars, cpc, calls, histVars>>

(* Mutant: a failed job leaves its pending entry behind. *)
JobGivesUpKeeps(j) ==
  /\ task[j].pc = "finish"
  /\ Become(j, [task[j] EXCEPT !.pc = "sendError", !.next = "idle"])
  /\ UNCHANGED <<storeVars, lock, pending, handles, channelVars, cpc, calls, histVars>>

(* finish_resync_job: a failed job drops the entry and what it buffered. *)
JobGivesUp(j) ==
  /\ task[j].pc = "finish"
  /\ pending' = [pending EXCEPT ![task[j].did] = NoPending]
  /\ Become(j, [task[j] EXCEPT !.pc = "sendError", !.next = "idle"])
  /\ UNCHANGED <<storeVars, lock, handles, channelVars, cpc, calls, histVars>>

JobDrain(j) ==
  LET d == task[j].did IN
  /\ task[j].pc = "drain"
  /\ Become(j, [task[j] EXCEPT !.pc = IF pending[d].commits = <<>> THEN "check" ELSE "replay",
                               !.todo = pending[d].commits])
  /\ pending' = [pending EXCEPT ![d].commits = <<>>]
  /\ UNCHANGED <<storeVars, lock, handles, channelVars, cpc, calls, histVars>>

(* Mutant: the job leaves without asking whether commits came in. *)
JobCheckLeaves(j) ==
  /\ task[j].pc = "check"
  /\ pending' = [pending EXCEPT ![task[j].did] = NoPending]
  /\ Become(j, [task[j] EXCEPT !.pc = "report"])
  /\ UNCHANGED <<storeVars, lock, handles, channelVars, cpc, calls, histVars>>

(* Nothing was drained: leave if that is still so, else drain again.  An    *)
(* entry that is gone sends the job round the loop too.                     *)
JobCheck(j) ==
  LET d == task[j].did IN
  /\ task[j].pc = "check"
  /\ \/ /\ pending[d].on /\ pending[d].commits = <<>>
        /\ pending' = [pending EXCEPT ![d] = NoPending]
        /\ Become(j, [task[j] EXCEPT !.pc = "report"])
     \/ /\ ~(pending[d].on /\ pending[d].commits = <<>>)
        /\ Become(j, [task[j] EXCEPT !.pc = "drain"])
        /\ UNCHANGED pending
  /\ UNCHANGED <<storeVars, lock, handles, channelVars, cpc, calls, histVars>>

(* Replay the drained commits, each through verify_commit_internal. *)
JobReplay(j) ==
  /\ task[j].pc = "replay"
  /\ \/ /\ task[j].todo = <<>>
        /\ Become(j, [task[j] EXCEPT !.pc = "drain"])
     \/ /\ task[j].todo # <<>>
        /\ Become(j, [task[j] EXCEPT !.pc = "lockCommit", !.frame = Head(task[j].todo),
                                     !.todo = Tail(task[j].todo)])
  /\ UNCHANGED <<storeVars, lock, pending, handles, channelVars, cpc, calls, histVars>>

(* new_rev is whatever the store holds by now, read without the lock. *)
JobReport(j) ==
  /\ task[j].pc = "report"
  /\ \/ Become(j, [task[j] EXCEPT !.pc = "sendEvent", !.new = chain[task[j].did].rev])
     \/ StoreFaults /\ Become(j, [task[j] EXCEPT !.pc = "sendError", !.next = "sendEvent"])
  /\ UNCHANGED <<storeVars, lock, pending, handles, channelVars, cpc, calls, histVars>>

JobSendEvent(j) ==
  /\ task[j].pc = "sendEvent"
  /\ \/ /\ Len(events) < ChannelCapacity
        /\ events' = Append(events, [did |-> task[j].did, old |-> task[j].old,
                                     new |-> task[j].new, ops |-> task[j].ops])
     \/ SendersTaken /\ UNCHANGED events
  /\ Become(j, IdleTask)
  /\ UNCHANGED <<storeVars, lock, pending, handles, errors, cpc, calls, histVars>>

-----------------------------------------------------------------------------
(* Mutant: the parallel stream, too, waits for its workers first. *)
DrainingBetweenFrames == \A t \in Callers : task[t].pc = "idle"

(* The stream at the other end of the channels.  The serial stream only     *)
(* gets to them between two frames.                                         *)
Draining == Serial => \A t \in Callers : task[t].pc = "idle"

(* An event without a new_rev cannot be turned into a stream item.          *)
RecvEvent ==
  /\ events # <<>> /\ Draining
  /\ LET e == Head(events) IN
     \/ /\ e.new > 0
        /\ yielded' = [yielded EXCEPT ![e.did] = @ \cup {e.ops[i] : i \in 1..Len(e.ops)}]
     \/ e.new = 0 /\ UNCHANGED yielded
  /\ events' = Tail(events)
  /\ UNCHANGED <<storeVars, lock, pending, handles, errors, task, cpc, calls, adopted>>

RecvError ==
  /\ errors > 0 /\ Draining
  /\ errors' = errors - 1
  /\ UNCHANGED <<storeVars, lock, pending, handles, events, task, cpc, calls, histVars>>

(* close(), step by step: the flag, the pending map, the jobs, the senders. *)
CloseFlag ==
  /\ Close /\ cpc = "open"
  /\ cpc' = "flagged"
  /\ UNCHANGED <<storeVars, lock, pending, handles, channelVars, task, calls, histVars>>

CloseClear ==
  /\ cpc = "flagged"
  /\ cpc' = "cleared"
  /\ pending' = [d \in Dids |-> NoPending]
  /\ UNCHANGED <<storeVars, lock, handles, channelVars, task, calls, histVars>>

CloseAbort ==
  /\ cpc = "cleared"
  /\ cpc' = "aborted"
  /\ task' = [t \in Tasks |-> IF t \in handles THEN IdleTask ELSE task[t]]
  /\ lock' = LocksWithout(handles)
  /\ handles' = {}
  /\ UNCHANGED <<storeVars, pending, channelVars, calls, histVars>>

CloseSenders ==
  /\ cpc = "aborted"
  /\ cpc' = "closed"
  /\ UNCHANGED <<storeVars, lock, pending, handles, channelVars, task, calls, histVars>>

-----------------------------------------------------------------------------
CallerStep(t) ==
  BufferCommit(t) \/ EnqueueBuffered(t) \/ EnqueueSpawn(t) \/ PushHandle(t)
    \/ AccountEvent(t) \/ LockSync(t) \/ VerifySync(t)

CommitStep(t) ==
  LockCommit(t) \/ SaveCommit(t) \/ RejectCommit(t) \/ RecoverCommit(t) \/ SendError(t)

ResyncStep(t) == ResyncGate(t) \/ Fetch(t) \/ Adopt(t)

JobStep(j) ==
  JobStart(j) \/ JobGivesUp(j) \/ JobDrain(j) \/ JobCheck(j) \/ JobReplay(j)
    \/ JobReport(j) \/ JobSendEvent(j)

CloseStep == CloseFlag \/ CloseClear \/ CloseAbort \/ CloseSenders

VerifierNext ==
  \/ \E t \in Callers : Call(t) \/ CallerStep(t)
  \/ \E t \in Tasks : CommitStep(t) \/ ResyncStep(t)
  \/ \E j \in Jobs : JobStep(j)
  \/ RecvEvent \/ RecvError
  \/ CloseStep

Step == VerifierNext /\ UNCHANGED policy

VerifierSpec == VerifierInit /\ [][Step]_<<vars, policy>>

(* tokio's Mutex and mpsc channel serve waiters in order, so a task that     *)
(* waits for a stripe lock or for room gets it; the stream keeps polling;    *)
(* close() runs to its end.  Nothing is assumed of a download: no timeout    *)
(* ends one.                                                                 *)
TaskProgress(t) == CommitStep(t) \/ ResyncGate(t) \/ Adopt(t)

Fairness ==
  /\ \A t \in Callers : SF_vars(CallerStep(t) \/ TaskProgress(t))
  /\ \A j \in Jobs : SF_vars(JobStep(j) \/ TaskProgress(j))
  /\ WF_vars(RecvEvent) /\ WF_vars(RecvError)
  /\ WF_vars(CloseClear \/ CloseAbort \/ CloseSenders)

LiveVerifierSpec == VerifierSpec /\ Fairness

-----------------------------------------------------------------------------
TaskPc == {"idle", "commit", "sync", "account", "lockCommit", "verifyCommit", "enqueue",
           "pushHandle", "sendError", "verifySync", "resync", "fetch", "adopt", "start",
           "finish", "drain", "check", "replay", "report", "sendEvent"}

ChainState == [rev : Nat, data : Nat]
HostingState == [active : BOOLEAN, seq : Nat]
FrameState == [kind : {"commit", "sync", "account", "none"}, rev : Nat, form : CommitForms]
CommitFrame == [kind : {"commit"}, rev : Revs, form : CommitForms]
PendingState == [on : BOOLEAN, old : Nat, commits : Seq(CommitFrame)]
TaskState == [pc : TaskPc, did : Dids, frame : FrameState, seen : ChainState, got : Nat,
              ops : Seq(Nat), todo : Seq(CommitFrame), old : Nat, new : Nat,
              next : {"idle", "replay", "sendEvent"}, job : Jobs \cup {NoTask}]
EventState == [did : Dids, old : Nat, new : Nat, ops : Seq(Nat)]

(* A task has a commit where commits are handled, a fetched revision to     *)
(* adopt, and a spawned job whose handle it is about to register.           *)
CommitPc == {"commit", "lockCommit", "verifyCommit", "enqueue"}
TaskOK(x) ==
  /\ x.pc \in CommitPc => x.frame \in CommitFrame
  /\ x.pc = "adopt" => x.got \in Revs
  /\ x.pc = "pushHandle" => x.job \in Jobs

(* The types of the variables. *)
TypeInv ==
  /\ chain \in [Dids -> ChainState]
  /\ hosting \in [Dids -> HostingState]
  /\ lock \in [Stripes -> Tasks \cup {NoTask}]
  /\ pending \in [Dids -> PendingState]
  /\ task \in [Tasks -> TaskState]
  /\ \A t \in Tasks : TaskOK(task[t])
  /\ events \in Seq(EventState)

(* The stores, the channels and the buffers hold what they are declared to  *)
(* hold, within their capacities.                                           *)
VerifierTypeOK ==
  /\ TypeInv
  /\ policy \in Policies
  /\ \A d \in Dids : Len(pending[d].commits) <= PendingCapacity
  /\ handles \subseteq Jobs
  /\ Len(events) <= ChannelCapacity
  /\ errors \in Nat /\ errors <= ChannelCapacity
  /\ cpc \in {"open", "flagged", "cleared", "aborted", "closed"}
  /\ calls \in Nat /\ calls <= MaxCalls

(* A task that holds its repo's stripe lock works on the state that is      *)
(* stored: it has the newer revision, and the gate it passed is open.       *)
HoldsLock == {"verifyCommit", "verifySync", "enqueue", "pushHandle"}

LockInv ==
  \A t \in Tasks :
    /\ task[t].pc \in HoldsLock => lock[StripeOf[task[t].did]] = t
    /\ task[t].pc \in {"verifyCommit", "verifySync"} =>
         /\ task[t].seen = chain[task[t].did]
         /\ task[t].frame.rev > chain[task[t].did].rev
         /\ GateOpen(task[t].did)

(* The stored revision of a repo never goes back, whatever order commits,   *)
(* #sync frames and resyncs of stale mirrors are processed in.              *)
ChainNeverRegresses ==
  [][\A d \in Dids : chain'[d].rev >= chain[d].rev]_vars

(* What is stored is a state the account really published: the data root of *)
(* the stored revision, never one from a forged frame.                      *)
ChainAuthentic ==
  \A d \in Dids : chain[d].rev > 0 => chain[d].data = DataOf[chain[d].rev]

(* Under the Gate policy nothing is stored for a repo while its account is  *)
(* inactive, not even by a resync that began before it became so.           *)
GateHolds ==
  [][\A d \in Dids : Gate /\ chain'[d] # chain[d] => hosting[d].active]_vars

(* The job is between its start and the removal of its pending entry.       *)
Working(j, d) ==
  /\ task[j].did = d
  /\ task[j].pc \notin {"idle", "report", "sendEvent"}
  /\ task[j].pc = "sendError" => task[j].next = "replay"

(* Until close(), a DID buffers its commits exactly as long as one job is   *)
(* at work for it: never without a job, which would swallow the repo's      *)
(* commits for good, and never with two.                                    *)
PendingHasOneJob ==
  ~closed => \A d \in Dids :
    Cardinality({j \in Jobs : Working(j, d)}) = IF pending[d].on THEN 1 ELSE 0

(* A commit that was put in the buffer is not forgotten: the entry goes     *)
(* with commits in it only when its job failed, which is reported, or       *)
(* close() cleared it, also when commits come in while the job leaves.      *)
BufferNeverForgotten ==
  [][\A d \in Dids : pending[d].commits # <<>> /\ ~pending'[d].on =>
       \/ cpc' = "cleared"
       \/ \E j \in Jobs : task[j].did = d /\ task[j].pc = "finish"]_vars

(* Until close(), every revision that was verified and saved was handed to  *)
(* the consumer, or is in an event or a job on its way there.               *)
AdoptedReachesConsumer ==
  ~closed => \A d \in Dids : \A r \in adopted[d] :
    \/ r \in yielded[d]
    \/ \E i \in 1..Len(events) : events[i].did = d /\ \E k \in 1..Len(events[i].ops) : events[i].ops[k] = r
    \/ \E j \in Jobs : task[j].did = d /\ \E k \in 1..Len(task[j].ops) : task[j].ops[k] = r

(* t is at the mercy of a download for repo d. *)
Downloading(t, d) == task[t].did = d /\ task[t].pc = "fetch"

(* A repo does not stay in the resyncing state for ever, unless its         *)
(* download never ends.                                                     *)
ResyncSettles ==
  \A d \in Dids : pending[d].on ~> (~pending[d].on \/ \E j \in Jobs : Downloading(j, d))

(* Every call of the API returns, unless its own download never ends: a     *)
(* download that hangs does not hold up the calls for other frames.         *)
CallReturns ==
  \A t \in Callers : task[t].pc # "idle" ~> (task[t].pc = "idle" \/ Downloading(t, task[t].did))

-----------------------------------------------------------------------------
(* What makes the last invariants inductive. *)

(* An entry without a job buffers nothing; with one it has exactly one. *)
JobInv ==
  /\ \A d \in Dids : ~pending[d].on => pending[d].commits = <<>>
  /\ ~closed => \A d \in Dids : \A j \in Jobs : Working(j, d) =>
       pending[d].on /\ \A k \in Jobs : Working(k, d) => k = j
  /\ ~closed => \A d \in Dids : pending[d].on => \E j \in Jobs : Working(j, d)

(* A job has collected nothing before its resync succeeds, and from then on *)
(* the store has a chain for its repo, whose revision it will report.       *)
BeforeResync == {"idle", "start", "resync", "fetch", "adopt", "finish"}
AfterResync == {"drain", "check", "replay", "lockCommit", "verifyCommit", "report", "sendEvent"}

ResyncedJob(x) ==
  /\ x.pc \in BeforeResync \/ (x.pc = "sendError" /\ x.next = "idle") => x.ops = <<>>
  /\ x.pc \in AfterResync \/ (x.pc = "sendError" /\ x.next = "replay") => chain[x.did].rev > 0
  /\ x.pc = "sendEvent" => x.new > 0
  /\ x.pc = "sendError" => x.next # "sendEvent"

OpsInv ==
  ~closed => /\ \A j \in Jobs : ResyncedJob(task[j])
             /\ \A i \in 1..Len(events) : events[i].new > 0

=============================================================================
