--------------------------- MODULE VerifierProofs ---------------------------
(***************************************************************************)
(* Proofs about Verifier.tla, for any repos, tasks, stripes, revisions and *)
(* capacities.                                                             *)
(*                                                                         *)
(* Most steps move one task and leave it without the stripe lock; Moves(t) *)
(* says so, and is first derived for every such action.  From it follow    *)
(* the types, then LockInv: who holds a stripe lock works on the state     *)
(* that is stored.  The chain's monotonicity and the hosting gate are      *)
(* action properties that follow from LockInv.  JobInv, on the pending map *)
(* and the jobs, and DeliveryInv, on what jobs and events carry, are the   *)
(* inductive invariants of the last theorems.                              *)
(***************************************************************************)
EXTENDS Verifier, FiniteSetTheorems, TLAPS

Quiet == TaskPc \ HoldsLock
Free == Quiet \ (CommitPc \cup {"adopt"})

(* Only task t changes, and it does not end up inside a locked section. *)
Moves(t) ==
  /\ task' \in [Tasks -> TaskState]
  /\ task'[t].pc \in Quiet /\ TaskOK(task'[t])
  /\ \A u \in Tasks \ {t} : task'[u] = task[u]

-----------------------------------------------------------------------------
(* Task records. *)

(* An idle task is a task. *)
LEMMA IdleTaskType == IdleTask \in TaskState /\ IdleTask.pc = "idle"
<1>1. (CHOOSE d \in Dids : TRUE) \in Dids
  BY VerifierAssumption
<1>2. NoFrame \in FrameState
  BY DEF NoFrame, FrameState, CommitForms
<1> QED
  BY <1>1, <1>2 DEF IdleTask, TaskState, TaskPc, ChainState

(* What Become(t, x) does to the tasks. *)
LEMMA Becomes ==
  ASSUME TypeInv, NEW t \in Tasks, NEW x \in TaskState, Become(t, x)
  PROVE  /\ task' \in [Tasks -> TaskState]
         /\ task'[t] = x
         /\ \A u \in Tasks \ {t} : task'[u] = task[u]
BY DEF TypeInv, Become

(* A task that has nothing to do with a commit moves. *)
LEMMA BecomesFree ==
  ASSUME TypeInv, NEW t \in Tasks, NEW x \in TaskState, x.pc \in Free, Become(t, x)
  PROVE  Moves(t)
BY Becomes DEF Moves, TaskOK, Free, Quiet, HoldsLock

(* So does one that comes with a commit. *)
LEMMA BecomesCommit ==
  ASSUME TypeInv, NEW t \in Tasks, NEW x \in TaskState, x.pc \in {"commit", "lockCommit"},
         x.frame \in CommitFrame, Become(t, x)
  PROVE  Moves(t)
BY Becomes DEF Moves, TaskOK, Quiet, HoldsLock, TaskPc, CommitPc

(* A task that only jumps. *)
LEMMA Jumps ==
  ASSUME TypeInv, NEW t \in Tasks, NEW p \in Free,
         Become(t, [task[t] EXCEPT !.pc = p])
  PROVE  Moves(t)
<1>1. task[t] \in TaskState
  BY DEF TypeInv
<1>2. [task[t] EXCEPT !.pc = p] \in TaskState /\ [task[t] EXCEPT !.pc = p].pc = p
  BY <1>1 DEF TaskState, Free, Quiet
<1> QED
  BY <1>2, BecomesFree

(* A task that goes to send an error. *)
LEMMA Sends ==
  ASSUME TypeInv, NEW t \in Tasks, NEW n \in {"idle", "replay", "sendEvent"},
         Become(t, [task[t] EXCEPT !.pc = "sendError", !.next = n])
  PROVE  Moves(t)
<1> DEFINE x == [task[t] EXCEPT !.pc = "sendError", !.next = n]
<1>1. task[t] \in TaskState
  BY DEF TypeInv
<1>2. x \in TaskState /\ x.pc = "sendError"
  BY <1>1 DEF TaskState, TaskPc
<1>3. x.pc \in Free
  BY <1>2 DEF Free, Quiet, TaskPc, HoldsLock, CommitPc
<1> QED
  BY <1>2, <1>3, BecomesFree

(* A task that becomes idle. *)
LEMMA Idles ==
  ASSUME TypeInv, NEW t \in Tasks, Become(t, IdleTask)
  PROVE  Moves(t)
<1>1. IdleTask.pc \in Free
  BY IdleTaskType DEF Free, Quiet, TaskPc, HoldsLock, CommitPc
<1> QED
  BY <1>1, IdleTaskType, BecomesFree

(* The places without lock and commit that the actions lead to. *)
LEMMA FreePlaces ==
  {"idle", "resync", "fetch", "finish", "drain", "check", "replay", "report",
   "sync", "account", "start", "sendEvent", "sendError"} \subseteq Free
BY DEF Free, Quiet, TaskPc, HoldsLock, CommitPc

(* The answers of a call move its task. *)
LEMMA AnswersMove ==
  ASSUME TypeInv, NEW t \in Tasks
  PROVE  /\ AnswerNothing(t) => Moves(t)
         /\ AnswerError(t) => Moves(t)
         /\ ResyncFails(t) => Moves(t)
         /\ \A r \in Nat : AnswerOps(t, r) => Moves(t)
<1>1. ASSUME AnswerNothing(t) PROVE Moves(t)
  <2>1. CASE t \in Jobs
    BY <1>1, <2>1, Jumps, FreePlaces DEF AnswerNothing
  <2>2. CASE t \notin Jobs
    BY <1>1, <2>2, Idles DEF AnswerNothing
  <2> QED BY <2>1, <2>2
<1>2. ASSUME AnswerError(t) PROVE Moves(t)
  <2>1. CASE t \in Jobs
    BY <1>2, <2>1, Sends DEF AnswerError
  <2>2. CASE t \notin Jobs
    BY <1>2, <2>2, Idles DEF AnswerError
  <2> QED BY <2>1, <2>2
<1>3. ASSUME ResyncFails(t) PROVE Moves(t)
  <2>1. CASE t \in Jobs
    BY <1>3, <2>1, Jumps, FreePlaces DEF ResyncFails
  <2>2. CASE t \notin Jobs
    BY <1>3, <2>2, Idles DEF ResyncFails
  <2> QED BY <2>1, <2>2
<1>4. ASSUME NEW r \in Nat, AnswerOps(t, r) PROVE Moves(t)
  <2>1. CASE t \in Jobs
    <3> DEFINE x == [task[t] EXCEPT !.pc = "replay", !.ops = Append(task[t].ops, r)]
    <3>1. task[t] \in TaskState
      BY DEF TypeInv
    <3>2. Append(task[t].ops, r) \in Seq(Nat)
      BY <3>1 DEF TaskState
    <3>3. x \in TaskState /\ x.pc = "replay"
      BY <3>1, <3>2 DEF TaskState, TaskPc
    <3>4. Become(t, x)
      BY <1>4, <2>1 DEF AnswerOps
    <3> QED
      BY <3>3, <3>4, BecomesFree, FreePlaces
  <2>2. CASE t \notin Jobs
    BY <1>4, <2>2, Idles DEF AnswerOps
  <2> QED BY <2>1, <2>2
<1> QED
  BY <1>1, <1>2, <1>3, <1>4

-----------------------------------------------------------------------------
(* Revisions and account seqs are natural numbers, and so are data roots. *)
LEMMA RevsType ==
  /\ Revs \subseteq Nat /\ 1..MaxSeq \subseteq Nat
  /\ Forged \in Nat /\ \A r \in Revs : DataOf[r] \in Nat
<1>1. MaxRev \in Nat /\ MaxSeq \in Nat /\ DataOf \in [Revs -> Revs]
  BY VerifierAssumption
<1> QED
  BY <1>1 DEF Revs, Forged

(* Commits are frames. *)
LEMMA CommitFrameType == CommitFrame \subseteq FrameState
BY RevsType DEF CommitFrame, FrameState

(* The frames of the upstream are frames. *)
LEMMA FramesType ==
  ASSUME NEW f \in Frames
  PROVE  /\ f \in FrameState /\ f.kind \in {"commit", "sync", "account"}
         /\ f.kind = "commit" => f \in CommitFrame
<1>1. Revs \subseteq Nat /\ 1..MaxSeq \subseteq Nat
  BY RevsType
<1>2. Forms \subseteq CommitForms /\ {"good", "forged"} \subseteq CommitForms
  BY VerifierAssumption DEF CommitForms
<1>3. CASE f \in [kind : Kinds \cap {"commit"}, rev : Revs, form : Forms]
  BY <1>1, <1>2, <1>3 DEF FrameState, CommitFrame
<1>4. CASE f \in [kind : Kinds \cap {"sync"}, rev : Revs,
                 form : Forms \cap {"good", "corrupt", "forged"}]
  BY <1>1, <1>2, <1>4 DEF FrameState
<1>5. CASE f \in [kind : Kinds \cap {"account"}, rev : 1..MaxSeq, form : {"good", "forged"}]
  BY <1>1, <1>2, <1>5 DEF FrameState
<1> QED
  BY <1>3, <1>4, <1>5 DEF Frames

(* The steps of a caller that move it. *)
LEMMA CallerMoves ==
  ASSUME TypeInv, NEW t \in Callers
  PROVE  /\ Call(t) => Moves(t)
         /\ BufferCommit(t) => Moves(t)
         /\ EnqueueBuffered(t) => Moves(t)
         /\ PushHandle(t) => Moves(t)
         /\ AccountEvent(t) => Moves(t)
         /\ VerifySync(t) => Moves(t)
<1>0. t \in Tasks
  BY DEF Tasks
<1>1. ASSUME Call(t) PROVE Moves(t)
  <2>1. PICK d \in Dids, f \in Frames :
          Become(t, [IdleTask EXCEPT !.pc = f.kind, !.did = d, !.frame = f])
    BY <1>1 DEF Call
  <2> DEFINE x == [IdleTask EXCEPT !.pc = f.kind, !.did = d, !.frame = f]
  <2>2. x \in TaskState /\ x.pc = f.kind
    BY IdleTaskType, FramesType DEF TaskState, TaskPc
  <2>3. CASE f.kind = "commit"
    <3>1. x.frame = f
      BY IdleTaskType, FramesType DEF TaskState
    <3> QED
      BY <1>0, <2>1, <2>2, <2>3, <3>1, FramesType, BecomesCommit
  <2>4. CASE f.kind # "commit"
    <3>1. x.pc \in Free
      BY <2>2, <2>4, FramesType, FreePlaces
    <3> QED
      BY <1>0, <2>1, <2>2, <3>1, BecomesFree
  <2> QED BY <2>3, <2>4
<1>2. ASSUME BufferCommit(t) PROVE Moves(t)
  <2> DEFINE x == [task[t] EXCEPT !.pc = "lockCommit"]
  <2>1. task[t] \in TaskState /\ task[t].frame \in CommitFrame
    BY <1>0, <1>2 DEF TypeInv, TaskOK, CommitPc, BufferCommit
  <2>2. x \in TaskState /\ x.pc = "lockCommit" /\ x.frame = task[t].frame
    BY <2>1 DEF TaskState, TaskPc
  <2>3. CASE Become(t, x)
    BY <1>0, <2>1, <2>2, <2>3, BecomesCommit
  <2> QED
    BY <1>0, <1>2, <2>3, AnswersMove, Sends DEF BufferCommit
<1>3. ASSUME EnqueueBuffered(t) PROVE Moves(t)
  BY <1>0, <1>3, AnswersMove, Sends DEF EnqueueBuffered
<1>4. ASSUME PushHandle(t) PROVE Moves(t)
  BY <1>0, <1>4, AnswersMove DEF PushHandle
<1>5. ASSUME AccountEvent(t) PROVE Moves(t)
  BY <1>0, <1>5, AnswersMove, Sends DEF AccountEvent
<1>6. ASSUME VerifySync(t) PROVE Moves(t)
  BY <1>0, <1>6, AnswersMove, Jumps, FreePlaces DEF VerifySync
<1> QED
  BY <1>1, <1>2, <1>3, <1>4, <1>5, <1>6

(* The steps of a commit or a resync that move their task. *)
LEMMA CommitMoves ==
  ASSUME TypeInv, NEW t \in Tasks
  PROVE  /\ SaveCommit(t) => Moves(t)
         /\ RejectCommit(t) => Moves(t)
         /\ SendError(t) => Moves(t)
         /\ ResyncGate(t) => Moves(t)
         /\ Fetch(t) => Moves(t)
         /\ Adopt(t) => Moves(t)
<1>0. task[t] \in TaskState
  BY DEF TypeInv
<1>1. ASSUME SaveCommit(t) PROVE Moves(t)
  <2>1. task[t].frame.rev \in Nat
    BY <1>0 DEF TaskState, FrameState
  <2> QED
    BY <1>1, <2>1, AnswersMove DEF SaveCommit
<1>2. ASSUME RejectCommit(t) PROVE Moves(t)
  BY <1>2, AnswersMove DEF RejectCommit
<1>3. ASSUME SendError(t) PROVE Moves(t)
  <2>1. CASE task[t].next = "idle"
    BY <1>3, <2>1, Idles DEF SendError
  <2>2. CASE task[t].next # "idle"
    <3>1. task[t].next \in Free
      BY <1>0, FreePlaces DEF TaskState
    <3>2. Become(t, [task[t] EXCEPT !.pc = task[t].next])
      BY <1>3, <2>2 DEF SendError
    <3> QED
      BY <3>1, <3>2, Jumps
  <2> QED BY <2>1, <2>2
<1>4. ASSUME ResyncGate(t) PROVE Moves(t)
  BY <1>4, AnswersMove, Jumps, FreePlaces DEF ResyncGate
<1>5. ASSUME Fetch(t) PROVE Moves(t)
  <2>1. CASE ResyncFails(t)
    BY <2>1, AnswersMove
  <2>2. ASSUME NEW r \in Revs, Become(t, [task[t] EXCEPT !.pc = "adopt", !.got = r])
        PROVE  Moves(t)
    <3> DEFINE x == [task[t] EXCEPT !.pc = "adopt", !.got = r]
    <3>0. r \in Nat
      BY RevsType
    <3>1. x \in TaskState /\ x.pc = "adopt" /\ x.got = r
      BY <1>0, <3>0 DEF TaskState, TaskPc
    <3>2. TaskOK(x) /\ x.pc \in Quiet
      BY <3>1 DEF TaskOK, CommitPc, Quiet, TaskPc, HoldsLock
    <3> HIDE DEF x
    <3> QED
      BY <2>2, <3>1, <3>2, Becomes DEF Moves, x
  <2> QED
    BY <1>5, <2>1, <2>2 DEF Fetch
<1>6. ASSUME Adopt(t) PROVE Moves(t)
  <2>1. task[t].got \in Nat
    BY <1>0 DEF TaskState
  <2>2. CASE ResyncFails(t)
    BY <2>2, AnswersMove
  <2>3. CASE AnswerOps(t, task[t].got)
    BY <2>1, <2>3, AnswersMove
  <2>4. CASE Become(t, [task[t] EXCEPT !.pc = "drain", !.ops = <<task[t].got>>])
    <3> DEFINE x == [task[t] EXCEPT !.pc = "drain", !.ops = <<task[t].got>>]
    <3>1. <<task[t].got>> \in Seq(Nat)
      BY <2>1
    <3>2. x \in TaskState /\ x.pc = "drain"
      BY <1>0, <3>1 DEF TaskState, TaskPc
    <3> QED
      BY <2>4, <3>2, BecomesFree, FreePlaces
  <2> QED
    BY <1>6, <2>2, <2>3, <2>4 DEF Adopt
<1> QED
  BY <1>1, <1>2, <1>3, <1>4, <1>5, <1>6

(* Every step of a job's own moves it. *)
LEMMA JobMoves ==
  ASSUME TypeInv, NEW j \in Jobs, JobStep(j)
  PROVE  Moves(j)
<1>0. j \in Tasks /\ task[j] \in TaskState /\ pending[task[j].did] \in PendingState
  BY DEF Tasks, TypeInv, TaskState
<1>1. CASE JobStart(j)
  <2> DEFINE x == [task[j] EXCEPT !.pc = "resync", !.old = pending[task[j].did].old]
  <2>1. x \in TaskState /\ x.pc = "resync"
    BY <1>0 DEF TaskState, TaskPc, PendingState
  <2> QED
    BY <1>0, <1>1, <2>1, BecomesFree, Idles, FreePlaces DEF JobStart
<1>2. CASE JobGivesUp(j)
  BY <1>0, <1>2, Sends DEF JobGivesUp
<1>3. CASE JobDrain(j)
  <2> DEFINE q == IF pending[task[j].did].commits = <<>> THEN "check" ELSE "replay"
             x == [task[j] EXCEPT !.pc = q, !.todo = pending[task[j].did].commits]
  <2>1. q \in {"check", "replay"}
    OBVIOUS
  <2>2. x \in TaskState /\ x.pc = q
    BY <1>0, <2>1 DEF TaskState, TaskPc, PendingState
  <2>3. Become(j, x)
    BY <1>3 DEF JobDrain
  <2>4. x.pc \in Free
    BY <2>1, <2>2, FreePlaces
  <2> HIDE DEF x
  <2> QED
    BY <1>0, <2>2, <2>3, <2>4, BecomesFree
<1>4. CASE JobCheck(j)
  BY <1>0, <1>4, Jumps, FreePlaces DEF JobCheck
<1>5. CASE JobReplay(j)
  <2>1. CASE task[j].todo = <<>>
    BY <1>0, <1>5, <2>1, Jumps, FreePlaces DEF JobReplay
  <2>2. CASE task[j].todo # <<>>
    <3> DEFINE x == [task[j] EXCEPT !.pc = "lockCommit", !.frame = Head(task[j].todo),
                                    !.todo = Tail(task[j].todo)]
    <3>1. Head(task[j].todo) \in CommitFrame /\ Tail(task[j].todo) \in Seq(CommitFrame)
      BY <1>0, <2>2 DEF TaskState
    <3>2. Head(task[j].todo) \in FrameState
      BY <3>1, CommitFrameType
    <3>3. x \in TaskState /\ x.pc = "lockCommit" /\ x.frame = Head(task[j].todo)
      BY <1>0, <3>1, <3>2 DEF TaskState, TaskPc
    <3>4. Become(j, x)
      BY <1>5, <2>2 DEF JobReplay
    <3> QED
      BY <1>0, <3>1, <3>3, <3>4, BecomesCommit
  <2> QED BY <2>1, <2>2
<1>6. CASE JobReport(j)
  <2> DEFINE x == [task[j] EXCEPT !.pc = "sendEvent", !.new = chain[task[j].did].rev]
  <2>1. chain[task[j].did].rev \in Nat
    BY <1>0 DEF TypeInv, TaskState, ChainState
  <2>2. x \in TaskState /\ x.pc = "sendEvent"
    BY <1>0, <2>1 DEF TaskState, TaskPc
  <2> QED
    BY <1>0, <1>6, <2>2, BecomesFree, Sends, FreePlaces DEF JobReport
<1>7. CASE JobSendEvent(j)
  BY <1>0, <1>7, Idles DEF JobSendEvent
<1> QED
  BY <1>1, <1>2, <1>3, <1>4, <1>5, <1>6, <1>7 DEF JobStep

-----------------------------------------------------------------------------
(* Types. *)

(* Released locks are locks, and an acquired one has an owner. *)
LEMMA LockTypes ==
  ASSUME TypeInv
  PROVE  /\ \A ts : LocksWithout(ts) \in [Stripes -> Tasks \cup {NoTask}]
         /\ \A t \in Tasks, d \in Dids :
              Acquire(t, d) => lock' \in [Stripes -> Tasks \cup {NoTask}]
BY DEF TypeInv, LocksWithout, Acquire

(* The types after a step that moves one task. *)
LEMMA TypeFromMoves ==
  ASSUME TypeInv, NEW t \in Tasks, Moves(t),
         chain' \in [Dids -> ChainState], hosting' \in [Dids -> HostingState],
         lock' \in [Stripes -> Tasks \cup {NoTask}],
         pending' \in [Dids -> PendingState], events' \in Seq(EventState)
  PROVE  TypeInv'
<1>1. task' \in [Tasks -> TaskState]
  BY DEF Moves
<1>2. \A u \in Tasks : TaskOK(task'[u])
  BY DEF Moves, TypeInv
<1> QED
  BY <1>1, <1>2 DEF TypeInv, TaskOK

(* A buffered commit keeps the buffer within its type and capacity. *)
LEMMA BufferType ==
  ASSUME VerifierTypeOK, NEW d \in Dids, NEW f \in CommitFrame,
         Len(pending[d].commits) < PendingCapacity,
         pending' = [pending EXCEPT ![d].commits = Append(@, f)]
  PROVE  /\ pending' \in [Dids -> PendingState]
         /\ \A e \in Dids : Len(pending'[e].commits) <= PendingCapacity
<1>1. pending[d] \in PendingState /\ PendingCapacity \in Nat
  BY VerifierAssumption DEF VerifierTypeOK, TypeInv
<1>2. /\ Append(pending[d].commits, f) \in Seq(CommitFrame)
      /\ Len(Append(pending[d].commits, f)) <= PendingCapacity
  BY <1>1 DEF PendingState
<1>3. pending' = [pending EXCEPT ![d] = [pending[d] EXCEPT !.commits = Append(pending[d].commits, f)]]
  OBVIOUS
<1>4. [pending[d] EXCEPT !.commits = Append(pending[d].commits, f)] \in PendingState
  BY <1>1, <1>2 DEF PendingState
<1>5. pending'[d].commits = Append(pending[d].commits, f)
  BY <1>1, <1>3 DEF VerifierTypeOK, TypeInv, PendingState
<1>6. \A e \in Dids : e # d => pending'[e] = pending[e]
  BY <1>3 DEF VerifierTypeOK, TypeInv
<1> QED
  BY <1>2, <1>3, <1>4, <1>5, <1>6 DEF VerifierTypeOK, TypeInv

(* An entry that is replaced by one without commits. *)
LEMMA EmptyEntryType ==
  ASSUME VerifierTypeOK, NEW d \in Dids, NEW e \in PendingState, e.commits = <<>>,
         pending' = [pending EXCEPT ![d] = e]
  PROVE  /\ pending' \in [Dids -> PendingState]
         /\ \A c \in Dids : Len(pending'[c].commits) <= PendingCapacity
<1>1. PendingCapacity \in Nat /\ Len(<<>>) = 0
  BY VerifierAssumption
<1> QED
  BY <1>1 DEF VerifierTypeOK, TypeInv

(* The empty pending entry is one, with an empty buffer. *)
LEMMA NoPendingType == NoPending \in PendingState /\ NoPending.commits = <<>>
BY DEF NoPending, PendingState

(* The bounds that VerifierTypeOK adds to the types. *)
Bounds ==
  /\ \A d \in Dids : Len(pending[d].commits) <= PendingCapacity
  /\ handles \subseteq Jobs
  /\ Len(events) <= ChannelCapacity
  /\ errors \in Nat /\ errors <= ChannelCapacity
  /\ cpc \in {"open", "flagged", "cleared", "aborted", "closed"}
  /\ calls \in Nat /\ calls <= MaxCalls

(* The capacities are natural numbers. *)
LEMMA CapacityType == MaxCalls \in Nat /\ ChannelCapacity \in Nat
BY VerifierAssumption

(* The steps of the callers keep the types. *)
LEMMA CallerTypes ==
  ASSUME VerifierTypeOK, NEW t \in Callers, Call(t) \/ CallerStep(t)
  PROVE  TypeInv' /\ Bounds'
<1>0. /\ t \in Tasks /\ task[t] \in TaskState /\ task[t].did \in Dids
      /\ task[t].frame \in FrameState /\ TypeInv /\ Bounds
  BY DEF Tasks, TypeInv, TaskState, VerifierTypeOK, Bounds
<1>1. CASE Call(t)
  <2>1. Moves(t)
    BY <1>0, <1>1, CallerMoves
  <2>2. TypeInv'
    BY <1>0, <1>1, <2>1, TypeFromMoves DEF Call, storeVars, channelVars, TypeInv
  <2>3. Bounds'
    <3>1. calls < MaxCalls /\ calls' = calls + 1 /\ UNCHANGED <<pending, handles, events, errors, cpc>>
      BY <1>1 DEF Call, channelVars
    <3> QED
      BY <1>0, <3>1, CapacityType DEF Bounds
  <2> QED BY <2>2, <2>3
<1>2. CASE BufferCommit(t)
  <2>1. Moves(t)
    BY <1>0, <1>2, CallerMoves
  <2>2. /\ pending' \in [Dids -> PendingState]
        /\ \A e \in Dids : Len(pending'[e].commits) <= PendingCapacity
    <3>1. CASE UNCHANGED pending
      BY <1>0, <3>1 DEF TypeInv, Bounds
    <3>2. CASE ~UNCHANGED pending
      BY <1>0, <1>2, <3>2, BufferType DEF BufferCommit, TypeInv, TaskOK, CommitPc
    <3> QED BY <3>1, <3>2
  <2>3. TypeInv'
    BY <1>0, <1>2, <2>1, <2>2, TypeFromMoves DEF BufferCommit, storeVars, channelVars, TypeInv
  <2>4. Bounds'
    BY <1>0, <1>2, <2>2 DEF BufferCommit, channelVars, Bounds
  <2> QED BY <2>3, <2>4
<1>3. CASE EnqueueBuffered(t)
  <2>1. Moves(t)
    BY <1>0, <1>3, CallerMoves
  <2>2. /\ pending' \in [Dids -> PendingState]
        /\ \A e \in Dids : Len(pending'[e].commits) <= PendingCapacity
    <3>1. CASE UNCHANGED pending
      BY <1>0, <3>1 DEF TypeInv, Bounds
    <3>2. CASE ~UNCHANGED pending
      BY <1>0, <1>3, <3>2, BufferType DEF EnqueueBuffered, TypeInv, TaskOK, CommitPc
    <3> QED BY <3>1, <3>2
  <2>3. lock' \in [Stripes -> Tasks \cup {NoTask}]
    BY <1>0, <1>3, LockTypes DEF EnqueueBuffered, ReleaseLock, TypeInv
  <2>4. TypeInv'
    BY <1>0, <1>3, <2>1, <2>2, <2>3, TypeFromMoves
    DEF EnqueueBuffered, storeVars, channelVars, TypeInv
  <2>5. Bounds'
    BY <1>0, <1>3, <2>2 DEF EnqueueBuffered, channelVars, Bounds
  <2> QED BY <2>4, <2>5
<1>4. CASE EnqueueSpawn(t)
  <2>1. PICK j \in Jobs :
          /\ task' = [task EXCEPT ![j] = [IdleTask EXCEPT !.pc = "start", !.did = task[t].did],
                                  ![t] = [task[t] EXCEPT !.pc = "pushHandle", !.job = j]]
          /\ handles' = handles \ {j}
    BY <1>4 DEF EnqueueSpawn
  <2> DEFINE x == [IdleTask EXCEPT !.pc = "start", !.did = task[t].did]
             y == [task[t] EXCEPT !.pc = "pushHandle", !.job = j]
             e == [on |-> TRUE, old |-> task[t].seen.rev, commits |-> <<>>]
  <2>2. x \in TaskState /\ x.pc = "start"
    BY <1>0, IdleTaskType DEF TaskState, TaskPc
  <2>3. y \in TaskState /\ y.pc = "pushHandle" /\ y.job = j
    BY <1>0 DEF TaskState, TaskPc
  <2>4. e \in PendingState /\ e.commits = <<>>
    BY <1>0 DEF TaskState, ChainState, PendingState
  <2>5. pending' = [pending EXCEPT ![task[t].did] = e]
    BY <1>4 DEF EnqueueSpawn
  <2>6. /\ pending' \in [Dids -> PendingState]
        /\ \A c \in Dids : Len(pending'[c].commits) <= PendingCapacity
    BY <1>0, <2>4, <2>5, EmptyEntryType
  <2>7. task' = [task EXCEPT ![j] = x, ![t] = y] /\ j \in Tasks /\ j # t
    BY <2>1, VerifierAssumption DEF Tasks
  <2> HIDE DEF x, y, e
  <2>8. task' \in [Tasks -> TaskState]
    BY <1>0, <2>2, <2>3, <2>7 DEF TypeInv
  <2>9. \A u \in Tasks : TaskOK(task'[u])
    <3>1. TaskOK(x) /\ TaskOK(y)
      BY <2>2, <2>3 DEF TaskOK, CommitPc
    <3> QED
      BY <1>0, <2>2, <2>3, <2>7, <3>1 DEF TypeInv
  <2>10. TypeInv'
    BY <1>0, <1>4, <2>6, <2>8, <2>9 DEF EnqueueSpawn, storeVars, channelVars, TypeInv, TaskOK
  <2>11. Bounds'
    BY <1>0, <1>4, <2>1, <2>6 DEF EnqueueSpawn, channelVars, Bounds
  <2> QED BY <2>10, <2>11
<1>5. CASE PushHandle(t)
  <2>1. Moves(t)
    BY <1>0, <1>5, CallerMoves
  <2>2. lock' \in [Stripes -> Tasks \cup {NoTask}]
    BY <1>0, <1>5, LockTypes DEF PushHandle, ReleaseLock
  <2>3. TypeInv'
    BY <1>0, <1>5, <2>1, <2>2, TypeFromMoves DEF PushHandle, storeVars, channelVars, TypeInv
  <2>4. handles' \subseteq Jobs
    BY <1>0, <1>5 DEF PushHandle, TypeInv, TaskOK, Bounds
  <2>5. Bounds'
    BY <1>0, <1>5, <2>4 DEF PushHandle, channelVars, Bounds
  <2> QED BY <2>3, <2>5
<1>6. CASE AccountEvent(t)
  <2>1. Moves(t)
    BY <1>0, <1>6, CallerMoves
  <2>2. hosting' \in [Dids -> HostingState]
    <3> DEFINE h == [active |-> task[t].frame.form = "good", seq |-> task[t].frame.rev]
    <3>1. task[t].frame.rev \in Nat /\ (task[t].frame.form = "good") \in BOOLEAN
      BY <1>0 DEF FrameState
    <3>2. h \in HostingState
      BY <3>1 DEF HostingState
    <3>3. UNCHANGED hosting \/ hosting' = [hosting EXCEPT ![task[t].did] = h]
      BY <1>6 DEF AccountEvent
    <3> HIDE DEF h
    <3> QED
      BY <1>0, <3>2, <3>3 DEF TypeInv
  <2>3. TypeInv'
    BY <1>0, <1>6, <2>1, <2>2, TypeFromMoves DEF AccountEvent, channelVars, TypeInv
  <2>4. Bounds'
    BY <1>0, <1>6 DEF AccountEvent, channelVars, Bounds
  <2> QED BY <2>3, <2>4
<1>7. CASE LockSync(t)
  <2>1. CASE Moves(t) /\ UNCHANGED lock
    BY <1>0, <1>7, <2>1, TypeFromMoves DEF LockSync, storeVars, channelVars, TypeInv, Bounds
  <2>2. CASE /\ Acquire(t, task[t].did)
             /\ Become(t, [task[t] EXCEPT !.pc = "verifySync", !.seen = chain[task[t].did]])
    <3> DEFINE x == [task[t] EXCEPT !.pc = "verifySync", !.seen = chain[task[t].did]]
    <3>1. chain[task[t].did] \in ChainState
      BY <1>0 DEF TypeInv
    <3>2. x \in TaskState /\ x.pc = "verifySync"
      BY <1>0, <3>1 DEF TaskState, TaskPc
    <3> HIDE DEF x
    <3>3. task' \in [Tasks -> TaskState] /\ task'[t] = x /\ \A u \in Tasks \ {t} : task'[u] = task[u]
      BY <1>0, <2>2, <3>2, Becomes DEF x
    <3>4. \A u \in Tasks : TaskOK(task'[u])
      BY <1>0, <3>2, <3>3 DEF TypeInv, TaskOK, CommitPc
    <3>5. lock' \in [Stripes -> Tasks \cup {NoTask}]
      BY <1>0, <2>2, LockTypes
    <3>6. TypeInv'
      BY <1>0, <1>7, <3>3, <3>4, <3>5 DEF LockSync, storeVars, channelVars, TypeInv, TaskOK
    <3> QED
      BY <1>0, <1>7, <3>6 DEF LockSync, channelVars, Bounds
  <2> QED
    BY <1>0, <1>7, <2>1, <2>2, AnswersMove DEF LockSync
<1>8. CASE VerifySync(t)
  <2>1. Moves(t)
    BY <1>0, <1>8, CallerMoves
  <2>2. chain' \in [Dids -> ChainState]
    <3>1. task[t].frame.rev \in Nat /\ task[t].seen.data \in Nat
      BY <1>0 DEF FrameState, TaskState, ChainState
    <3> QED
      BY <1>0, <1>8, <3>1 DEF VerifySync, TypeInv, ChainState
  <2>3. lock' \in [Stripes -> Tasks \cup {NoTask}]
    BY <1>0, <1>8, LockTypes DEF VerifySync, ReleaseLock
  <2>4. TypeInv'
    BY <1>0, <1>8, <2>1, <2>2, <2>3, TypeFromMoves DEF VerifySync, channelVars, TypeInv
  <2>5. Bounds'
    BY <1>0, <1>8 DEF VerifySync, channelVars, Bounds
  <2> QED BY <2>4, <2>5
<1> QED
  BY <1>1, <1>2, <1>3, <1>4, <1>5, <1>6, <1>7, <1>8 DEF CallerStep

(* The steps of a commit and of a resync keep the types. *)
LEMMA CommitTypes ==
  ASSUME VerifierTypeOK, NEW t \in Tasks, CommitStep(t) \/ ResyncStep(t)
  PROVE  TypeInv' /\ Bounds'
<1>0. /\ task[t] \in TaskState /\ task[t].did \in Dids
      /\ task[t].frame \in FrameState /\ TypeInv /\ Bounds
  BY DEF TypeInv, TaskState, VerifierTypeOK, Bounds
<1>1. CASE LockCommit(t)
  <2>1. CASE Moves(t) /\ UNCHANGED lock
    BY <1>0, <1>1, <2>1, TypeFromMoves DEF LockCommit, storeVars, channelVars, TypeInv, Bounds
  <2>2. CASE /\ Acquire(t, task[t].did)
             /\ Become(t, [task[t] EXCEPT !.pc = "verifyCommit", !.seen = chain[task[t].did]])
    <3> DEFINE x == [task[t] EXCEPT !.pc = "verifyCommit", !.seen = chain[task[t].did]]
    <3>1. chain[task[t].did] \in ChainState
      BY <1>0 DEF TypeInv
    <3>2. x \in TaskState /\ x.pc = "verifyCommit" /\ x.frame = task[t].frame
      BY <1>0, <3>1 DEF TaskState, TaskPc
    <3> HIDE DEF x
    <3>3. task' \in [Tasks -> TaskState] /\ task'[t] = x /\ \A u \in Tasks \ {t} : task'[u] = task[u]
      BY <1>0, <2>2, <3>2, Becomes DEF x
    <3>4. TaskOK(x)
      BY <1>0, <1>1, <3>2 DEF LockCommit, TypeInv, TaskOK, CommitPc
    <3>5. \A u \in Tasks : TaskOK(task'[u])
      BY <1>0, <3>3, <3>4 DEF TypeInv
    <3>6. lock' \in [Stripes -> Tasks \cup {NoTask}]
      BY <1>0, <2>2, LockTypes
    <3>7. TypeInv'
      BY <1>0, <1>1, <3>3, <3>5, <3>6 DEF LockCommit, storeVars, channelVars, TypeInv, TaskOK
    <3> QED
      BY <1>0, <1>1, <3>7 DEF LockCommit, channelVars, Bounds
  <2> QED
    BY <1>0, <1>1, <2>1, <2>2, AnswersMove DEF LockCommit
<1>2. CASE SaveCommit(t)
  <2>1. Moves(t)
    BY <1>0, <1>2, CommitMoves
  <2>2. chain' \in [Dids -> ChainState]
    <3> DEFINE f == task[t].frame
               c == [rev |-> f.rev, data |-> IF f.form = "forged" THEN Forged ELSE DataOf[f.rev]]
    <3>1. chain' = [chain EXCEPT ![task[t].did] = c]
      BY <1>2 DEF SaveCommit
    <3>2. f.rev \in Revs
      BY <1>0, <1>2 DEF SaveCommit, TypeInv, TaskOK, CommitPc, CommitFrame
    <3>3. f.rev \in Nat /\ DataOf[f.rev] \in Nat /\ Forged \in Nat
      BY <3>2, RevsType
    <3>4. c \in ChainState
      BY <3>3 DEF ChainState
    <3> HIDE DEF c
    <3> QED
      BY <1>0, <3>1, <3>4 DEF TypeInv
  <2>3. lock' \in [Stripes -> Tasks \cup {NoTask}]
    BY <1>0, <1>2, LockTypes DEF SaveCommit, ReleaseLock
  <2>4. TypeInv'
    BY <1>0, <1>2, <2>1, <2>2, <2>3, TypeFromMoves DEF SaveCommit, channelVars, TypeInv
  <2>5. Bounds'
    BY <1>0, <1>2 DEF SaveCommit, channelVars, Bounds
  <2> QED BY <2>4, <2>5
<1>3. CASE RejectCommit(t)
  <2>1. Moves(t) /\ lock' \in [Stripes -> Tasks \cup {NoTask}]
    BY <1>0, <1>3, CommitMoves, LockTypes DEF RejectCommit, ReleaseLock
  <2> QED
    BY <1>0, <1>3, <2>1, TypeFromMoves DEF RejectCommit, storeVars, channelVars, TypeInv, Bounds
<1>4. CASE RecoverCommit(t)
  <2>1. CASE Moves(t) /\ ReleaseLock(t)
    <3>1. lock' \in [Stripes -> Tasks \cup {NoTask}]
      BY <1>0, <2>1, LockTypes DEF ReleaseLock
    <3> QED
      BY <1>0, <1>4, <2>1, <3>1, TypeFromMoves
      DEF RecoverCommit, storeVars, channelVars, TypeInv, Bounds
  <2>2. CASE Become(t, [task[t] EXCEPT !.pc = "enqueue"]) /\ UNCHANGED lock
    <3> DEFINE x == [task[t] EXCEPT !.pc = "enqueue"]
    <3>1. x \in TaskState /\ x.pc = "enqueue" /\ x.frame = task[t].frame
      BY <1>0 DEF TaskState, TaskPc
    <3> HIDE DEF x
    <3>2. task' \in [Tasks -> TaskState] /\ task'[t] = x /\ \A u \in Tasks \ {t} : task'[u] = task[u]
      BY <1>0, <2>2, <3>1, Becomes DEF x
    <3>3. TaskOK(x)
      BY <1>0, <1>4, <3>1 DEF RecoverCommit, TypeInv, TaskOK, CommitPc
    <3>4. \A u \in Tasks : TaskOK(task'[u])
      BY <1>0, <3>2, <3>3 DEF TypeInv
    <3>5. TypeInv'
      BY <1>0, <1>4, <2>2, <3>2, <3>4 DEF RecoverCommit, storeVars, channelVars, TypeInv, TaskOK
    <3> QED
      BY <1>0, <1>4, <3>5 DEF RecoverCommit, channelVars, Bounds
  <2> QED
    BY <1>0, <1>4, <2>1, <2>2, AnswersMove DEF RecoverCommit
<1>5. CASE SendError(t)
  <2>1. Moves(t) /\ lock' \in [Stripes -> Tasks \cup {NoTask}]
    BY <1>0, <1>5, CommitMoves, LockTypes DEF SendError, ReleaseLock
  <2>2. TypeInv'
    BY <1>0, <1>5, <2>1, TypeFromMoves DEF SendError, storeVars, TypeInv
  <2>3. errors' \in Nat /\ errors' <= ChannelCapacity
    BY <1>0, <1>5, CapacityType DEF SendError, Bounds
  <2> QED
    BY <1>0, <1>5, <2>2, <2>3 DEF SendError, Bounds
<1>6. CASE ResyncGate(t)
  <2>1. Moves(t)
    BY <1>0, <1>6, CommitMoves
  <2> QED
    BY <1>0, <1>6, <2>1, TypeFromMoves DEF ResyncGate, storeVars, channelVars, TypeInv, Bounds
<1>7. CASE Fetch(t)
  <2>1. Moves(t)
    BY <1>0, <1>7, CommitMoves
  <2> QED
    BY <1>0, <1>7, <2>1, TypeFromMoves DEF Fetch, storeVars, channelVars, TypeInv, Bounds
<1>8. CASE Adopt(t)
  <2>1. Moves(t)
    BY <1>0, <1>8, CommitMoves
  <2>2. chain' \in [Dids -> ChainState]
    <3> DEFINE c == [rev |-> task[t].got, data |-> DataOf[task[t].got]]
    <3>1. UNCHANGED chain \/ (task[t].pc = "adopt" /\ chain' = [chain EXCEPT ![task[t].did] = c])
      BY <1>8 DEF Adopt
    <3>2. task[t].pc = "adopt" => c \in ChainState
      BY <1>0, RevsType DEF TypeInv, TaskOK, ChainState
    <3> HIDE DEF c
    <3> QED
      BY <1>0, <3>1, <3>2 DEF TypeInv
  <2>3. TypeInv'
    BY <1>0, <1>8, <2>1, <2>2, TypeFromMoves DEF Adopt, channelVars, TypeInv
  <2> QED
    BY <1>0, <1>8, <2>3 DEF Adopt, channelVars, Bounds
<1> QED
  BY <1>1, <1>2, <1>3, <1>4, <1>5, <1>6, <1>7, <1>8 DEF CommitStep, ResyncStep

(* The steps of a job keep the types. *)
LEMMA JobTypes ==
  ASSUME VerifierTypeOK, NEW j \in Jobs, JobStep(j)
  PROVE  TypeInv' /\ Bounds'
<1>0. /\ j \in Tasks /\ task[j] \in TaskState /\ task[j].did \in Dids /\ TypeInv /\ Bounds
  BY DEF Tasks, TypeInv, TaskState, VerifierTypeOK, Bounds
<1>m. Moves(j)
  BY <1>0, JobMoves
<1>1. CASE JobStart(j)
  BY <1>0, <1>m, <1>1, TypeFromMoves DEF JobStart, storeVars, channelVars, TypeInv, Bounds
<1>2. CASE JobGivesUp(j)
  <2>1. /\ pending' \in [Dids -> PendingState]
        /\ \A c \in Dids : Len(pending'[c].commits) <= PendingCapacity
    BY <1>0, <1>2, NoPendingType, EmptyEntryType DEF JobGivesUp
  <2> QED
    BY <1>0, <1>m, <1>2, <2>1, TypeFromMoves DEF JobGivesUp, storeVars, channelVars, TypeInv, Bounds
<1>3. CASE JobDrain(j)
  <2> DEFINE d == task[j].did
             e == [pending[d] EXCEPT !.commits = <<>>]
  <2>1. pending[d] \in PendingState
    BY <1>0 DEF TypeInv
  <2>2. e \in PendingState /\ e.commits = <<>>
    <3> DEFINE none == <<>>
    <3>1. none \in Seq(CommitFrame)
      OBVIOUS
    <3> HIDE DEF none
    <3>2. [pending[d] EXCEPT !.commits = none] \in PendingState
      BY <2>1, <3>1 DEF PendingState
    <3>3. [pending[d] EXCEPT !.commits = none].commits = none
      BY <2>1 DEF PendingState
    <3> QED
      BY <3>2, <3>3 DEF none
  <2>3. pending' = [pending EXCEPT ![d] = e]
    BY <1>3 DEF JobDrain
  <2> HIDE DEF e
  <2>4. /\ pending' \in [Dids -> PendingState]
        /\ \A c \in Dids : Len(pending'[c].commits) <= PendingCapacity
    BY <1>0, <2>2, <2>3, EmptyEntryType
  <2> QED
    BY <1>0, <1>m, <1>3, <2>4, TypeFromMoves DEF JobDrain, storeVars, channelVars, TypeInv, Bounds
<1>4. CASE JobCheck(j)
  <2>1. /\ pending' \in [Dids -> PendingState]
        /\ \A c \in Dids : Len(pending'[c].commits) <= PendingCapacity
    <3>1. CASE UNCHANGED pending
      BY <1>0, <3>1 DEF TypeInv, Bounds
    <3>2. CASE ~UNCHANGED pending
      BY <1>0, <1>4, <3>2, NoPendingType, EmptyEntryType DEF JobCheck
    <3> QED BY <3>1, <3>2
  <2> QED
    BY <1>0, <1>m, <1>4, <2>1, TypeFromMoves DEF JobCheck, storeVars, channelVars, TypeInv, Bounds
<1>5. CASE JobReplay(j)
  BY <1>0, <1>m, <1>5, TypeFromMoves DEF JobReplay, storeVars, channelVars, TypeInv, Bounds
<1>6. CASE JobReport(j)
  BY <1>0, <1>m, <1>6, TypeFromMoves DEF JobReport, storeVars, channelVars, TypeInv, Bounds
<1>7. CASE JobSendEvent(j)
  <2> DEFINE e == [did |-> task[j].did, old |-> task[j].old, new |-> task[j].new, ops |-> task[j].ops]
  <2>1. e \in EventState
    BY <1>0 DEF TaskState, EventState
  <2>2. UNCHANGED events \/ (Len(events) < ChannelCapacity /\ events' = Append(events, e))
    BY <1>7 DEF JobSendEvent
  <2> HIDE DEF e
  <2>3. events' \in Seq(EventState) /\ Len(events') <= ChannelCapacity
    BY <1>0, <2>1, <2>2, CapacityType DEF TypeInv, Bounds
  <2> QED
    BY <1>0, <1>m, <1>7, <2>3, TypeFromMoves DEF JobSendEvent, storeVars, TypeInv, Bounds
<1> QED
  BY <1>1, <1>2, <1>3, <1>4, <1>5, <1>6, <1>7 DEF JobStep

(* The consumer and close() keep the types. *)
LEMMA OtherTypes ==
  ASSUME VerifierTypeOK, RecvEvent \/ RecvError \/ CloseStep
  PROVE  TypeInv' /\ Bounds'
<1>0. TypeInv /\ Bounds
  BY DEF VerifierTypeOK, Bounds
<1>1. CASE RecvEvent
  <2>1. events' \in Seq(EventState) /\ Len(events') <= ChannelCapacity
    BY <1>0, <1>1, CapacityType DEF RecvEvent, TypeInv, Bounds
  <2> QED
    BY <1>0, <1>1, <2>1 DEF RecvEvent, storeVars, TypeInv, TaskOK, Bounds
<1>2. CASE RecvError
  <2>1. errors' \in Nat /\ errors' <= ChannelCapacity
    BY <1>0, <1>2, CapacityType DEF RecvError, Bounds
  <2> QED
    BY <1>0, <1>2, <2>1 DEF RecvError, storeVars, TypeInv, TaskOK, Bounds
<1>3. CASE CloseFlag
  BY <1>0, <1>3 DEF CloseFlag, storeVars, channelVars, TypeInv, TaskOK, Bounds
<1>4. CASE CloseClear
  <2>1. PendingCapacity \in Nat /\ Len(<<>>) = 0
    BY VerifierAssumption
  <2>2. /\ pending' \in [Dids -> PendingState]
        /\ \A c \in Dids : Len(pending'[c].commits) <= PendingCapacity
    BY <1>4, <2>1, NoPendingType DEF CloseClear
  <2> QED
    BY <1>0, <1>4, <2>2 DEF CloseClear, storeVars, channelVars, TypeInv, TaskOK, Bounds
<1>5. CASE CloseAbort
  <2>1. task' \in [Tasks -> TaskState]
    BY <1>0, <1>5, IdleTaskType DEF CloseAbort, TypeInv
  <2>2. TaskOK(IdleTask)
    BY IdleTaskType DEF TaskOK, CommitPc
  <2>3. \A u \in Tasks : TaskOK(task'[u])
    BY <1>0, <1>5, <2>2 DEF CloseAbort, TypeInv
  <2>4. lock' \in [Stripes -> Tasks \cup {NoTask}]
    BY <1>0, <1>5, LockTypes DEF CloseAbort
  <2>5. TypeInv'
    BY <1>0, <1>5, <2>1, <2>3, <2>4 DEF CloseAbort, storeVars, channelVars, TypeInv, TaskOK
  <2> QED
    BY <1>0, <1>5, <2>5 DEF CloseAbort, channelVars, Bounds
<1>6. CASE CloseSenders
  BY <1>0, <1>6 DEF CloseSenders, storeVars, channelVars, TypeInv, TaskOK, Bounds
<1> QED
  BY <1>1, <1>2, <1>3, <1>4, <1>5, <1>6 DEF CloseStep

(* The type invariant in two parts. *)
LEMMA BoundsDef == VerifierTypeOK <=> TypeInv /\ Bounds /\ policy \in Policies
BY DEF VerifierTypeOK, Bounds

(* A step of the specification is a step of the verifier. *)
LEMMA StepIsNext == [Step]_<<vars, policy>> => [VerifierNext]_vars
BY DEF Step

(* The variables of the verifier keep their types, and the buffers, the      *)
(* channels and the calls their bounds: buffer_commit_if_resyncing and       *)
(* enqueue_resync never exceed pending_queue_capacity.                       *)
THEOREM VerifierTypeCorrect == VerifierSpec => []VerifierTypeOK
<1>1. VerifierInit => VerifierTypeOK
  <2> SUFFICES ASSUME VerifierInit PROVE TypeInv /\ Bounds
    BY BoundsDef DEF VerifierInit
  <2>1. TaskOK(IdleTask)
    BY IdleTaskType DEF TaskOK, CommitPc
  <2>2. task \in [Tasks -> TaskState] /\ \A t \in Tasks : TaskOK(task[t])
    BY <2>1, IdleTaskType DEF VerifierInit
  <2>3. /\ pending \in [Dids -> PendingState]
        /\ \A d \in Dids : Len(pending[d].commits) <= PendingCapacity
    <3>1. PendingCapacity \in Nat /\ Len(<<>>) = 0
      BY VerifierAssumption
    <3> QED
      BY <3>1, NoPendingType DEF VerifierInit
  <2>4. events = <<>> /\ events \in Seq(EventState) /\ Len(events) <= ChannelCapacity
    BY CapacityType DEF VerifierInit
  <2>5. chain \in [Dids -> ChainState] /\ lock \in [Stripes -> Tasks \cup {NoTask}]
    BY DEF VerifierInit, ChainState
  <2>6. hosting \in [Dids -> HostingState]
    BY DEF VerifierInit, HostingState
  <2>7. TypeInv
    BY <2>2, <2>3, <2>4, <2>5, <2>6 DEF TypeInv
  <2>8. Bounds
    BY <2>3, <2>4, CapacityType DEF VerifierInit, Bounds
  <2> QED BY <2>7, <2>8
<1>2. VerifierTypeOK /\ [VerifierNext]_vars => TypeInv' /\ Bounds'
  <2> SUFFICES ASSUME VerifierTypeOK, [VerifierNext]_vars PROVE TypeInv' /\ Bounds'
    OBVIOUS
  <2>1. CASE UNCHANGED vars
    BY <2>1, BoundsDef DEF vars, TypeInv, TaskOK, Bounds
  <2>2. ASSUME NEW t \in Callers, Call(t) \/ CallerStep(t) PROVE TypeInv' /\ Bounds'
    BY <2>2, CallerTypes
  <2>3. ASSUME NEW t \in Tasks, CommitStep(t) \/ ResyncStep(t) PROVE TypeInv' /\ Bounds'
    BY <2>3, CommitTypes
  <2>4. ASSUME NEW j \in Jobs, JobStep(j) PROVE TypeInv' /\ Bounds'
    BY <2>4, JobTypes
  <2>5. CASE RecvEvent \/ RecvError \/ CloseStep
    BY <2>5, OtherTypes
  <2> QED
    BY <2>1, <2>2, <2>3, <2>4, <2>5 DEF VerifierNext
<1>3. VerifierTypeOK /\ [Step]_<<vars, policy>> => VerifierTypeOK'
  <2> SUFFICES ASSUME VerifierTypeOK, [Step]_<<vars, policy>> PROVE VerifierTypeOK'
    OBVIOUS
  <2>1. policy' = policy
    BY DEF Step
  <2>2. TypeInv' /\ Bounds'
    BY <1>2, StepIsNext
  <2> QED
    BY <2>1, <2>2 DEF VerifierTypeOK, Bounds
<1> QED
  BY <1>1, <1>3, PTL DEF VerifierSpec

-----------------------------------------------------------------------------
(* Stripe locks. *)

(* What LockInv says of one task. *)
LockedTask(t) ==
  /\ task[t].pc \in HoldsLock => lock[StripeOf[task[t].did]] = t
  /\ task[t].pc \in {"verifyCommit", "verifySync"} =>
       /\ task[t].seen = chain[task[t].did]
       /\ task[t].frame.rev > chain[task[t].did].rev
       /\ GateOpen(task[t].did)

(* LockInv task by task. *)
LEMMA LockInvDef == LockInv <=> \A t \in Tasks : LockedTask(t)
BY DEF LockInv, LockedTask

(* A task that keeps its state, its lock and what is stored for its repo. *)
LEMMA Undisturbed ==
  ASSUME TypeInv, NEW u \in Tasks, LockedTask(u), task'[u] = task[u],
         task[u].pc \in HoldsLock =>
           /\ lock'[StripeOf[task[u].did]] = lock[StripeOf[task[u].did]]
           /\ chain'[task[u].did] = chain[task[u].did]
           /\ hosting'[task[u].did] = hosting[task[u].did]
  PROVE  LockedTask(u)'
BY DEF LockedTask, GateOpen, HoldsLock

(* The stripe of a repo, and the locks after a release. *)
LEMMA StripeFacts ==
  ASSUME TypeInv, NEW t \in Tasks
  PROVE  /\ task[t].did \in Dids /\ StripeOf[task[t].did] \in Stripes
         /\ t # NoTask
         /\ \A ts : \A s \in Stripes : lock[s] \notin ts => LocksWithout(ts)[s] = lock[s]
<1>1. task[t].did \in Dids
  BY DEF TypeInv, TaskState
<1>2. StripeOf \in [Dids -> Stripes] /\ NoTask \notin Tasks
  BY VerifierAssumption
<1> QED
  BY <1>1, <1>2 DEF LocksWithout

(* A task that moves disturbs nobody: it writes only what its own or a free  *)
(* stripe protects.                                                          *)
LEMMA MovesKeepLocks ==
  ASSUME TypeInv, LockInv, NEW t \in Tasks, Moves(t),
         UNCHANGED lock \/ ReleaseLock(t),
         \/ UNCHANGED <<chain, hosting>>
         \/ /\ lock[StripeOf[task[t].did]] \in {t, NoTask}
            /\ \A e \in Dids \ {task[t].did} : chain'[e] = chain[e] /\ hosting'[e] = hosting[e]
  PROVE  LockInv'
<1> SUFFICES ASSUME NEW u \in Tasks PROVE LockedTask(u)'
  BY LockInvDef DEF LockInv, LockedTask
<1>1. CASE u = t
  <2>1. task'[t].pc \in Quiet
    BY DEF Moves
  <2> QED
    BY <1>1, <2>1 DEF LockedTask, Quiet, HoldsLock
<1>2. CASE u # t
  <2>1. task'[u] = task[u] /\ LockedTask(u)
    BY <1>2, LockInvDef DEF Moves
  <2>2. ASSUME task[u].pc \in HoldsLock
        PROVE  /\ lock'[StripeOf[task[u].did]] = lock[StripeOf[task[u].did]]
               /\ chain'[task[u].did] = chain[task[u].did]
               /\ hosting'[task[u].did] = hosting[task[u].did]
    <3>1. lock[StripeOf[task[u].did]] = u
      BY <2>1, <2>2 DEF LockedTask
    <3>2. lock'[StripeOf[task[u].did]] = u
      BY <1>2, <3>1, StripeFacts DEF ReleaseLock
    <3>3. UNCHANGED <<chain, hosting>> \/ task[u].did # task[t].did
      BY <1>2, <3>1, StripeFacts
    <3> QED
      BY <3>1, <3>2, <3>3, StripeFacts
  <2> QED
    BY <2>1, <2>2, Undisturbed
<1> QED BY <1>1, <1>2

(* A task that takes a free stripe lock with the stored state in hand. *)
LEMMA AcquireKeepsLocks ==
  ASSUME TypeInv, LockInv, NEW t \in Tasks, NEW x \in TaskState, Become(t, x),
         x.did = task[t].did, x.frame = task[t].frame, x.seen = chain[task[t].did],
         StripeFree(task[t].did), Acquire(t, task[t].did), GateOpen(task[t].did),
         task[t].frame.rev > chain[task[t].did].rev, UNCHANGED <<chain, hosting>>
  PROVE  LockInv'
<1> SUFFICES ASSUME NEW u \in Tasks PROVE LockedTask(u)'
  BY LockInvDef DEF LockInv, LockedTask
<1>0. task'[t] = x /\ \A v \in Tasks \ {t} : task'[v] = task[v]
  BY Becomes
<1>1. CASE u = t
  <2>1. lock'[StripeOf[task[t].did]] = t
    BY StripeFacts DEF Acquire, TypeInv
  <2>2. GateOpen(task[t].did)'
    BY <1>0 DEF GateOpen
  <2> QED
    BY <1>0, <1>1, <2>1, <2>2 DEF LockedTask, GateOpen
<1>2. CASE u # t
  <2>1. task'[u] = task[u] /\ LockedTask(u)
    BY <1>0, <1>2, LockInvDef
  <2>2. ASSUME task[u].pc \in HoldsLock
        PROVE  lock'[StripeOf[task[u].did]] = lock[StripeOf[task[u].did]]
    <3>1. lock[StripeOf[task[u].did]] = u
      BY <2>1, <2>2 DEF LockedTask
    <3>2. StripeOf[task[u].did] # StripeOf[task[t].did]
      BY <3>1, StripeFacts DEF StripeFree
    <3> QED
      BY <3>2, StripeFacts DEF Acquire, TypeInv
  <2> QED
    BY <2>1, <2>2, Undisturbed
<1> QED BY <1>1, <1>2

(* Every step preserves LockInv. *)
LEMMA LockStep ==
  ASSUME VerifierTypeOK, LockInv, [VerifierNext]_vars
  PROVE  LockInv'
<1>0. TypeInv
  BY DEF VerifierTypeOK
<1>1. CASE UNCHANGED vars
  BY <1>1 DEF vars, LockInv, GateOpen
<1>2. ASSUME NEW t \in Callers, Call(t) \/ CallerStep(t) PROVE LockInv'
  <2>0. t \in Tasks
    BY DEF Tasks
  <2>1. CASE Call(t)
    BY <1>0, <2>0, <2>1, CallerMoves, MovesKeepLocks DEF Call, storeVars
  <2>2. CASE BufferCommit(t)
    BY <1>0, <2>0, <2>2, CallerMoves, MovesKeepLocks DEF BufferCommit, storeVars
  <2>3. CASE EnqueueBuffered(t)
    BY <1>0, <2>0, <2>3, CallerMoves, MovesKeepLocks DEF EnqueueBuffered, storeVars
  <2>4. CASE EnqueueSpawn(t)
    <3>1. PICK j \in Jobs :
            /\ task[j].pc = "idle"
            /\ task' = [task EXCEPT ![j] = [IdleTask EXCEPT !.pc = "start", !.did = task[t].did],
                                    ![t] = [task[t] EXCEPT !.pc = "pushHandle", !.job = j]]
      BY <2>4 DEF EnqueueSpawn
    <3> DEFINE x == [IdleTask EXCEPT !.pc = "start", !.did = task[t].did]
               y == [task[t] EXCEPT !.pc = "pushHandle", !.job = j]
    <3>2. task[t] \in TaskState /\ j \in Tasks /\ j # t
      BY <1>0, <2>0, VerifierAssumption DEF TypeInv, Tasks
    <3>3. x.pc = "start" /\ y.pc = "pushHandle" /\ y.did = task[t].did
      BY <3>2, IdleTaskType DEF TaskState
    <3>4. task' = [task EXCEPT ![j] = x, ![t] = y]
      BY <3>1
    <3> HIDE DEF x, y
    <3>5. /\ task'[j] = x /\ task'[t] = y
          /\ \A u \in Tasks \ {j, t} : task'[u] = task[u]
      BY <1>0, <2>0, <3>2, <3>4 DEF TypeInv
    <3> SUFFICES ASSUME NEW u \in Tasks PROVE LockedTask(u)'
      BY LockInvDef DEF LockInv, LockedTask
    <3>6. UNCHANGED <<lock, chain, hosting>> /\ LockedTask(u)
      BY <2>4, LockInvDef DEF EnqueueSpawn, storeVars
    <3>7. CASE u = j
      BY <3>3, <3>5, <3>7 DEF LockedTask, HoldsLock
    <3>8. CASE u = t
      <4>1. lock[StripeOf[task[t].did]] = t
        BY <2>4, <3>6, <3>8 DEF LockedTask, HoldsLock, EnqueueSpawn
      <4> QED
        BY <3>3, <3>5, <3>6, <3>8, <4>1 DEF LockedTask
    <3>9. CASE u \notin {j, t}
      BY <1>0, <3>5, <3>6, <3>9, Undisturbed
    <3> QED BY <3>7, <3>8, <3>9
  <2>5. CASE PushHandle(t)
    BY <1>0, <2>0, <2>5, CallerMoves, MovesKeepLocks DEF PushHandle, storeVars
  <2>6. CASE AccountEvent(t)
    <3>1. /\ lock[StripeOf[task[t].did]] = NoTask /\ UNCHANGED <<chain, lock>>
          /\ \A e \in Dids \ {task[t].did} : hosting'[e] = hosting[e]
      BY <1>0, <2>6 DEF AccountEvent, StripeFree, TypeInv
    <3> QED
      BY <1>0, <2>0, <2>6, <3>1, CallerMoves, MovesKeepLocks
  <2>7. CASE LockSync(t)
    <3> DEFINE x == [task[t] EXCEPT !.pc = "verifySync", !.seen = chain[task[t].did]]
    <3>1. task[t] \in TaskState /\ chain[task[t].did] \in ChainState
      BY <1>0, <2>0 DEF TypeInv, TaskState
    <3>2. /\ x \in TaskState /\ x.did = task[t].did /\ x.frame = task[t].frame
          /\ x.seen = chain[task[t].did]
      BY <3>1 DEF TaskState, TaskPc
    <3> HIDE DEF x
    <3>3. CASE Become(t, x) /\ Acquire(t, task[t].did) /\ GateOpen(task[t].did)
               /\ task[t].frame.rev > chain[task[t].did].rev
      BY <1>0, <2>0, <2>7, <3>2, <3>3, AcquireKeepsLocks DEF LockSync, storeVars
    <3>4. CASE Moves(t) /\ UNCHANGED lock
      BY <1>0, <2>0, <2>7, <3>4, MovesKeepLocks DEF LockSync, storeVars
    <3> QED
      BY <1>0, <2>0, <2>7, <3>3, <3>4, AnswersMove DEF LockSync, x
  <2>8. CASE VerifySync(t)
    <3>1. lock[StripeOf[task[t].did]] = t
      BY <2>0, <2>8 DEF VerifySync, LockInv, HoldsLock
    <3>2. \A e \in Dids \ {task[t].did} : chain'[e] = chain[e] /\ hosting'[e] = hosting[e]
      BY <1>0, <2>8 DEF VerifySync, TypeInv
    <3> QED
      BY <1>0, <2>0, <2>8, <3>1, <3>2, CallerMoves, MovesKeepLocks DEF VerifySync
  <2> QED
    BY <1>2, <2>1, <2>2, <2>3, <2>4, <2>5, <2>6, <2>7, <2>8 DEF CallerStep
<1>3. ASSUME NEW t \in Tasks, CommitStep(t) \/ ResyncStep(t) PROVE LockInv'
  <2>1. CASE LockCommit(t)
    <3> DEFINE x == [task[t] EXCEPT !.pc = "verifyCommit", !.seen = chain[task[t].did]]
    <3>1. task[t] \in TaskState /\ chain[task[t].did] \in ChainState
      BY <1>0 DEF TypeInv, TaskState
    <3>2. /\ x \in TaskState /\ x.did = task[t].did /\ x.frame = task[t].frame
          /\ x.seen = chain[task[t].did]
      BY <3>1 DEF TaskState, TaskPc
    <3> HIDE DEF x
    <3>3. CASE Become(t, x) /\ Acquire(t, task[t].did) /\ GateOpen(task[t].did)
               /\ task[t].frame.rev > chain[task[t].did].rev
      BY <1>0, <2>1, <3>2, <3>3, AcquireKeepsLocks DEF LockCommit, storeVars
    <3>4. CASE Moves(t) /\ UNCHANGED lock
      BY <1>0, <2>1, <3>4, MovesKeepLocks DEF LockCommit, storeVars
    <3> QED
      BY <1>0, <2>1, <3>3, <3>4, AnswersMove DEF LockCommit, x
  <2>2. CASE SaveCommit(t)
    <3>1. lock[StripeOf[task[t].did]] = t
      BY <2>2 DEF SaveCommit, LockInv, HoldsLock
    <3>2. \A e \in Dids \ {task[t].did} : chain'[e] = chain[e] /\ hosting'[e] = hosting[e]
      BY <1>0, <2>2 DEF SaveCommit, TypeInv
    <3> QED
      BY <1>0, <2>2, <3>1, <3>2, CommitMoves, MovesKeepLocks DEF SaveCommit
  <2>3. CASE RejectCommit(t)
    BY <1>0, <2>3, CommitMoves, MovesKeepLocks DEF RejectCommit, storeVars
  <2>4. CASE RecoverCommit(t)
    <3> DEFINE x == [task[t] EXCEPT !.pc = "enqueue"]
    <3>1. CASE Become(t, x) /\ UNCHANGED lock
      <4>1. task[t] \in TaskState
        BY <1>0 DEF TypeInv
      <4>2. x \in TaskState /\ x.pc = "enqueue" /\ x.did = task[t].did
        BY <4>1 DEF TaskState, TaskPc
      <4> HIDE DEF x
      <4>3. task'[t] = x /\ \A v \in Tasks \ {t} : task'[v] = task[v]
        BY <1>0, <3>1, <4>2, Becomes
      <4>4. UNCHANGED <<chain, hosting>>
        BY <2>4 DEF RecoverCommit, storeVars
      <4> SUFFICES ASSUME NEW u \in Tasks PROVE LockedTask(u)'
        BY LockInvDef DEF LockInv, LockedTask
      <4>5. CASE u = t
        <5>1. lock[StripeOf[task[t].did]] = t
          BY <2>4 DEF RecoverCommit, LockInv, HoldsLock
        <5> QED
          BY <3>1, <4>2, <4>3, <4>5, <5>1 DEF LockedTask
      <4>6. CASE u # t
        BY <1>0, <3>1, <4>3, <4>4, <4>6, LockInvDef, Undisturbed
      <4> QED BY <4>5, <4>6
    <3>2. CASE Moves(t) /\ ReleaseLock(t)
      BY <1>0, <2>4, <3>2, MovesKeepLocks DEF RecoverCommit, storeVars
    <3> QED
      BY <1>0, <2>4, <3>1, <3>2, AnswersMove DEF RecoverCommit
  <2>5. CASE SendError(t)
    BY <1>0, <2>5, CommitMoves, MovesKeepLocks DEF SendError, storeVars
  <2>6. CASE ResyncGate(t)
    BY <1>0, <2>6, CommitMoves, MovesKeepLocks DEF ResyncGate, storeVars
  <2>7. CASE Fetch(t)
    BY <1>0, <2>7, CommitMoves, MovesKeepLocks DEF Fetch, storeVars
  <2>8. CASE Adopt(t)
    <3>1. /\ lock[StripeOf[task[t].did]] = NoTask /\ UNCHANGED <<hosting, lock>>
          /\ \A e \in Dids \ {task[t].did} : chain'[e] = chain[e]
      BY <1>0, <2>8 DEF Adopt, StripeFree, TypeInv
    <3> QED
      BY <1>0, <2>8, <3>1, CommitMoves, MovesKeepLocks
  <2> QED
    BY <1>3, <2>1, <2>2, <2>3, <2>4, <2>5, <2>6, <2>7, <2>8 DEF CommitStep, ResyncStep
<1>4. ASSUME NEW j \in Jobs, JobStep(j) PROVE LockInv'
  <2>1. j \in Tasks /\ Moves(j)
    BY <1>0, <1>4, JobMoves DEF Tasks
  <2>2. UNCHANGED <<chain, hosting, lock>>
    BY <1>4 DEF JobStep, JobStart, JobGivesUp, JobDrain, JobCheck, JobReplay, JobReport,
                JobSendEvent, storeVars
  <2> QED
    BY <1>0, <2>1, <2>2, MovesKeepLocks
<1>5. CASE RecvEvent \/ RecvError \/ CloseFlag \/ CloseClear \/ CloseSenders
  <2>1. UNCHANGED <<task, lock, chain, hosting>>
    BY <1>5 DEF RecvEvent, RecvError, CloseFlag, CloseClear, CloseSenders, storeVars
  <2> QED
    BY <2>1 DEF LockInv, GateOpen
<1>6. CASE CloseAbort
  <2> SUFFICES ASSUME NEW u \in Tasks PROVE LockedTask(u)'
    BY LockInvDef DEF LockInv, LockedTask
  <2>0. UNCHANGED <<chain, hosting>> /\ LockedTask(u) /\ lock' = LocksWithout(handles)
    BY <1>6, LockInvDef DEF CloseAbort, storeVars
  <2>1. CASE u \in handles
    BY <1>6, <2>1, IdleTaskType DEF CloseAbort, LockedTask, HoldsLock
  <2>2. CASE u \notin handles
    <3>1. task'[u] = task[u]
      BY <1>6, <2>2 DEF CloseAbort
    <3>2. task[u].pc \in HoldsLock => lock'[StripeOf[task[u].did]] = lock[StripeOf[task[u].did]]
      BY <1>0, <2>0, <2>2, StripeFacts DEF LockedTask
    <3> QED
      BY <1>0, <2>0, <3>1, <3>2, Undisturbed
  <2> QED BY <2>1, <2>2
<1> QED
  BY <1>1, <1>2, <1>3, <1>4, <1>5, <1>6 DEF VerifierNext, CloseStep

(* Who holds a stripe lock in verify_commit_internal, verify_sync or          *)
(* enqueue_resync is its only holder, and works on the stored chain state     *)
(* with the hosting gate open, for any lock striping and any tasks.           *)
THEOREM VerifierLocks == VerifierSpec => []LockInv
<1>1. VerifierInit => LockInv
  <2> SUFFICES ASSUME VerifierInit, NEW t \in Tasks PROVE LockedTask(t)
    BY LockInvDef
  <2>1. task[t].pc = "idle"
    BY IdleTaskType DEF VerifierInit
  <2> QED
    BY <2>1 DEF LockedTask, HoldsLock
<1>2. VerifierTypeOK /\ LockInv /\ [VerifierNext]_vars => LockInv'
  BY LockStep
<1> QED
  BY <1>1, <1>2, VerifierTypeCorrect, StepIsNext, PTL DEF VerifierSpec

-----------------------------------------------------------------------------
(* The chain. *)

(* What a step may do to the chain state of repo d: nothing, or move it      *)
(* forward, with the gate open, to a state the account published.            *)
ChainAdvances(d) ==
  \/ chain'[d] = chain[d]
  \/ /\ chain'[d].rev >= chain[d].rev
     /\ GateOpen(d)
     /\ chain'[d].data = DataOf[chain'[d].rev]

(* A step that writes an authentic state for its task's repo only. *)
LEMMA WriteAdvances ==
  ASSUME TypeInv, NEW d \in Dids, NEW r \in Nat, NEW x,
         chain' = [chain EXCEPT ![d] = [rev |-> r, data |-> x]],
         r >= chain[d].rev, GateOpen(d), x = DataOf[r]
  PROVE  \A e \in Dids : ChainAdvances(e)
<1> SUFFICES ASSUME NEW e \in Dids PROVE ChainAdvances(e)
  OBVIOUS
<1>1. CASE e = d
  <2>1. chain'[e] = [rev |-> r, data |-> x]
    BY <1>1 DEF TypeInv
  <2> QED
    BY <1>1, <2>1 DEF ChainAdvances
<1>2. CASE e # d
  BY <1>2 DEF TypeInv, ChainAdvances
<1> QED BY <1>1, <1>2

(* A commit that is saved was signed by the account. *)
LEMMA SavedIsSigned ==
  ASSUME NEW f, NEW c, Verdict(f, c) \in {"save", "saveBroken"}
  PROVE  f.form # "forged"
BY DEF Verdict

(* Every step advances the chain or leaves it alone. *)
LEMMA ChainStep ==
  ASSUME TypeInv, LockInv, [VerifierNext]_vars
  PROVE  \A d \in Dids : ChainAdvances(d)
<1>1. CASE UNCHANGED chain
  BY <1>1 DEF ChainAdvances
<1>2. ASSUME NEW t \in Tasks, SaveCommit(t) PROVE \A d \in Dids : ChainAdvances(d)
  <2> DEFINE d == task[t].did
             f == task[t].frame
  <2>1. d \in Dids /\ f.rev \in Nat /\ chain[d].rev \in Nat
    BY DEF TypeInv, TaskState, FrameState, ChainState
  <2>2. f.rev > chain[d].rev /\ GateOpen(d)
    BY <1>2 DEF SaveCommit, LockInv
  <2>3. f.form # "forged"
    BY <1>2, SavedIsSigned DEF SaveCommit
  <2>4. chain' = [chain EXCEPT ![d] = [rev |-> f.rev, data |-> DataOf[f.rev]]]
    BY <1>2, <2>3 DEF SaveCommit
  <2>5. f.rev >= chain[d].rev
    BY <2>1, <2>2
  <2> HIDE DEF d, f
  <2> QED
    BY <2>1, <2>2, <2>4, <2>5, WriteAdvances
<1>3. ASSUME NEW t \in Callers, VerifySync(t), ~UNCHANGED chain
      PROVE  \A d \in Dids : ChainAdvances(d)
  <2> DEFINE d == task[t].did
             f == task[t].frame
  <2>0. t \in Tasks
    BY DEF Tasks
  <2>1. d \in Dids /\ f.rev \in Nat /\ chain[d].rev \in Nat
    BY <2>0 DEF TypeInv, TaskState, FrameState, ChainState
  <2>2. f.rev > chain[d].rev /\ GateOpen(d)
    BY <1>3, <2>0 DEF VerifySync, LockInv
  <2>3. /\ SyncIsNoOp(f, task[t].seen) /\ f.form # "forged"
        /\ chain' = [chain EXCEPT ![d] = [rev |-> f.rev, data |-> task[t].seen.data]]
    BY <1>3 DEF VerifySync
  <2>4. task[t].seen.data = DataOf[f.rev]
    BY <2>3 DEF SyncIsNoOp
  <2>5. f.rev >= chain[d].rev
    BY <2>1, <2>2
  <2> HIDE DEF d, f
  <2> QED
    BY <2>1, <2>2, <2>3, <2>4, <2>5, WriteAdvances
<1>4. ASSUME NEW t \in Tasks, Adopt(t), ~UNCHANGED chain
      PROVE  \A d \in Dids : ChainAdvances(d)
  <2> DEFINE d == task[t].did
             r == task[t].got
  <2>1. d \in Dids /\ r \in Nat /\ chain[d].rev \in Nat
    BY DEF TypeInv, TaskState, ChainState
  <2>2. /\ GateOpen(d) /\ ~Regresses(r, chain[d])
        /\ chain' = [chain EXCEPT ![d] = [rev |-> r, data |-> DataOf[r]]]
    BY <1>4 DEF Adopt
  <2>3. r >= chain[d].rev
    BY <2>1, <2>2 DEF Regresses
  <2> QED
    BY <2>1, <2>2, <2>3, WriteAdvances
<1>5. ASSUME NEW t \in Callers, Call(t) \/ CallerStep(t), ~VerifySync(t) PROVE UNCHANGED chain
  BY <1>5 DEF Call, CallerStep, BufferCommit, EnqueueBuffered, EnqueueSpawn, PushHandle,
              AccountEvent, LockSync, storeVars
<1>6. ASSUME NEW t \in Tasks, CommitStep(t) \/ ResyncStep(t), ~SaveCommit(t), ~Adopt(t)
      PROVE  UNCHANGED chain
  BY <1>6 DEF CommitStep, ResyncStep, LockCommit, RejectCommit, RecoverCommit, SendError,
              ResyncGate, Fetch, storeVars
<1>7. ASSUME NEW j \in Jobs, JobStep(j) PROVE UNCHANGED chain
  BY <1>7 DEF JobStep, JobStart, JobGivesUp, JobDrain, JobCheck, JobReplay, JobReport,
              JobSendEvent, storeVars
<1>8. ASSUME RecvEvent \/ RecvError \/ CloseStep \/ UNCHANGED vars PROVE UNCHANGED chain
  BY <1>8 DEF RecvEvent, RecvError, CloseStep, CloseFlag, CloseClear, CloseAbort, CloseSenders,
              storeVars, vars
<1> QED
  BY <1>1, <1>2, <1>3, <1>4, <1>5, <1>6, <1>7, <1>8 DEF VerifierNext

(* The stored revision of a repo never goes back, whatever the commits,      *)
(* #sync frames and resyncs of concurrent tasks: the replay checks and       *)
(* RevRegression are made under the lock that protects the save.             *)
THEOREM VerifierChainMonotone == VerifierSpec => ChainNeverRegresses
<1>1. VerifierTypeOK /\ LockInv /\ [VerifierNext]_vars
        => [\A d \in Dids : chain'[d].rev >= chain[d].rev]_vars
  <2> SUFFICES ASSUME VerifierTypeOK, LockInv, [VerifierNext]_vars, NEW d \in Dids
               PROVE  chain'[d].rev >= chain[d].rev
    OBVIOUS
  <2>1. TypeInv /\ chain[d].rev \in Nat
    BY DEF VerifierTypeOK, TypeInv, ChainState
  <2>2. ChainAdvances(d)
    BY <2>1, ChainStep
  <2> QED
    BY <2>1, <2>2 DEF ChainAdvances
<1> QED
  BY <1>1, VerifierTypeCorrect, VerifierLocks, StepIsNext, PTL DEF VerifierSpec, ChainNeverRegresses

(* Under HostingPolicy::Gate no chain state is stored for a repo whose       *)
(* account is inactive, a resync that began earlier included.                *)
THEOREM VerifierGate == VerifierSpec => GateHolds
<1>1. VerifierTypeOK /\ LockInv /\ [VerifierNext]_vars
        => [\A d \in Dids : Gate /\ chain'[d] # chain[d] => hosting[d].active]_vars
  <2> SUFFICES ASSUME VerifierTypeOK, LockInv, [VerifierNext]_vars, NEW d \in Dids,
                      Gate, chain'[d] # chain[d]
               PROVE  hosting[d].active
    OBVIOUS
  <2>1. ChainAdvances(d)
    BY ChainStep DEF VerifierTypeOK
  <2> QED
    BY <2>1 DEF ChainAdvances, GateOpen
<1> QED
  BY <1>1, VerifierTypeCorrect, VerifierLocks, StepIsNext, PTL DEF VerifierSpec, GateHolds

(* Every stored state is one the account published: neither a forged commit, *)
(* nor a forged #sync frame, nor a stale mirror gets another one stored.     *)
THEOREM VerifierChainAuthentic == VerifierSpec => []ChainAuthentic
<1>1. VerifierInit => ChainAuthentic
  BY DEF VerifierInit, ChainAuthentic
<1>2. VerifierTypeOK /\ LockInv /\ ChainAuthentic /\ [VerifierNext]_vars => ChainAuthentic'
  <2> SUFFICES ASSUME VerifierTypeOK, LockInv, ChainAuthentic, [VerifierNext]_vars,
                      NEW d \in Dids, chain'[d].rev > 0
               PROVE  chain'[d].data = DataOf[chain'[d].rev]
    BY DEF ChainAuthentic
  <2>1. ChainAdvances(d)
    BY ChainStep DEF VerifierTypeOK
  <2> QED
    BY <2>1 DEF ChainAdvances, ChainAuthentic
<1> QED
  BY <1>1, <1>2, VerifierTypeCorrect, VerifierLocks, StepIsNext, PTL DEF VerifierSpec

-----------------------------------------------------------------------------
(* The jobs. *)

(* Task t goes to p, for the same repo and with the ops it has. *)
GoesTo(t, p) ==
  task'[t].pc = p /\ task'[t].did = task[t].did /\ task'[t].ops = task[t].ops

(* The tasks after Become(t, x), whatever x is. *)
LEMMA BecomeValue ==
  ASSUME TypeInv, NEW t \in Tasks, NEW x, Become(t, x)
  PROVE  task'[t] = x /\ \A u \in Tasks \ {t} : task'[u] = task[u]
BY DEF TypeInv, Become

(* A job that only jumps. *)
LEMMA JumpValue ==
  ASSUME TypeInv, NEW t \in Tasks, NEW p, Become(t, [task[t] EXCEPT !.pc = p])
  PROVE  GoesTo(t, p)
<1>1. task[t] \in TaskState
  BY DEF TypeInv
<1>2. task'[t] = [task[t] EXCEPT !.pc = p]
  BY BecomeValue
<1> QED
  BY <1>1, <1>2 DEF GoesTo, TaskState

(* A job that goes to send an error. *)
LEMMA SendValue ==
  ASSUME TypeInv, NEW t \in Tasks, NEW n,
         Become(t, [task[t] EXCEPT !.pc = "sendError", !.next = n])
  PROVE  GoesTo(t, "sendError") /\ task'[t].next = n
<1>1. task[t] \in TaskState
  BY DEF TypeInv
<1>2. task'[t] = [task[t] EXCEPT !.pc = "sendError", !.next = n]
  BY BecomeValue
<1> QED
  BY <1>1, <1>2 DEF GoesTo, TaskState

(* What the answers of verify_commit_internal and resync do to a job. *)
LEMMA JobAnswers ==
  ASSUME TypeInv, NEW t \in Jobs
  PROVE  /\ AnswerNothing(t) => GoesTo(t, "replay")
         /\ AnswerError(t) => GoesTo(t, "sendError") /\ task'[t].next = "replay"
         /\ ResyncFails(t) => GoesTo(t, "finish")
         /\ \A r : AnswerOps(t, r) =>
              /\ task'[t].pc = "replay" /\ task'[t].did = task[t].did
              /\ task'[t].ops = Append(task[t].ops, r)
<1>0. t \in Tasks /\ task[t] \in TaskState
  BY DEF TypeInv, Tasks
<1>1. ASSUME AnswerNothing(t) PROVE GoesTo(t, "replay")
  BY <1>0, <1>1, JumpValue DEF AnswerNothing
<1>2. ASSUME AnswerError(t) PROVE GoesTo(t, "sendError") /\ task'[t].next = "replay"
  BY <1>0, <1>2, SendValue DEF AnswerError
<1>3. ASSUME ResyncFails(t) PROVE GoesTo(t, "finish")
  BY <1>0, <1>3, JumpValue DEF ResyncFails
<1>4. ASSUME NEW r, AnswerOps(t, r)
      PROVE  /\ task'[t].pc = "replay" /\ task'[t].did = task[t].did
             /\ task'[t].ops = Append(task[t].ops, r)
  <2>1. task'[t] = [task[t] EXCEPT !.pc = "replay", !.ops = Append(task[t].ops, r)]
    BY <1>0, <1>4, BecomeValue DEF AnswerOps
  <2> QED
    BY <1>0, <2>1 DEF TaskState
<1> QED
  BY <1>1, <1>2, <1>3, <1>4

(* What a step of a commit or of a resync does to the job that takes it. *)
JobPath(t) ==
  \/ /\ task[t].pc \in {"lockCommit", "verifyCommit"}
     /\ \/ GoesTo(t, "replay") \/ GoesTo(t, "verifyCommit")
        \/ GoesTo(t, "sendError") /\ task'[t].next = "replay"
  \/ /\ SaveCommit(t) /\ task[t].pc = "verifyCommit"
     /\ task'[t].pc = "replay" /\ task'[t].did = task[t].did
     /\ task'[t].ops = Append(task[t].ops, task[t].frame.rev)
  \/ task[t].pc = "sendError" /\ task[t].next = "idle" /\ task'[t] = IdleTask
  \/ task[t].pc = "sendError" /\ task[t].next # "idle" /\ GoesTo(t, task[t].next)
  \/ task[t].pc = "resync" /\ (GoesTo(t, "fetch") \/ GoesTo(t, "finish"))
  \/ task[t].pc = "fetch" /\ (GoesTo(t, "adopt") \/ GoesTo(t, "finish"))
  \/ task[t].pc = "adopt" /\ GoesTo(t, "finish")
  \/ /\ Adopt(t) /\ task[t].pc = "adopt"
     /\ chain'[task[t].did].rev = task[t].got
     /\ task'[t].pc = "drain" /\ task'[t].did = task[t].did
     /\ task'[t].ops = <<task[t].got>>

(* Every such step is one of these. *)
LEMMA JobPaths ==
  ASSUME TypeInv, NEW t \in Jobs, CommitStep(t) \/ ResyncStep(t)
  PROVE  JobPath(t)
<1>0. t \in Tasks /\ t \notin Callers /\ task[t] \in TaskState
  BY VerifierAssumption DEF TypeInv, Tasks
<1>1. CASE LockCommit(t)
  <2> DEFINE x == [task[t] EXCEPT !.pc = "verifyCommit", !.seen = chain[task[t].did]]
  <2>1. CASE Become(t, x)
    <3>1. task'[t] = x
      BY <1>0, <2>1, BecomeValue
    <3>2. GoesTo(t, "verifyCommit")
      BY <1>0, <3>1 DEF TaskState, GoesTo
    <3> QED
      BY <1>1, <3>2 DEF JobPath, LockCommit
  <2>2. CASE AnswerNothing(t) \/ AnswerError(t)
    BY <1>1, <2>2, JobAnswers DEF JobPath, LockCommit
  <2> QED
    BY <1>1, <2>1, <2>2 DEF LockCommit
<1>2. CASE SaveCommit(t)
  <2>1. CASE AnswerOps(t, task[t].frame.rev)
    BY <1>2, <2>1, JobAnswers DEF JobPath, SaveCommit
  <2>2. CASE AnswerError(t)
    BY <1>2, <2>2, JobAnswers DEF JobPath, SaveCommit
  <2> QED
    BY <1>2, <2>1, <2>2 DEF SaveCommit
<1>3. CASE RejectCommit(t)
  BY <1>3, JobAnswers DEF JobPath, RejectCommit
<1>4. CASE RecoverCommit(t)
  BY <1>0, <1>4, JobAnswers DEF JobPath, RecoverCommit
<1>5. CASE SendError(t)
  <2>1. CASE task[t].next = "idle"
    BY <1>0, <1>5, <2>1, BecomeValue DEF JobPath, SendError
  <2>2. CASE task[t].next # "idle"
    <3>1. Become(t, [task[t] EXCEPT !.pc = task[t].next])
      BY <1>5, <2>2 DEF SendError
    <3> QED
      BY <1>0, <1>5, <2>2, <3>1, JumpValue DEF JobPath, SendError
  <2> QED BY <2>1, <2>2
<1>6. CASE ResyncGate(t)
  BY <1>0, <1>6, JobAnswers, JumpValue DEF JobPath, ResyncGate
<1>7. CASE Fetch(t)
  <2>1. CASE ResyncFails(t)
    BY <1>7, <2>1, JobAnswers DEF JobPath, Fetch
  <2>2. ASSUME NEW r \in Revs, Become(t, [task[t] EXCEPT !.pc = "adopt", !.got = r])
        PROVE  JobPath(t)
    <3>1. task'[t] = [task[t] EXCEPT !.pc = "adopt", !.got = r]
      BY <1>0, <2>2, BecomeValue
    <3>2. GoesTo(t, "adopt")
      BY <1>0, <3>1 DEF TaskState, GoesTo
    <3> QED
      BY <1>7, <3>2 DEF JobPath, Fetch
  <2> QED
    BY <1>7, <2>1, <2>2 DEF Fetch
<1>8. CASE Adopt(t)
  <2>1. CASE ResyncFails(t)
    BY <1>8, <2>1, JobAnswers DEF JobPath, Adopt
  <2>2. CASE ~ResyncFails(t)
    <3>1. /\ Become(t, [task[t] EXCEPT !.pc = "drain", !.ops = <<task[t].got>>])
          /\ chain' = [chain EXCEPT ![task[t].did] = [rev |-> task[t].got,
                                                     data |-> DataOf[task[t].got]]]
      BY <1>8, <2>2 DEF Adopt
    <3>2. task'[t] = [task[t] EXCEPT !.pc = "drain", !.ops = <<task[t].got>>]
      BY <1>0, <3>1, BecomeValue
    <3>3. chain'[task[t].did].rev = task[t].got
      BY <1>0, <3>1 DEF TypeInv, TaskState
    <3>4. task'[t].pc = "drain" /\ task'[t].did = task[t].did /\ task'[t].ops = <<task[t].got>>
      BY <1>0, <3>2 DEF TaskState
    <3> QED
      BY <1>8, <3>3, <3>4 DEF JobPath, Adopt
  <2> QED BY <2>1, <2>2
<1> QED
  BY <1>1, <1>2, <1>3, <1>4, <1>5, <1>6, <1>7, <1>8 DEF CommitStep, ResyncStep

(* What the steps of run_resync_job do to the job. *)
RunPath(j) ==
  LET d == task[j].did IN
  \/ task[j].pc = "start" /\ pending[d].on /\ GoesTo(j, "resync") /\ UNCHANGED pending
  \/ task[j].pc = "start" /\ ~pending[d].on /\ task'[j] = IdleTask /\ UNCHANGED pending
  \/ /\ task[j].pc = "finish" /\ GoesTo(j, "sendError") /\ task'[j].next = "idle"
     /\ pending' = [pending EXCEPT ![d] = NoPending]
  \/ /\ task[j].pc = "drain" /\ (GoesTo(j, "check") \/ GoesTo(j, "replay"))
     /\ pending' = [pending EXCEPT ![d].commits = <<>>]
  \/ /\ task[j].pc = "check" /\ pending[d].on /\ pending[d].commits = <<>> /\ GoesTo(j, "report")
     /\ pending' = [pending EXCEPT ![d] = NoPending]
  \/ task[j].pc = "check" /\ GoesTo(j, "drain") /\ UNCHANGED pending
  \/ task[j].pc = "replay" /\ (GoesTo(j, "drain") \/ GoesTo(j, "lockCommit")) /\ UNCHANGED pending
  \/ /\ task[j].pc = "report" /\ GoesTo(j, "sendEvent") /\ UNCHANGED pending
     /\ task'[j].new = chain[d].rev
  \/ /\ task[j].pc = "report" /\ GoesTo(j, "sendError") /\ UNCHANGED pending
     /\ task'[j].next = "sendEvent" /\ StoreFaults
  \/ JobSendEvent(j) /\ task[j].pc = "sendEvent" /\ task'[j] = IdleTask /\ UNCHANGED pending

(* Every step of a job's own is one of these. *)
LEMMA RunPaths ==
  ASSUME TypeInv, NEW j \in Jobs, JobStep(j)
  PROVE  RunPath(j)
<1>0. j \in Tasks /\ task[j] \in TaskState
  BY DEF TypeInv, Tasks
<1>1. CASE JobStart(j)
  <2>1. CASE pending[task[j].did].on
    <3>1. task'[j] = [task[j] EXCEPT !.pc = "resync", !.old = pending[task[j].did].old]
      BY <1>0, <1>1, <2>1, BecomeValue DEF JobStart
    <3>2. GoesTo(j, "resync")
      BY <1>0, <3>1 DEF TaskState, GoesTo
    <3> QED
      BY <1>1, <2>1, <3>2 DEF RunPath, JobStart
  <2>2. CASE ~pending[task[j].did].on
    BY <1>0, <1>1, <2>2, BecomeValue DEF RunPath, JobStart
  <2> QED BY <2>1, <2>2
<1>2. CASE JobGivesUp(j)
  BY <1>0, <1>2, SendValue DEF RunPath, JobGivesUp
<1>3. CASE JobDrain(j)
  <2> DEFINE q == IF pending[task[j].did].commits = <<>> THEN "check" ELSE "replay"
  <2>1. task'[j] = [task[j] EXCEPT !.pc = q, !.todo = pending[task[j].did].commits]
    BY <1>0, <1>3, BecomeValue DEF JobDrain
  <2>2. GoesTo(j, q)
    BY <1>0, <2>1 DEF TaskState, GoesTo
  <2>3. GoesTo(j, "check") \/ GoesTo(j, "replay")
    BY <2>2
  <2> QED
    BY <1>3, <2>3 DEF RunPath, JobDrain
<1>4. CASE JobCheck(j)
  BY <1>0, <1>4, JumpValue DEF RunPath, JobCheck
<1>5. CASE JobReplay(j)
  <2>1. CASE task[j].todo = <<>>
    BY <1>0, <1>5, <2>1, JumpValue DEF RunPath, JobReplay
  <2>2. CASE task[j].todo # <<>>
    <3>1. task'[j] = [task[j] EXCEPT !.pc = "lockCommit", !.frame = Head(task[j].todo),
                                     !.todo = Tail(task[j].todo)]
      BY <1>0, <1>5, <2>2, BecomeValue DEF JobReplay
    <3>2. GoesTo(j, "lockCommit")
      BY <1>0, <3>1 DEF TaskState, GoesTo
    <3> QED
      BY <1>5, <3>2 DEF RunPath, JobReplay
  <2> QED BY <2>1, <2>2
<1>6. CASE JobReport(j)
  <2>1. CASE Become(j, [task[j] EXCEPT !.pc = "sendEvent", !.new = chain[task[j].did].rev])
    <3>1. task'[j] = [task[j] EXCEPT !.pc = "sendEvent", !.new = chain[task[j].did].rev]
      BY <1>0, <2>1, BecomeValue
    <3>2. GoesTo(j, "sendEvent") /\ task'[j].new = chain[task[j].did].rev
      BY <1>0, <3>1 DEF TaskState, GoesTo
    <3> QED
      BY <1>6, <3>2 DEF RunPath, JobReport
  <2>2. CASE StoreFaults /\ Become(j, [task[j] EXCEPT !.pc = "sendError", !.next = "sendEvent"])
    BY <1>0, <1>6, <2>2, SendValue DEF RunPath, JobReport
  <2> QED
    BY <1>6, <2>1, <2>2 DEF JobReport
<1>7. CASE JobSendEvent(j)
  BY <1>0, <1>7, BecomeValue DEF RunPath, JobSendEvent
<1> QED
  BY <1>1, <1>2, <1>3, <1>4, <1>5, <1>6, <1>7 DEF JobStep

(* A job is at work. *)
Busy(x) ==
  /\ x.pc \notin {"idle", "report", "sendEvent"}
  /\ x.pc = "sendError" => x.next = "replay"

(* Job j is at work for the same repo as before, or still not at work. *)
WorksOn(j) ==
  /\ Busy(task'[j]) <=> Busy(task[j])
  /\ Busy(task[j]) => task'[j].did = task[j].did

LEMMA WorkingDef ==
  /\ \A j, d : Working(j, d) <=> task[j].did = d /\ Busy(task[j])
  /\ \A j, d : Working(j, d)' <=> task'[j].did = d /\ Busy(task'[j])
BY DEF Working, Busy

(* A task that is idle is not at work. *)
LEMMA IdleNotBusy == ~Busy(IdleTask)
BY IdleTaskType DEF Busy

(* The entries stay on or off, and none that is off buffers anything. *)
EntriesKept ==
  /\ \A d \in Dids : pending'[d].on = pending[d].on
  /\ \A d \in Dids : ~pending'[d].on => pending'[d].commits = <<>>

(* Steps that leave the jobs at work and the entries on. *)
LEMMA KeepJobInv ==
  ASSUME JobInv, \A j \in Jobs : WorksOn(j), EntriesKept, ~closed' => ~closed
  PROVE  JobInv'
<1>1. \A j \in Jobs, d \in Dids : Working(j, d)' <=> Working(j, d)
  BY WorkingDef DEF WorksOn
<1> QED
  BY <1>1 DEF JobInv, EntriesKept

(* A commit that is buffered for a job leaves the entry on. *)
LEMMA BufferedKept ==
  ASSUME TypeInv, JobInv, NEW d \in Dids, NEW x, pending[d].on,
         pending' = [pending EXCEPT ![d].commits = x]
  PROVE  EntriesKept
<1>1. pending \in [Dids -> PendingState]
  BY DEF TypeInv
<1>2. pending' = [pending EXCEPT ![d] = [pending[d] EXCEPT !.commits = x]]
  OBVIOUS
<1>3. \A e \in Dids \ {d} : pending'[e] = pending[e]
  BY <1>1, <1>2
<1>4. pending'[d].on = pending[d].on
  BY <1>1, <1>2 DEF PendingState
<1> QED
  BY <1>3, <1>4 DEF EntriesKept, JobInv

(* No job is touched by a step that moves another task. *)
LEMMA OthersWorkOn ==
  ASSUME NEW t \in Tasks, Moves(t)
  PROVE  \A j \in Jobs \ {t} : WorksOn(j)
BY DEF Moves, WorksOn, Tasks

(* A job that gives its entry up, or finds the map cleared. *)
LEMMA LeavesJobInv ==
  ASSUME TypeInv, JobInv, NEW j \in Jobs, Moves(j), ~Busy(task'[j]), UNCHANGED cpc,
         Busy(task[j]), pending' = [pending EXCEPT ![task[j].did] = NoPending]
  PROVE  JobInv'
<1> DEFINE c == task[j].did
<1>0. c \in Dids /\ j \in Tasks /\ pending \in [Dids -> PendingState]
  BY DEF TypeInv, TaskState, Tasks
<1>1. \A k \in Jobs \ {j} : WorksOn(k)
  BY <1>0, OthersWorkOn
<1>2. pending'[c] = NoPending /\ \A d \in Dids \ {c} : pending'[d] = pending[d]
  BY <1>0
<1>3. NoPending.on = FALSE /\ NoPending.commits = <<>>
  BY DEF NoPending
<1>4. \A d \in Dids : ~pending'[d].on => pending'[d].commits = <<>>
  BY <1>2, <1>3 DEF JobInv
<1>5. ~closed' <=> ~closed
  BY DEF closed
<1>6. ASSUME ~closed, NEW d \in Dids, NEW k \in Jobs, Working(k, d)'
      PROVE  /\ pending'[d].on
             /\ \A l \in Jobs : Working(l, d)' => l = k
  <2>1. k # j /\ Working(k, d)
    BY <1>1, <1>6, WorkingDef DEF WorksOn
  <2>2. pending[d].on /\ \A l \in Jobs : Working(l, d) => l = k
    BY <1>6, <2>1 DEF JobInv
  <2>3. d # c
    BY <2>1, <2>2, WorkingDef
  <2>4. \A l \in Jobs : Working(l, d)' => Working(l, d)
    BY <1>1, WorkingDef DEF WorksOn
  <2> QED
    BY <1>2, <2>2, <2>3, <2>4
<1>7. ASSUME ~closed, NEW d \in Dids, pending'[d].on
      PROVE  \E k \in Jobs : Working(k, d)'
  <2>1. d # c /\ pending[d].on
    BY <1>2, <1>3, <1>7
  <2>2. PICK k \in Jobs : Working(k, d)
    BY <1>7, <2>1 DEF JobInv
  <2>3. k # j
    BY <2>1, <2>2, WorkingDef
  <2> QED
    BY <1>1, <2>2, <2>3, WorkingDef DEF WorksOn
<1> QED
  BY <1>4, <1>5, <1>6, <1>7 DEF JobInv

(* A job is spawned for a repo without one. *)
LEMMA SpawnJobInv ==
  ASSUME TypeInv, JobInv, NEW t \in Callers, EnqueueSpawn(t)
  PROVE  JobInv'
<1> DEFINE c == task[t].did
           e == [on |-> TRUE, old |-> task[t].seen.rev, commits |-> <<>>]
<1>0. t \in Tasks /\ t \notin Jobs /\ c \in Dids /\ pending \in [Dids -> PendingState]
  BY VerifierAssumption DEF TypeInv, TaskState, Tasks
<1>1. PICK j \in Jobs :
        /\ task[j].pc = "idle"
        /\ task' = [task EXCEPT ![j] = [IdleTask EXCEPT !.pc = "start", !.did = c],
                                ![t] = [task[t] EXCEPT !.pc = "pushHandle", !.job = j]]
  BY DEF EnqueueSpawn
<1> DEFINE x == [IdleTask EXCEPT !.pc = "start", !.did = c]
           y == [task[t] EXCEPT !.pc = "pushHandle", !.job = j]
<1>2. x.pc = "start" /\ x.did = c
  BY IdleTaskType DEF TaskState
<1>3. task' = [task EXCEPT ![j] = x, ![t] = y]
  BY <1>1
<1> HIDE DEF x, y
<1>4. task'[j] = x /\ \A k \in Jobs \ {j} : task'[k] = task[k]
  BY <1>0, <1>3 DEF TypeInv, Tasks
<1>5. ~Busy(task[j]) /\ Busy(task'[j]) /\ task'[j].did = c
  BY <1>1, <1>2, <1>4 DEF Busy
<1>6. \A k \in Jobs \ {j} : WorksOn(k)
  BY <1>4 DEF WorksOn
<1>7. ~pending[c].on /\ UNCHANGED cpc
  BY DEF EnqueueSpawn
<1>8. pending' = [pending EXCEPT ![c] = e]
  BY DEF EnqueueSpawn
<1>9. e.on = TRUE /\ e.commits = <<>>
  OBVIOUS
<1> HIDE DEF e
<1>10. pending'[c] = e /\ \A d \in Dids \ {c} : pending'[d] = pending[d]
  BY <1>0, <1>8
<1>11. \A d \in Dids : ~pending'[d].on => pending'[d].commits = <<>>
  BY <1>9, <1>10 DEF JobInv
<1>12. ~closed' <=> ~closed
  BY <1>7 DEF closed
<1>13. \A d \in Dids, k \in Jobs : Working(k, d)' <=> (Working(k, d) \/ (k = j /\ d = c))
  BY <1>5, <1>6, WorkingDef DEF WorksOn
<1>14. ~closed => \A k \in Jobs : ~Working(k, c)
  BY <1>0, <1>7 DEF JobInv
<1>15. ASSUME ~closed, NEW d \in Dids, NEW k \in Jobs, Working(k, d)'
      PROVE  /\ pending'[d].on
             /\ \A l \in Jobs : Working(l, d)' => l = k
  <2>1. CASE d = c
    BY <1>9, <1>10, <1>13, <1>14, <1>15, <2>1
  <2>2. CASE d # c
    <3>1. Working(k, d)
      BY <1>13, <1>15, <2>2
    <3>2. pending[d].on /\ \A l \in Jobs : Working(l, d) => l = k
      BY <1>15, <3>1 DEF JobInv
    <3> QED
      BY <1>10, <1>13, <2>2, <3>2
  <2> QED BY <2>1, <2>2
<1>16. ASSUME ~closed, NEW d \in Dids, pending'[d].on
      PROVE  \E k \in Jobs : Working(k, d)'
  <2>1. CASE d = c
    BY <1>13, <2>1
  <2>2. CASE d # c
    BY <1>10, <1>13, <1>16, <2>2 DEF JobInv
  <2> QED BY <2>1, <2>2
<1> QED
  BY <1>11, <1>12, <1>15, <1>16 DEF JobInv

(* The steps of jobs and calls leave close() where it is. *)
LEMMA TaskStepsOpen ==
  /\ \A t : Call(t) \/ CallerStep(t) => UNCHANGED cpc
  /\ \A t : CommitStep(t) \/ ResyncStep(t) => UNCHANGED <<pending, cpc>>
  /\ \A t : JobStep(t) => UNCHANGED cpc
<1>1. ASSUME NEW t, Call(t) \/ CallerStep(t) PROVE UNCHANGED cpc
  BY <1>1 DEF Call, CallerStep, BufferCommit, EnqueueBuffered, EnqueueSpawn, PushHandle,
              AccountEvent, LockSync, VerifySync
<1>2. ASSUME NEW t, CommitStep(t) \/ ResyncStep(t) PROVE UNCHANGED <<pending, cpc>>
  BY <1>2 DEF CommitStep, ResyncStep, LockCommit, SaveCommit, RejectCommit, RecoverCommit,
              SendError, ResyncGate, Fetch, Adopt
<1>3. ASSUME NEW t, JobStep(t) PROVE UNCHANGED cpc
  BY <1>3 DEF JobStep, JobStart, JobGivesUp, JobDrain, JobCheck, JobReplay, JobReport,
              JobSendEvent
<1> QED
  BY <1>1, <1>2, <1>3

(* A task's step leaves the other tasks alone, a spawn excepted. *)
LEMMA OthersStay ==
  ASSUME TypeInv
  PROVE  /\ \A t \in Callers : (Call(t) \/ CallerStep(t)) /\ ~EnqueueSpawn(t) =>
              \A u \in Tasks \ {t} : task'[u] = task[u]
         /\ \A t \in Tasks : CommitStep(t) \/ ResyncStep(t) =>
              \A u \in Tasks \ {t} : task'[u] = task[u]
         /\ \A j \in Jobs : JobStep(j) => \A u \in Tasks \ {j} : task'[u] = task[u]
<1>1. ASSUME NEW t \in Tasks, NEW x, Become(t, x) PROVE \A u \in Tasks \ {t} : task'[u] = task[u]
  BY <1>1, BecomeValue
<1>2. ASSUME NEW t \in Callers, (Call(t) \/ CallerStep(t)) /\ ~EnqueueSpawn(t)
      PROVE  \A u \in Tasks \ {t} : task'[u] = task[u]
  <2>0. t \in Tasks
    BY DEF Tasks
  <2>1. CASE LockSync(t)
    BY <1>1, <2>0, <2>1 DEF LockSync, AnswerNothing, AnswerError
  <2>2. CASE ~LockSync(t)
    BY <1>2, <2>0, <2>2, CallerMoves DEF CallerStep, Moves
  <2> QED BY <2>1, <2>2
<1>3. ASSUME NEW t \in Tasks, CommitStep(t) \/ ResyncStep(t)
      PROVE  \A u \in Tasks \ {t} : task'[u] = task[u]
  <2>1. CASE LockCommit(t)
    BY <1>1, <2>1 DEF LockCommit, AnswerNothing, AnswerError
  <2>2. CASE RecoverCommit(t)
    BY <1>1, <2>2 DEF RecoverCommit, AnswerError
  <2>3. CASE ~LockCommit(t) /\ ~RecoverCommit(t)
    BY <1>3, <2>3, CommitMoves DEF CommitStep, ResyncStep, Moves
  <2> QED BY <2>1, <2>2, <2>3
<1>4. ASSUME NEW j \in Jobs, JobStep(j) PROVE \A u \in Tasks \ {j} : task'[u] = task[u]
  BY <1>4, JobMoves DEF Moves
<1> QED
  BY <1>2, <1>3, <1>4

(* Once close() began, only the empty buffers count. *)
LEMMA ClosedJobInv ==
  ASSUME closed', \A d \in Dids : ~pending'[d].on => pending'[d].commits = <<>>
  PROVE  JobInv'
BY DEF JobInv

(* Every step keeps JobInv. *)
LEMMA JobInvStep ==
  ASSUME VerifierTypeOK, JobInv, [VerifierNext]_vars
  PROVE  JobInv'
<1>0. TypeInv /\ pending \in [Dids -> PendingState]
  BY DEF VerifierTypeOK, TypeInv
<1>1. CASE UNCHANGED vars
  BY <1>1 DEF vars, JobInv, Working, closed
<1>2. ASSUME NEW t \in Callers, Call(t) \/ CallerStep(t) PROVE JobInv'
  <2>0. t \in Tasks /\ t \notin Jobs /\ task[t].did \in Dids
    BY <1>0, VerifierAssumption DEF Tasks, TypeInv, TaskState
  <2>1. CASE EnqueueSpawn(t)
    BY <1>0, <2>1, SpawnJobInv
  <2>2. CASE ~EnqueueSpawn(t)
    <3>1. \A j \in Jobs : WorksOn(j)
      BY <1>0, <1>2, <2>0, <2>2, OthersStay DEF WorksOn, Tasks
    <3>2. EntriesKept
      <4>1. CASE UNCHANGED pending
        BY <4>1 DEF JobInv, EntriesKept
      <4>2. CASE ~UNCHANGED pending
        <5>1. BufferCommit(t) \/ EnqueueBuffered(t)
          BY <1>2, <2>2, <4>2 DEF Call, CallerStep, PushHandle, AccountEvent, LockSync, VerifySync
        <5>2. /\ pending[task[t].did].on
              /\ pending' = [pending EXCEPT ![task[t].did].commits = Append(@, task[t].frame)]
          BY <4>2, <5>1 DEF BufferCommit, EnqueueBuffered
        <5> QED
          BY <1>0, <2>0, <5>2, BufferedKept
      <4> QED BY <4>1, <4>2
    <3>3. ~closed' => ~closed
      BY <1>2, TaskStepsOpen DEF closed
    <3> QED
      BY <3>1, <3>2, <3>3, KeepJobInv
  <2> QED BY <2>1, <2>2
<1>3. ASSUME NEW t \in Tasks, CommitStep(t) \/ ResyncStep(t) PROVE JobInv'
  <2>1. UNCHANGED <<pending, cpc>>
    BY <1>3, TaskStepsOpen
  <2>2. ASSUME NEW j \in Jobs PROVE WorksOn(j)
    <3>1. CASE j # t
      BY <1>0, <1>3, <3>1, OthersStay DEF WorksOn, Tasks
    <3>2. CASE j = t
      <4>1. JobPath(j)
        BY <1>0, <1>3, <3>2, JobPaths
      <4>2. task[j].next \in {"idle", "replay", "sendEvent"}
        BY <1>0 DEF TypeInv, TaskState, Tasks
      <4>3. Busy(task'[j]) <=> Busy(task[j])
        BY <4>1, <4>2, IdleTaskType DEF JobPath, GoesTo, Busy
      <4>4. Busy(task[j]) => task'[j].did = task[j].did
        BY <4>1, <4>2 DEF JobPath, GoesTo, Busy
      <4> QED
        BY <4>3, <4>4 DEF WorksOn
    <3> QED BY <3>1, <3>2
  <2>3. EntriesKept
    BY <2>1 DEF EntriesKept, JobInv
  <2> QED
    BY <2>1, <2>2, <2>3, KeepJobInv DEF closed
<1>4. ASSUME NEW j \in Jobs, JobStep(j) PROVE JobInv'
  <2> DEFINE c == task[j].did
  <2>0. j \in Tasks /\ Moves(j) /\ UNCHANGED cpc /\ c \in Dids /\ RunPath(j)
    BY <1>0, <1>4, JobMoves, TaskStepsOpen, RunPaths DEF Tasks, TypeInv, TaskState
  <2>1. \A k \in Jobs \ {j} : WorksOn(k)
    BY <2>0, OthersWorkOn
  <2>2. CASE WorksOn(j) /\ UNCHANGED pending
    <3>1. EntriesKept
      BY <2>2 DEF EntriesKept, JobInv
    <3> QED
      BY <2>0, <2>1, <2>2, <3>1, KeepJobInv DEF closed
  <2>3. CASE task[j].pc = "start" /\ ~pending[c].on /\ UNCHANGED pending
    <3>1. Busy(task[j])
      BY <2>3 DEF Busy
    <3>2. closed
      BY <2>0, <2>3, <3>1, WorkingDef DEF JobInv
    <3> QED
      BY <2>0, <2>3, <3>2, ClosedJobInv DEF closed, JobInv
  <2>4. CASE /\ task[j].pc \in {"finish", "check"} /\ ~Busy(task'[j])
             /\ pending' = [pending EXCEPT ![c] = NoPending]
    <3>1. Busy(task[j])
      BY <2>4 DEF Busy
    <3> QED
      BY <1>0, <2>0, <2>4, <3>1, LeavesJobInv
  <2>5. CASE /\ task[j].pc = "drain" /\ (GoesTo(j, "check") \/ GoesTo(j, "replay"))
             /\ pending' = [pending EXCEPT ![c].commits = <<>>]
    <3>1. WorksOn(j)
      BY <2>5 DEF WorksOn, GoesTo, Busy
    <3>2. pending' = [pending EXCEPT ![c] = [pending[c] EXCEPT !.commits = <<>>]]
      BY <2>5
    <3>3. \A e \in Dids \ {c} : pending'[e] = pending[e]
      BY <1>0, <3>2
    <3>4. pending'[c].on = pending[c].on /\ pending'[c].commits = <<>>
      BY <1>0, <2>0, <3>2 DEF PendingState
    <3>5. EntriesKept
      BY <2>0, <3>3, <3>4 DEF EntriesKept, JobInv
    <3> QED
      BY <2>0, <2>1, <3>1, <3>5, KeepJobInv DEF closed
  <2> QED
    <3>1. CASE task[j].pc = "finish"
      BY <2>0, <2>4, <3>1 DEF RunPath, GoesTo, Busy
    <3>2. CASE task[j].pc = "drain"
      BY <2>0, <2>5, <3>2 DEF RunPath
    <3>3. CASE task[j].pc = "check"
      <4>1. CASE GoesTo(j, "drain") /\ UNCHANGED pending
        BY <2>2, <3>3, <4>1 DEF GoesTo, Busy, WorksOn
      <4> QED
        BY <2>0, <2>4, <3>3, <4>1 DEF RunPath, GoesTo, Busy
    <3>4. CASE task[j].pc = "start"
      <4>1. pending[c].on => WorksOn(j) /\ UNCHANGED pending
        BY <2>0, <3>4 DEF RunPath, GoesTo, Busy, WorksOn
      <4>2. ~pending[c].on => UNCHANGED pending
        BY <2>0, <3>4 DEF RunPath
      <4> QED
        BY <2>2, <2>3, <3>4, <4>1, <4>2
    <3>5. CASE task[j].pc \in {"replay", "report", "sendEvent"}
      <4>1. UNCHANGED pending
        BY <2>0, <3>5 DEF RunPath
      <4>2. Busy(task'[j]) <=> Busy(task[j])
        BY <2>0, <3>5, IdleTaskType DEF RunPath, GoesTo, Busy
      <4>3. Busy(task[j]) => task'[j].did = task[j].did
        BY <2>0, <3>5 DEF RunPath, GoesTo, Busy
      <4> QED
        BY <2>2, <4>1, <4>2, <4>3 DEF WorksOn
    <3> QED
      BY <2>0, <3>1, <3>2, <3>3, <3>4, <3>5 DEF RunPath
<1>5. CASE RecvEvent \/ RecvError
  BY <1>5 DEF RecvEvent, RecvError, JobInv, Working, closed
<1>6. CASE CloseFlag \/ CloseAbort \/ CloseSenders
  <2>1. UNCHANGED pending /\ closed'
    BY <1>6 DEF CloseFlag, CloseAbort, CloseSenders, closed
  <2> QED
    BY <2>1, ClosedJobInv DEF JobInv
<1>7. CASE CloseClear
  <2>1. closed' /\ \A d \in Dids : pending'[d].commits = <<>>
    BY <1>7 DEF CloseClear, closed, NoPending
  <2> QED
    BY <2>1, ClosedJobInv
<1> QED
  BY <1>1, <1>2, <1>3, <1>4, <1>5, <1>6, <1>7 DEF VerifierNext, CloseStep

(* The pending map and the jobs always agree: JobInv is inductive. *)
THEOREM VerifierJobs == VerifierSpec => []JobInv
<1>1. VerifierInit => JobInv
  <2> SUFFICES ASSUME VerifierInit PROVE JobInv
    OBVIOUS
  <2>1. \A d \in Dids : ~pending[d].on /\ pending[d].commits = <<>>
    BY DEF VerifierInit, NoPending
  <2>2. \A j \in Jobs : ~Busy(task[j])
    BY IdleNotBusy DEF VerifierInit, Tasks
  <2> QED
    BY <2>1, <2>2, WorkingDef DEF JobInv
<1>2. VerifierTypeOK /\ JobInv /\ [VerifierNext]_vars => JobInv'
  BY JobInvStep
<1> QED
  BY <1>1, <1>2, VerifierTypeCorrect, StepIsNext, PTL DEF VerifierSpec

(* Until close(), a DID buffers its commits exactly as long as one resync    *)
(* job is at work for it, for any DIDs, job slots, capacities and faults:    *)
(* a buffer without a job would swallow the repo's commits for good, and     *)
(* two jobs would replay them twice.                                         *)
THEOREM VerifierPendingHasOneJob == VerifierSpec => []PendingHasOneJob
<1>1. JobInv => PendingHasOneJob
  <2> SUFFICES ASSUME JobInv, ~closed, NEW d \in Dids
               PROVE  Cardinality({j \in Jobs : Working(j, d)}) = IF pending[d].on THEN 1 ELSE 0
    BY DEF PendingHasOneJob
  <2>1. CASE pending[d].on
    <3>1. PICK j \in Jobs : Working(j, d)
      BY <2>1 DEF JobInv
    <3>2. {k \in Jobs : Working(k, d)} = {j}
      BY <3>1 DEF JobInv
    <3> QED
      BY <2>1, <3>2, FS_Singleton
  <2>2. CASE ~pending[d].on
    <3>1. {k \in Jobs : Working(k, d)} = {}
      BY <2>2 DEF JobInv
    <3> QED
      BY <2>2, <3>1, FS_EmptySet
  <2> QED BY <2>1, <2>2
<1> QED
  BY <1>1, VerifierJobs, PTL

(* A buffered commit is not forgotten: the entry goes with commits in it     *)
(* only when its job failed, which finish_resync_job reports, or close()     *)
(* cleared the map.                                                          *)
THEOREM VerifierBufferKept == VerifierSpec => BufferNeverForgotten
<1>1. VerifierTypeOK /\ JobInv /\ [VerifierNext]_vars
        => [\A d \in Dids : pending[d].commits # <<>> /\ ~pending'[d].on =>
              \/ cpc' = "cleared"
              \/ \E j \in Jobs : task[j].did = d /\ task[j].pc = "finish"]_vars
  <2> SUFFICES ASSUME VerifierTypeOK, JobInv, VerifierNext, NEW d \in Dids,
                      pending[d].commits # <<>>, ~pending'[d].on
               PROVE  \/ cpc' = "cleared"
                      \/ \E j \in Jobs : task[j].did = d /\ task[j].pc = "finish"
    OBVIOUS
  <2>0. TypeInv /\ pending \in [Dids -> PendingState] /\ pending[d].on
    BY DEF VerifierTypeOK, TypeInv, JobInv
  <2>1. ASSUME NEW t \in Callers, Call(t) \/ CallerStep(t) PROVE pending'[d].on
    <3>1. CASE EnqueueSpawn(t)
      BY <2>0, <3>1 DEF EnqueueSpawn
    <3>2. CASE UNCHANGED pending
      BY <2>0, <3>2
    <3>3. CASE BufferCommit(t) \/ EnqueueBuffered(t)
      BY <2>0, <3>3 DEF BufferCommit, EnqueueBuffered, PendingState
    <3> QED
      BY <2>1, <3>1, <3>2, <3>3 DEF Call, CallerStep, PushHandle, AccountEvent, LockSync, VerifySync
  <2>2. ASSUME NEW t \in Tasks, CommitStep(t) \/ ResyncStep(t) PROVE pending'[d].on
    BY <2>0, <2>2, TaskStepsOpen
  <2>3. ASSUME NEW j \in Jobs, JobStep(j) PROVE task[j].did = d /\ task[j].pc = "finish"
    <3>1. RunPath(j)
      BY <2>0, <2>3, RunPaths
    <3>2. CASE pending' = [pending EXCEPT ![task[j].did].commits = <<>>]
      BY <2>0, <3>2 DEF PendingState
    <3> QED
      BY <2>0, <3>1, <3>2 DEF RunPath
  <2>4. CASE RecvEvent \/ RecvError \/ CloseStep
    BY <2>0, <2>4 DEF RecvEvent, RecvError, CloseStep, CloseFlag, CloseClear, CloseAbort, CloseSenders
  <2> QED
    BY <2>1, <2>2, <2>3, <2>4 DEF VerifierNext
<1> QED
  BY <1>1, VerifierTypeCorrect, VerifierJobs, StepIsNext, PTL DEF VerifierSpec, BufferNeverForgotten

-----------------------------------------------------------------------------
(* What was adopted reaches the consumer. *)

(* An idle task carries nothing. *)
LEMMA IdleOps == IdleTask.ops = <<>>
BY DEF IdleTask

(* A repo with a chain keeps it. *)
LEMMA ChainStays ==
  ASSUME TypeInv, TypeInv', LockInv, [VerifierNext]_vars, NEW d \in Dids, chain[d].rev > 0
  PROVE  chain'[d].rev > 0
<1>1. chain[d].rev \in Nat /\ chain'[d].rev \in Nat
  BY DEF TypeInv, ChainState
<1>2. ChainAdvances(d)
  BY ChainStep
<1>3. CASE chain'[d] = chain[d]
  BY <1>3
<1>4. CASE chain'[d].rev >= chain[d].rev
  BY <1>1, <1>4
<1> QED
  BY <1>2, <1>3, <1>4 DEF ChainAdvances

(* A job that a step leaves alone is as it was. *)
LEMMA ResyncedStays ==
  ASSUME TypeInv, TypeInv', LockInv, [VerifierNext]_vars, NEW j \in Tasks, ResyncedJob(task[j]),
         task'[j] = task[j]
  PROVE  ResyncedJob(task[j])'
<1>1. task[j].did \in Dids
  BY DEF TypeInv, TaskState
<1>2. chain[task[j].did].rev > 0 => chain'[task[j].did].rev > 0
  BY <1>1, ChainStays
<1> QED
  BY <1>2 DEF ResyncedJob

(* So is one that becomes idle. *)
LEMMA ResyncedIdle ==
  ASSUME NEW j, task'[j] = IdleTask
  PROVE  ResyncedJob(task[j])'
BY IdleTaskType, IdleOps DEF ResyncedJob, BeforeResync, AfterResync

(* A job that is stepped collects nothing before its resync succeeds. *)
LEMMA ResyncedPath ==
  ASSUME TypeInv, TypeInv', LockInv, [VerifierNext]_vars, NEW j \in Jobs, ResyncedJob(task[j]), JobPath(j)
  PROVE  ResyncedJob(task[j])'
<1>0. /\ j \in Tasks /\ task[j].did \in Dids /\ TaskOK(task[j])
      /\ task[j].next \in {"idle", "replay", "sendEvent"}
  BY DEF TypeInv, TaskState, Tasks
<1>1. chain[task[j].did].rev > 0 => chain'[task[j].did].rev > 0
  BY <1>0, ChainStays
<1>2. CASE task'[j] = IdleTask
  BY <1>2, ResyncedIdle
<1>3. CASE Adopt(j) /\ chain'[task[j].did].rev = task[j].got /\ task[j].pc = "adopt"
           /\ task'[j].pc = "drain" /\ task'[j].did = task[j].did
  <2>1. task[j].got \in Revs
    BY <1>0, <1>3 DEF TaskOK
  <2>2. task[j].got > 0
    BY <2>1, VerifierAssumption DEF Revs
  <2> QED
    BY <1>3, <2>2 DEF ResyncedJob, BeforeResync, AfterResync
<1>4. CASE task[j].pc \in {"lockCommit", "verifyCommit"}
  <2>1. chain'[task[j].did].rev > 0
    BY <1>1, <1>4 DEF ResyncedJob, AfterResync
  <2>2. /\ task'[j].did = task[j].did
        /\ \/ task'[j].pc \in {"replay", "verifyCommit"}
           \/ task'[j].pc = "sendError" /\ task'[j].next = "replay"
    BY <1>4 DEF JobPath, GoesTo
  <2> QED
    BY <2>1, <2>2 DEF ResyncedJob, BeforeResync, AfterResync
<1>5. CASE task[j].pc = "sendError" /\ task[j].next # "idle"
  <2>1. task[j].next = "replay" /\ chain'[task[j].did].rev > 0
    BY <1>0, <1>1, <1>5 DEF ResyncedJob
  <2>2. task'[j].did = task[j].did /\ task'[j].pc = "replay"
    BY <1>5, <2>1 DEF JobPath, GoesTo
  <2> QED
    BY <2>1, <2>2 DEF ResyncedJob, BeforeResync, AfterResync
<1>6. CASE /\ task[j].pc \in {"resync", "fetch", "adopt"} /\ task'[j].ops = task[j].ops
           /\ task'[j].pc \in {"fetch", "adopt", "finish"}
  <2>1. task[j].ops = <<>>
    BY <1>6 DEF ResyncedJob, BeforeResync
  <2> QED
    BY <1>6, <2>1 DEF ResyncedJob, BeforeResync, AfterResync
<1> QED
  BY <1>2, <1>3, <1>4, <1>5, <1>6 DEF JobPath, GoesTo

(* The same of the steps of run_resync_job. *)
LEMMA ResyncedRun ==
  ASSUME ~StoreFaults, TypeInv, NEW j \in Jobs, ResyncedJob(task[j]), RunPath(j),
         UNCHANGED chain
  PROVE  ResyncedJob(task[j])'
<1>1. CASE task'[j] = IdleTask
  BY <1>1, ResyncedIdle
<1>2. CASE task[j].pc = "start" /\ GoesTo(j, "resync")
  BY <1>2 DEF ResyncedJob, GoesTo, BeforeResync, AfterResync
<1>3. CASE task[j].pc = "finish" /\ GoesTo(j, "sendError") /\ task'[j].next = "idle"
  BY <1>3 DEF ResyncedJob, GoesTo, BeforeResync, AfterResync
<1>4. CASE /\ task[j].pc \in {"drain", "check", "replay"} /\ task'[j].did = task[j].did
           /\ task'[j].pc \in {"drain", "check", "replay", "lockCommit", "report"}
  BY <1>4 DEF ResyncedJob, BeforeResync, AfterResync
<1>5. CASE task[j].pc = "report" /\ GoesTo(j, "sendEvent") /\ task'[j].new = chain[task[j].did].rev
  BY <1>5 DEF ResyncedJob, GoesTo, BeforeResync, AfterResync
<1> QED
  BY <1>1, <1>2, <1>3, <1>4, <1>5 DEF RunPath, GoesTo

(* Close() has not begun before a step after which it has not. *)
LEMMA StillOpen ==
  ASSUME [VerifierNext]_vars, ~closed'
  PROVE  ~closed /\ UNCHANGED cpc
BY TaskStepsOpen DEF VerifierNext, vars, closed, RecvEvent, RecvError, CloseStep, CloseFlag,
                     CloseClear, CloseAbort, CloseSenders

(* The tasks and the events of the jobs only change by the steps of a job,   *)
(* by EnqueueSpawn and by RecvEvent.                                         *)
LEMMA JobsChange ==
  ASSUME TypeInv, [VerifierNext]_vars, ~closed'
  PROVE  \/ /\ \A k \in Jobs : task'[k] = task[k]
            /\ UNCHANGED events \/ RecvEvent
         \/ \E t \in Callers : EnqueueSpawn(t) /\ UNCHANGED events
         \/ \E t \in Jobs : (CommitStep(t) \/ ResyncStep(t)) /\ UNCHANGED events
         \/ \E j \in Jobs : JobStep(j)
<1>0. Jobs \subseteq Tasks /\ Callers \cap Jobs = {} /\ Tasks = Callers \cup Jobs
  BY VerifierAssumption DEF Tasks
<1>1. ASSUME NEW t \in Callers, Call(t) \/ CallerStep(t) PROVE UNCHANGED events
  BY <1>1 DEF Call, CallerStep, BufferCommit, EnqueueBuffered, EnqueueSpawn, PushHandle,
              AccountEvent, LockSync, VerifySync, channelVars
<1>2. ASSUME NEW t \in Tasks, CommitStep(t) \/ ResyncStep(t) PROVE UNCHANGED events
  BY <1>2 DEF CommitStep, ResyncStep, LockCommit, SaveCommit, RejectCommit, RecoverCommit,
              SendError, ResyncGate, Fetch, Adopt, channelVars
<1>3. ASSUME NEW t \in Callers, Call(t) \/ CallerStep(t), ~EnqueueSpawn(t)
      PROVE  \A k \in Jobs : task'[k] = task[k]
  BY <1>0, <1>3, OthersStay
<1>4. ASSUME NEW t \in Callers, CommitStep(t) \/ ResyncStep(t)
      PROVE  \A k \in Jobs : task'[k] = task[k]
  BY <1>0, <1>4, OthersStay
<1>5. CASE RecvEvent \/ RecvError \/ CloseStep \/ UNCHANGED vars
  <2>1. CASE RecvEvent
    BY <2>1 DEF RecvEvent
  <2>2. CASE RecvError
    BY <2>2 DEF RecvError
  <2>3. CASE CloseStep
    BY <2>3 DEF CloseStep, CloseFlag, CloseClear, CloseAbort, CloseSenders, closed
  <2>4. CASE UNCHANGED vars
    BY <2>4 DEF vars
  <2> QED BY <1>5, <2>1, <2>2, <2>3, <2>4
<1>6. ASSUME NEW t \in Callers, Call(t) \/ CallerStep(t)
      PROVE  \/ (\A k \in Jobs : task'[k] = task[k]) /\ UNCHANGED events
             \/ EnqueueSpawn(t) /\ UNCHANGED events
  BY <1>1, <1>3, <1>6
<1>7. ASSUME NEW t \in Tasks, CommitStep(t) \/ ResyncStep(t)
      PROVE  \/ (\A k \in Jobs : task'[k] = task[k]) /\ UNCHANGED events
             \/ t \in Jobs /\ UNCHANGED events
  BY <1>0, <1>2, <1>4, <1>7
<1> QED
  BY <1>5, <1>6, <1>7 DEF VerifierNext

(* A spawned job. *)
LEMMA SpawnedJob ==
  ASSUME TypeInv, NEW t \in Callers, EnqueueSpawn(t)
  PROVE  \E j \in Jobs : /\ task[j].pc = "idle" /\ task'[j].pc = "start" /\ task'[j].ops = <<>>
                         /\ \A k \in Jobs \ {j} : task'[k] = task[k]
<1>0. t \in Tasks /\ t \notin Jobs
  BY VerifierAssumption DEF Tasks
<1>1. PICK j \in Jobs :
        /\ task[j].pc = "idle"
        /\ task' = [task EXCEPT ![j] = [IdleTask EXCEPT !.pc = "start", !.did = task[t].did],
                                ![t] = [task[t] EXCEPT !.pc = "pushHandle", !.job = j]]
  BY DEF EnqueueSpawn
<1> DEFINE x == [IdleTask EXCEPT !.pc = "start", !.did = task[t].did]
           y == [task[t] EXCEPT !.pc = "pushHandle", !.job = j]
<1>2. x.pc = "start" /\ x.ops = <<>>
  BY IdleTaskType, IdleOps DEF TaskState
<1>3. task' = [task EXCEPT ![j] = x, ![t] = y]
  BY <1>1
<1> HIDE DEF x, y
<1>4. task'[j] = x /\ \A k \in Jobs \ {j} : task'[k] = task[k]
  BY <1>0, <1>3 DEF TypeInv, Tasks
<1> QED
  BY <1>1, <1>2, <1>4

(* Every step keeps OpsInv, while the store answers. *)
LEMMA OpsInvStep ==
  ASSUME ~StoreFaults, VerifierTypeOK, VerifierTypeOK', LockInv, OpsInv, [VerifierNext]_vars
  PROVE  OpsInv'
<1> SUFFICES ASSUME ~closed'
             PROVE  /\ \A j \in Jobs : ResyncedJob(task[j])'
                    /\ \A i \in 1..Len(events') : events'[i].new > 0
  BY DEF OpsInv
<1>0. TypeInv /\ TypeInv' /\ events \in Seq(EventState) /\ events' \in Seq(EventState)
  BY DEF VerifierTypeOK, TypeInv
<1>1. /\ ~closed /\ \A j \in Jobs : ResyncedJob(task[j])
      /\ \A i \in 1..Len(events) : events[i].new > 0
  BY StillOpen DEF OpsInv
<1>2. \A j \in Jobs : task'[j] = task[j] => ResyncedJob(task[j])'
  BY <1>0, <1>1, ResyncedStays DEF Tasks
<1>3. CASE (\A k \in Jobs : task'[k] = task[k]) /\ (UNCHANGED events \/ RecvEvent)
  <2>1. CASE RecvEvent
    <3>1. events # <<>> /\ events' = Tail(events)
      BY <2>1 DEF RecvEvent
    <3>2. \A i \in 1..Len(events') : events'[i] = events[i + 1] /\ i + 1 \in 1..Len(events)
      BY <1>0, <3>1
    <3> QED
      BY <1>1, <1>2, <1>3, <3>2
  <2>2. CASE UNCHANGED events
    BY <1>1, <1>2, <1>3, <2>2
  <2> QED BY <1>3, <2>1, <2>2
<1>4. ASSUME NEW t \in Callers, EnqueueSpawn(t) /\ UNCHANGED events
      PROVE  /\ \A j \in Jobs : ResyncedJob(task[j])'
             /\ \A i \in 1..Len(events') : events'[i].new > 0
  <2>1. PICK j \in Jobs : /\ task'[j].pc = "start" /\ task'[j].ops = <<>>
                          /\ \A k \in Jobs \ {j} : task'[k] = task[k]
    BY <1>0, <1>4, SpawnedJob
  <2>2. ResyncedJob(task[j])'
    BY <2>1 DEF ResyncedJob, BeforeResync, AfterResync
  <2> QED
    BY <1>1, <1>2, <1>4, <2>1, <2>2
<1>5. ASSUME NEW t \in Jobs, (CommitStep(t) \/ ResyncStep(t)) /\ UNCHANGED events
      PROVE  /\ \A j \in Jobs : ResyncedJob(task[j])'
             /\ \A i \in 1..Len(events') : events'[i].new > 0
  <2>1. JobPath(t)
    BY <1>0, <1>5, JobPaths
  <2>2. ResyncedJob(task[t])'
    BY <1>0, <1>1, <2>1, ResyncedPath
  <2>3. \A k \in Jobs \ {t} : task'[k] = task[k]
    BY <1>0, <1>5, OthersStay DEF Tasks
  <2> QED
    BY <1>1, <1>2, <1>5, <2>2, <2>3
<1>6. ASSUME NEW j \in Jobs, JobStep(j)
      PROVE  /\ \A k \in Jobs : ResyncedJob(task[k])'
             /\ \A i \in 1..Len(events') : events'[i].new > 0
  <2>1. RunPath(j)
    BY <1>0, <1>6, RunPaths
  <2>2. UNCHANGED chain
    BY <1>6 DEF JobStep, JobStart, JobGivesUp, JobDrain, JobCheck, JobReplay, JobReport,
                JobSendEvent, storeVars
  <2>3. ResyncedJob(task[j])'
    BY <1>0, <1>1, <2>1, <2>2, ResyncedRun
  <2>4. \A k \in Jobs \ {j} : task'[k] = task[k]
    BY <1>0, <1>6, OthersStay DEF Tasks
  <2>5. \A i \in 1..Len(events') : events'[i].new > 0
    <3>1. CASE UNCHANGED events
      BY <1>1, <3>1
    <3>2. CASE ~UNCHANGED events
      <4> DEFINE e == [did |-> task[j].did, old |-> task[j].old,
                       new |-> task[j].new, ops |-> task[j].ops]
      <4>1. JobSendEvent(j)
        BY <1>6, <3>2 DEF JobStep, JobStart, JobGivesUp, JobDrain, JobCheck, JobReplay, JobReport,
                          channelVars
      <4>2. events' = Append(events, e) /\ task[j].pc = "sendEvent"
        BY <3>2, <4>1 DEF JobSendEvent
      <4>3. e.new > 0
        BY <1>1, <4>2 DEF ResyncedJob
      <4> HIDE DEF e
      <4>4. \A i \in 1..Len(events') : events'[i] = e \/ (i \in 1..Len(events) /\ events'[i] = events[i])
        BY <1>0, <4>2
      <4> QED
        BY <1>1, <4>3, <4>4
    <3> QED BY <3>1, <3>2
  <2> QED
    BY <1>2, <2>3, <2>4, <2>5
<1> QED
  BY <1>0, <1>3, <1>4, <1>5, <1>6, JobsChange

(* Where a revision adopted for repo d is on its way. *)
InEvents(d, r) ==
  \E i \in 1..Len(events) :
    events[i].did = d /\ \E k \in 1..Len(events[i].ops) : events[i].ops[k] = r

InJob(j, d, r) ==
  task[j].did = d /\ \E k \in 1..Len(task[j].ops) : task[j].ops[k] = r

OnItsWay(d, r) == r \in yielded[d] \/ InEvents(d, r) \/ \E j \in Jobs : InJob(j, d, r)

LEMMA OnItsWayDef ==
  AdoptedReachesConsumer <=> (~closed => \A d \in Dids : \A r \in adopted[d] : OnItsWay(d, r))
BY DEF AdoptedReachesConsumer, OnItsWay, InEvents, InJob

(* The history variables record revisions of repos. *)
HistType == adopted \in [Dids -> SUBSET Nat] /\ yielded \in [Dids -> SUBSET Nat]

(* Only a save, an adopted repo and a received event change the history. *)
LEMMA HistChange ==
  ASSUME [VerifierNext]_vars
  PROVE  \/ UNCHANGED histVars
         \/ \E t \in Tasks : SaveCommit(t) \/ Adopt(t)
         \/ RecvEvent
<1>1. ASSUME NEW t \in Callers, Call(t) \/ CallerStep(t) PROVE UNCHANGED histVars
  BY <1>1 DEF Call, CallerStep, BufferCommit, EnqueueBuffered, EnqueueSpawn, PushHandle,
              AccountEvent, LockSync, VerifySync
<1>2. ASSUME NEW t \in Tasks, CommitStep(t) \/ ResyncStep(t), ~SaveCommit(t), ~Adopt(t)
      PROVE  UNCHANGED histVars
  BY <1>2 DEF CommitStep, ResyncStep, LockCommit, RejectCommit, RecoverCommit, SendError,
              ResyncGate, Fetch
<1>3. ASSUME NEW j \in Jobs, JobStep(j) PROVE UNCHANGED histVars
  BY <1>3 DEF JobStep, JobStart, JobGivesUp, JobDrain, JobCheck, JobReplay, JobReport,
              JobSendEvent
<1>4. CASE RecvError \/ CloseStep \/ UNCHANGED vars
  BY <1>4 DEF RecvError, CloseStep, CloseFlag, CloseClear, CloseAbort, CloseSenders, vars, histVars
<1> QED
  BY <1>1, <1>2, <1>3, <1>4 DEF VerifierNext

(* What the answer of a saved or adopted revision does to the history. *)
LEMMA AnswerHist ==
  ASSUME HistType, TypeInv, NEW t \in Tasks, NEW r \in Nat,
         adopted' = [adopted EXCEPT ![task[t].did] = @ \cup {r}],
         \/ AnswerOps(t, r)
         \/ t \in Jobs /\ UNCHANGED yielded
  PROVE  /\ HistType'
         /\ \A d \in Dids : yielded[d] \subseteq yielded'[d]
         /\ \A d \in Dids \ {task[t].did} : adopted'[d] = adopted[d]
         /\ adopted'[task[t].did] = adopted[task[t].did] \cup {r}
         /\ t \notin Jobs => r \in yielded'[task[t].did]
<1> DEFINE c == task[t].did
<1>0. c \in Dids
  BY DEF TypeInv, TaskState
<1>1. yielded' = yielded \/ yielded' = [yielded EXCEPT ![c] = @ \cup {r}]
  BY DEF AnswerOps
<1>2. t \notin Jobs => yielded' = [yielded EXCEPT ![c] = @ \cup {r}]
  BY DEF AnswerOps
<1>3. HistType'
  BY <1>0, <1>1 DEF HistType
<1> QED
  BY <1>0, <1>1, <1>2, <1>3 DEF HistType

(* The ops of an event that is received. *)
LEMMA ReceivedHist ==
  ASSUME HistType, TypeInv, RecvEvent, events[1].new > 0
  PROVE  /\ HistType' /\ UNCHANGED adopted
         /\ \A d \in Dids : yielded[d] \subseteq yielded'[d]
         /\ \A k \in 1..Len(events[1].ops) : events[1].ops[k] \in yielded'[events[1].did]
<1> DEFINE e == events[1]
           R == {e.ops[i] : i \in 1..Len(e.ops)}
<1>0. events \in Seq(EventState) /\ events # <<>>
  BY DEF TypeInv, RecvEvent
<1>1. Head(events) = e /\ e \in EventState
  BY <1>0
<1>2. e.did \in Dids /\ e.ops \in Seq(Nat) /\ e.new \in Nat
  BY <1>1 DEF EventState
<1>3. R \in SUBSET Nat
  BY <1>2
<1>4. yielded' = [yielded EXCEPT ![e.did] = @ \cup R] /\ UNCHANGED adopted
  BY <1>1, <1>2 DEF RecvEvent
<1> HIDE DEF e
<1>5. \A k \in 1..Len(e.ops) : e.ops[k] \in R
  OBVIOUS
<1> HIDE DEF R
<1>6. HistType'
  BY <1>2, <1>3, <1>4 DEF HistType
<1>7. yielded'[e.did] = yielded[e.did] \cup R /\ \A d \in Dids \ {e.did} : yielded'[d] = yielded[d]
  BY <1>2, <1>4 DEF HistType
<1> QED
  BY <1>4, <1>5, <1>6, <1>7 DEF e

(* What a step does to the history. *)
LEMMA HistStep ==
  ASSUME TypeInv, HistType, OpsInv, [VerifierNext]_vars, ~closed'
  PROVE  /\ HistType'
         /\ \A d \in Dids : yielded[d] \subseteq yielded'[d]
         /\ \A d \in Dids : \A r \in adopted'[d] \ adopted[d] :
              r \in yielded'[d] \/ \E j \in Jobs : InJob(j, d, r)'
<1>0. ~closed
  BY StillOpen
<1>1. CASE UNCHANGED histVars
  BY <1>1 DEF histVars, HistType
<1>2. CASE RecvEvent
  <2>1. events \in Seq(EventState) /\ events # <<>>
    BY <1>2 DEF RecvEvent, TypeInv
  <2>2. 1 \in 1..Len(events)
    BY <2>1
  <2>3. events[1].new > 0
    BY <1>0, <2>2 DEF OpsInv
  <2> QED
    BY <1>2, <2>3, ReceivedHist
<1>3. ASSUME NEW t \in Tasks, SaveCommit(t), ~UNCHANGED histVars
      PROVE  /\ HistType'
             /\ \A d \in Dids : yielded[d] \subseteq yielded'[d]
             /\ \A d \in Dids : \A r \in adopted'[d] \ adopted[d] :
                  r \in yielded'[d] \/ \E j \in Jobs : InJob(j, d, r)'
  <2>0. task[t].frame.rev \in Nat /\ task[t].did \in Dids /\ task[t].ops \in Seq(Nat)
    BY DEF TypeInv, TaskState, FrameState
  <2>1. PICK c \in Dids, q \in Nat : c = task[t].did /\ q = task[t].frame.rev
    BY <2>0
  <2>2. adopted' = [adopted EXCEPT ![c] = @ \cup {q}] /\ AnswerOps(t, q)
    BY <1>3, <2>1 DEF SaveCommit
  <2>3. /\ HistType' /\ \A d \in Dids : yielded[d] \subseteq yielded'[d]
        /\ \A d \in Dids \ {c} : adopted'[d] = adopted[d]
        /\ adopted'[c] = adopted[c] \cup {q}
        /\ t \notin Jobs => q \in yielded'[c]
    BY <2>1, <2>2, AnswerHist
  <2>4. t \in Jobs => InJob(t, c, q)'
    <3> SUFFICES ASSUME t \in Jobs PROVE InJob(t, c, q)'
      OBVIOUS
    <3>1. task'[t].did = c /\ task'[t].ops = Append(task[t].ops, q)
      BY <2>1, <2>2, JobAnswers
    <3>2. /\ Len(task[t].ops) + 1 \in 1..Len(Append(task[t].ops, q))
          /\ Append(task[t].ops, q)[Len(task[t].ops) + 1] = q
      BY <2>0, <2>1
    <3> QED
      BY <3>1, <3>2 DEF InJob
  <2> QED
    BY <2>3, <2>4
<1>4. ASSUME NEW t \in Tasks, Adopt(t), ~UNCHANGED histVars
      PROVE  /\ HistType'
             /\ \A d \in Dids : yielded[d] \subseteq yielded'[d]
             /\ \A d \in Dids : \A r \in adopted'[d] \ adopted[d] :
                  r \in yielded'[d] \/ \E j \in Jobs : InJob(j, d, r)'
  <2>0. task[t] \in TaskState /\ task[t].got \in Nat /\ task[t].did \in Dids
    BY DEF TypeInv, TaskState
  <2>1. PICK c \in Dids, q \in Nat : c = task[t].did /\ q = task[t].got
    BY <2>0
  <2>2. /\ adopted' = [adopted EXCEPT ![c] = @ \cup {q}]
        /\ AnswerOps(t, q) \/ (t \in Jobs /\ UNCHANGED yielded)
    BY <1>4, <2>1 DEF Adopt
  <2>3. adopted' = [adopted EXCEPT ![task[t].did] = @ \cup {q}]
    BY <2>1, <2>2
  <2>4. /\ HistType' /\ \A d \in Dids : yielded[d] \subseteq yielded'[d]
        /\ \A d \in Dids \ {c} : adopted'[d] = adopted[d]
        /\ adopted'[c] = adopted[c] \cup {q}
        /\ t \notin Jobs => q \in yielded'[c]
    BY <2>1, <2>2, <2>3, AnswerHist
  <2>5. t \in Jobs => InJob(t, c, q)'
    <3> SUFFICES ASSUME t \in Jobs PROVE InJob(t, c, q)'
      OBVIOUS
    <3>1. Become(t, [task[t] EXCEPT !.pc = "drain", !.ops = <<q>>])
      BY <1>4, <2>1 DEF Adopt
    <3>2. task'[t] = [task[t] EXCEPT !.pc = "drain", !.ops = <<q>>]
      BY <3>1, BecomeValue
    <3>3. task'[t].did = c /\ task'[t].ops = <<q>>
      BY <2>0, <2>1, <3>2 DEF TaskState
    <3>4. 1 \in 1..Len(<<q>>) /\ <<q>>[1] = q
      OBVIOUS
    <3> QED
      BY <3>3, <3>4 DEF InJob
  <2> QED
    BY <2>4, <2>5
<1> QED
  BY <1>1, <1>2, <1>3, <1>4, HistChange

(* What a job carries it keeps, or has put in an event. *)
LEMMA JobStaysOrSends ==
  ASSUME TypeInv, OpsInv, [VerifierNext]_vars, ~closed',
         NEW d \in Dids, NEW r, NEW j \in Jobs, InJob(j, d, r)
  PROVE  InJob(j, d, r)' \/ InEvents(d, r)'
<1>0. /\ task[j] \in TaskState /\ task[j].ops \in Seq(Nat) /\ task[j].ops # <<>>
      /\ events \in Seq(EventState) /\ ~closed /\ ResyncedJob(task[j])
  <2>1. task[j] \in TaskState
    BY DEF TypeInv, Tasks
  <2>2. task[j].ops \in Seq(Nat)
    BY <2>1 DEF TaskState
  <2>3. task[j].ops # <<>>
    BY <2>2 DEF InJob
  <2>4. ~closed
    BY StillOpen
  <2> QED
    BY <2>1, <2>2, <2>3, <2>4 DEF TypeInv, OpsInv
<1>1. CASE task'[j] = task[j]
  BY <1>1 DEF InJob
<1>2. CASE task'[j].did = task[j].did /\ task'[j].ops = task[j].ops
  BY <1>2 DEF InJob
<1>3. ASSUME NEW t \in Callers, EnqueueSpawn(t) PROVE task'[j] = task[j]
  <2>1. PICK k \in Jobs : task[k].pc = "idle" /\ \A l \in Jobs \ {k} : task'[l] = task[l]
    BY <1>3, SpawnedJob
  <2>2. k # j
    BY <1>0, <2>1 DEF ResyncedJob, BeforeResync
  <2> QED BY <2>1, <2>2
<1>4. ASSUME NEW t \in Jobs, CommitStep(t) \/ ResyncStep(t) PROVE InJob(j, d, r)'
  <2>1. CASE t # j
    <3>1. task'[j] = task[j]
      BY <1>4, <2>1, OthersStay DEF Tasks
    <3> QED BY <3>1 DEF InJob
  <2>2. CASE t = j
    <3>1. JobPath(j)
      BY <1>4, <2>2, JobPaths
    <3>2. task[j].pc \notin BeforeResync /\ ~(task[j].pc = "sendError" /\ task[j].next = "idle")
      BY <1>0 DEF ResyncedJob
    <3>3. CASE GoesTo(j, task'[j].pc)
      BY <3>3 DEF GoesTo, InJob
    <3>4. CASE task'[j].did = task[j].did /\ task'[j].ops = Append(task[j].ops, task[j].frame.rev)
      <4>1. PICK k \in 1..Len(task[j].ops) : task[j].ops[k] = r
        BY DEF InJob
      <4>2. k \in 1..Len(task'[j].ops) /\ task'[j].ops[k] = r
        BY <1>0, <3>4, <4>1
      <4> QED
        BY <3>4, <4>2 DEF InJob
    <3> QED
      BY <3>1, <3>2, <3>3, <3>4 DEF JobPath, BeforeResync, GoesTo
  <2> QED BY <2>1, <2>2
<1>5. ASSUME NEW k \in Jobs, JobStep(k) PROVE InJob(j, d, r)' \/ InEvents(d, r)'
  <2>1. CASE k # j
    <3>1. task'[j] = task[j]
      BY <1>5, <2>1, OthersStay DEF Tasks
    <3> QED BY <3>1 DEF InJob
  <2>2. CASE k = j
    <3>1. RunPath(j)
      BY <1>5, <2>2, RunPaths
    <3>2. task[j].pc # "start"
      BY <1>0 DEF ResyncedJob, BeforeResync
    <3>3. CASE GoesTo(j, task'[j].pc)
      BY <3>3 DEF GoesTo, InJob
    <3>4. CASE JobSendEvent(j)
      <4> DEFINE e == [did |-> task[j].did, old |-> task[j].old,
                       new |-> task[j].new, ops |-> task[j].ops]
      <4>1. events' = Append(events, e)
        BY <1>0, <3>4 DEF JobSendEvent, SendersTaken, closed
      <4>2. e.did = task[j].did /\ e.ops = task[j].ops
        OBVIOUS
      <4> HIDE DEF e
      <4>3. Len(events) + 1 \in 1..Len(events') /\ events'[Len(events) + 1] = e
        BY <1>0, <4>1
      <4> QED
        BY <4>2, <4>3 DEF InEvents, InJob
    <3> QED
      BY <3>1, <3>2, <3>3, <3>4 DEF RunPath, GoesTo
  <2> QED BY <2>1, <2>2
<1> QED
  BY <1>1, <1>3, <1>4, <1>5, JobsChange

(* What an event carries it keeps, or the consumer has received. *)
LEMMA EventStaysOrYields ==
  ASSUME TypeInv, HistType, OpsInv, [VerifierNext]_vars, ~closed',
         NEW d \in Dids, NEW r, InEvents(d, r)
  PROVE  InEvents(d, r)' \/ r \in yielded'[d]
<1>0. events \in Seq(EventState) /\ ~closed
  BY StillOpen DEF TypeInv
<1>1. PICK i \in 1..Len(events) :
        events[i].did = d /\ \E k \in 1..Len(events[i].ops) : events[i].ops[k] = r
  BY DEF InEvents
<1>2. CASE UNCHANGED events
  BY <1>2 DEF InEvents
<1>3. CASE RecvEvent
  <2>1. events # <<>> /\ events' = Tail(events)
    BY <1>3 DEF RecvEvent
  <2>2. CASE i = 1
    <3>1. events[1].new > 0
      BY <1>0, <1>1, <2>2 DEF OpsInv
    <3> QED
      BY <1>1, <1>3, <2>2, <3>1, ReceivedHist
  <2>3. CASE i # 1
    <3>1. i - 1 \in 1..Len(events') /\ events'[i - 1] = events[i]
      BY <1>0, <2>1, <2>3
    <3> QED
      BY <1>1, <3>1 DEF InEvents
  <2> QED BY <2>2, <2>3
<1>4. ASSUME NEW x, events' = Append(events, x) PROVE InEvents(d, r)'
  <2>1. i \in 1..Len(events') /\ events'[i] = events[i]
    BY <1>0, <1>4
  <2> QED
    BY <1>1, <2>1 DEF InEvents
<1>5. ASSUME NEW j \in Jobs, JobStep(j) PROVE InEvents(d, r)' \/ r \in yielded'[d]
  <2>1. UNCHANGED events \/ JobSendEvent(j)
    BY <1>5 DEF JobStep, JobStart, JobGivesUp, JobDrain, JobCheck, JobReplay, JobReport, channelVars
  <2>2. CASE JobSendEvent(j)
    BY <1>2, <1>4, <2>2 DEF JobSendEvent
  <2> QED BY <1>2, <2>1, <2>2
<1> QED
  BY <1>2, <1>3, <1>5, JobsChange

(* The inductive invariant. *)
DeliveryInv == OpsInv /\ AdoptedReachesConsumer /\ (~closed => HistType)

(* While the store answers and until close(), every revision that was        *)
(* verified and saved was handed to the consumer, or is in an event or in a  *)
(* job on its way there, whatever the interleaving of calls, jobs and the    *)
(* stream that receives.  A store that fails when run_resync_job reads the   *)
(* revision it reports makes an event the stream cannot deliver, so this is  *)
(* the hypothesis under which it holds.                                      *)
THEOREM VerifierAdoptedReachesConsumer ==
  ASSUME ~StoreFaults
  PROVE  VerifierSpec => []AdoptedReachesConsumer
<1>1. VerifierInit => DeliveryInv
  <2> SUFFICES ASSUME VerifierInit PROVE DeliveryInv
    OBVIOUS
  <2>1. \A j \in Jobs : ResyncedJob(task[j])
    BY IdleTaskType, IdleOps DEF VerifierInit, Tasks, ResyncedJob, BeforeResync, AfterResync
  <2>2. \A i \in 1..Len(events) : events[i].new > 0
    BY DEF VerifierInit
  <2>3. HistType /\ \A d \in Dids : adopted[d] = {}
    BY DEF VerifierInit, HistType
  <2> QED
    BY <2>1, <2>2, <2>3 DEF DeliveryInv, OpsInv, AdoptedReachesConsumer
<1>2. VerifierTypeOK /\ VerifierTypeOK' /\ LockInv /\ DeliveryInv /\ [VerifierNext]_vars
        => DeliveryInv'
  <2> SUFFICES ASSUME VerifierTypeOK, VerifierTypeOK', LockInv, DeliveryInv, [VerifierNext]_vars
               PROVE  DeliveryInv'
    OBVIOUS
  <2>1. OpsInv'
    BY OpsInvStep DEF DeliveryInv
  <2> SUFFICES ASSUME ~closed' PROVE HistType' /\ AdoptedReachesConsumer'
    BY <2>1 DEF DeliveryInv, AdoptedReachesConsumer
  <2>2. TypeInv /\ ~closed /\ OpsInv /\ HistType /\ AdoptedReachesConsumer
    BY StillOpen DEF VerifierTypeOK, DeliveryInv
  <2>3. /\ HistType'
        /\ \A d \in Dids : yielded[d] \subseteq yielded'[d]
        /\ \A d \in Dids : \A r \in adopted'[d] \ adopted[d] :
             r \in yielded'[d] \/ \E j \in Jobs : InJob(j, d, r)'
    BY <2>2, HistStep
  <2>4. ASSUME NEW d \in Dids, NEW r \in adopted'[d] PROVE OnItsWay(d, r)'
    <3>1. CASE r \notin adopted[d]
      BY <2>3, <2>4, <3>1 DEF OnItsWay
    <3>2. CASE r \in adopted[d]
      <4>1. OnItsWay(d, r)
        BY <2>2, <3>2, OnItsWayDef
      <4>2. CASE r \in yielded[d]
        BY <2>3, <4>2 DEF OnItsWay
      <4>3. CASE InEvents(d, r)
        BY <2>2, <4>3, EventStaysOrYields DEF OnItsWay
      <4>4. ASSUME NEW j \in Jobs, InJob(j, d, r) PROVE OnItsWay(d, r)'
        BY <2>2, <4>4, JobStaysOrSends DEF OnItsWay
      <4> QED
        BY <4>1, <4>2, <4>3, <4>4 DEF OnItsWay
    <3> QED BY <3>1, <3>2
  <2>5. AdoptedReachesConsumer'
    BY <2>4 DEF AdoptedReachesConsumer, OnItsWay, InEvents, InJob
  <2> QED BY <2>3, <2>5
<1>3. DeliveryInv => AdoptedReachesConsumer
  BY DEF DeliveryInv
<1> QED
  BY <1>1, <1>2, <1>3, VerifierTypeCorrect, VerifierLocks, StepIsNext, PTL DEF VerifierSpec

=============================================================================
