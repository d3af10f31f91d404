---------------------------- MODULE MCScheduler ----------------------------
(* Instances of Scheduler for TLC. *)
EXTENDS Scheduler

(* Liveness: the runtime polls every woken worker task and the caller keeps *)
(* receiving; no assumption on add_work, shutdown, abort or the receiver's  *)
(* drop.                                                                   *)
LiveSpec ==
  /\ SchedSpec
  /\ \A w \in Workers : WF_schedVars(WorkerStep(w)) /\ WF_schedVars(Cancel(w))
  /\ WF_schedVars(Collect)

(* Every accepted unit is eventually collected, dropped or discarded with   *)
(* the receiver, unless the scheduler is aborted or `run' panicked.         *)
EveryUnitSettles ==
  \A u \in 1..MaxUnits :
    (submitted >= u) ~>
      \/ u \in dropped \cup abandoned
      \/ \E j \in collected : j.unit = u
      \/ life = "aborted"
      \/ ~rxOpen
      \/ \E w \in Workers : pc[w] = "dead"

(* shutdown() returns: once the feeder is closed every worker ends, whether *)
(* or not the caller still receives results.                               *)
ShutdownReturns ==
  (life = "shutdown") ~> (\A w \in Workers : pc[w] \in {"ended", "dead"})

=============================================================================
