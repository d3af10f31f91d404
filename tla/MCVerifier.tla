----------------------------- MODULE MCVerifier -----------------------------
(* Instances of Verifier for TLC. *)
EXTENDS Verifier, TLC

CONSTANTS d1, d2, c1, c2, j1, j2, s1

MCOneDid == {d1}
MCTwoDids == {d1, d2}
MCStripeOf == [d \in Dids |-> s1]

(* Revision 2 re-signs the repo of revision 1; the others change it. *)
MCDataOf == [r \in Revs |-> IF r = 2 THEN 1 ELSE r]
MCDataPlain == [r \in Revs |-> r]

Symmetry == Permutations(Callers) \cup Permutations(Jobs)

(* The doc of report_async_error promises that a failure to store an        *)
(* #account event does not suppress the delivery of the event itself: the   *)
(* handler of every account event gets to its end.                          *)
AccountEventDelivered ==
  \A t \in Callers : task[t].frame.kind = "account" ~> task[t].frame.kind # "account"

(* The test close_stops_workers_and_closes_channels names what close() is   *)
(* for: once it is done the jobs come to an end, but for one whose download *)
(* hangs.                                                                   *)
CloseStopsWorkers ==
  \A j \in Jobs : (cpc = "closed" /\ task[j].pc # "idle")
                    ~> (task[j].pc = "idle" \/ task[j].pc = "fetch")
=============================================================================
