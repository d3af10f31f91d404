------------------------------ MODULE TidClock ------------------------------
(***************************************************************************)
(* TidClock (syntax/tid.rs): TIDs for many threads from one atomic         *)
(* timestamp, without a lock.  A TID is its timestamp: all TIDs of a clock *)
(* have the same clock id in their low bits.                               *)
(***************************************************************************)
EXTENDS Integers

CONSTANTS
  Threads,   \* threads inside next()
  MaxTid     \* MAX_TID_MICROS, the 53-bit ceiling

ASSUME TidAssumption == MaxTid \in Nat

Micros == 0..MaxTid

VARIABLES
  last,       \* AtomicU64
  thread,     \* per thread: where it is, the last it loaded, its new timestamp
  highest,    \* history: the highest timestamp returned or observed
  tidFloor,      \* history: per thread, `highest` when its call began
  issued,     \* history: timestamps of the TIDs returned so far
  repeated,   \* history: those returned more than once
  ordered     \* history: no call returned a TID that was not above its floor

tidVars == <<last, thread, highest, tidFloor, issued, repeated, ordered>>

Outside == [pc |-> "outside", prev |-> 0, ts |-> 0]

TidInit ==
  /\ last = 0 /\ highest = 0
  /\ thread = [t \in Threads |-> Outside]
  /\ tidFloor = [t \in Threads |-> 0]
  /\ issued = {} /\ repeated = {} /\ ordered = TRUE

(* next() is called: the history notes what the TID has to be above. *)
CallNext(t) ==
  /\ thread[t].pc = "outside"
  /\ thread' = [thread EXCEPT ![t].pc = "load"]
  /\ tidFloor' = [tidFloor EXCEPT ![t] = highest]
  /\ UNCHANGED <<last, highest, issued, repeated, ordered>>

Load(t) ==
  /\ thread[t].pc = "load"
  /\ thread' = [thread EXCEPT ![t].pc = "clock", ![t].prev = last]
  /\ UNCHANGED <<last, highest, tidFloor, issued, repeated, ordered>>

(* The wall clock if it has moved on, one more than the last if not, and    *)
(* never above the ceiling.                                                 *)
NewTs(prev, now) ==
  LET ts == IF now > prev THEN now ELSE prev + 1
  IN IF ts > MaxTid THEN MaxTid ELSE ts

(* The wall clock shows anything: it may be set back between two readings.  *)
ReadWallClock(t) ==
  /\ thread[t].pc = "clock"
  /\ \E now \in 0..MaxTid + 1 :
       thread' = [thread EXCEPT ![t].pc = "swap", ![t].ts = NewTs(thread[t].prev, now)]
  /\ UNCHANGED <<last, highest, tidFloor, issued, repeated, ordered>>

Higher(a, b) == IF a > b THEN a ELSE b

(* The TID of thread t is returned. *)
Returns(t, ts) ==
  /\ highest' = Higher(highest, ts)
  /\ thread' = [thread EXCEPT ![t] = Outside]
  /\ issued' = issued \cup {ts}
  /\ repeated' = IF ts \in issued THEN repeated \cup {ts} ELSE repeated
  /\ ordered' = (ordered /\ (ts > tidFloor[t] \/ ts = MaxTid))

(* Mutant: a plain store after the check that was made when loading. *)
SwapBlindly(t) ==
  /\ thread[t].pc = "swap"
  /\ last' = thread[t].ts
  /\ Returns(t, thread[t].ts)
  /\ UNCHANGED tidFloor

(* compare_exchange_weak: it may also fail without cause. *)
Swap(t) ==
  /\ thread[t].pc = "swap"
  /\ \/ /\ last = thread[t].prev
        /\ last' = thread[t].ts
        /\ Returns(t, thread[t].ts)
     \/ /\ thread' = [thread EXCEPT ![t].pc = "load"]
        /\ UNCHANGED <<last, highest, issued, repeated, ordered>>
  /\ UNCHANGED tidFloor

(* observe: fetch_max with a TID from elsewhere. *)
Observe(ts) ==
  /\ last' = Higher(last, ts)
  /\ highest' = Higher(highest, ts)
  /\ UNCHANGED <<thread, tidFloor, issued, repeated, ordered>>

TidNext ==
  \/ \E t \in Threads : CallNext(t) \/ Load(t) \/ ReadWallClock(t) \/ Swap(t)
  \/ \E ts \in Micros : Observe(ts)

TidSpec == TidInit /\ [][TidNext]_tidVars

-----------------------------------------------------------------------------
(* Properties. *)

(* The state has its type; no timestamp passes the ceiling, however the     *)
(* threads and the wall clock meet it ("never producing a corrupt (wrapped) *)
(* timestamp").                                                             *)
TidTypeOK ==
  /\ last \in Micros /\ highest \in Micros
  /\ thread \in [Threads -> [pc : {"outside", "load", "clock", "swap"}, prev : Micros, ts : Micros]]
  /\ tidFloor \in [Threads -> Micros]
  /\ issued \subseteq Micros /\ repeated \subseteq Micros
  /\ ordered \in BOOLEAN

(* Below the ceiling no TID is returned twice, and each is above all TIDs   *)
(* returned, and all observed, before its call began, whatever the threads  *)
(* do and however the wall clock jumps.                                     *)
TidsAscend == ordered /\ repeated \subseteq {MaxTid}
=============================================================================
