--------------------------- MODULE TidClockProofs ---------------------------
(* Proofs about TidClock, for any number of threads and any ceiling. *)
EXTENDS TidClock, TLAPS

(* A thread that has loaded `prev` has loaded it during its call. *)
Loaded(t) == thread[t].pc \in {"clock", "swap"}

(* Why TIDs ascend: everything returned or observed, and so every floor, is *)
(* at most the atomic, and what a thread has loaded is at least its floor;  *)
(* so a swap that finds the atomic where it loaded it moves it above all    *)
(* that was returned and above the floor, or to the ceiling.                *)
TidInv ==
  /\ TidTypeOK
  /\ highest <= last
  /\ \A ts \in issued : ts <= last
  /\ \A t \in Threads : tidFloor[t] <= highest
  /\ \A t \in Threads : Loaded(t) => tidFloor[t] <= thread[t].prev
  /\ \A t \in Threads : thread[t].pc = "swap" =>
       thread[t].ts > thread[t].prev \/ thread[t].ts = MaxTid
  /\ TidsAscend

(* A new timestamp is a timestamp, above the one it follows or at the       *)
(* ceiling.                                                                 *)
LEMMA NewTsAbove ==
  ASSUME NEW prev \in Micros, NEW now \in 0..MaxTid + 1
  PROVE  /\ NewTs(prev, now) \in Micros
         /\ NewTs(prev, now) > prev \/ NewTs(prev, now) = MaxTid
BY TidAssumption DEF NewTs, Micros

LEMMA TidInitInv == TidInit => TidInv
BY TidAssumption DEF TidInit, TidInv, TidTypeOK, TidsAscend, Outside, Micros, Loaded

LEMMA CallKeepsInv ==
  ASSUME TidInv, NEW t \in Threads, CallNext(t)
  PROVE  TidInv'
BY TidAssumption DEF TidInv, TidTypeOK, TidsAscend, CallNext, Micros, Loaded

LEMMA LoadKeepsInv ==
  ASSUME TidInv, NEW t \in Threads, Load(t)
  PROVE  TidInv'
<1>1. /\ TidTypeOK'
      /\ thread' = [u \in Threads |-> IF u = t THEN [thread[t] EXCEPT !.pc = "clock", !.prev = last]
                                               ELSE thread[u]]
  BY DEF TidInv, TidTypeOK, Load
<1>2. tidFloor[t] <= last
  BY TidAssumption DEF TidInv, TidTypeOK, Micros
<1>3. \A u \in Threads : Loaded(u)' => tidFloor'[u] <= thread'[u].prev
  BY <1>1, <1>2 DEF TidInv, TidTypeOK, Load, Loaded
<1>4. \A u \in Threads : thread'[u].pc = "swap" =>
        thread'[u].ts > thread'[u].prev \/ thread'[u].ts = MaxTid
  BY <1>1 DEF TidInv, TidTypeOK, Load
<1>5. /\ (highest <= last)' /\ \A ts \in issued' : ts <= last'
      /\ \A u \in Threads : tidFloor'[u] <= highest'
  BY DEF TidInv, Load
<1>6. TidsAscend'
  BY Zenon DEF TidInv, TidsAscend, Load
<1> QED
  BY <1>1, <1>3, <1>4, <1>5, <1>6 DEF TidInv

LEMMA ReadKeepsInv ==
  ASSUME TidInv, NEW t \in Threads, ReadWallClock(t)
  PROVE  TidInv'
<1>1. PICK now \in 0..MaxTid + 1 :
        thread' = [thread EXCEPT ![t].pc = "swap", ![t].ts = NewTs(thread[t].prev, now)]
  BY DEF ReadWallClock
<1>2. thread[t].prev \in Micros
  BY DEF TidInv, TidTypeOK
<1>3. PICK ts \in Micros : /\ ts = NewTs(thread[t].prev, now)
                           /\ ts > thread[t].prev \/ ts = MaxTid
  BY <1>2, NewTsAbove
<1>4. thread' = [thread EXCEPT ![t].pc = "swap", ![t].ts = ts]
  BY <1>1, <1>3
<1>5. /\ TidTypeOK'
      /\ thread' = [u \in Threads |-> IF u = t THEN [thread[t] EXCEPT !.pc = "swap", !.ts = ts]
                                               ELSE thread[u]]
  <2>1. thread' = [u \in Threads |-> IF u = t THEN [thread[t] EXCEPT !.pc = "swap", !.ts = ts]
                                              ELSE thread[u]]
    BY <1>4 DEF TidInv, TidTypeOK
  <2>2. thread' \in [Threads -> [pc : {"outside", "load", "clock", "swap"}, prev : Micros, ts : Micros]]
    <3>1. thread[t] \in [pc : {"outside", "load", "clock", "swap"}, prev : Micros, ts : Micros]
      BY DEF TidInv, TidTypeOK
    <3>2. [thread[t] EXCEPT !.pc = "swap", !.ts = ts]
            \in [pc : {"outside", "load", "clock", "swap"}, prev : Micros, ts : Micros]
      BY <3>1, ts \in Micros
    <3> QED
      BY <2>1, <3>2 DEF TidInv, TidTypeOK
  <2> QED
    BY <2>1, <2>2 DEF TidInv, TidTypeOK, ReadWallClock
<1>6. \A u \in Threads : Loaded(u)' => tidFloor'[u] <= thread'[u].prev
  BY <1>5 DEF TidInv, TidTypeOK, ReadWallClock, Loaded
<1>7. \A u \in Threads : thread'[u].pc = "swap" =>
        thread'[u].ts > thread'[u].prev \/ thread'[u].ts = MaxTid
  BY <1>3, <1>5 DEF TidInv, TidTypeOK
<1>8. /\ (highest <= last)' /\ \A x \in issued' : x <= last'
      /\ \A u \in Threads : tidFloor'[u] <= highest'
  BY DEF TidInv, ReadWallClock
<1>9. TidsAscend'
  BY Zenon DEF TidInv, TidsAscend, ReadWallClock
<1> QED
  BY <1>5, <1>6, <1>7, <1>8, <1>9 DEF TidInv

(* The swap that succeeds: the new timestamp is above the atomic, or both   *)
(* are at the ceiling.                                                      *)
LEMMA SwapKeepsInv ==
  ASSUME TidInv, NEW t \in Threads, Swap(t)
  PROVE  TidInv'
<1> DEFINE ts == thread[t].ts
<1>1. CASE last = thread[t].prev /\ last' = ts /\ Returns(t, ts)
  <2>1. /\ ts \in Micros /\ last \in Micros /\ highest \in Micros
        /\ issued \subseteq Micros /\ repeated \subseteq Micros
        /\ ts > last \/ ts = MaxTid
        /\ highest <= last /\ tidFloor[t] <= last /\ tidFloor[t] \in Micros
    BY <1>1, TidAssumption DEF TidInv, TidTypeOK, Swap, Loaded, Micros
  <2>2. TidTypeOK'
    BY <1>1, <2>1, TidAssumption
       DEF TidInv, TidTypeOK, Swap, Returns, Outside, Higher, Micros
  <2>3. /\ (highest <= last)'
        /\ \A x \in issued' : x <= last'
        /\ \A u \in Threads : tidFloor'[u] <= highest'
    BY <1>1, <2>1, TidAssumption
       DEF TidInv, TidTypeOK, Swap, Returns, Higher, Micros
  <2>4. /\ \A u \in Threads : Loaded(u)' => tidFloor'[u] <= thread'[u].prev
        /\ \A u \in Threads : thread'[u].pc = "swap" =>
             thread'[u].ts > thread'[u].prev \/ thread'[u].ts = MaxTid
    BY <1>1, TidAssumption
       DEF TidInv, TidTypeOK, Swap, Returns, Outside, Loaded, Micros
  <2>5. ordered'
    <3>1. ts > tidFloor[t] \/ ts = MaxTid
      BY <2>1, TidAssumption DEF Micros
    <3>2. ordered
      BY DEF TidInv, TidsAscend
    <3> QED
      BY <1>1, <3>1, <3>2, Zenon DEF Returns
  <2>6. repeated' \subseteq {MaxTid}
    <3>1. ts \in issued => ts = MaxTid
      BY <2>1, TidAssumption DEF TidInv, Micros
    <3>2. repeated \subseteq {MaxTid}
      BY DEF TidInv, TidsAscend
    <3>3. repeated' = IF ts \in issued THEN repeated \cup {ts} ELSE repeated
      BY <1>1 DEF Returns
    <3> QED
      BY <3>1, <3>2, <3>3
  <2> QED
    BY <2>2, <2>3, <2>4, <2>5, <2>6 DEF TidInv, TidsAscend
<1>2. CASE /\ thread' = [thread EXCEPT ![t].pc = "load"]
           /\ UNCHANGED <<last, highest, issued, repeated, ordered>>
  BY <1>2, TidAssumption DEF TidInv, TidTypeOK, TidsAscend, Swap, Micros, Loaded
<1> QED
  BY <1>1, <1>2 DEF Swap

LEMMA ObserveKeepsInv ==
  ASSUME TidInv, NEW ts \in Micros, Observe(ts)
  PROVE  TidInv'
BY TidAssumption DEF TidInv, TidTypeOK, TidsAscend, Observe, Higher, Micros, Loaded

LEMMA TidStepInv == TidInv /\ [TidNext]_tidVars => TidInv'
<1> SUFFICES ASSUME TidInv, [TidNext]_tidVars
             PROVE  TidInv'
  OBVIOUS
<1>1. CASE UNCHANGED tidVars
  BY <1>1 DEF TidInv, TidTypeOK, TidsAscend, tidVars, Loaded
<1>2. CASE TidNext
  BY <1>2, CallKeepsInv, LoadKeepsInv, ReadKeepsInv, SwapKeepsInv, ObserveKeepsInv DEF TidNext
<1> QED
  BY <1>1, <1>2

(* No timestamp of a TID clock leaves its range, for any number of threads. *)
THEOREM TidTypeCorrect == TidSpec => []TidTypeOK
<1>1. TidInv => TidTypeOK
  BY DEF TidInv
<1> QED
  BY TidInitInv, TidStepInv, <1>1, PTL DEF TidSpec

(* The TIDs of a clock are distinct and ascend from call to call below the  *)
(* ceiling, for any number of threads, any wall clock and any observations. *)
THEOREM TidsAscendAlways == TidSpec => []TidsAscend
<1>1. TidInv => TidsAscend
  BY DEF TidInv
<1> QED
  BY TidInitInv, TidStepInv, <1>1, PTL DEF TidSpec
=============================================================================
