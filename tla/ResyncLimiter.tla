---------------------------- MODULE ResyncLimiter ----------------------------
(***************************************************************************)
(* The per-DID token buckets of sync/verifier.rs: allow_resync and         *)
(* evict_fullest_bucket.  resync_inner calls allow_resync without the      *)
(* DID's lock, and allow_resync reads the clock before it waits for the    *)
(* map, so a call may refill with an earlier time than the last one did.   *)
(* The clock is the system's and may be set back.  Tokens are counted in   *)
(* fractions: a resync costs Unit of them, PerTick come back per tick.     *)
(***************************************************************************)
EXTENDS Integers, FiniteSets, FiniteSetsExt

CONSTANTS
  ResyncDids,     \* repos that need a resync
  Checks,         \* concurrent calls of allow_resync
  Unit,           \* one token
  PerTick,        \* resync_rate_limit.per_second
  Burst,          \* resync_rate_limit.burst
  LimiterCapacity,\* resync_limiter_capacity
  MaxClock,       \* bound on the clock
  MaxSetBacks,    \* bound on how often the clock is set back
  NoBucket        \* the map has no bucket

ASSUME LimiterAssumption ==
  /\ {Unit, PerTick, Burst, LimiterCapacity} \subseteq Nat \ {0}
  /\ MaxClock \in Nat /\ MaxSetBacks \in Nat
  /\ NoBucket \notin [tokens : Nat, last_refill : Nat]

VARIABLES
  clock,      \* options.now()
  setBacks,   \* how often it was set back
  buckets,    \* resync_limiters
  check,      \* per call, the DID and the time it read, or NoBucket
  level,      \* per DID, the tokens a bucket of the same rate would still owe
  credit      \* per DID, how stale the readings used on its bucket were, in all

limiterVars == <<clock, setBacks, buckets, check, level, credit>>

Bucketed == {d \in ResyncDids : buckets[d] # NoBucket}

ClockForward ==
  /\ clock < MaxClock /\ clock' = clock + 1
  /\ level' = [d \in ResyncDids |-> Max({0, level[d] - PerTick})]
  /\ UNCHANGED <<setBacks, buckets, check, credit>>

ClockSetBack ==
  /\ clock > 0 /\ clock' = clock - 1
  /\ setBacks < MaxSetBacks /\ setBacks' = setBacks + 1
  /\ UNCHANGED <<buckets, check, level, credit>>

ReadClock(c, d) ==
  /\ check[c] = NoBucket
  /\ check' = [check EXCEPT ![c] = [did |-> d, now |-> clock]]
  /\ UNCHANGED <<clock, setBacks, buckets, level, credit>>

(* evict_fullest_bucket compares the tokens as they were last refilled. *)
Evicted(d) ==
  IF d \in Bucketed \/ Cardinality(Bucketed) < LimiterCapacity THEN {{}}
  ELSE {{e} : e \in {e \in Bucketed : \A b \in Bucketed : buckets[b].tokens <= buckets[e].tokens}}

(* Mutant: a bucket refills beyond its burst. *)
RefilledUncapped(bucket, now) ==
  [tokens |-> bucket.tokens + PerTick * Max({0, now - bucket.last_refill}), last_refill |-> now]

(* Time set back gives nothing, and counts again from there. *)
Refilled(bucket, now) ==
  [tokens |-> Min({Burst, bucket.tokens + PerTick * Max({0, now - bucket.last_refill})}),
   last_refill |-> now]

(* allow_resync with the map locked. *)
AllowResync(c) ==
  LET d == check[c].did
      now == check[c].now
      bucket == Refilled(IF d \in Bucketed THEN buckets[d]
                         ELSE [tokens |-> Burst, last_refill |-> now], now)
      allowed == bucket.tokens >= Unit
  IN
  /\ check[c] # NoBucket
  /\ check' = [check EXCEPT ![c] = NoBucket]
  /\ \E gone \in Evicted(d) :
       /\ buckets' = [e \in ResyncDids |->
                        IF e = d THEN [bucket EXCEPT !.tokens = IF allowed THEN @ - Unit ELSE @]
                        ELSE IF e \in gone THEN NoBucket ELSE buckets[e]]
       /\ level' = [e \in ResyncDids |->
                      IF e = d THEN level[e] + (IF allowed THEN Unit ELSE 0)
                      ELSE IF e \in gone THEN 0 ELSE level[e]]
       /\ credit' = [e \in ResyncDids |->
                       IF e = d THEN credit[e] + Max({clock - now, now - clock})
                       ELSE IF e \in gone THEN 0 ELSE credit[e]]
  /\ UNCHANGED <<clock, setBacks>>

LimiterInit ==
  /\ clock = 0 /\ setBacks = 0
  /\ buckets = [d \in ResyncDids |-> NoBucket]
  /\ check = [c \in Checks |-> NoBucket]
  /\ level = [d \in ResyncDids |-> 0]
  /\ credit = [d \in ResyncDids |-> 0]

LimiterNext ==
  \/ ClockForward \/ ClockSetBack
  \/ \E c \in Checks : AllowResync(c) \/ \E d \in ResyncDids : ReadClock(c, d)

LimiterSpec == LimiterInit /\ [][LimiterNext]_limiterVars

-----------------------------------------------------------------------------
(* Properties. *)

(* "map is bounded by resync_limiter_capacity": no interleaving of calls    *)
(* that find it full leaves it larger, and no bucket holds more than Burst. *)
LimiterTypeOK ==
  /\ buckets \in [ResyncDids -> [tokens : 0..Burst, last_refill : 0..MaxClock] \cup {NoBucket}]
  /\ Cardinality(Bucketed) <= LimiterCapacity

(* The resyncs allowed for a DID since its bucket was made never exceed, in *)
(* any stretch of time, the burst plus what comes back in it, but for the   *)
(* time that passed between calls' readings of the clock and their turns at *)
(* the map, which can count twice.  A clock set back gives nothing away.    *)
ResyncBudgetHolds == \A d \in ResyncDids : level[d] <= Burst + PerTick * credit[d]
=============================================================================
