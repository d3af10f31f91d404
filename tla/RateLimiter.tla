----------------------------- MODULE RateLimiter -----------------------------
(***************************************************************************)
(* xrpc_server/rate_limit.rs: the limits of one route, in the order        *)
(* for_route lists them, charged by concurrent requests in the windows of  *)
(* a MemoryStore.  A store key is a limit and a client (prefix and key).   *)
(* Every consume reads the clock and then takes the store's lock, every    *)
(* reset takes it; several run one after another, so other requests come   *)
(* in between.  A store that fails stands for another RateLimitStore.      *)
(* Headers are left out.                                                   *)
(***************************************************************************)
EXTENDS Naturals, FiniteSets

CONSTANTS
  Reqs,            \* requests, each made once
  Clients,         \* what calc_key tells apart
  Limits,          \* limits, numbered in the order they are charged
  LimitPoints,     \* per limit, the points a window allows
  LimitDuration,   \* per limit, the length of a window
  FailClosed,      \* the limits whose store failure is a 500
  SweepThreshold,  \* SWEEP_THRESHOLD
  MaxPoints,       \* bound on the points a request costs
  MaxNow,          \* bound on time
  MaxStoreFaults,  \* bound on store failures
  NoWindow         \* the store has no window

ASSUME RateAssumption ==
  /\ Clients # {} /\ IsFiniteSet(Limits) /\ Limits = 1..Cardinality(Limits)
  /\ LimitPoints \in [Limits -> Nat] /\ LimitDuration \in [Limits -> Nat \ {0}]
  /\ FailClosed \subseteq Limits
  /\ {SweepThreshold, MaxPoints, MaxNow, MaxStoreFaults} \subseteq Nat
  /\ NoWindow \notin [ends : Nat, consumed : Nat] \cup [opened : Nat, total : Nat]

VARIABLES
  now,          \* the clock
  windows,      \* MemoryStore::windows
  request,      \* where each request is
  storeFaults,  \* store failures so far
  tally,        \* history: per key, its latest window since it was last reset
  charged       \* history: per key and request, the tally after its charge

rateVars == <<now, windows, request, storeFaults, tally, charged>>

StoreKeys == Limits \X Clients
Open == {k \in StoreKeys : windows[k] # NoWindow}

Waiting == [pc |-> "waiting", client |-> CHOOSE c \in Clients : TRUE,
            keys |-> {}, costs |-> [l \in Limits |-> 0],
            status |-> [l \in Limits |-> "within"], next |-> 0, clock |-> 0,
            outcome |-> "none"]

Put(r, fields) == request' = [request EXCEPT ![r] = fields]

Tick ==
  /\ now < MaxNow /\ now' = now + 1
  /\ UNCHANGED <<windows, request, storeFaults, tally, charged>>

-----------------------------------------------------------------------------
(* plan: the limits with a key, and their cost.  A bypassed request has     *)
(* none; a limit that cannot compute its key fails the request.             *)
Plan(r, client) ==
  /\ request[r].pc = "waiting"
  /\ \/ \E keys \in SUBSET Limits, costs \in [Limits -> 0..MaxPoints] :
          /\ \A l \in Limits \ keys : costs[l] = 0
          /\ Put(r, [request[r] EXCEPT !.pc = "charge", !.client = client, !.keys = keys,
                                       !.costs = costs, !.next = 1])
     \/ Put(r, [request[r] EXCEPT !.pc = "done", !.outcome = "error"])
  /\ UNCHANGED <<now, windows, storeFaults, tally, charged>>

(* consume reads the clock before it waits for the store's lock. *)
ReadNow(r) ==
  /\ request[r].pc = "charge" /\ request[r].next \in Limits
  /\ request[r].costs[request[r].next] >= 1
  /\ Put(r, [request[r] EXCEPT !.pc = "consume", !.clock = now])
  /\ UNCHANGED <<now, windows, storeFaults, tally, charged>>

(* Mutant: the sweep drops windows that have not ended. *)
SweepsLive(clock) ==
  IF Cardinality(Open) < SweepThreshold THEN windows
  ELSE [k \in StoreKeys |-> IF k \in Open /\ windows[k].ends <= clock THEN windows[k] ELSE NoWindow]

(* retain: expired windows go once there are too many. *)
Swept(clock) ==
  IF Cardinality(Open) < SweepThreshold THEN windows
  ELSE [k \in StoreKeys |-> IF k \in Open /\ windows[k].ends > clock THEN windows[k] ELSE NoWindow]

Charged(r, status) ==
  Put(r, [request[r] EXCEPT !.pc = "charge", !.status[request[r].next] = status,
                            !.next = @ + 1, !.clock = 0])

(* History, kept without the store's windows: the window a charge falls in  *)
(* and what was charged there.  A window opens at the first charge that no  *)
(* earlier one covers and lasts for the limit's duration by the clock the   *)
(* charge has read; once it is over, the store may have forgotten it.       *)
Tally(key, clock, points, forgotten) ==
  LET last == tally[key]
      ends == last.opened + LimitDuration[key[1]]
      over == last = NoWindow \/ ends <= clock \/ (ends <= now /\ forgotten)
  IN IF over THEN [opened |-> clock, total |-> points]
     ELSE [last EXCEPT !.total = @ + points]

(* consume of the next charge under the store's lock: a window that is over *)
(* starts again, and the points count even over the limit.                  *)
Consume(r) ==
  LET l == request[r].next
      key == <<l, request[r].client>>
      clock == request[r].clock
      points == request[r].costs[l]
      left == Swept(clock)
      window == IF left[key] = NoWindow \/ left[key].ends <= clock
                THEN [ends |-> clock + LimitDuration[l], consumed |-> 0] ELSE left[key]
      consumed == window.consumed + points
      seen == Tally(key, clock, points, left[key] = NoWindow)
  IN
  /\ request[r].pc = "consume"
  /\ windows' = [left EXCEPT ![key] = [window EXCEPT !.consumed = consumed]]
  /\ Charged(r, IF consumed > LimitPoints[l] THEN "exceeded" ELSE "within")
  /\ tally' = [tally EXCEPT ![key] = seen]
  /\ charged' = [charged EXCEPT ![key][r] = seen.total]
  /\ UNCHANGED <<now, storeFaults>>

ConsumeFails(r) ==
  /\ request[r].pc = "charge" /\ request[r].next \in Limits
  /\ request[r].costs[request[r].next] >= 1
  /\ storeFaults < MaxStoreFaults /\ storeFaults' = storeFaults + 1
  /\ Charged(r, "failed")
  /\ UNCHANGED <<now, windows, tally, charged>>

(* A limit that costs nothing is not charged. *)
SkipCharge(r) ==
  /\ request[r].pc = "charge" /\ request[r].next \in Limits
  /\ request[r].costs[request[r].next] = 0
  /\ Charged(r, "within")
  /\ UNCHANGED <<now, windows, storeFaults, tally, charged>>

(* The end of charge: a failure of a limit that fails closed is a 500,      *)
(* another is passed over, any exceeded limit is a 429.                     *)
Verdict(status) ==
  IF \E l \in FailClosed : status[l] = "failed" THEN "error"
  ELSE IF \E l \in Limits : status[l] = "exceeded" THEN "limited"
  ELSE "admitted"

Decide(r) ==
  LET outcome == Verdict(request[r].status) IN
  /\ request[r].pc = "charge" /\ request[r].next \notin Limits
  /\ Put(r, [request[r] EXCEPT !.pc = IF outcome = "admitted" THEN "handler" ELSE "done",
                               !.outcome = outcome, !.next = 1])
  /\ UNCHANGED <<now, windows, storeFaults, tally, charged>>

(* RequestContext::reset_route_rate_limits: the handler of an admitted      *)
(* request forgets the counters of every limit with a key, one by one; a    *)
(* failure to is passed over.                                               *)
Reset(r) ==
  LET l == request[r].next  key == <<l, request[r].client>> IN
  /\ request[r].pc = "handler" /\ l \in Limits
  /\ Put(r, [request[r] EXCEPT !.next = @ + 1])
  /\ \/ /\ l \in request[r].keys
        /\ windows' = [windows EXCEPT ![key] = NoWindow]
        /\ tally' = [tally EXCEPT ![key] = NoWindow]
        /\ charged' = [charged EXCEPT ![key] = [q \in Reqs |-> 0]]
        /\ UNCHANGED storeFaults
     \/ /\ l \in request[r].keys
        /\ storeFaults < MaxStoreFaults /\ storeFaults' = storeFaults + 1
        /\ UNCHANGED <<windows, tally, charged>>
     \/ /\ l \notin request[r].keys
        /\ UNCHANGED <<windows, tally, charged, storeFaults>>
  /\ UNCHANGED now

-----------------------------------------------------------------------------
RateInit ==
  /\ now = 0 /\ storeFaults = 0
  /\ windows = [k \in StoreKeys |-> NoWindow]
  /\ request = [r \in Reqs |-> Waiting]
  /\ tally = [k \in StoreKeys |-> NoWindow]
  /\ charged = [k \in StoreKeys |-> [q \in Reqs |-> 0]]

RateNext ==
  \/ Tick
  \/ \E r \in Reqs :
       \/ \E c \in Clients : Plan(r, c)
       \/ ReadNow(r) \/ Consume(r) \/ ConsumeFails(r) \/ SkipCharge(r) \/ Decide(r) \/ Reset(r)

RateSpec == RateInit /\ [][RateNext]_rateVars

-----------------------------------------------------------------------------
(* Properties. *)

(* "fixed windows that start at a key's first request": when the charge of  *)
(* an admitted request was counted, everything charged in its window since  *)
(* the last reset, refused requests included, was within the limit.  So of  *)
(* one window no more is admitted than the limit allows, whatever the       *)
(* interleaving of requests, late readings of the clock, the other limits'  *)
(* verdicts and the sweeps of the store.                                    *)
AdmittedWithinLimit ==
  \A key \in StoreKeys : \A r \in Reqs :
    request[r].outcome = "admitted" => charged[key][r] <= LimitPoints[key[1]]
=============================================================================
