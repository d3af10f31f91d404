---------------------------- MODULE LibraryProofs ----------------------------
(***************************************************************************)
(* Proofs about the components that share no state with the streams: the   *)
(* identity cache of IdentityDirectory.tla, the token buckets of           *)
(* ResyncLimiter.tla, the sessions of OAuthSessions.tla, the windows of    *)
(* RateLimiter.tla and their composition in Library.tla, for any DIDs,     *)
(* clients, concurrent calls, grants, capacities, rates and faults.        *)
(*                                                                         *)
(* For the OAuth client most steps move one call.  The lemmas LockMove,    *)
(* CodeMove, TokenMove, OutMove, WindowMove and StrayMove say what a move  *)
(* must satisfy to keep each part of OAuthInv; the steps then only show    *)
(* that theirs does.                                                       *)
(***************************************************************************)
EXTENDS Library, RateLimiter, TidClockProofs, FiniteSetTheorems, TLAPS

-----------------------------------------------------------------------------
(* The identity cache. *)

(* What a lookup is doing. *)
Entries == [version : Versions, expired : BOOLEAN, generation : Generations]
Started == [pc : {"check", "resolve"}, did : DirDids, generation : Generations, floor : Versions]
Resolved == [pc : {"resolved", "insert"}, did : DirDids, generation : Generations,
             floor : Versions, version : Versions]
Finished == [pc : {"done"}, version : Versions, floor : Versions]

Looking(c) == look[c].pc # "done"

(* The types, without the bound on the cache. *)
DirTypes ==
  /\ document \in [DirDids -> Versions] /\ floor \in [DirDids -> Versions]
  /\ cache \in [DirDids -> Entries \cup {NoEntry}]
  /\ generation \in Generations
  /\ look \in [Lookers -> Started \cup Resolved \cup Finished]
  /\ purging \in [Purgers -> DirDids \cup {NoEntry}]

(* The lookup that holds the cache lock is the one about to insert. *)
WriterInv ==
  /\ \A c \in Lookers : look[c].pc = "insert" => writer = {c}
  /\ writer = {} \/ \E c \in Lookers : writer = {c}

(* The cache is finite and within its capacity. *)
CacheBounded == IsFiniteSet(Cached) /\ Cardinality(Cached) <= Capacity

(* The floors: what a purge has seen is published, and a lookup begun in    *)
(* the current generation has the current floor, so lookups of one          *)
(* generation agree on it.                                                  *)
FloorInv ==
  /\ \A d \in DirDids : document[d] >= floor[d]
  /\ \A c \in Lookers : Looking(c) =>
       /\ look[c].generation <= generation
       /\ document[look[c].did] >= look[c].floor
       /\ look[c].generation = generation => look[c].floor = floor[look[c].did]
  /\ \A b, c \in Lookers :
       Looking(b) /\ Looking(c) /\ look[b].did = look[c].did
         /\ look[b].generation = look[c].generation => look[b].floor = look[c].floor

(* What is resolved, cached or served is no older than the floor it is      *)
(* measured against.                                                        *)
VersionInv ==
  /\ \A c \in Lookers : look[c].pc \in {"resolved", "insert", "done"} =>
       look[c].version >= look[c].floor
  /\ \A d \in Cached :
       /\ cache[d].generation <= generation
       /\ cache[d].generation = generation => cache[d].version >= floor[d]
       /\ \A c \in Lookers :
            Looking(c) /\ look[c].did = d /\ look[c].generation = cache[d].generation =>
              cache[d].version >= look[c].floor

DirInv == DirTypes /\ WriterInv /\ CacheBounded /\ FloorInv /\ VersionInv

(* Numbers. *)
LEMMA DirNumbers ==
  /\ MaxVersion \in Nat /\ MaxPurges \in Nat /\ Capacity \in Nat /\ Capacity >= 1
  /\ Versions \subseteq Nat /\ 0 \in Versions
  /\ Generations \subseteq Nat /\ 0 \in Generations
BY DirectoryAssumption DEF Versions, Generations

(* The lookups after c goes on as x. *)
LEMMA LookBecomes ==
  ASSUME DirTypes, NEW c \in Lookers, NEW x \in Started \cup Resolved \cup Finished,
         look' = [look EXCEPT ![c] = x]
  PROVE  /\ look' \in [Lookers -> Started \cup Resolved \cup Finished]
         /\ look'[c] = x /\ \A b \in Lookers \ {c} : look'[b] = look[b]
BY DEF DirTypes

(* Where a lookup is, by its pc. *)
LEMMA LookPlaces ==
  ASSUME DirTypes, NEW c \in Lookers
  PROVE  /\ look[c].pc \in {"check", "resolve"} => look[c] \in Started
         /\ look[c].pc \in {"resolved", "insert"} => look[c] \in Resolved
         /\ look[c].pc = "done" => look[c] \in Finished
         /\ look[c].pc \in {"check", "resolve", "resolved", "insert", "done"}
         /\ Looking(c) => /\ look[c].did \in DirDids /\ look[c].generation \in Generations
                          /\ look[c].floor \in Versions
BY DEF DirTypes, Started, Resolved, Finished, Looking

(* A lookup that begins. *)
LEMMA LookupLook ==
  ASSUME DirTypes, NEW c \in Lookers, NEW d \in DirDids, LookupDid(c, d)
  PROVE  /\ look' \in [Lookers -> Started \cup Resolved \cup Finished]
         /\ look'[c].pc = "check" /\ look'[c].did = d
         /\ look'[c].generation = generation /\ look'[c].floor = floor[d]
         /\ \A b \in Lookers \ {c} : look'[b] = look[b]
<1> DEFINE x == [pc |-> "check", did |-> d, generation |-> generation, floor |-> floor[d]]
<1>1. x \in Started
  BY DEF Started, DirTypes
<1>2. look' = [look EXCEPT ![c] = x]
  BY DEF LookupDid
<1>3. x.pc = "check" /\ x.did = d /\ x.generation = generation /\ x.floor = floor[d]
  OBVIOUS
<1> HIDE DEF x
<1> QED
  BY <1>1, <1>2, <1>3, LookBecomes

(* A lookup that serves a version. *)
LEMMA ServesLook ==
  ASSUME DirTypes, NEW c \in Lookers, NEW v \in Versions, Looking(c), Serves(c, v)
  PROVE  /\ look' \in [Lookers -> Started \cup Resolved \cup Finished]
         /\ look'[c].pc = "done" /\ look'[c].version = v /\ look'[c].floor = look[c].floor
         /\ \A b \in Lookers \ {c} : look'[b] = look[b]
<1> DEFINE x == [pc |-> "done", version |-> v, floor |-> look[c].floor]
<1>1. x \in Finished
  BY LookPlaces DEF Finished
<1>2. look' = [look EXCEPT ![c] = x]
  BY DEF Serves
<1>3. x.pc = "done" /\ x.version = v /\ x.floor = look[c].floor
  OBVIOUS
<1> HIDE DEF x
<1> QED
  BY <1>1, <1>2, <1>3, LookBecomes

(* A lookup that found nothing in the cache, or may insert. *)
LEMMA JumpLook ==
  ASSUME DirTypes, NEW c \in Lookers, NEW p,
         \/ look[c].pc = "check" /\ p = "resolve"
         \/ look[c].pc = "resolved" /\ p = "insert",
         look' = [look EXCEPT ![c].pc = p]
  PROVE  /\ look' \in [Lookers -> Started \cup Resolved \cup Finished]
         /\ look'[c].pc = p /\ look'[c].did = look[c].did
         /\ look'[c].generation = look[c].generation /\ look'[c].floor = look[c].floor
         /\ p = "insert" => look'[c].version = look[c].version
         /\ \A b \in Lookers \ {c} : look'[b] = look[b]
<1> DEFINE x == [look[c] EXCEPT !.pc = p]
<1>1. look' = [look EXCEPT ![c] = x]
  OBVIOUS
<1>2. CASE look[c].pc = "check" /\ p = "resolve"
  <2>1. look[c] \in Started
    BY <1>2, LookPlaces
  <2>2. /\ x \in Started /\ x.pc = p /\ x.did = look[c].did
        /\ x.generation = look[c].generation /\ x.floor = look[c].floor
    BY <1>2, <2>1 DEF Started
  <2> HIDE DEF x
  <2> QED
    BY <1>1, <1>2, <2>2, LookBecomes
<1>3. CASE look[c].pc = "resolved" /\ p = "insert"
  <2>1. look[c] \in Resolved
    BY <1>3, LookPlaces
  <2>2. /\ x \in Resolved /\ x.pc = p /\ x.did = look[c].did /\ x.version = look[c].version
        /\ x.generation = look[c].generation /\ x.floor = look[c].floor
    BY <1>3, <2>1 DEF Resolved
  <2> HIDE DEF x
  <2> QED
    BY <1>1, <1>3, <2>2, LookBecomes
<1> QED
  BY <1>2, <1>3

(* A lookup whose document was fetched, or that failed. *)
LEMMA ResolveLook ==
  ASSUME DirTypes, NEW c \in Lookers, Resolve(c)
  PROVE  /\ look' \in [Lookers -> Started \cup Resolved \cup Finished]
         /\ \A b \in Lookers \ {c} : look'[b] = look[b]
         /\ \/ /\ look'[c].pc = "resolved" /\ look'[c].did = look[c].did
               /\ look'[c].generation = look[c].generation /\ look'[c].floor = look[c].floor
               /\ look'[c].version = document[look[c].did]
            \/ look'[c] = NotLooking
<1>1. look[c] \in Started
  BY LookPlaces DEF Resolve
<1>2. CASE look' = [look EXCEPT ![c] = NotLooking]
  <2>1. NotLooking \in Finished
    BY DirNumbers DEF NotLooking, Finished
  <2> QED
    BY <1>2, <2>1, LookBecomes
<1>3. CASE look' = [look EXCEPT ![c] =
              [pc |-> "resolved", did |-> look[c].did, generation |-> look[c].generation,
               floor |-> look[c].floor, version |-> document[look[c].did]]]
  <2> DEFINE x == [pc |-> "resolved", did |-> look[c].did, generation |-> look[c].generation,
                   floor |-> look[c].floor, version |-> document[look[c].did]]
  <2>1. x \in Resolved
    BY <1>1 DEF Started, Resolved, DirTypes
  <2>2. /\ x.pc = "resolved" /\ x.did = look[c].did /\ x.generation = look[c].generation
        /\ x.floor = look[c].floor /\ x.version = document[look[c].did]
    OBVIOUS
  <2>3. look' = [look EXCEPT ![c] = x]
    BY <1>3
  <2> HIDE DEF x
  <2> QED
    BY <2>1, <2>2, <2>3, LookBecomes
<1> QED
  BY <1>2, <1>3 DEF Resolve

(* The cache after an insertion: the entry of c's DID, and what it had but  *)
(* the victim.                                                              *)
LEMMA InsertCache ==
  ASSUME DirTypes, NEW c \in Lookers, Insert(c)
  PROVE  LET d == look[c].did IN
         /\ cache' \in [DirDids -> Entries \cup {NoEntry}]
         /\ d \in DirDids /\ cache'[d].version = look[c].version
         /\ cache'[d].generation = look[c].generation
         /\ \E gone \in Victims(d) : \A e \in DirDids \ {d} :
              cache'[e] = IF e \in gone THEN NoEntry ELSE cache[e]
<1> DEFINE d == look[c].did
           x == [version |-> look[c].version, expired |-> FALSE, generation |-> look[c].generation]
<1>0. look[c] \in Resolved
  BY LookPlaces DEF Insert
<1>1. d \in DirDids /\ x \in Entries
  BY <1>0 DEF Resolved, Entries
<1>2. PICK gone \in Victims(d) :
        cache' = [e \in DirDids |-> IF e = d THEN x ELSE IF e \in gone THEN NoEntry ELSE cache[e]]
  BY DEF Insert
<1>3. x.version = look[c].version /\ x.generation = look[c].generation
  OBVIOUS
<1> HIDE DEF x
<1>4. cache' \in [DirDids -> Entries \cup {NoEntry}]
  BY <1>1, <1>2 DEF DirTypes
<1>5. cache'[d] = x
  BY <1>1, <1>2
<1>6. \A e \in DirDids \ {d} : cache'[e] = IF e \in gone THEN NoEntry ELSE cache[e]
  BY <1>2
<1> QED
  BY <1>1, <1>3, <1>4, <1>5, <1>6

(* An entry that expires stays what it was otherwise. *)
LEMMA ExpireCache ==
  ASSUME DirTypes, NEW d \in DirDids, ExpireEntry(d)
  PROVE  /\ cache' \in [DirDids -> Entries \cup {NoEntry}]
         /\ d \in Cached /\ cache'[d].version = cache[d].version
         /\ cache'[d].generation = cache[d].generation
         /\ \A e \in DirDids \ {d} : cache'[e] = cache[e]
<1> DEFINE x == [cache[d] EXCEPT !.expired = TRUE]
<1>1. cache[d] \in Entries /\ d \in Cached
  BY DEF ExpireEntry, Cached, DirTypes
<1>2. cache' = [cache EXCEPT ![d] = x]
  BY DEF ExpireEntry
<1>3. x \in Entries /\ x.version = cache[d].version /\ x.generation = cache[d].generation
  BY <1>1 DEF Entries
<1> HIDE DEF x
<1> QED
  BY <1>1, <1>2, <1>3 DEF DirTypes

(* Every step keeps the types and the lock. *)
LEMMA DirTypesStep ==
  ASSUME DirTypes, WriterInv, DirNext
  PROVE  DirTypes' /\ WriterInv'
<1>1. ASSUME NEW d \in DirDids, PublishDocument(d) PROVE DirTypes' /\ WriterInv'
  <2>1. document[d] + 1 \in Versions
    BY <1>1, DirNumbers DEF PublishDocument, DirTypes, Versions
  <2> QED
    BY <1>1, <2>1 DEF PublishDocument, DirTypes, WriterInv
<1>2. ASSUME NEW d \in DirDids, ExpireEntry(d) PROVE DirTypes' /\ WriterInv'
  BY <1>2, ExpireCache DEF ExpireEntry, DirTypes, WriterInv
<1>3. ASSUME NEW c \in Lookers, NEW d \in DirDids, LookupDid(c, d) PROVE DirTypes' /\ WriterInv'
  BY <1>3, LookupLook DEF LookupDid, DirTypes, WriterInv
<1>4. ASSUME NEW c \in Lookers, CheckCache(c) PROVE DirTypes' /\ WriterInv'
  <2>0. Looking(c) /\ look[c].did \in DirDids
    BY <1>4, LookPlaces DEF CheckCache, Looking
  <2>1. CASE Hit(c)
    <3>1. cache[look[c].did].version \in Versions
      BY <2>0, <2>1 DEF Hit, Cached, DirTypes, Entries
    <3>2. Serves(c, cache[look[c].did].version)
      BY <1>4, <2>1 DEF CheckCache
    <3> QED
      BY <1>4, <2>0, <3>1, <3>2, ServesLook DEF CheckCache, DirTypes, WriterInv
  <2>2. CASE ~Hit(c)
    BY <1>4, <2>2, JumpLook DEF CheckCache, DirTypes, WriterInv
  <2> QED BY <2>1, <2>2
<1>5. ASSUME NEW c \in Lookers, Resolve(c) PROVE DirTypes' /\ WriterInv'
  <2>1. NotLooking.pc = "done"
    BY DEF NotLooking
  <2> QED
    BY <1>5, <2>1, ResolveLook DEF Resolve, DirTypes, WriterInv
<1>6. ASSUME NEW c \in Lookers, CompareGeneration(c) PROVE DirTypes' /\ WriterInv'
  <2>0. Looking(c) /\ look[c].version \in Versions
    BY <1>6, LookPlaces DEF CompareGeneration, Looking, Resolved
  <2>1. CASE generation # look[c].generation
    BY <1>6, <2>0, <2>1, ServesLook DEF CompareGeneration, DirTypes, WriterInv
  <2>2. CASE generation = look[c].generation
    BY <1>6, <2>2, JumpLook DEF CompareGeneration, DirTypes, WriterInv
  <2> QED BY <2>1, <2>2
<1>7. ASSUME NEW c \in Lookers, Insert(c) PROVE DirTypes' /\ WriterInv'
  <2>0. Looking(c) /\ look[c].version \in Versions
    BY <1>7, LookPlaces DEF Insert, Looking, Resolved
  <2>1. Serves(c, look[c].version)
    BY <1>7 DEF Insert
  <2>2. \A b \in Lookers \ {c} : look[b].pc # "insert"
    BY <1>7 DEF Insert, WriterInv
  <2> QED
    BY <1>7, <2>0, <2>1, <2>2, ServesLook, InsertCache DEF Insert, DirTypes, WriterInv
<1>8. ASSUME NEW p \in Purgers, Remove(p) PROVE DirTypes' /\ WriterInv'
  BY <1>8 DEF Remove, DirTypes, WriterInv
<1>9. ASSUME NEW p \in Purgers, NEW d \in DirDids, Bump(p, d) PROVE DirTypes' /\ WriterInv'
  <2>1. generation + 1 \in Generations
    BY <1>9, DirNumbers DEF Bump, DirTypes, Generations
  <2> QED
    BY <1>9, <2>1 DEF Bump, DirTypes, WriterInv
<1> QED
  BY <1>1, <1>2, <1>3, <1>4, <1>5, <1>6, <1>7, <1>8, <1>9 DEF DirNext

(* The cache never outgrows its capacity. *)
LEMMA CacheBoundedStep ==
  ASSUME DirTypes, CacheBounded, DirNext
  PROVE  CacheBounded'
<1>1. ASSUME Cached' \subseteq Cached PROVE CacheBounded'
  <2>1. IsFiniteSet(Cached') /\ Cardinality(Cached') <= Cardinality(Cached)
    BY <1>1, FS_Subset DEF CacheBounded
  <2>2. Cardinality(Cached) \in Nat /\ Cardinality(Cached') \in Nat
    BY <2>1, FS_CardinalityType DEF CacheBounded
  <2> QED
    BY <2>1, <2>2, DirNumbers DEF CacheBounded
<1>2. ASSUME NEW c \in Lookers, Insert(c) PROVE CacheBounded'
  <2> DEFINE d == look[c].did
  <2>1. PICK gone \in Victims(d) :
          d \in DirDids /\ \A e \in DirDids \ {d} : cache'[e] = IF e \in gone THEN NoEntry ELSE cache[e]
    BY <1>2, InsertCache
  <2>2. Cached' \subseteq (Cached \ gone) \cup {d}
    BY <2>1 DEF Cached
  <2>3. Cardinality(Cached) \in Nat /\ IsFiniteSet(Cached)
    BY FS_CardinalityType DEF CacheBounded
  <2>4. CASE d \in Cached
    <3>1. Cached' \subseteq Cached
      BY <2>2, <2>4
    <3> QED BY <1>1, <3>1
  <2>5. CASE d \notin Cached /\ Cardinality(Cached) < Capacity
    <3>1. IsFiniteSet(Cached \cup {d}) /\ Cardinality(Cached \cup {d}) = Cardinality(Cached) + 1
      BY <2>3, <2>5, FS_AddElement
    <3>2. Cached' \subseteq Cached \cup {d}
      BY <2>2
    <3>3. IsFiniteSet(Cached') /\ Cardinality(Cached') <= Cardinality(Cached \cup {d})
      BY <3>1, <3>2, FS_Subset
    <3>4. Cardinality(Cached') \in Nat
      BY <3>3, FS_CardinalityType
    <3> QED
      BY <2>3, <2>5, <3>1, <3>3, <3>4, DirNumbers DEF CacheBounded
  <2>6. CASE d \notin Cached /\ ~(Cardinality(Cached) < Capacity)
    <3>1. PICK e \in Cached : gone = {e}
      BY <2>1, <2>6 DEF Victims
    <3> DEFINE R == Cached \ {e}
    <3>2. IsFiniteSet(R) /\ Cardinality(R) = Cardinality(Cached) - 1
      BY <2>3, <3>1, FS_RemoveElement
    <3>3. IsFiniteSet(R \cup {d}) /\ Cardinality(R \cup {d}) = Cardinality(R) + 1
      BY <2>6, <3>2, FS_AddElement
    <3>4. Cached' \subseteq R \cup {d}
      BY <2>2, <3>1
    <3> HIDE DEF R
    <3>5. IsFiniteSet(Cached') /\ Cardinality(Cached') <= Cardinality(R \cup {d})
      BY <3>3, <3>4, FS_Subset
    <3>6. Cardinality(Cached') \in Nat /\ Cardinality(R) \in Nat
      BY <3>2, <3>5, FS_CardinalityType
    <3> QED
      BY <2>3, <3>2, <3>3, <3>5, <3>6, DirNumbers DEF CacheBounded
  <2> QED BY <2>4, <2>5, <2>6
<1>3. ASSUME NEW d \in DirDids, ExpireEntry(d) PROVE Cached' \subseteq Cached
  BY <1>3, ExpireCache DEF Cached
<1>4. ASSUME NEW p \in Purgers, Remove(p) PROVE Cached' \subseteq Cached
  BY <1>4 DEF Remove, Cached, DirTypes
<1>5. ASSUME UNCHANGED cache PROVE Cached' \subseteq Cached
  BY <1>5 DEF Cached
<1> QED
  BY <1>1, <1>2, <1>3, <1>4, <1>5
     DEF DirNext, PublishDocument, LookupDid, CheckCache, Resolve, CompareGeneration, Bump

(* Numbers of a lookup. *)
LEMMA LookNumbers ==
  ASSUME DirTypes
  PROVE  /\ generation \in Nat
         /\ \A d \in DirDids : document[d] \in Nat /\ floor[d] \in Nat
         /\ \A c \in Lookers : Looking(c) => look[c].generation \in Nat /\ look[c].floor \in Nat
         /\ \A d \in Cached : cache[d].generation \in Nat /\ cache[d].version \in Nat
<1>1. \A d \in Cached : cache[d] \in Entries
  BY DEF DirTypes, Cached
<1> QED
  BY <1>1, DirNumbers, LookPlaces DEF DirTypes, Entries, Cached

(* A lookup goes on with its DID, generation and floor, or is done. *)
GoesOn(c) ==
  /\ \A b \in Lookers \ {c} : look'[b] = look[b]
  /\ \/ look'[c].pc = "done"
     \/ /\ Looking(c) /\ look'[c].did = look[c].did
        /\ look'[c].generation = look[c].generation /\ look'[c].floor = look[c].floor

(* Such a step keeps the floors. *)
LEMMA GoesOnFloors ==
  ASSUME DirTypes, FloorInv, NEW c \in Lookers, GoesOn(c), UNCHANGED <<document, floor, generation>>
  PROVE  FloorInv'
<1>1. \A b \in Lookers : Looking(b)' =>
        /\ Looking(b) /\ look'[b].did = look[b].did /\ look'[b].generation = look[b].generation
        /\ look'[b].floor = look[b].floor
  BY DEF GoesOn, Looking
<1> QED
  BY <1>1 DEF FloorInv

(* Every lookup step but the first goes on. *)
LEMMA LookupsGoOn ==
  ASSUME DirTypes, NEW c \in Lookers,
         CheckCache(c) \/ Resolve(c) \/ CompareGeneration(c) \/ Insert(c)
  PROVE  GoesOn(c) /\ UNCHANGED <<document, floor, generation>>
<1>1. CASE CheckCache(c)
  <2>0. Looking(c) /\ look[c].did \in DirDids
    BY <1>1, LookPlaces DEF CheckCache, Looking
  <2>1. CASE Hit(c)
    <3>1. cache[look[c].did].version \in Versions
      BY <2>0, <2>1 DEF Hit, Cached, DirTypes, Entries
    <3>2. Serves(c, cache[look[c].did].version)
      BY <1>1, <2>1 DEF CheckCache
    <3> QED
      BY <1>1, <2>0, <3>1, <3>2, ServesLook DEF CheckCache, GoesOn
  <2>2. CASE ~Hit(c)
    BY <1>1, <2>0, <2>2, JumpLook DEF CheckCache, GoesOn
  <2> QED BY <2>1, <2>2
<1>2. CASE Resolve(c)
  <2>1. NotLooking.pc = "done" /\ Looking(c)
    BY <1>2 DEF NotLooking, Resolve, Looking
  <2> QED
    BY <1>2, <2>1, ResolveLook DEF Resolve, GoesOn
<1>3. CASE CompareGeneration(c)
  <2>0. Looking(c) /\ look[c].version \in Versions
    BY <1>3, LookPlaces DEF CompareGeneration, Looking, Resolved
  <2> QED
    BY <1>3, <2>0, ServesLook, JumpLook DEF CompareGeneration, GoesOn
<1>4. CASE Insert(c)
  <2>0. Looking(c) /\ look[c].version \in Versions
    BY <1>4, LookPlaces DEF Insert, Looking, Resolved
  <2> QED
    BY <1>4, <2>0, ServesLook DEF Insert, GoesOn
<1> QED
  BY <1>1, <1>2, <1>3, <1>4

(* Every step keeps the floors. *)
LEMMA FloorStep ==
  ASSUME DirTypes, FloorInv, DirNext
  PROVE  FloorInv'
<1>1. ASSUME NEW d \in DirDids, PublishDocument(d) PROVE FloorInv'
  <2>1. \A e \in DirDids : document'[e] >= document[e] /\ document'[e] \in Nat
    BY <1>1, LookNumbers DEF PublishDocument, DirTypes
  <2>2. UNCHANGED <<look, floor, generation>>
    BY <1>1 DEF PublishDocument
  <2> QED
    BY <2>1, <2>2, LookNumbers, LookPlaces DEF FloorInv, Looking
<1>2. ASSUME NEW c \in Lookers, NEW d \in DirDids, LookupDid(c, d) PROVE FloorInv'
  <2>0. UNCHANGED <<document, floor, generation>>
    BY <1>2 DEF LookupDid
  <2>1. /\ look'[c].did = d /\ look'[c].generation = generation /\ look'[c].floor = floor[d]
        /\ \A b \in Lookers \ {c} : look'[b] = look[b]
    BY <1>2, LookupLook
  <2>2. \A b \in Lookers \ {c} : Looking(b)' => Looking(b)
    BY <2>1 DEF Looking
  <2> QED
    BY <2>0, <2>1, <2>2, LookNumbers DEF FloorInv
<1>3. ASSUME NEW p \in Purgers, NEW d \in DirDids, Bump(p, d) PROVE FloorInv'
  <2>0. /\ generation' = generation + 1 /\ UNCHANGED <<document, look>>
        /\ floor' = [floor EXCEPT ![d] = document[d]]
    BY <1>3 DEF Bump
  <2>1. \A e \in DirDids : document'[e] >= floor'[e]
    BY <2>0, LookNumbers DEF FloorInv, DirTypes
  <2>2. \A c \in Lookers : Looking(c)' <=> Looking(c)
    BY <2>0 DEF Looking
  <2>3. \A c \in Lookers : Looking(c) => look[c].generation <= generation' /\ look[c].generation # generation'
    BY <2>0, LookNumbers DEF FloorInv
  <2> QED
    BY <2>0, <2>1, <2>2, <2>3 DEF FloorInv
<1>4. ASSUME UNCHANGED <<document, floor, generation, look>> PROVE FloorInv'
  BY <1>4 DEF FloorInv, Looking
<1>5. ASSUME NEW d \in DirDids, ExpireEntry(d) PROVE FloorInv'
  BY <1>4, <1>5 DEF ExpireEntry
<1>6. ASSUME NEW p \in Purgers, Remove(p) PROVE FloorInv'
  BY <1>4, <1>6 DEF Remove
<1> QED
  BY <1>1, <1>2, <1>3, <1>5, <1>6, LookupsGoOn, GoesOnFloors DEF DirNext

(* The entries of the cache, one at a time. *)
EntryFresh(d) ==
  /\ cache[d].generation <= generation
  /\ cache[d].generation = generation => cache[d].version >= floor[d]
  /\ \A c \in Lookers :
       Looking(c) /\ look[c].did = d /\ look[c].generation = cache[d].generation =>
         cache[d].version >= look[c].floor

LookFresh(c) ==
  look[c].pc \in {"resolved", "insert", "done"} => look[c].version >= look[c].floor

LEMMA VersionInvDef ==
  VersionInv <=> (\A c \in Lookers : LookFresh(c)) /\ \A d \in Cached : EntryFresh(d)
BY DEF VersionInv, LookFresh, EntryFresh

(* An entry stays fresh while lookups go on. *)
LEMMA EntryStays ==
  ASSUME NEW d, EntryFresh(d), NEW c \in Lookers, GoesOn(c),
         cache'[d].generation = cache[d].generation, cache'[d].version = cache[d].version,
         UNCHANGED <<floor, generation>>
  PROVE  EntryFresh(d)'
<1>1. \A b \in Lookers : Looking(b)' =>
        /\ Looking(b) /\ look'[b].did = look[b].did /\ look'[b].generation = look[b].generation
        /\ look'[b].floor = look[b].floor
  BY DEF GoesOn, Looking
<1> QED
  BY <1>1 DEF EntryFresh

(* Every step keeps what is resolved, cached and served fresh. *)
LEMMA VersionStep ==
  ASSUME DirTypes, FloorInv, VersionInv, DirNext
  PROVE  VersionInv'
<1>1. (\A c \in Lookers : LookFresh(c)) /\ \A d \in Cached : EntryFresh(d)
  BY VersionInvDef
<1>2. ASSUME \A c \in Lookers : LookFresh(c)', \A d \in Cached' : EntryFresh(d)' PROVE VersionInv'
  BY <1>2, VersionInvDef DEF VersionInv, LookFresh, EntryFresh
<1>3. ASSUME UNCHANGED <<cache, generation, floor, look>> PROVE VersionInv'
  BY <1>3 DEF VersionInv, Looking, Cached
<1>4. ASSUME NEW d \in DirDids, PublishDocument(d) PROVE VersionInv'
  BY <1>4, <1>3 DEF PublishDocument
<1>5. ASSUME NEW d \in DirDids, ExpireEntry(d) PROVE VersionInv'
  <2>1. UNCHANGED <<generation, floor, look>>
    BY <1>5 DEF ExpireEntry
  <2>2. \A e \in Cached' : /\ e \in Cached /\ cache'[e].generation = cache[e].generation
                           /\ cache'[e].version = cache[e].version
    BY <1>5, ExpireCache DEF Cached
  <2> QED
    BY <2>1, <2>2 DEF VersionInv, Looking
<1>6. ASSUME NEW c \in Lookers, NEW d \in DirDids, LookupDid(c, d) PROVE VersionInv'
  <2>0. UNCHANGED <<cache, generation, floor>> /\ Cached' = Cached
    BY <1>6 DEF LookupDid, Cached
  <2>1. /\ look'[c].pc = "check" /\ look'[c].did = d /\ look'[c].generation = generation
        /\ look'[c].floor = floor[d] /\ \A b \in Lookers \ {c} : look'[b] = look[b]
    BY <1>6, LookupLook
  <2>2. ASSUME NEW e \in Cached PROVE EntryFresh(e)'
    <3>1. EntryFresh(e)
      BY <1>1
    <3>2. \A b \in Lookers \ {c} : Looking(b)' => Looking(b)
      BY <2>1 DEF Looking
    <3> QED
      BY <2>0, <2>1, <3>1, <3>2 DEF EntryFresh
  <2>3. \A b \in Lookers : LookFresh(b)'
    BY <1>1, <2>1 DEF LookFresh
  <2> QED
    BY <1>2, <2>0, <2>2, <2>3
<1>7. ASSUME NEW c \in Lookers, CheckCache(c) \/ Resolve(c) \/ CompareGeneration(c) PROVE VersionInv'
  <2>0. UNCHANGED <<cache, generation, floor>> /\ Cached' = Cached /\ GoesOn(c)
    BY <1>7, LookupsGoOn DEF CheckCache, Resolve, CompareGeneration, Cached
  <2>1. \A e \in Cached' : EntryFresh(e)'
    BY <1>1, <2>0, EntryStays
  <2>2. LookFresh(c)'
    <3>1. CASE CheckCache(c)
      <4>0. Looking(c) /\ look[c].did \in DirDids
        BY <3>1, LookPlaces DEF CheckCache, Looking
      <4>1. CASE Hit(c)
        <5>1. cache[look[c].did].version \in Versions
          BY <4>0, <4>1 DEF Hit, Cached, DirTypes, Entries
        <5>2. Serves(c, cache[look[c].did].version)
          BY <3>1, <4>1 DEF CheckCache
        <5>3. cache[look[c].did].version >= look[c].floor
          BY <1>1, <4>0, <4>1 DEF Hit, EntryFresh
        <5> QED
          BY <4>0, <5>1, <5>2, <5>3, ServesLook DEF LookFresh
      <4>2. CASE ~Hit(c)
        BY <3>1, <4>2, JumpLook DEF CheckCache, LookFresh
      <4> QED BY <4>1, <4>2
    <3>2. CASE Resolve(c)
      <4>1. Looking(c) /\ document[look[c].did] >= look[c].floor
        BY <3>2 DEF Resolve, Looking, FloorInv
      <4>2. NotLooking.version = 0 /\ NotLooking.floor = 0
        BY DEF NotLooking
      <4>3. CASE look'[c] = NotLooking
        BY <4>2, <4>3 DEF LookFresh
      <4> QED
        BY <3>2, <4>1, <4>3, ResolveLook DEF LookFresh
    <3>3. CASE CompareGeneration(c)
      <4>0. Looking(c) /\ look[c].version \in Versions /\ look[c].version >= look[c].floor
        BY <1>1, <3>3, LookPlaces DEF CompareGeneration, Looking, Resolved, LookFresh
      <4> QED
        BY <3>3, <4>0, ServesLook, JumpLook DEF CompareGeneration, LookFresh
    <3> QED BY <1>7, <3>1, <3>2, <3>3
  <2>3. \A b \in Lookers : LookFresh(b)'
    BY <1>1, <2>0, <2>2 DEF LookFresh, GoesOn
  <2> QED
    BY <1>2, <2>1, <2>3
<1>8. ASSUME NEW c \in Lookers, Insert(c) PROVE VersionInv'
  <2>0. Looking(c) /\ look[c].version \in Versions /\ look[c].version >= look[c].floor
    BY <1>1, <1>8, LookPlaces DEF Insert, Looking, Resolved, LookFresh
  <2>1. GoesOn(c) /\ UNCHANGED <<generation, floor>> /\ Serves(c, look[c].version)
    BY <1>8, LookupsGoOn DEF Insert
  <2>2. LookFresh(c)'
    BY <2>0, <2>1, ServesLook DEF LookFresh
  <2>3. \A b \in Lookers : LookFresh(b)'
    BY <1>1, <2>1, <2>2 DEF LookFresh, GoesOn
  <2>4. PICK d \in DirDids : d = look[c].did
    BY <2>0, LookPlaces
  <2>5. PICK gone \in Victims(d) : \A e \in DirDids \ {d} :
          cache'[e] = IF e \in gone THEN NoEntry ELSE cache[e]
    BY <1>8, <2>4, InsertCache
  <2>6. \A e \in Cached' \ {d} : e \in Cached /\ cache'[e] = cache[e]
    BY <2>5 DEF Cached
  <2>7. \A e \in Cached' \ {d} : EntryFresh(e)'
    BY <1>1, <2>1, <2>6, EntryStays
  <2>8. EntryFresh(d)'
    <3>1. cache'[d].version = look[c].version /\ cache'[d].generation = look[c].generation
      BY <1>8, <2>4, InsertCache
    <3>2. look[c].generation <= generation
      BY <2>0 DEF FloorInv
    <3>3. look[c].generation = generation => look[c].floor = floor[d]
      BY <2>0, <2>4 DEF FloorInv
    <3>4. ASSUME NEW b \in Lookers, Looking(b)', look'[b].did = d,
                 look'[b].generation = look[c].generation
          PROVE  look'[b].floor = look[c].floor
      <4>1. /\ Looking(b) /\ look'[b].did = look[b].did /\ look'[b].generation = look[b].generation
            /\ look'[b].floor = look[b].floor
        BY <2>1, <3>4 DEF GoesOn, Looking
      <4> QED
        BY <2>0, <2>4, <3>4, <4>1 DEF FloorInv
    <3> QED
      BY <2>0, <2>1, <3>1, <3>2, <3>3, <3>4 DEF EntryFresh
  <2> QED
    BY <1>2, <2>3, <2>7, <2>8
<1>9. ASSUME NEW p \in Purgers, Remove(p) PROVE VersionInv'
  <2>1. UNCHANGED <<generation, floor, look>>
    BY <1>9 DEF Remove
  <2>2. \A e \in Cached' : e \in Cached /\ cache'[e] = cache[e]
    BY <1>9 DEF Remove, Cached, DirTypes
  <2> QED
    BY <2>1, <2>2 DEF VersionInv, Looking
<1>10. ASSUME NEW p \in Purgers, NEW d \in DirDids, Bump(p, d) PROVE VersionInv'
  <2>0. generation' = generation + 1 /\ UNCHANGED <<cache, look>> /\ Cached' = Cached
    BY <1>10 DEF Bump, Cached
  <2>1. \A e \in Cached : cache[e].generation <= generation' /\ cache[e].generation # generation'
    BY <2>0, LookNumbers DEF VersionInv
  <2> QED
    BY <2>0, <2>1 DEF VersionInv, Looking
<1> QED
  BY <1>4, <1>5, <1>6, <1>7, <1>8, <1>9, <1>10 DEF DirNext

(* DirInv is inductive. *)
LEMMA DirInvariant == DirSpec => []DirInv
<1>1. DirInit => DirInv
  <2> SUFFICES ASSUME DirInit PROVE DirInv
    OBVIOUS
  <2>1. NotLooking \in Finished /\ NotLooking.pc = "done" /\ NotLooking.version >= NotLooking.floor
    BY DirNumbers DEF NotLooking, Finished
  <2>2. Cached = {} /\ \A c \in Lookers : look[c] = NotLooking
    BY DEF DirInit, Cached
  <2>3. CacheBounded
    BY <2>2, FS_EmptySet, DirNumbers DEF CacheBounded
  <2>4. DirTypes
    BY <2>1, DirNumbers DEF DirInit, DirTypes
  <2>5. WriterInv /\ FloorInv /\ VersionInv
    BY <2>1, <2>2 DEF DirInit, WriterInv, FloorInv, VersionInv, Looking
  <2> QED
    BY <2>3, <2>4, <2>5 DEF DirInv
<1>2. DirInv /\ [DirNext]_dirVars => DirInv'
  <2>1. CASE UNCHANGED dirVars
    BY <2>1 DEF dirVars, DirInv, DirTypes, WriterInv, CacheBounded, FloorInv, VersionInv, Looking, Cached
  <2> QED
    BY <2>1, DirTypesStep, CacheBoundedStep, FloorStep, VersionStep DEF DirInv
<1> QED
  BY <1>1, <1>2, PTL DEF DirSpec

(* The identity cache keeps its type, its lock has at most one holder, and   *)
(* it never outgrows its capacity, for any lookups and purges.               *)
THEOREM DirTypeCorrect == DirSpec => []DirTypeOK
<1>1. DirInv => DirTypeOK
  <2> SUFFICES ASSUME DirInv PROVE DirTypeOK
    OBVIOUS
  <2>1. writer \subseteq Lookers /\ Cardinality(writer) <= 1
    <3>1. CASE writer = {}
      BY <3>1, FS_EmptySet
    <3>2. ASSUME NEW c \in Lookers, writer = {c}
          PROVE  writer \subseteq Lookers /\ Cardinality(writer) <= 1
      <4>1. Cardinality({c}) = 1
        BY FS_Singleton
      <4> QED
        BY <3>2, <4>1
    <3> QED
      BY <3>1, <3>2 DEF DirInv, WriterInv
  <2> QED
    BY <2>1 DEF DirInv, DirTypes, CacheBounded, DirTypeOK, Entries
<1> QED
  BY <1>1, DirInvariant, PTL

(* A lookup that begins once purge has bumped the generation never serves a  *)
(* version of the document older than the one published then, for any        *)
(* lookups still resolving, entries evicted and purges under way: an entry   *)
(* carries the generation its lookup began in, and lookups of one            *)
(* generation began above the same floor.                                    *)
THEOREM DirPurgeForgets == DirSpec => []PurgeForgets
<1>1. DirInv => PurgeForgets
  BY DEF DirInv, VersionInv, PurgeForgets
<1> QED
  BY <1>1, DirInvariant, PTL

-----------------------------------------------------------------------------
(* The resync limiter. *)

Buckets == [tokens : 0..Burst, last_refill : 0..MaxClock]

LimiterTypes ==
  /\ clock \in 0..MaxClock
  /\ buckets \in [ResyncDids -> Buckets \cup {NoBucket}]
  /\ check \in [Checks -> [did : ResyncDids, now : 0..MaxClock] \cup {NoBucket}]
  /\ level \in [ResyncDids -> Nat] /\ credit \in [ResyncDids -> Nat]

(* The map of buckets is finite and within its capacity. *)
MapBounded == IsFiniteSet(Bucketed) /\ Cardinality(Bucketed) <= LimiterCapacity

(* What is positive of x. *)
Pos(x) == IF x > 0 THEN x ELSE 0

(* What the bucket of d has given away, as far as it has not come back yet. *)
GivenAway(d) ==
  Pos(Burst - buckets[d].tokens - PerTick * Pos(clock - buckets[d].last_refill))

(* A DID without a bucket owes nothing; one with a bucket owes what the     *)
(* bucket has given away, and what stale readings of the clock gave it.     *)
BudgetInv ==
  \A d \in ResyncDids :
    /\ d \notin Bucketed => level[d] = 0
    /\ d \in Bucketed => level[d] <= GivenAway(d) + PerTick * credit[d]

LimiterInv == LimiterTypes /\ MapBounded /\ BudgetInv

(* Max and Min of two numbers. *)
LEMMA MaxOfTwo == \A x, y \in Int : Max({x, y}) = IF x >= y THEN x ELSE y
BY DEF Max

LEMMA MinOfTwo == \A x, y \in Int : Min({x, y}) = IF x <= y THEN x ELSE y
BY DEF Min

LEMMA MaxIsPos == \A x \in Int : Max({0, x}) = Pos(x) /\ Pos(x) \in Nat
<1> SUFFICES ASSUME NEW x \in Int PROVE Max({0, x}) = Pos(x) /\ Pos(x) \in Nat
  OBVIOUS
<1>1. Max({0, x}) = IF 0 >= x THEN 0 ELSE x
  BY MaxOfTwo
<1> QED
  BY <1>1 DEF Pos

LEMMA LimiterNumbers ==
  /\ Unit \in Nat /\ PerTick \in Nat /\ Burst \in Nat /\ LimiterCapacity \in Nat
  /\ LimiterCapacity >= 1 /\ MaxClock \in Nat
BY LimiterAssumption

(* Products with a rate. *)
LEMMA RateTimes ==
  ASSUME NEW p \in Nat
  PROVE  /\ \A x \in Nat : p * x \in Nat
         /\ \A x, y \in Nat : p * (x + y) = p * x + p * y
         /\ \A x, y \in Nat : x <= y => p * x <= p * y
OBVIOUS

(* The clock goes on by one tick. *)
LEMMA TickArithmetic ==
  ASSUME NEW p \in Nat, NEW b \in Nat, NEW t \in Nat, NEW r \in Nat, NEW c \in Nat,
         NEW l \in Nat, NEW k \in Nat,
         l <= Pos(b - t - p * Pos(c - r)) + p * k
  PROVE  Pos(l - p) <= Pos(b - t - p * Pos(c + 1 - r)) + p * k
<1>1. Pos(c - r) \in Nat /\ Pos(c + 1 - r) \in Nat
  BY DEF Pos
<1>2. Pos(c + 1 - r) <= Pos(c - r) + 1
  BY DEF Pos
<1>3. p * Pos(c + 1 - r) <= p * (Pos(c - r) + 1)
  BY <1>1, <1>2, RateTimes
<1>4. p * (Pos(c - r) + 1) = p * Pos(c - r) + p
  BY <1>1, RateTimes
<1> DEFINE x == p * Pos(c - r)
           y == p * Pos(c + 1 - r)
           z == p * k
<1>5. x \in Nat /\ y \in Nat /\ z \in Nat /\ y <= x + p
  BY <1>1, <1>3, <1>4, RateTimes
<1>6. l <= Pos(b - t - x) + z
  OBVIOUS
<1> HIDE DEF x, y, z
<1>7. Pos(l - p) <= Pos(b - t - y) + z
  BY <1>5, <1>6 DEF Pos
<1> QED
  BY <1>7 DEF y, z

(* The clock is set back by one tick. *)
LEMMA SetBackArithmetic ==
  ASSUME NEW p \in Nat, NEW b \in Nat, NEW t \in Nat, NEW r \in Nat, NEW c \in Nat,
         NEW l \in Nat, NEW k \in Nat, c > 0,
         l <= Pos(b - t - p * Pos(c - r)) + p * k
  PROVE  l <= Pos(b - t - p * Pos(c - 1 - r)) + p * k
<1>1. Pos(c - r) \in Nat /\ Pos(c - 1 - r) \in Nat /\ Pos(c - 1 - r) <= Pos(c - r)
  BY DEF Pos
<1> DEFINE x == p * Pos(c - r)
           y == p * Pos(c - 1 - r)
           z == p * k
<1>2. x \in Nat /\ y \in Nat /\ z \in Nat /\ y <= x
  BY <1>1, RateTimes
<1>3. l <= Pos(b - t - x) + z
  OBVIOUS
<1> HIDE DEF x, y, z
<1>4. l <= Pos(b - t - y) + z
  BY <1>2, <1>3 DEF Pos
<1> QED
  BY <1>4 DEF y, z

(* A bucket is refilled at time c with the reading n of the clock, and u of  *)
(* its tokens are taken.                                                     *)
LEMMA RefillArithmetic ==
  ASSUME NEW p \in Nat, NEW b \in Nat, NEW t \in Nat, NEW r \in Nat, NEW c \in Nat, NEW n \in Nat,
         NEW l \in Nat, NEW k \in Nat, NEW u \in Nat, NEW m \in Nat, NEW s \in Nat,
         t <= b, l <= Pos(b - t - p * Pos(c - r)) + p * k,
         m = (IF b <= t + p * Pos(n - r) THEN b ELSE t + p * Pos(n - r)),
         s = (IF c >= n THEN c - n ELSE n - c),
         u <= m
  PROVE  l + u <= Pos(b - (m - u) - p * Pos(c - n)) + p * (k + s)
<1>1. Pos(c - r) \in Nat /\ Pos(n - r) \in Nat /\ Pos(c - n) \in Nat
  BY DEF Pos
<1>2. p * (k + s) = p * k + p * s
  BY RateTimes
<1> DEFINE x == p * Pos(c - r)
           y == p * Pos(n - r)
           z == p * k
           w == p * s
           v == p * Pos(c - n)
<1>3. x \in Nat /\ y \in Nat /\ z \in Nat /\ w \in Nat /\ v \in Nat
  BY <1>1, RateTimes
<1>4. CASE c >= n
  <2>1. Pos(n - r) <= Pos(c - r) /\ Pos(c - n) = s
    BY <1>4 DEF Pos
  <2>2. y <= x /\ v = w
    BY <1>1, <2>1, RateTimes
  <2>3. l <= Pos(b - t - x) + z /\ m = (IF b <= t + y THEN b ELSE t + y)
    OBVIOUS
  <2> HIDE DEF x, y, z, v, w
  <2>4. l + u <= Pos(b - (m - u) - v) + (z + w)
    BY <1>3, <2>2, <2>3 DEF Pos
  <2> QED
    BY <1>2, <2>4 DEF v, z, w
<1>5. CASE ~(c >= n)
  <2>1. Pos(n - r) <= Pos(c - r) + s /\ Pos(c - n) = 0
    BY <1>5 DEF Pos
  <2>2. p * Pos(n - r) <= p * (Pos(c - r) + s) /\ p * (Pos(c - r) + s) = p * Pos(c - r) + p * s
    BY <1>1, <2>1, RateTimes
  <2>3. y <= x + w /\ v = 0
    BY <2>1, <2>2
  <2>4. l <= Pos(b - t - x) + z /\ m = (IF b <= t + y THEN b ELSE t + y)
    OBVIOUS
  <2> HIDE DEF x, y, z, v, w
  <2>5. l + u <= Pos(b - (m - u) - v) + (z + w)
    BY <1>3, <2>3, <2>4 DEF Pos
  <2> QED
    BY <1>2, <2>5 DEF v, z, w
<1> QED BY <1>4, <1>5

(* A bucket refilled with the reading n has a type, and as many tokens as    *)
(* RefillArithmetic says.                                                    *)
LEMMA RefilledBucket ==
  ASSUME NEW b \in Buckets, NEW n \in 0..MaxClock
  PROVE  /\ Refilled(b, n) \in Buckets
         /\ Refilled(b, n).last_refill = n
         /\ Refilled(b, n).tokens =
              (IF Burst <= b.tokens + PerTick * Pos(n - b.last_refill)
               THEN Burst ELSE b.tokens + PerTick * Pos(n - b.last_refill))
<1>1. b.tokens \in 0..Burst /\ b.last_refill \in 0..MaxClock
  BY DEF Buckets
<1>2. n - b.last_refill \in Int /\ b.tokens \in Nat
  BY <1>1, LimiterNumbers
<1> DEFINE x == PerTick * Pos(n - b.last_refill)
<1>3. Max({0, n - b.last_refill}) = Pos(n - b.last_refill) /\ Pos(n - b.last_refill) \in Nat
  BY <1>2, MaxIsPos
<1>4. x \in Nat
  BY <1>3, LimiterNumbers, RateTimes
<1>5. Refilled(b, n) = [tokens |-> Min({Burst, b.tokens + x}), last_refill |-> n]
  BY <1>3 DEF Refilled
<1> HIDE DEF x
<1>6. Min({Burst, b.tokens + x}) = IF Burst <= b.tokens + x THEN Burst ELSE b.tokens + x
  BY <1>2, <1>4, LimiterNumbers, MinOfTwo
<1>7. Min({Burst, b.tokens + x}) \in 0..Burst
  BY <1>2, <1>4, <1>6, LimiterNumbers
<1> QED
  BY <1>5, <1>6, <1>7 DEF Buckets, x

(* What goes is a bucket of another DID. *)
LEMMA EvictedOther ==
  ASSUME NEW d \in ResyncDids, NEW gone \in Evicted(d)
  PROVE  gone \subseteq Bucketed \ {d}
BY DEF Evicted

(* What a call of allow_resync does to the map: u tokens are taken from the  *)
(* bucket of its DID, refilled or made, and another bucket may go.           *)
Taken(d, n, b, u, gone) ==
  /\ gone \in Evicted(d)
  /\ d \in Bucketed => b = buckets[d]
  /\ d \notin Bucketed => b = [tokens |-> Burst, last_refill |-> n]
  /\ u <= Refilled(b, n).tokens
  /\ buckets' = [e \in ResyncDids |->
       IF e = d THEN [tokens |-> Refilled(b, n).tokens - u, last_refill |-> n]
       ELSE IF e \in gone THEN NoBucket ELSE buckets[e]]
  /\ level' = [e \in ResyncDids |->
       IF e = d THEN level[e] + u ELSE IF e \in gone THEN 0 ELSE level[e]]
  /\ credit' = [e \in ResyncDids |->
       IF e = d THEN credit[e] + (IF clock >= n THEN clock - n ELSE n - clock)
       ELSE IF e \in gone THEN 0 ELSE credit[e]]

LEMMA AllowResyncMap ==
  ASSUME LimiterTypes, NEW c \in Checks, AllowResync(c)
  PROVE  \E d \in ResyncDids, n \in 0..MaxClock, b \in Buckets, u \in Nat, gone \in SUBSET ResyncDids :
           Taken(d, n, b, u, gone)
<1> DEFINE d == check[c].did
           n == check[c].now
           b == IF d \in Bucketed THEN buckets[d] ELSE [tokens |-> Burst, last_refill |-> n]
           r == Refilled(b, n)
           u == IF r.tokens >= Unit THEN Unit ELSE 0
<1>1. check[c] # NoBucket
  BY DEF AllowResync
<1>2. d \in ResyncDids /\ n \in 0..MaxClock
  BY <1>1 DEF LimiterTypes
<1>3. b \in Buckets
  BY <1>2, LimiterNumbers DEF LimiterTypes, Buckets, Bucketed
<1>4. r \in Buckets /\ r.last_refill = n
  BY <1>2, <1>3, RefilledBucket
<1>5. r = [tokens |-> r.tokens, last_refill |-> n] /\ r.tokens \in Nat
  BY <1>4, LimiterNumbers DEF Buckets
<1>6. u \in Nat /\ u <= r.tokens
  BY <1>5, LimiterNumbers
<1>7. [r EXCEPT !.tokens = IF r.tokens >= Unit THEN @ - Unit ELSE @] =
        [tokens |-> r.tokens - u, last_refill |-> n]
  <2> HIDE DEF r, n
  <2> QED
    BY <1>5, LimiterNumbers
<1>8. \A e \in ResyncDids : level[e] + (IF r.tokens >= Unit THEN Unit ELSE 0) = level[e] + u
  OBVIOUS
<1>9. Max({clock - n, n - clock}) = (IF clock >= n THEN clock - n ELSE n - clock)
  <2>1. clock \in Int /\ n \in Int
    BY <1>2, LimiterNumbers DEF LimiterTypes
  <2> HIDE DEF n
  <2>2. Max({clock - n, n - clock}) = IF clock - n >= n - clock THEN clock - n ELSE n - clock
    BY <2>1, MaxOfTwo
  <2> QED
    BY <2>1, <2>2
<1>10. \E gone \in Evicted(d) :
         /\ buckets' = [e \in ResyncDids |->
              IF e = d THEN [r EXCEPT !.tokens = IF r.tokens >= Unit THEN @ - Unit ELSE @]
              ELSE IF e \in gone THEN NoBucket ELSE buckets[e]]
         /\ level' = [e \in ResyncDids |->
              IF e = d THEN level[e] + (IF r.tokens >= Unit THEN Unit ELSE 0)
              ELSE IF e \in gone THEN 0 ELSE level[e]]
         /\ credit' = [e \in ResyncDids |->
              IF e = d THEN credit[e] + Max({clock - n, n - clock})
              ELSE IF e \in gone THEN 0 ELSE credit[e]]
  BY Zenon DEF AllowResync
<1>11. PICK gone \in Evicted(d) :
         /\ buckets' = [e \in ResyncDids |->
              IF e = d THEN [tokens |-> r.tokens - u, last_refill |-> n]
              ELSE IF e \in gone THEN NoBucket ELSE buckets[e]]
         /\ level' = [e \in ResyncDids |->
              IF e = d THEN level[e] + u ELSE IF e \in gone THEN 0 ELSE level[e]]
         /\ credit' = [e \in ResyncDids |->
              IF e = d THEN credit[e] + (IF clock >= n THEN clock - n ELSE n - clock)
              ELSE IF e \in gone THEN 0 ELSE credit[e]]
  <2> HIDE DEF d, n, r
  <2> QED
    BY <1>7, <1>9, <1>10, Zenon DEF u
<1>12. gone \in SUBSET ResyncDids
  BY <1>2, <1>11, EvictedOther DEF Bucketed
<1>13. (d \in Bucketed => b = buckets[d])
       /\ (d \notin Bucketed => b = [tokens |-> Burst, last_refill |-> n])
  OBVIOUS
<1>14. r = Refilled(b, n)
  OBVIOUS
<1>15. Taken(d, n, b, u, gone)
  <2> HIDE DEF d, n, b, u
  <2>1. u <= Refilled(b, n).tokens
    BY <1>6, <1>14
  <2>2. buckets' = [e \in ResyncDids |->
          IF e = d THEN [tokens |-> Refilled(b, n).tokens - u, last_refill |-> n]
          ELSE IF e \in gone THEN NoBucket ELSE buckets[e]]
    BY <1>11, <1>14, Zenon
  <2> QED
    BY <1>11, <1>13, <2>1, <2>2 DEF Taken
<1> HIDE DEF d, n, b, u, r
<1> QED
  BY <1>2, <1>3, <1>6, <1>12, <1>15

(* A bucket is not the mark of a missing one. *)
LEMMA BucketsExist == \A b \in Buckets : b # NoBucket
BY LimiterAssumption, LimiterNumbers DEF Buckets

LEMMA LimiterTypesStep ==
  ASSUME LimiterTypes, LimiterNext
  PROVE  LimiterTypes'
<1>1. CASE ClockForward
  <2>1. \A d \in ResyncDids : Max({0, level[d] - PerTick}) \in Nat
    <3> TAKE d \in ResyncDids
    <3>1. level[d] - PerTick \in Int
      BY LimiterNumbers DEF LimiterTypes
    <3> QED
      BY <3>1, MaxIsPos
  <2>2. level' \in [ResyncDids -> Nat]
    BY <1>1, <2>1 DEF ClockForward
  <2>3. clock' \in 0..MaxClock
    BY <1>1, LimiterNumbers DEF ClockForward, LimiterTypes
  <2> QED
    BY <1>1, <2>2, <2>3 DEF ClockForward, LimiterTypes
<1>2. CASE ClockSetBack
  <2>1. clock' \in 0..MaxClock
    BY <1>2, LimiterNumbers DEF ClockSetBack, LimiterTypes
  <2> QED
    BY <1>2, <2>1 DEF ClockSetBack, LimiterTypes
<1>3. ASSUME NEW c \in Checks, NEW d \in ResyncDids, ReadClock(c, d) PROVE LimiterTypes'
  BY <1>3 DEF ReadClock, LimiterTypes
<1>4. ASSUME NEW c \in Checks, AllowResync(c) PROVE LimiterTypes'
  <2>1. PICK d \in ResyncDids, n \in 0..MaxClock, b \in Buckets, u \in Nat, gone \in SUBSET ResyncDids :
           Taken(d, n, b, u, gone)
    BY <1>4, AllowResyncMap
  <2>2. Refilled(b, n).tokens \in 0..Burst
    BY RefilledBucket DEF Buckets
  <2>3. [tokens |-> Refilled(b, n).tokens - u, last_refill |-> n] \in Buckets
    BY <2>1, <2>2, LimiterNumbers DEF Buckets, Taken
  <2>4. buckets' \in [ResyncDids -> Buckets \cup {NoBucket}]
    BY <2>1, <2>3 DEF LimiterTypes, Taken
  <2>5. (IF clock >= n THEN clock - n ELSE n - clock) \in Nat
    BY LimiterNumbers DEF LimiterTypes
  <2>6. level' \in [ResyncDids -> Nat] /\ credit' \in [ResyncDids -> Nat]
    BY <2>1, <2>5 DEF LimiterTypes, Taken
  <2>7. check' \in [Checks -> [did : ResyncDids, now : 0..MaxClock] \cup {NoBucket}]
    BY <1>4 DEF AllowResync, LimiterTypes
  <2>8. clock' = clock
    BY <1>4 DEF AllowResync
  <2> QED
    BY <2>4, <2>6, <2>7, <2>8 DEF LimiterTypes
<1> QED
  BY <1>1, <1>2, <1>3, <1>4 DEF LimiterNext

LEMMA MapBoundedStep ==
  ASSUME LimiterTypes, MapBounded, LimiterNext
  PROVE  MapBounded'
<1>1. ASSUME NEW c \in Checks, AllowResync(c) PROVE MapBounded'
  <2>1. PICK d \in ResyncDids, n \in 0..MaxClock, b \in Buckets, u \in Nat, gone \in SUBSET ResyncDids :
           Taken(d, n, b, u, gone)
    BY <1>1, AllowResyncMap
  <2>2. Bucketed' \subseteq (Bucketed \ gone) \cup {d}
    BY <2>1 DEF Bucketed, Taken
  <2>3. Cardinality(Bucketed) \in Nat /\ IsFiniteSet(Bucketed)
    BY FS_CardinalityType DEF MapBounded
  <2>4. CASE d \in Bucketed
    <3>1. Bucketed' \subseteq Bucketed
      BY <2>2, <2>4
    <3>2. IsFiniteSet(Bucketed') /\ Cardinality(Bucketed') <= Cardinality(Bucketed)
      BY <2>3, <3>1, FS_Subset
    <3>3. Cardinality(Bucketed') \in Nat
      BY <3>2, FS_CardinalityType
    <3> QED
      BY <2>3, <3>2, <3>3, LimiterNumbers DEF MapBounded
  <2>5. CASE d \notin Bucketed /\ Cardinality(Bucketed) < LimiterCapacity
    <3>1. IsFiniteSet(Bucketed \cup {d}) /\ Cardinality(Bucketed \cup {d}) = Cardinality(Bucketed) + 1
      BY <2>3, <2>5, FS_AddElement
    <3>2. Bucketed' \subseteq Bucketed \cup {d}
      BY <2>2
    <3>3. IsFiniteSet(Bucketed') /\ Cardinality(Bucketed') <= Cardinality(Bucketed \cup {d})
      BY <3>1, <3>2, FS_Subset
    <3>4. Cardinality(Bucketed') \in Nat
      BY <3>3, FS_CardinalityType
    <3> QED
      BY <2>3, <2>5, <3>1, <3>3, <3>4, LimiterNumbers DEF MapBounded
  <2>6. CASE d \notin Bucketed /\ ~(Cardinality(Bucketed) < LimiterCapacity)
    <3>1. PICK e \in Bucketed : gone = {e}
      BY <2>1, <2>6 DEF Evicted, Taken
    <3> DEFINE R == Bucketed \ {e}
    <3>2. IsFiniteSet(R) /\ Cardinality(R) = Cardinality(Bucketed) - 1
      BY <2>3, <3>1, FS_RemoveElement
    <3>3. IsFiniteSet(R \cup {d}) /\ Cardinality(R \cup {d}) = Cardinality(R) + 1
      BY <2>6, <3>2, FS_AddElement
    <3>4. Bucketed' \subseteq R \cup {d}
      BY <2>2, <3>1
    <3> HIDE DEF R
    <3>5. IsFiniteSet(Bucketed') /\ Cardinality(Bucketed') <= Cardinality(R \cup {d})
      BY <3>3, <3>4, FS_Subset
    <3>6. Cardinality(Bucketed') \in Nat /\ Cardinality(R) \in Nat
      BY <3>2, <3>5, FS_CardinalityType
    <3> QED
      BY <2>3, <3>2, <3>3, <3>5, <3>6, LimiterNumbers DEF MapBounded
  <2> QED BY <2>4, <2>5, <2>6
<1>2. ASSUME UNCHANGED buckets PROVE MapBounded'
  BY <1>2 DEF MapBounded, Bucketed
<1> QED
  BY <1>1, <1>2 DEF LimiterNext, ClockForward, ClockSetBack, ReadClock

LEMMA BudgetStep ==
  ASSUME LimiterTypes, LimiterTypes', BudgetInv, LimiterNext
  PROVE  BudgetInv'
<1>0. \A d \in ResyncDids : /\ level[d] \in Nat /\ credit[d] \in Nat
                            /\ d \in Bucketed => /\ buckets[d] \in Buckets /\ buckets[d].tokens \in Nat
                                                 /\ buckets[d].last_refill \in Nat
                                                 /\ buckets[d].tokens <= Burst
  BY LimiterNumbers DEF LimiterTypes, Bucketed, Buckets
<1>00. clock \in Nat
  BY LimiterNumbers DEF LimiterTypes
<1>1. CASE ClockForward
  <2> SUFFICES ASSUME NEW d \in ResyncDids
      PROVE  /\ d \notin Bucketed => level'[d] = 0
             /\ d \in Bucketed => level'[d] <=
                  Pos(Burst - buckets[d].tokens - PerTick * Pos(clock' - buckets[d].last_refill))
                    + PerTick * credit[d]
    <3>1. buckets' = buckets /\ credit' = credit /\ clock' = clock + 1 /\ Bucketed' = Bucketed
      BY <1>1 DEF ClockForward, Bucketed
    <3> QED
      BY <3>1 DEF BudgetInv, GivenAway
  <2>1. level'[d] = Pos(level[d] - PerTick)
    <3>1. level[d] - PerTick \in Int
      BY <1>0, LimiterNumbers
    <3>2. level'[d] = Max({0, level[d] - PerTick})
      BY <1>1 DEF ClockForward
    <3> QED
      BY <3>1, <3>2, MaxIsPos
  <2>2. CASE d \notin Bucketed
    BY <1>0, <2>1, <2>2, LimiterNumbers DEF BudgetInv, Pos
  <2>3. CASE d \in Bucketed
    <3>1. level[d] <= Pos(Burst - buckets[d].tokens - PerTick * Pos(clock - buckets[d].last_refill))
                        + PerTick * credit[d]
      BY <2>3 DEF BudgetInv, GivenAway
    <3>2. Pos(level[d] - PerTick) <=
            Pos(Burst - buckets[d].tokens - PerTick * Pos(clock + 1 - buckets[d].last_refill))
              + PerTick * credit[d]
      BY <1>0, <1>00, <2>3, <3>1, LimiterNumbers, TickArithmetic
    <3>3. clock' - buckets[d].last_refill = clock + 1 - buckets[d].last_refill
      BY <1>1, <1>0, <1>00, <2>3 DEF ClockForward
    <3> QED
      BY <2>1, <2>3, <3>2, <3>3, Zenon
  <2> QED BY <2>2, <2>3
<1>2. CASE ClockSetBack
  <2> SUFFICES ASSUME NEW d \in ResyncDids
      PROVE  /\ d \notin Bucketed => level[d] = 0
             /\ d \in Bucketed => level[d] <=
                  Pos(Burst - buckets[d].tokens - PerTick * Pos(clock - 1 - buckets[d].last_refill))
                    + PerTick * credit[d]
    <3>1. /\ buckets' = buckets /\ credit' = credit /\ level' = level
          /\ clock' = clock - 1 /\ Bucketed' = Bucketed
      BY <1>2 DEF ClockSetBack, Bucketed
    <3> QED
      BY <3>1 DEF BudgetInv, GivenAway
  <2>1. CASE d \in Bucketed
    <3>1. level[d] <= Pos(Burst - buckets[d].tokens - PerTick * Pos(clock - buckets[d].last_refill))
                        + PerTick * credit[d]
      BY <2>1 DEF BudgetInv, GivenAway
    <3>2. clock > 0
      BY <1>2 DEF ClockSetBack
    <3>3. level[d] <=
            Pos(Burst - buckets[d].tokens - PerTick * Pos(clock - 1 - buckets[d].last_refill))
              + PerTick * credit[d]
      BY <1>0, <1>00, <2>1, <3>1, <3>2, LimiterNumbers, SetBackArithmetic
    <3> QED
      BY <2>1, <3>3
  <2> QED
    BY <2>1 DEF BudgetInv
<1>3. ASSUME NEW c \in Checks, NEW d \in ResyncDids, ReadClock(c, d) PROVE BudgetInv'
  BY <1>3 DEF ReadClock, BudgetInv, GivenAway, Bucketed
<1>4. ASSUME NEW c \in Checks, AllowResync(c) PROVE BudgetInv'
  <2>1. PICK d \in ResyncDids, n \in 0..MaxClock, b \in Buckets, u \in Nat, gone \in SUBSET ResyncDids :
           Taken(d, n, b, u, gone)
    BY <1>4, AllowResyncMap
  <2>2. clock' = clock
    BY <1>4 DEF AllowResync
  <2>3. n \in Nat /\ b.tokens \in Nat /\ b.tokens <= Burst /\ b.last_refill \in Nat
    BY LimiterNumbers DEF Buckets
  <2> DEFINE m == Refilled(b, n).tokens
             s == IF clock >= n THEN clock - n ELSE n - clock
  <2>4. m \in Nat /\ m <= Burst
        /\ m = (IF Burst <= b.tokens + PerTick * Pos(n - b.last_refill)
                THEN Burst ELSE b.tokens + PerTick * Pos(n - b.last_refill))
    <3>1. Refilled(b, n) \in Buckets
          /\ Refilled(b, n).tokens = (IF Burst <= b.tokens + PerTick * Pos(n - b.last_refill)
                THEN Burst ELSE b.tokens + PerTick * Pos(n - b.last_refill))
      BY RefilledBucket
    <3>2. m \in 0..Burst
      BY <3>1 DEF Buckets
    <3> QED
      BY <3>1, <3>2, LimiterNumbers
  <2>5. s \in Nat
    BY <1>00, <2>3
  <2>6. level[d] <= Pos(Burst - b.tokens - PerTick * Pos(clock - b.last_refill)) + PerTick * credit[d]
    <3>1. CASE d \in Bucketed
      BY <2>1, <3>1 DEF BudgetInv, GivenAway, Taken
    <3>2. CASE d \notin Bucketed
      <4>1. level[d] = 0
        BY <3>2 DEF BudgetInv
      <4>2. PerTick * credit[d] \in Nat
        BY <1>0, LimiterNumbers, RateTimes
      <4>3. Pos(clock - b.last_refill) \in Nat
        BY <1>00, <2>3 DEF Pos
      <4>4. PerTick * Pos(clock - b.last_refill) \in Nat
        BY <4>3, LimiterNumbers, RateTimes
      <4>5. Pos(Burst - b.tokens - PerTick * Pos(clock - b.last_refill)) \in Nat
        BY <2>3, <4>4, LimiterNumbers DEF Pos
      <4> QED
        BY <4>1, <4>2, <4>5
    <3> QED BY <3>1, <3>2
  <2>7. u \in Nat /\ u <= m
    BY <2>1 DEF Taken
  <2>8. s = (IF clock >= n THEN clock - n ELSE n - clock)
    OBVIOUS
  <2>9. buckets'[d] = [tokens |-> m - u, last_refill |-> n]
        /\ level'[d] = level[d] + u /\ credit'[d] = credit[d] + s
    BY <2>1 DEF Taken
  <2> HIDE DEF m, s
  <2>10. level[d] + u <= Pos(Burst - (m - u) - PerTick * Pos(clock - n)) + PerTick * (credit[d] + s)
    BY <1>0, <1>00, <2>3, <2>4, <2>5, <2>6, <2>7, <2>8, LimiterNumbers, RefillArithmetic
  <2>11. d \in Bucketed'
    <3>1. m - u \in 0..Burst
      BY <2>4, <2>7, LimiterNumbers
    <3>2. buckets'[d] \in Buckets
      BY <2>9, <3>1 DEF Buckets
    <3> QED
      BY <3>2, BucketsExist DEF Bucketed
  <2>12. level'[d] <= GivenAway(d)' + PerTick * credit'[d]
    BY <2>2, <2>9, <2>10 DEF GivenAway
  <2>13. \A e \in ResyncDids \ {d} :
           /\ e \notin Bucketed' => level'[e] = 0
           /\ e \in Bucketed' => level'[e] <= GivenAway(e)' + PerTick * credit'[e]
    <3> TAKE e \in ResyncDids \ {d}
    <3>1. CASE e \in gone
      BY <2>1, <3>1 DEF Bucketed, Taken
    <3>2. CASE e \notin gone
      <4>1. buckets'[e] = buckets[e] /\ level'[e] = level[e] /\ credit'[e] = credit[e]
        BY <2>1, <3>2 DEF Taken
      <4> QED
        BY <2>2, <4>1 DEF BudgetInv, GivenAway, Bucketed
    <3> QED BY <3>1, <3>2
  <2> QED
    BY <2>11, <2>12, <2>13 DEF BudgetInv
<1> QED
  BY <1>1, <1>2, <1>3, <1>4 DEF LimiterNext

LEMMA LimiterInvariant == LimiterSpec => []LimiterInv
<1>1. LimiterInit => LimiterInv
  <2> SUFFICES ASSUME LimiterInit PROVE LimiterInv
    OBVIOUS
  <2>1. Bucketed = {}
    BY DEF LimiterInit, Bucketed
  <2>2. MapBounded
    BY <2>1, FS_EmptySet, LimiterNumbers DEF MapBounded
  <2>3. LimiterTypes
    BY LimiterNumbers DEF LimiterInit, LimiterTypes
  <2> QED
    BY <2>1, <2>2, <2>3 DEF LimiterInit, LimiterInv, BudgetInv
<1>2. LimiterInv /\ [LimiterNext]_limiterVars => LimiterInv'
  <2>1. CASE UNCHANGED limiterVars
    BY <2>1 DEF limiterVars, LimiterInv, LimiterTypes, MapBounded, BudgetInv, GivenAway, Bucketed
  <2> QED
    BY <2>1, LimiterTypesStep, MapBoundedStep, BudgetStep DEF LimiterInv
<1> QED
  BY <1>1, <1>2, PTL DEF LimiterSpec

(* The map of token buckets never outgrows resync_limiter_capacity, and no   *)
(* bucket holds more than its burst, for any calls of allow_resync and any   *)
(* clock.                                                                    *)
THEOREM LimiterTypeCorrect == LimiterSpec => []LimiterTypeOK
<1>1. LimiterInv => LimiterTypeOK
  BY DEF LimiterInv, LimiterTypes, MapBounded, LimiterTypeOK, Buckets
<1> QED
  BY <1>1, LimiterInvariant, PTL

(* allow_resync keeps each DID within its rate, whatever the rate, the burst *)
(* and the calls in flight: the resyncs a bucket allowed exceed the burst    *)
(* and what came back only by the staleness of the readings of the clock.    *)
THEOREM LimiterBudget == LimiterSpec => []ResyncBudgetHolds
<1>1. LimiterInv => ResyncBudgetHolds
  <2> SUFFICES ASSUME LimiterInv, NEW d \in ResyncDids
      PROVE  level[d] <= Burst + PerTick * credit[d]
    BY DEF ResyncBudgetHolds
  <2>1. level[d] \in Nat /\ credit[d] \in Nat /\ PerTick * credit[d] \in Nat
    BY LimiterNumbers, RateTimes DEF LimiterInv, LimiterTypes
  <2>2. CASE d \notin Bucketed
    BY <2>1, <2>2, LimiterNumbers DEF LimiterInv, BudgetInv
  <2>3. CASE d \in Bucketed
    <3>1. level[d] <= GivenAway(d) + PerTick * credit[d]
      BY <2>3 DEF LimiterInv, BudgetInv
    <3>2. buckets[d].tokens \in Nat /\ buckets[d].last_refill \in Nat /\ clock \in Nat
      BY <2>3, LimiterNumbers DEF LimiterInv, LimiterTypes, Bucketed, Buckets
    <3>3. Pos(clock - buckets[d].last_refill) \in Nat
      BY <3>2 DEF Pos
    <3>4. PerTick * Pos(clock - buckets[d].last_refill) \in Nat
      BY <3>3, LimiterNumbers, RateTimes
    <3>5. GivenAway(d) \in Nat /\ GivenAway(d) <= Burst
      <4> DEFINE x == PerTick * Pos(clock - buckets[d].last_refill)
      <4>1. GivenAway(d) = Pos(Burst - buckets[d].tokens - x)
        BY DEF GivenAway
      <4>2. x \in Nat
        BY <3>4
      <4> HIDE DEF x
      <4> QED
        BY <3>2, <4>1, <4>2, LimiterNumbers DEF Pos
    <3> QED
      BY <2>1, <3>1, <3>5, LimiterNumbers
  <2> QED BY <2>2, <2>3
<1> QED
  BY <1>1, LimiterInvariant, PTL

-----------------------------------------------------------------------------
(* The OAuth client. *)

Asking == {"sent", "answered", "retry"}

(* The pcs of a callback that has exchanged its code. *)
NewTokens == {"check", "undo", "old", "supersede", "clear", "store"}

RequestStates ==
  [pc : Asking, what : Requests, grant : Grants, number : 0..MaxNumber, tries : {1, 2},
   nonce : 0..MaxEpoch, answer : Answers]
HoldStates ==
  [pc : {"check", "undo", "old", "clear", "store", "save", "verify"}, tokens : TokenSets]
CallStates ==
  {Returned} \cup [pc : {"delete"}] \cup RequestStates \cup HoldStates
    \cup [pc : {"supersede"}, tokens : TokenSets, old : Grants]
    \cup [pc : {"wait"}, seen : TokenSets] \cup [pc : {"revoke"}, grant : Grants]

(* A call in state x is refreshing; of which grant. *)
Refreshes(x) == x.pc \in {"verify", "save"} \/ (x.pc \in Asking /\ x.what = "refresh")
RefGrant(x) == IF x.pc \in Asking THEN x.grant ELSE x.tokens.grant

(* An answer with tokens has not been received yet. *)
HasTokens(x) == x.pc = "answered" /\ x.answer \in TokenAnswers

(* A call in state x is redeeming the code of g, or has and not stored it. *)
Redeems(x, g) ==
  \/ x.pc \in Asking /\ x.what = "exchange" /\ x.grant = g
  \/ x.pc \in NewTokens /\ x.tokens.grant = g

(* A call in state x has the successor of refresh token n of g. *)
Succeeds(x, g, n) ==
  \/ HasTokens(x) /\ x.what = "refresh" /\ x.grant = g /\ x.number = n
  \/ x.pc = "save" /\ x.tokens.grant = g /\ x.tokens.number = n + 1

(* What a call in state x knows of numbers, nonces up to e and grants up to b. *)
CallFits(x, e, b) ==
  /\ x.pc \in Asking =>
       /\ x.nonce <= e
       /\ x.what = "par" => x.grant <= b /\ x.answer \notin TokenAnswers
       /\ x.what = "refresh" => x.number \in 1..(MaxNumber - 1)
  /\ x.pc \in NewTokens => x.tokens.number = 1
  /\ x.pc \in Holding => ~x.tokens.stale
  /\ x.pc = "verify" => x.tokens.number < MaxNumber

OAuthTypes ==
  /\ grants \in [Grants -> [issued : 0..MaxNumber, revoked : BOOLEAN]]
  /\ epoch \in 1..MaxEpoch /\ nonce \in 0..epoch
  /\ session \in TokenSets \cup {NoSession}
  /\ session # NoSession => (session.stale => session.number < MaxNumber)
  /\ begun \in 0..MaxGrants /\ states \subseteq 1..begun /\ approved \subseteq 1..begun
  /\ refreshLock \in Callers \cup {Nobody}
  /\ call \in [Callers -> CallStates] /\ \A c \in Callers : CallFits(call[c], epoch, begun)
  /\ oauthFaults \in Nat

LockInv == \A c \in Callers : (refreshLock = c) <=> Refreshes(call[c])

(* A call in state x has the tokens of the code it redeems. *)
Redeemed(x) == x.pc \in NewTokens \/ HasTokens(x)

(* A code not exchanged yet is in nobody's hands, one in a call's hands in   *)
(* no other's, neither stored nor refreshed, and exchanged at most once.     *)
CodeInv ==
  /\ \A g \in Grants : g > begun \/ g \in states =>
       grants[g].issued = 0 /\ \A c \in Callers : ~Redeems(call[c], g)
  /\ \A g \in Grants, c, d \in Callers : Redeems(call[c], g) /\ Redeems(call[d], g) => c = d
  /\ \A g \in Grants, c \in Callers : Redeems(call[c], g) =>
       /\ grants[g].issued = IF Redeemed(call[c]) THEN 1 ELSE 0
       /\ session # NoSession => session.grant # g
       /\ \A d \in Callers : Refreshes(call[d]) => RefGrant(call[d]) # g

(* Of the grants in gr, token n of g is the latest, or it is among those     *)
(* whose successor a fault destroyed.                                        *)
Current(gr, lost, g, n) == gr[g].issued = n \/ <<g, n>> \in lost

(* A refresh in state x presents such a token, or has the latest.            *)
RefreshFits(x, gr, lost) ==
  /\ gr[RefGrant(x)].issued >= 1
  /\ x.pc = "verify" => Current(gr, lost, x.tokens.grant, x.tokens.number)
  /\ x.pc = "save" => gr[x.tokens.grant].issued = x.tokens.number
  /\ x.pc \in Asking =>
       IF HasTokens(x) THEN gr[x.grant].issued = x.number + 1
       ELSE Current(gr, lost, x.grant, x.number)

(* The stored token is such a token too, or the refresh under way has its    *)
(* successor.                                                                *)
TokenInv ==
  /\ session # NoSession =>
       /\ grants[session.grant].issued >= 1
       /\ \/ Current(grants, orphaned, session.grant, session.number)
          \/ \E c \in Callers : Succeeds(call[c], session.grant, session.number)
  /\ \A c \in Callers : Refreshes(call[c]) => RefreshFits(call[c], grants, orphaned)
  /\ replayed \subseteq orphaned

(* Once signed out, nothing is stored and nothing refreshed. *)
OutInv ==
  out /\ ~raced => session = NoSession /\ \A c \in Callers : ~Refreshes(call[c])

(* What a call in state x read from the store is still s, and what it is     *)
(* about to delete was revoked if no request failed.                         *)
WindowFits(x, s, gr, failed) ==
  /\ Refreshes(x) => s # NoSession /\ s.grant = RefGrant(x)
  /\ x.pc = "supersede" => s # NoSession /\ s.grant = x.old
  /\ x.pc = "revoke" => s # NoSession /\ s.grant = x.grant
  /\ x.pc = "store" /\ failed = 0 => s = NoSession
  /\ x.pc \in {"clear", "delete"} /\ failed = 0 /\ s # NoSession => gr[s.grant].revoked

WindowInv ==
  ~raced => \A c \in Callers : WindowFits(call[c], session, grants, oauthFaults)

(* A call in state x holds tokens of g. *)
Keeps(x, g) == (x.pc \in Holding /\ x.tokens.grant = g) \/ (HasTokens(x) /\ x.grant = g)

(* A grant the server honours is stored or in the hands of a call. *)
StrayInv ==
  ~raced /\ oauthFaults = 0 =>
    \A g \in Grants : grants[g].issued > 0 /\ ~grants[g].revoked =>
      \/ session # NoSession /\ session.grant = g
      \/ \E c \in Callers : Keeps(call[c], g)

OAuthInv ==
  OAuthTypes /\ LockInv /\ CodeInv /\ TokenInv /\ OutInv /\ WindowInv /\ StrayInv

LEMMA OAuthNumbers ==
  MaxGrants \in Nat /\ MaxNumber \in Nat /\ MaxNumber >= 1 /\ MaxEpoch \in Nat /\ MaxEpoch >= 1
BY OAuthAssumption

(* The fields of a call's state. *)
LEMMA CallPlaces ==
  ASSUME NEW x \in CallStates
  PROVE  /\ x.pc \in Asking => x \in RequestStates
         /\ x.pc \in {"check", "undo", "old", "clear", "store", "save", "verify"} => x \in HoldStates
         /\ x.pc = "supersede" => x \in [pc : {"supersede"}, tokens : TokenSets, old : Grants]
         /\ x.pc = "wait" => x \in [pc : {"wait"}, seen : TokenSets]
         /\ x.pc = "revoke" => x \in [pc : {"revoke"}, grant : Grants]
         /\ x.pc \in Holding => x.tokens \in TokenSets
BY DEF CallStates, Asking, RequestStates, HoldStates, Returned, Holding

(* What the fields of a request and of a token set are. *)
LEMMA RequestFields ==
  ASSUME NEW x \in RequestStates
  PROVE  /\ x.pc \in Asking /\ x.what \in Requests /\ x.grant \in Grants /\ x.number \in 0..MaxNumber
         /\ x.tries \in {1, 2} /\ x.nonce \in 0..MaxEpoch /\ x.answer \in Answers
BY DEF RequestStates

LEMMA TokenFields ==
  ASSUME NEW t \in TokenSets
  PROVE  /\ t.grant \in Grants /\ t.number \in 1..MaxNumber
         /\ t # NoSession
BY SessionAssumption DEF TokenSets

(* A request as it is posted. *)
LEMMA PostedRequest ==
  ASSUME NEW w \in Requests, NEW g \in Grants, NEW n \in 0..MaxNumber, NEW k \in {1, 2},
         NEW e \in 0..MaxEpoch
  PROVE  /\ Posted(w, g, n, k, e) \in RequestStates
         /\ Posted(w, g, n, k, e).pc = "sent" /\ Posted(w, g, n, k, e).what = w
         /\ Posted(w, g, n, k, e).grant = g /\ Posted(w, g, n, k, e).number = n
         /\ Posted(w, g, n, k, e).nonce = e /\ Posted(w, g, n, k, e).answer = "none"
BY DEF Posted, RequestStates, Asking, Answers

(* The states a call moves to. *)
LEMMA CallKinds ==
  /\ Returned \in CallStates /\ [pc |-> "delete"] \in CallStates
  /\ RequestStates \subseteq CallStates /\ HoldStates \subseteq CallStates
  /\ \A t \in TokenSets : /\ [pc |-> "wait", seen |-> t] \in CallStates
                          /\ \A g \in Grants : [pc |-> "supersede", tokens |-> t, old |-> g] \in CallStates
  /\ \A g \in Grants : [pc |-> "revoke", grant |-> g] \in CallStates
BY DEF CallStates, HoldStates

(* One call moves; nonces and authorizations only go up. *)
LEMMA TypesMove ==
  ASSUME OAuthTypes, NEW c \in Callers, NEW y \in CallStates, call' = [call EXCEPT ![c] = y],
         epoch' = epoch, begun' \in Nat, begun' >= begun, CallFits(y, epoch, begun')
  PROVE  /\ call' \in [Callers -> CallStates]
         /\ \A d \in Callers : CallFits(call'[d], epoch', begun')
<1>1. call' \in [Callers -> CallStates]
  BY DEF OAuthTypes
<1>2. ASSUME NEW d \in Callers, d # c PROVE CallFits(call'[d], epoch', begun')
  <2>1. call'[d] = call[d] /\ CallFits(call[d], epoch, begun)
    BY <1>2 DEF OAuthTypes
  <2>2. call[d].pc \in Asking => call[d].grant \in Nat
    BY CallPlaces, OAuthNumbers DEF OAuthTypes, RequestStates, Grants
  <2> QED
    BY <2>1, <2>2, OAuthNumbers DEF CallFits, OAuthTypes
<1>3. call'[c] = y
  BY DEF OAuthTypes
<1> QED
  BY <1>1, <1>2, <1>3

(* A call moves and the rest keeps its type. *)
LEMMA TypesMoved ==
  ASSUME OAuthTypes, NEW c \in Callers, NEW y \in CallStates, call' = [call EXCEPT ![c] = y],
         epoch' = epoch, begun' \in 0..MaxGrants, begun' >= begun, CallFits(y, epoch, begun'),
         grants' \in [Grants -> [issued : 0..MaxNumber, revoked : BOOLEAN]],
         nonce' \in 0..epoch,
         session' \in TokenSets \cup {NoSession},
         session' # NoSession => (session'.stale => session'.number < MaxNumber),
         states' \subseteq 1..begun', approved' \subseteq 1..begun',
         refreshLock' \in Callers \cup {Nobody}, oauthFaults' \in Nat
  PROVE  OAuthTypes'
<1>1. begun' \in Nat
  BY OAuthNumbers
<1>2. /\ call' \in [Callers -> CallStates]
      /\ \A d \in Callers : CallFits(call'[d], epoch', begun')
  BY <1>1, TypesMove
<1>3. epoch' \in 1..MaxEpoch
  BY DEF OAuthTypes
<1> QED
  BY <1>2, <1>3 DEF OAuthTypes

(* What revoke_token leaves. *)
LEMMA RevokeTypes ==
  ASSUME OAuthTypes, NEW g \in Grants, Revoke(g)
  PROVE  /\ grants' \in [Grants -> [issued : 0..MaxNumber, revoked : BOOLEAN]]
         /\ oauthFaults' \in Nat /\ oauthFaults' >= oauthFaults
         /\ \A h \in Grants : grants'[h].issued = grants[h].issued
         /\ \A h \in Grants : grants[h].revoked => grants'[h].revoked
         /\ \A h \in Grants : h # g => grants'[h] = grants[h]
         /\ oauthFaults' = 0 => oauthFaults = 0 /\ grants'[g].revoked
<1>1. CASE grants' = [grants EXCEPT ![g].revoked = TRUE] /\ UNCHANGED oauthFaults
  <2>1. grants[g] \in [issued : 0..MaxNumber, revoked : BOOLEAN]
    BY DEF OAuthTypes
  <2> DEFINE r == [grants[g] EXCEPT !.revoked = TRUE]
  <2>2. r \in [issued : 0..MaxNumber, revoked : BOOLEAN] /\ r.issued = grants[g].issued /\ r.revoked = TRUE
    BY <2>1
  <2>3. grants' = [grants EXCEPT ![g] = r]
    BY <1>1
  <2> HIDE DEF r
  <2>4. grants' \in [Grants -> [issued : 0..MaxNumber, revoked : BOOLEAN]]
    BY <2>2, <2>3 DEF OAuthTypes
  <2>5. grants'[g] = r /\ \A h \in Grants : h # g => grants'[h] = grants[h]
    BY <2>3 DEF OAuthTypes
  <2>6. grants'[g].revoked
    BY <2>2, <2>5
  <2>7. \A h \in Grants : grants[h].revoked => grants'[h].revoked
    BY <2>5, <2>6, Zenon
  <2>8. \A h \in Grants : grants'[h].issued = grants[h].issued
    BY <2>2, <2>5
  <2>9. oauthFaults' = oauthFaults /\ oauthFaults \in Nat
    BY <1>1 DEF OAuthTypes
  <2> QED
    BY <2>4, <2>5, <2>6, <2>7, <2>8, <2>9
<1>2. CASE OAuthFault /\ UNCHANGED grants
  BY <1>2 DEF OAuthTypes, OAuthFault
<1> QED
  BY <1>1, <1>2 DEF Revoke

LEMMA ReturnedFits == \A e, b : CallFits(Returned, e, b)
BY DEF CallFits, Returned, Asking, NewTokens, Holding

(* The refresh lock after a call returns or goes on. *)
LEMMA LockTypes ==
  ASSUME OAuthTypes, NEW c \in Callers
  PROVE  /\ Return(c) => refreshLock' \in Callers \cup {Nobody}
         /\ \A y : Goto(c, y) => refreshLock' \in Callers \cup {Nobody}
BY DEF OAuthTypes, Return, Goto

LEMMA CallbackTypes ==
  ASSUME OAuthTypes, NEW c \in Callers,
         \/ Authorize(c) \/ VerifyIssuer(c) \/ Undo(c) \/ ReadOld(c) \/ Supersede(c)
         \/ Clear(c) \/ Store(c) \/ \E g \in Grants : Callback(c, g)
  PROVE  OAuthTypes'
<1> DEFINE x == call[c]
<1>0. x \in CallStates /\ CallFits(x, epoch, begun) /\ begun \in Nat
  BY OAuthNumbers DEF OAuthTypes
<1>1. CASE Authorize(c)
  <2> DEFINE y == Posted("par", begun + 1, 0, 1, nonce)
  <2>1. begun + 1 \in Grants /\ begun' = begun + 1 /\ nonce \in 0..MaxEpoch
    BY <1>0, <1>1, OAuthNumbers DEF Authorize, Grants, OAuthTypes
  <2>2. y \in RequestStates /\ y.pc = "sent" /\ y.what = "par" /\ y.grant = begun + 1 /\ y.nonce = nonce
        /\ y.answer = "none"
    BY <2>1, PostedRequest, OAuthNumbers DEF Requests
  <2>3. y \in CallStates
    BY <2>2, CallKinds
  <2>4. CallFits(y, epoch, begun')
    <3> HIDE DEF y
    <3> QED BY <1>0, <2>1, <2>2, OAuthNumbers DEF CallFits, Asking, NewTokens, Holding, TokenAnswers, OAuthTypes
  <2>5. call' = [call EXCEPT ![c] = y] /\ refreshLock' = refreshLock
    BY <1>1 DEF Authorize, Goto
  <2> HIDE DEF y
  <2>6. states' \subseteq 1..begun' /\ approved' \subseteq 1..begun' /\ begun' \in 0..MaxGrants
    BY <1>0, <1>1, <2>1, OAuthNumbers DEF Authorize, OAuthTypes, Grants
  <2>7. /\ grants' = grants /\ nonce' = nonce /\ session' = session /\ oauthFaults' = oauthFaults
        /\ epoch' = epoch /\ begun' >= begun
    BY <1>0, <1>1 DEF Authorize
  <2> QED
    BY <1>0, <2>1, <2>3, <2>4, <2>5, <2>6, <2>7, TypesMoved DEF OAuthTypes
<1>2. ASSUME NEW g \in Grants, Callback(c, g) PROVE OAuthTypes'
  <2>1. PICK y \in {Returned, Posted("exchange", g, 0, 1, nonce)} : call' = [call EXCEPT ![c] = y]
    BY <1>2 DEF Callback, Return, Goto
  <2>2. y \in CallStates /\ CallFits(y, epoch, begun)
    <3>1. CASE y = Returned
      BY <3>1, CallKinds, ReturnedFits
    <3>2. CASE y = Posted("exchange", g, 0, 1, nonce)
      <4>1. nonce \in 0..MaxEpoch
        BY OAuthNumbers DEF OAuthTypes
      <4>2. y \in RequestStates /\ y.pc = "sent" /\ y.what = "exchange" /\ y.nonce = nonce
        BY <3>2, <4>1, PostedRequest, OAuthNumbers DEF Requests
      <4> QED
        BY <4>2, CallKinds, OAuthNumbers DEF CallFits, Asking, NewTokens, Holding, OAuthTypes
    <3> QED BY <2>1, <3>1, <3>2
  <2>3. refreshLock' \in Callers \cup {Nobody}
    BY <1>2 DEF Callback, Return, Goto, OAuthTypes
  <2>4. /\ states' \subseteq states /\ grants' = grants /\ nonce' = nonce /\ session' = session
        /\ oauthFaults' = oauthFaults /\ epoch' = epoch /\ approved' = approved /\ begun' = begun
    BY <1>2 DEF Callback
  <2> QED
    BY <1>0, <2>1, <2>2, <2>3, <2>4, TypesMoved DEF OAuthTypes
<1>3. CASE VerifyIssuer(c)
  <2>1. PICK next \in {"old", "undo"} : call' = [call EXCEPT ![c] = [x EXCEPT !.pc = next]]
    BY <1>3 DEF VerifyIssuer, Goto
  <2>2. x.pc = "check" /\ x \in HoldStates
    BY <1>0, <1>3, CallPlaces DEF VerifyIssuer
  <2> DEFINE y == [x EXCEPT !.pc = next]
  <2>3. y \in HoldStates /\ y.pc = next /\ y.tokens = x.tokens
    BY <2>1, <2>2 DEF HoldStates
  <2>4. y \in CallStates /\ CallFits(y, epoch, begun)
    <3> HIDE DEF y
    <3> QED BY <1>0, <2>1, <2>2, <2>3, CallKinds DEF CallFits, Asking, NewTokens, Holding
  <2>5. /\ UNCHANGED <<grants, epoch, session, states, approved, begun, nonce, oauthFaults, refreshLock>>
        /\ call' = [call EXCEPT ![c] = y]
    BY <1>3, <2>1 DEF VerifyIssuer, Goto
  <2> HIDE DEF y
  <2> QED
    BY <1>0, <2>4, <2>5, TypesMoved DEF OAuthTypes
<1>4. CASE Undo(c)
  <2>1. x.pc = "undo" /\ x.tokens \in TokenSets
    BY <1>0, <1>4, CallPlaces DEF Undo, Holding
  <2>2. Revoke(x.tokens.grant) /\ x.tokens.grant \in Grants
    BY <1>4, <2>1, TokenFields DEF Undo
  <2>3. grants' \in [Grants -> [issued : 0..MaxNumber, revoked : BOOLEAN]] /\ oauthFaults' \in Nat
    BY <2>2, RevokeTypes
  <2>4. UNCHANGED <<epoch, session, states, approved, begun, nonce>>
        /\ call' = [call EXCEPT ![c] = Returned] /\ refreshLock' \in Callers \cup {Nobody}
    BY <1>4, LockTypes DEF Undo, Return
  <2> QED
    BY <1>0, <2>3, <2>4, ReturnedFits, CallKinds, TypesMoved DEF OAuthTypes
<1>5. CASE ReadOld(c)
  <2>1. x.pc = "old" /\ x \in HoldStates /\ x.tokens \in TokenSets /\ x.tokens.number = 1 /\ ~x.tokens.stale
    BY <1>0, <1>5, CallPlaces DEF ReadOld, CallFits, NewTokens, Holding
  <2>2. PICK y : /\ call' = [call EXCEPT ![c] = y]
                 /\ \/ y = [x EXCEPT !.pc = "clear"]
                    \/ session # NoSession /\ y = [pc |-> "supersede", tokens |-> x.tokens, old |-> session.grant]
    BY <1>5 DEF ReadOld, Goto
  <2>5. y \in CallStates /\ CallFits(y, epoch, begun)
    <3>1. CASE y = [x EXCEPT !.pc = "clear"]
      <4>1. y \in HoldStates /\ y.pc = "clear" /\ y.tokens = x.tokens
        BY <2>1, <3>1 DEF HoldStates
      <4> QED
        BY <2>1, <4>1, CallKinds DEF CallFits, Asking, NewTokens, Holding
    <3>2. CASE session # NoSession /\ y = [pc |-> "supersede", tokens |-> x.tokens, old |-> session.grant]
      <4>1. session.grant \in Grants
        BY <3>2, TokenFields DEF OAuthTypes
      <4> QED
        BY <2>1, <3>2, <4>1, CallKinds DEF CallFits, Asking, NewTokens, Holding
    <3> QED BY <2>2, <3>1, <3>2
  <2>6. UNCHANGED <<grants, epoch, session, states, approved, begun, nonce, refreshLock>> /\ oauthFaults' \in Nat
    BY <1>5 DEF ReadOld, Goto, OAuthFault, OAuthTypes
  <2> QED
    BY <1>0, <2>2, <2>5, <2>6, TypesMoved DEF OAuthTypes
<1>6. CASE Supersede(c)
  <2>1. x.pc = "supersede" /\ x.tokens \in TokenSets /\ x.tokens.number = 1 /\ ~x.tokens.stale /\ x.old \in Grants
    BY <1>0, <1>6, CallPlaces DEF Supersede, CallFits, NewTokens, Holding
  <2>2. grants' \in [Grants -> [issued : 0..MaxNumber, revoked : BOOLEAN]] /\ oauthFaults' \in Nat
    BY <1>6, <2>1, RevokeTypes DEF Supersede
  <2> DEFINE y == [pc |-> "clear", tokens |-> x.tokens]
  <2>3. y \in CallStates /\ CallFits(y, epoch, begun)
    BY <2>1, CallKinds DEF HoldStates, CallFits, Asking, NewTokens, Holding
  <2>4. UNCHANGED <<epoch, session, states, approved, begun, nonce, refreshLock>>
        /\ call' = [call EXCEPT ![c] = y]
    BY <1>6 DEF Supersede, Goto
  <2> HIDE DEF y
  <2> QED
    BY <1>0, <2>2, <2>3, <2>4, TypesMoved DEF OAuthTypes
<1>7. CASE Clear(c)
  <2>1. x.pc = "clear" /\ x \in HoldStates /\ x.tokens.number = 1 /\ ~x.tokens.stale
    BY <1>0, <1>7, CallPlaces DEF Clear, CallFits, NewTokens, Holding
  <2> DEFINE y == [x EXCEPT !.pc = "store"]
  <2>2. y \in HoldStates /\ y.pc = "store" /\ y.tokens = x.tokens
    BY <2>1 DEF HoldStates
  <2>3. UNCHANGED <<grants, epoch, states, approved, begun, nonce, refreshLock>>
        /\ call' = [call EXCEPT ![c] = y]
    BY <1>7 DEF Clear, Goto
  <2> HIDE DEF y
  <2>4. y \in CallStates /\ CallFits(y, epoch, begun)
    BY <2>1, <2>2, CallKinds DEF CallFits, Asking, NewTokens, Holding
  <2>5. session' \in {session, NoSession} /\ oauthFaults' \in Nat
    BY <1>7 DEF Clear, OAuthFault, OAuthTypes
  <2> QED
    BY <1>0, <2>3, <2>4, <2>5, TypesMoved DEF OAuthTypes
<1>8. CASE Store(c)
  <2>1. x.pc = "store" /\ x.tokens \in TokenSets /\ x.tokens.number = 1 /\ ~x.tokens.stale
    BY <1>0, <1>8, CallPlaces DEF Store, CallFits, NewTokens, Holding
  <2>2. UNCHANGED <<grants, epoch, states, approved, begun, nonce>>
        /\ call' = [call EXCEPT ![c] = Returned] /\ refreshLock' \in Callers \cup {Nobody}
    BY <1>8, LockTypes DEF Store, Return
  <2>3. session' \in {session, x.tokens} /\ oauthFaults' \in Nat
    BY <1>8 DEF Store, OAuthFault, OAuthTypes
  <2>4. session' # NoSession => (session'.stale => session'.number < MaxNumber)
    BY <2>1, <2>3 DEF OAuthTypes
  <2> QED
    BY <1>0, <2>1, <2>2, <2>3, <2>4, ReturnedFits, CallKinds, TypesMoved DEF OAuthTypes
<1> QED
  BY <1>1, <1>2, <1>3, <1>4, <1>5, <1>6, <1>7, <1>8

(* The tokens of an answer. *)
LEMMA TokensOf ==
  ASSUME NEW x \in RequestStates,
         x.what = "refresh" => x.number \in 1..(MaxNumber - 1)
  PROVE  /\ Tokens(x) \in TokenSets /\ Tokens(x).grant = x.grant /\ ~Tokens(x).stale
         /\ Tokens(x).number = IF x.what = "refresh" THEN x.number + 1 ELSE 1
<1>1. (IF x.what = "refresh" THEN x.number + 1 ELSE 1) \in 1..MaxNumber
  BY RequestFields, OAuthNumbers
<1>2. (x.answer = "renewable") \in BOOLEAN
  OBVIOUS
<1> QED
  BY <1>1, <1>2, RequestFields DEF Tokens, TokenSets

LEMMA SessionTypes ==
  ASSUME OAuthTypes, NEW c \in Callers,
         \/ GetSession(c) \/ LockAndReread(c) \/ Refresh(c) \/ Save(c)
         \/ SignOut(c) \/ SignOutRevoke(c) \/ SignOutDelete(c)
  PROVE  OAuthTypes'
<1> DEFINE x == call[c]
<1>0. x \in CallStates /\ CallFits(x, epoch, begun) /\ begun \in Nat
  BY OAuthNumbers DEF OAuthTypes
<1>1. CASE GetSession(c)
  <2> DEFINE y == [pc |-> "wait", seen |-> session]
  <2>1. y \in CallStates /\ CallFits(y, epoch, begun)
    BY <1>1, CallKinds DEF GetSession, OAuthTypes, CallFits, Asking, NewTokens, Holding
  <2>2. /\ UNCHANGED <<grants, epoch, session, states, approved, begun, nonce, oauthFaults, refreshLock>>
        /\ call' = [call EXCEPT ![c] = y]
    BY <1>1 DEF GetSession, Goto
  <2> HIDE DEF y
  <2> QED
    BY <1>0, <2>1, <2>2, TypesMoved DEF OAuthTypes
<1>2. CASE LockAndReread(c)
  <2>1. PICK y : /\ call' = [call EXCEPT ![c] = y]
                 /\ \/ y = Returned
                    \/ session # NoSession /\ session.stale /\ y = [pc |-> "verify", tokens |-> session]
    BY <1>2 DEF LockAndReread, Return
  <2>4. y \in CallStates /\ CallFits(y, epoch, begun)
    <3>1. CASE y = Returned
      BY <3>1, CallKinds, ReturnedFits
    <3>2. CASE session # NoSession /\ session.stale /\ y = [pc |-> "verify", tokens |-> session]
      <4>1. session \in TokenSets /\ session.number < MaxNumber
        BY <3>2 DEF OAuthTypes
      <4>2. y \in HoldStates /\ y.pc = "verify" /\ y.tokens = session
        BY <3>2, <4>1 DEF HoldStates
      <4> QED
        BY <4>1, <4>2, CallKinds DEF CallFits, Asking, NewTokens, Holding
    <3> QED BY <2>1, <3>1, <3>2
  <2>5. /\ UNCHANGED <<grants, epoch, session, states, approved, begun, nonce, oauthFaults>>
        /\ refreshLock' \in Callers \cup {Nobody}
    BY <1>2 DEF LockAndReread, Return, OAuthTypes
  <2> QED
    BY <1>0, <2>1, <2>4, <2>5, TypesMoved DEF OAuthTypes
<1>3. CASE Refresh(c)
  <2>1. x.pc = "verify" /\ x.tokens \in TokenSets /\ x.tokens.number < MaxNumber
    BY <1>0, <1>3, CallPlaces DEF Refresh, HoldStates, CallFits
  <2>2. PICK y : /\ call' = [call EXCEPT ![c] = y]
                 /\ y = Returned \/ y = Posted("refresh", x.tokens.grant, x.tokens.number, 1, nonce)
    BY <1>3 DEF Refresh, Goto, Return
  <2>3. ASSUME y = Posted("refresh", x.tokens.grant, x.tokens.number, 1, nonce)
        PROVE  y \in CallStates /\ CallFits(y, epoch, begun)
    <3>1. /\ x.tokens.grant \in Grants /\ x.tokens.number \in 1..(MaxNumber - 1)
          /\ x.tokens.number \in 0..MaxNumber /\ nonce \in 0..MaxEpoch /\ nonce <= epoch
      BY <2>1, TokenFields, OAuthNumbers DEF OAuthTypes
    <3>2. y \in RequestStates /\ y.pc = "sent" /\ y.what = "refresh" /\ y.number = x.tokens.number /\ y.nonce = nonce
      BY <2>3, <3>1, PostedRequest DEF Requests
    <3> QED
      BY <3>1, <3>2, CallKinds DEF CallFits, Asking, NewTokens, Holding
  <2>4. y \in CallStates /\ CallFits(y, epoch, begun)
    BY <2>2, <2>3, CallKinds, ReturnedFits
  <2>5. /\ UNCHANGED <<grants, epoch, session, states, approved, begun, nonce, oauthFaults>>
        /\ refreshLock' \in Callers \cup {Nobody}
    BY <1>3 DEF Refresh, Return, Goto, OAuthTypes
  <2> QED
    BY <1>0, <2>2, <2>4, <2>5, TypesMoved DEF OAuthTypes
<1>4. CASE Save(c)
  <2>1. x.pc = "save" /\ x.tokens \in TokenSets /\ ~x.tokens.stale
    BY <1>0, <1>4, CallPlaces DEF Save, CallFits, Holding
  <2>2. UNCHANGED <<grants, epoch, states, approved, begun, nonce>>
        /\ call' = [call EXCEPT ![c] = Returned] /\ refreshLock' \in Callers \cup {Nobody}
    BY <1>4, LockTypes DEF Save, Return
  <2>3. session' \in {session, x.tokens} /\ oauthFaults' \in Nat
    BY <1>4 DEF Save, OAuthFault, OAuthTypes
  <2>4. session' # NoSession => (session'.stale => session'.number < MaxNumber)
    BY <2>1, <2>3 DEF OAuthTypes
  <2> QED
    BY <1>0, <2>1, <2>2, <2>3, <2>4, ReturnedFits, CallKinds, TypesMoved DEF OAuthTypes
<1>5. CASE SignOut(c)
  <2> DEFINE y == IF session = NoSession THEN [pc |-> "delete"] ELSE [pc |-> "revoke", grant |-> session.grant]
  <2>1. session # NoSession => session.grant \in Grants
    BY TokenFields DEF OAuthTypes
  <2>2. y \in CallStates /\ CallFits(y, epoch, begun)
    BY <2>1, CallKinds DEF CallFits, Asking, NewTokens, Holding
  <2>3. /\ UNCHANGED <<grants, epoch, session, states, approved, begun, nonce, oauthFaults, refreshLock>>
        /\ call' = [call EXCEPT ![c] = y]
    BY <1>5 DEF SignOut, Goto
  <2> HIDE DEF y
  <2> QED
    BY <1>0, <2>2, <2>3, TypesMoved DEF OAuthTypes
<1>6. CASE SignOutRevoke(c)
  <2>1. x.pc = "revoke" /\ x.grant \in Grants
    BY <1>0, <1>6, CallPlaces DEF SignOutRevoke
  <2>2. grants' \in [Grants -> [issued : 0..MaxNumber, revoked : BOOLEAN]] /\ oauthFaults' \in Nat
    BY <1>6, <2>1, RevokeTypes DEF SignOutRevoke
  <2> DEFINE y == [pc |-> "delete"]
  <2>3. y \in CallStates /\ CallFits(y, epoch, begun)
    BY CallKinds DEF CallFits, Asking, NewTokens, Holding
  <2>4. UNCHANGED <<epoch, session, states, approved, begun, nonce, refreshLock>>
        /\ call' = [call EXCEPT ![c] = y]
    BY <1>6 DEF SignOutRevoke, Goto
  <2> HIDE DEF y
  <2> QED
    BY <1>0, <2>2, <2>3, <2>4, TypesMoved DEF OAuthTypes
<1>7. CASE SignOutDelete(c)
  <2>1. UNCHANGED <<grants, epoch, states, approved, begun, nonce>>
        /\ call' = [call EXCEPT ![c] = Returned] /\ refreshLock' \in Callers \cup {Nobody}
    BY <1>7, LockTypes DEF SignOutDelete, Return
  <2>2. session' \in {session, NoSession} /\ oauthFaults' \in Nat
    BY <1>7 DEF SignOutDelete, OAuthFault, OAuthTypes
  <2> QED
    BY <1>0, <2>1, <2>2, ReturnedFits, CallKinds, TypesMoved DEF OAuthTypes
<1> QED
  BY <1>1, <1>2, <1>3, <1>4, <1>5, <1>6, <1>7

(* What the server does to the grant it issues tokens of. *)
LEMMA IssueTypes ==
  ASSUME OAuthTypes, NEW g \in Grants, grants[g].issued < MaxNumber,
         grants' = [grants EXCEPT ![g].issued = @ + 1]
  PROVE  /\ grants' \in [Grants -> [issued : 0..MaxNumber, revoked : BOOLEAN]]
         /\ grants'[g].issued = grants[g].issued + 1 /\ grants'[g].revoked = grants[g].revoked
         /\ \A h \in Grants : h # g => grants'[h] = grants[h]
<1>1. grants[g] \in [issued : 0..MaxNumber, revoked : BOOLEAN]
  BY DEF OAuthTypes
<1> DEFINE r == [grants[g] EXCEPT !.issued = @ + 1]
<1>2. r \in [issued : 0..MaxNumber, revoked : BOOLEAN] /\ r.issued = grants[g].issued + 1
      /\ r.revoked = grants[g].revoked
  BY <1>1, OAuthNumbers
<1>3. grants' = [grants EXCEPT ![g] = r]
  OBVIOUS
<1> HIDE DEF r
<1> QED
  BY <1>2, <1>3 DEF OAuthTypes

(* How the server answers: r is the request, a the answer. *)
LEMMA ServeAnswers ==
  ASSUME OAuthTypes, NEW c \in Callers, Serve(c)
  PROVE  \E a \in Answers :
           /\ call[c].pc = "sent" /\ call[c] \in RequestStates
           /\ call' = [call EXCEPT ![c] = [call[c] EXCEPT !.pc = "answered", !.answer = a, !.nonce = epoch]]
           /\ refreshLock' = refreshLock
           /\ UNCHANGED <<epoch, session, states, begun, nonce, orphaned, out, raced, oauthFaults>>
           /\ approved' \subseteq approved \cup (IF call[c].what = "par" THEN {call[c].grant} ELSE {})
           /\ \/ a \notin TokenAnswers /\ grants' = grants
              \/ /\ a \in TokenAnswers /\ call[c].what \in {"exchange", "refresh"}
                 /\ grants' = [grants EXCEPT ![call[c].grant].issued = @ + 1]
                 /\ grants[call[c].grant].issued = (IF call[c].what = "refresh" THEN call[c].number ELSE 0)
           /\ \/ replayed' = replayed
              \/ /\ call[c].what = "refresh" /\ call[c].number < grants[call[c].grant].issued
                 /\ replayed' = replayed \cup {<<call[c].grant, call[c].number>>}
<1>1. call[c].pc = "sent" /\ call[c] \in RequestStates
  BY CallPlaces DEF Serve, OAuthTypes, Asking
<1>2. UNCHANGED <<epoch, session, states, begun, nonce, orphaned, out, raced, oauthFaults>>
  BY DEF Serve
<1> DEFINE r == call[c]
           Y(a) == [r EXCEPT !.pc = "answered", !.answer = a, !.nonce = epoch]
<1>3. \A a : Answer(c, a) => call' = [call EXCEPT ![c] = Y(a)] /\ refreshLock' = refreshLock
  BY DEF Answer, Goto
<1>4. Issue(c) => \E a \in TokenAnswers : Answer(c, a) /\ grants' = [grants EXCEPT ![r.grant].issued = @ + 1]
  BY DEF Issue
<1>5. /\ TokenAnswers \subseteq Answers
      /\ \A a \in {"use_dpop_nonce", "accepted", "refused"} : a \in Answers /\ a \notin TokenAnswers
  BY DEF Answers, TokenAnswers
<1>6. CASE r.nonce # epoch /\ Answer(c, "use_dpop_nonce") /\ UNCHANGED <<grants, approved, replayed>>
  <2> "use_dpop_nonce" \in Answers
    BY <1>5
  <2> WITNESS "use_dpop_nonce" \in Answers
  <2> QED
    BY <1>1, <1>2, <1>3, <1>5, <1>6
<1>7. CASE /\ r.nonce = epoch /\ r.what = "par" /\ approved' = approved \cup {r.grant}
           /\ Answer(c, "accepted") /\ UNCHANGED <<grants, replayed>>
  <2> "accepted" \in Answers
    BY <1>5
  <2> WITNESS "accepted" \in Answers
  <2> QED
    BY <1>1, <1>2, <1>3, <1>5, <1>7
<1>8. CASE /\ r.nonce = epoch /\ r.what = "exchange"
           /\ IF grants[r.grant].issued = 0 THEN Issue(c) ELSE Answer(c, "refused") /\ UNCHANGED grants
           /\ UNCHANGED <<approved, replayed>>
  <2>1. CASE grants[r.grant].issued = 0
    <3>1. PICK a \in TokenAnswers : Answer(c, a) /\ grants' = [grants EXCEPT ![r.grant].issued = @ + 1]
      BY <1>4, <1>8, <2>1
    <3>2. a \in Answers
      BY <1>5
    <3> WITNESS a \in Answers
    <3> HIDE DEF Y
    <3> QED
      BY <1>1, <1>2, <1>3, <1>8, <2>1, <3>1 DEF Y
  <2>2. CASE grants[r.grant].issued # 0
    <3> "refused" \in Answers
      BY <1>5
    <3> WITNESS "refused" \in Answers
    <3> QED
      BY <1>1, <1>2, <1>3, <1>5, <1>8, <2>2
  <2> QED BY <2>1, <2>2
<1>9. CASE /\ r.nonce = epoch /\ r.what = "refresh"
           /\ IF grants[r.grant].issued = r.number /\ ~grants[r.grant].revoked THEN Issue(c)
              ELSE Answer(c, "refused") /\ UNCHANGED grants
           /\ replayed' = IF r.number < grants[r.grant].issued
                          THEN replayed \cup {<<r.grant, r.number>>} ELSE replayed
           /\ UNCHANGED approved
  <2>0. \/ replayed' = replayed
        \/ r.number < grants[r.grant].issued /\ replayed' = replayed \cup {<<r.grant, r.number>>}
    BY <1>9
  <2>1. CASE grants[r.grant].issued = r.number /\ ~grants[r.grant].revoked
    <3>1. PICK a \in TokenAnswers : Answer(c, a) /\ grants' = [grants EXCEPT ![r.grant].issued = @ + 1]
      BY <1>4, <1>9, <2>1
    <3>2. a \in Answers
      BY <1>5
    <3> WITNESS a \in Answers
    <3> HIDE DEF Y
    <3> QED
      BY <1>1, <1>2, <1>3, <1>9, <2>0, <2>1, <3>1 DEF Y
  <2>2. CASE ~(grants[r.grant].issued = r.number /\ ~grants[r.grant].revoked)
    <3> "refused" \in Answers
      BY <1>5
    <3> WITNESS "refused" \in Answers
    <3> QED
      BY <1>1, <1>2, <1>3, <1>5, <1>9, <2>0, <2>2
  <2> QED BY <2>1, <2>2
<1> QED
  BY <1>6, <1>7, <1>8, <1>9 DEF Serve

(* Where a call goes when its answer arrives. *)
LEMMA ReceiveMoves ==
  ASSUME OAuthTypes, NEW c \in Callers, Receive(c)
  PROVE  \E y \in CallStates :
           /\ call[c].pc = "answered" /\ call[c] \in RequestStates
           /\ call' = [call EXCEPT ![c] = y] /\ nonce' = call[c].nonce
           /\ UNCHANGED <<grants, epoch, session, states, approved, begun, replayed, orphaned,
                          out, raced, oauthFaults>>
           /\ \/ /\ y = Returned /\ ~HasTokens(call[c])
                 /\ refreshLock' = IF refreshLock = c THEN Nobody ELSE refreshLock
              \/ /\ y \in RequestStates /\ y.pc = "retry" /\ y.what = call[c].what /\ y.answer = "none"
                 /\ y.grant = call[c].grant /\ y.number = call[c].number /\ y.nonce = call[c].nonce
                 /\ ~HasTokens(call[c]) /\ refreshLock' = refreshLock
              \/ /\ y \in HoldStates /\ y.tokens = Tokens(call[c])
                 /\ y.pc = (IF call[c].what = "refresh" THEN "save" ELSE "check")
                 /\ HasTokens(call[c]) /\ call[c].what \in {"exchange", "refresh"}
                 /\ refreshLock' = refreshLock
<1> DEFINE r == call[c]
<1>1. r.pc = "answered" /\ r \in RequestStates /\ CallFits(r, epoch, begun)
  BY CallPlaces DEF Receive, OAuthTypes, Asking
<1>2. /\ UNCHANGED <<grants, epoch, session, states, approved, begun, replayed, orphaned,
                     out, raced, oauthFaults>>
      /\ nonce' = r.nonce
  BY DEF Receive
<1>3. CASE r.answer = "use_dpop_nonce" /\ r.tries = 1 /\ Goto(c, [r EXCEPT !.pc = "retry", !.answer = "none"])
  <2> DEFINE y == [r EXCEPT !.pc = "retry", !.answer = "none"]
  <2>1. /\ y \in RequestStates /\ y.pc = "retry" /\ y.what = r.what /\ y.answer = "none"
        /\ y.grant = r.grant /\ y.number = r.number /\ y.nonce = r.nonce
    BY <1>1 DEF RequestStates, Asking, Answers
  <2>2. call' = [call EXCEPT ![c] = y] /\ refreshLock' = refreshLock
    BY <1>3 DEF Goto
  <2>3. ~HasTokens(r)
    BY <1>3 DEF HasTokens, TokenAnswers
  <2> HIDE DEF y
  <2> QED
    BY <1>1, <1>2, <2>1, <2>2, <2>3, CallKinds
<1>4. CASE /\ \/ r.answer = "use_dpop_nonce" /\ r.tries = 2
              \/ r.answer \in {"accepted", "refused"}
           /\ Return(c)
  <2>1. ~HasTokens(r)
    BY <1>4 DEF HasTokens, TokenAnswers
  <2> QED
    BY <1>1, <1>2, <1>4, <2>1, CallKinds DEF Return
<1>5. CASE /\ r.answer \in TokenAnswers
           /\ Goto(c, [pc |-> IF r.what = "refresh" THEN "save" ELSE "check", tokens |-> Tokens(r)])
  <2> DEFINE y == [pc |-> IF r.what = "refresh" THEN "save" ELSE "check", tokens |-> Tokens(r)]
  <2>1. Tokens(r) \in TokenSets
    BY <1>1, TokensOf DEF CallFits, Asking
  <2>2. y \in HoldStates /\ y.tokens = Tokens(r) /\ y.pc = IF r.what = "refresh" THEN "save" ELSE "check"
    BY <2>1 DEF HoldStates
  <2>3. call' = [call EXCEPT ![c] = y] /\ refreshLock' = refreshLock
    BY <1>5 DEF Goto
  <2>4. HasTokens(r) /\ r.what \in {"exchange", "refresh"}
    BY <1>1, <1>5, RequestFields DEF HasTokens, CallFits, Asking, Requests
  <2> HIDE DEF y
  <2> QED
    BY <1>1, <1>2, <2>2, <2>3, <2>4, CallKinds
<1> QED
  BY <1>3, <1>4, <1>5 DEF Receive

LEMMA RequestTypes ==
  ASSUME OAuthTypes, NEW c \in Callers, Receive(c) \/ Retry(c) \/ Serve(c) \/ Lose(c)
  PROVE  OAuthTypes'
<1> DEFINE x == call[c]
<1>0. x \in CallStates /\ CallFits(x, epoch, begun) /\ begun \in Nat /\ epoch \in 0..MaxEpoch
  BY OAuthNumbers DEF OAuthTypes
<1>1. CASE Receive(c)
  <2>1. PICK y \in CallStates :
           /\ x.pc = "answered" /\ x \in RequestStates
           /\ call' = [call EXCEPT ![c] = y] /\ nonce' = x.nonce
           /\ UNCHANGED <<grants, epoch, session, states, approved, begun, replayed, orphaned,
                          out, raced, oauthFaults>>
           /\ \/ /\ y = Returned /\ ~HasTokens(x)
                 /\ refreshLock' = IF refreshLock = c THEN Nobody ELSE refreshLock
              \/ /\ y \in RequestStates /\ y.pc = "retry" /\ y.what = x.what /\ y.answer = "none"
                 /\ y.grant = x.grant /\ y.number = x.number /\ y.nonce = x.nonce
                 /\ ~HasTokens(x) /\ refreshLock' = refreshLock
              \/ /\ y \in HoldStates /\ y.tokens = Tokens(x)
                 /\ y.pc = (IF x.what = "refresh" THEN "save" ELSE "check")
                 /\ HasTokens(x) /\ x.what \in {"exchange", "refresh"}
                 /\ refreshLock' = refreshLock
    BY <1>1, ReceiveMoves
  <2>2. nonce' \in 0..epoch
    BY <1>0, <2>1, RequestFields, OAuthNumbers DEF CallFits, Asking
  <2>3. CallFits(y, epoch, begun)
    <3>1. CASE y = Returned
      BY <3>1, ReturnedFits
    <3>2. CASE /\ y \in RequestStates /\ y.pc = "retry" /\ y.what = x.what /\ y.answer = "none"
               /\ y.grant = x.grant /\ y.number = x.number /\ y.nonce = x.nonce
      BY <1>0, <2>1, <3>2 DEF CallFits, Asking, NewTokens, Holding, TokenAnswers
    <3>3. CASE /\ y \in HoldStates /\ y.tokens = Tokens(x)
               /\ y.pc = (IF x.what = "refresh" THEN "save" ELSE "check")
      <4>1. ~Tokens(x).stale /\ (x.what # "refresh" => Tokens(x).number = 1)
        BY <1>0, <2>1, TokensOf DEF CallFits, Asking
      <4> QED
        BY <3>3, <4>1 DEF CallFits, Asking, NewTokens, Holding
    <3> QED BY <2>1, <3>1, <3>2, <3>3
  <2>4. refreshLock' \in Callers \cup {Nobody}
    BY <2>1 DEF OAuthTypes
  <2> QED
    BY <1>0, <2>1, <2>2, <2>3, <2>4, TypesMoved DEF OAuthTypes
<1>2. CASE Retry(c)
  <2> DEFINE y == Posted(x.what, x.grant, x.number, 2, nonce)
  <2>1. x.pc = "retry" /\ x \in RequestStates
    BY <1>0, <1>2, CallPlaces DEF Retry, Asking
  <2>2. nonce \in 0..MaxEpoch /\ nonce <= epoch
    BY OAuthNumbers DEF OAuthTypes
  <2>3. /\ y \in RequestStates /\ y.pc = "sent" /\ y.what = x.what /\ y.grant = x.grant
        /\ y.number = x.number /\ y.nonce = nonce /\ y.answer = "none"
    BY <2>1, <2>2, RequestFields, PostedRequest
  <2>4. /\ UNCHANGED <<grants, epoch, session, states, approved, begun, nonce, oauthFaults, refreshLock>>
        /\ call' = [call EXCEPT ![c] = y]
    BY <1>2 DEF Retry, Goto
  <2> HIDE DEF y
  <2>5. y \in CallStates /\ CallFits(y, epoch, begun)
    BY <1>0, <2>1, <2>2, <2>3, CallKinds DEF CallFits, Asking, NewTokens, Holding, TokenAnswers
  <2> QED
    BY <1>0, <2>4, <2>5, TypesMoved DEF OAuthTypes
<1>3. CASE Serve(c)
  <2>1. PICK a \in Answers :
           /\ x.pc = "sent" /\ x \in RequestStates
           /\ call' = [call EXCEPT ![c] = [x EXCEPT !.pc = "answered", !.answer = a, !.nonce = epoch]]
           /\ refreshLock' = refreshLock
           /\ UNCHANGED <<epoch, session, states, begun, nonce, orphaned, out, raced, oauthFaults>>
           /\ approved' \subseteq approved \cup (IF x.what = "par" THEN {x.grant} ELSE {})
           /\ \/ a \notin TokenAnswers /\ grants' = grants
              \/ /\ a \in TokenAnswers /\ x.what \in {"exchange", "refresh"}
                 /\ grants' = [grants EXCEPT ![x.grant].issued = @ + 1]
                 /\ grants[x.grant].issued = (IF x.what = "refresh" THEN x.number ELSE 0)
    BY <1>3, ServeAnswers
  <2> DEFINE y == [x EXCEPT !.pc = "answered", !.answer = a, !.nonce = epoch]
  <2>2. /\ y \in RequestStates /\ y.pc = "answered" /\ y.answer = a /\ y.nonce = epoch
        /\ y.what = x.what /\ y.grant = x.grant /\ y.number = x.number
    <3>1. x \in RequestStates
      BY <2>1
    <3> HIDE DEF x
    <3> QED
      BY <1>0, <2>1, <3>1 DEF RequestStates, Asking
  <2>3. call' = [call EXCEPT ![c] = y]
    BY <2>1
  <2> HIDE DEF y
  <2>4. y \in CallStates /\ CallFits(y, epoch, begun)
    BY <1>0, <2>1, <2>2, CallKinds, OAuthNumbers DEF CallFits, Asking, NewTokens, Holding
  <2>5. grants' \in [Grants -> [issued : 0..MaxNumber, revoked : BOOLEAN]]
    <3>1. CASE grants' = grants
      BY <3>1 DEF OAuthTypes
    <3>2. CASE /\ grants' = [grants EXCEPT ![x.grant].issued = @ + 1]
               /\ grants[x.grant].issued = (IF x.what = "refresh" THEN x.number ELSE 0)
      <4>1. x.grant \in Grants /\ grants[x.grant].issued < MaxNumber
        BY <1>0, <2>1, <3>2, RequestFields, OAuthNumbers DEF CallFits, Asking
      <4> QED
        BY <3>2, <4>1, IssueTypes
    <3> QED BY <2>1, <3>1, <3>2
  <2>6. approved' \subseteq 1..begun'
    <3>1. x.what = "par" => x.grant \in 1..begun
      BY <1>0, <2>1, RequestFields, OAuthNumbers DEF CallFits, Asking, Grants
    <3> QED
      BY <2>1, <3>1 DEF OAuthTypes
  <2> QED
    BY <1>0, <2>1, <2>3, <2>4, <2>5, <2>6, TypesMoved DEF OAuthTypes
<1>4. CASE Lose(c)
  <2>1. x.pc \in Asking /\ x \in RequestStates
    BY <1>0, <1>4, CallPlaces DEF Lose, Asking
  <2>2. UNCHANGED <<grants, epoch, session, states, approved, begun>>
        /\ call' = [call EXCEPT ![c] = Returned] /\ refreshLock' \in Callers \cup {Nobody}
    BY <1>4, LockTypes DEF Lose, Return
  <2>3. nonce' \in {nonce, x.nonce} /\ oauthFaults' \in Nat
    BY <1>4 DEF Lose, OAuthFault, OAuthTypes
  <2>4. nonce' \in 0..epoch
    BY <1>0, <2>1, <2>3, RequestFields, OAuthNumbers DEF CallFits, OAuthTypes
  <2> QED
    BY <1>0, <2>2, <2>3, <2>4, ReturnedFits, CallKinds, TypesMoved DEF OAuthTypes
<1> QED
  BY <1>1, <1>2, <1>3, <1>4

LEMMA OtherTypes ==
  ASSUME OAuthTypes, RotateNonce \/ Expire \/ Restarts
  PROVE  OAuthTypes'
<1>1. CASE RotateNonce
  <2>1. \A d \in Callers : CallFits(call[d], epoch + 1, begun)
    <3> SUFFICES ASSUME NEW d \in Callers PROVE CallFits(call[d], epoch + 1, begun)
      OBVIOUS
    <3>1. CallFits(call[d], epoch, begun) /\ call[d] \in CallStates /\ epoch \in Nat
      BY OAuthNumbers DEF OAuthTypes
    <3>2. call[d].pc \in Asking => call[d].nonce \in Nat
      BY <3>1, CallPlaces, RequestFields, OAuthNumbers
    <3> QED
      BY <3>1, <3>2 DEF CallFits
  <2>2. epoch' = epoch + 1 /\ epoch' \in 1..MaxEpoch /\ nonce \in 0..epoch'
    BY <1>1, OAuthNumbers DEF RotateNonce, OAuthTypes
  <2>3. UNCHANGED <<grants, session, states, approved, begun, nonce, refreshLock, call, oauthFaults>>
    BY <1>1 DEF RotateNonce
  <2> QED
    BY <2>1, <2>2, <2>3 DEF OAuthTypes
<1>2. CASE Expire
  <2>1. session' = [session EXCEPT !.stale = TRUE] /\ session \in TokenSets /\ session.number < MaxNumber
    BY <1>2 DEF Expire, OAuthTypes
  <2>2. session' \in TokenSets /\ session'.number < MaxNumber
    BY <2>1 DEF TokenSets
  <2>3. UNCHANGED <<grants, epoch, states, approved, begun, nonce, refreshLock, call, oauthFaults>>
    BY <1>2 DEF Expire
  <2> QED
    BY <2>2, <2>3 DEF OAuthTypes
<1>3. CASE Restarts
  <2>1. call' = [d \in Callers |-> Returned]
    BY <1>3 DEF Restarts
  <2>2. call' \in [Callers -> CallStates] /\ \A d \in Callers : CallFits(call'[d], epoch, begun)
    BY <2>1, CallKinds, ReturnedFits
  <2>3. UNCHANGED <<grants, epoch, approved, begun>> /\ nonce' = 0 /\ refreshLock' = Nobody
        /\ oauthFaults' = oauthFaults + 1
    BY <1>3 DEF Restarts, OAuthFault
  <2>4. session' \in {session, NoSession} /\ states' \in {states, {}}
    BY <1>3 DEF Restarts
  <2>5. nonce' \in 0..epoch
    BY <2>3, OAuthNumbers DEF OAuthTypes
  <2> QED
    BY <2>2, <2>3, <2>4, <2>5 DEF OAuthTypes
<1> QED
  BY <1>1, <1>2, <1>3

LEMMA OAuthTypesStep ==
  ASSUME OAuthTypes, OAuthNext
  PROVE  OAuthTypes'
BY CallbackTypes, SessionTypes, RequestTypes, OtherTypes DEF OAuthNext, CallStep

(* One call moves: the others stay where they are. *)
LEMMA OneMoves ==
  ASSUME OAuthTypes, NEW c \in Callers, NEW y, call' = [call EXCEPT ![c] = y]
  PROVE  call'[c] = y /\ \A d \in Callers : d # c => call'[d] = call[d]
BY DEF OAuthTypes

LEMMA LockMove ==
  ASSUME OAuthTypes, LockInv, NEW c \in Callers, NEW y, call' = [call EXCEPT ![c] = y],
         \/ refreshLock' = refreshLock /\ (Refreshes(y) <=> Refreshes(call[c]))
         \/ refreshLock' = (IF refreshLock = c THEN Nobody ELSE refreshLock) /\ ~Refreshes(y)
         \/ refreshLock = Nobody /\ refreshLock' = c /\ Refreshes(y)
  PROVE  LockInv'
<1>1. Nobody \notin Callers
  BY OAuthAssumption
<1>2. call'[c] = y /\ \A d \in Callers : d # c => call'[d] = call[d]
  BY OneMoves
<1>3. (refreshLock' = c) <=> Refreshes(y)
  BY <1>1 DEF LockInv
<1>4. \A d \in Callers : d # c => ((refreshLock' = d) <=> (refreshLock = d))
  BY <1>1 DEF LockInv
<1> SUFFICES ASSUME NEW d \in Callers PROVE (refreshLock' = d) <=> Refreshes(call'[d])
  BY DEF LockInv, Refreshes
<1>5. CASE d = c
  BY <1>2, <1>3, <1>5
<1>6. CASE d # c
  <2>1. Refreshes(call'[d]) <=> Refreshes(call[d])
    BY <1>2, <1>6, Zenon
  <2> QED
    BY <1>4, <1>6, <2>1 DEF LockInv
<1> QED BY <1>5, <1>6

(* At most one call refreshes. *)
LEMMA OneRefresh ==
  ASSUME LockInv, NEW c \in Callers, NEW d \in Callers, Refreshes(call[c]), Refreshes(call[d])
  PROVE  c = d
BY DEF LockInv

LEMMA CodeMove ==
  ASSUME OAuthTypes, CodeInv, NEW c \in Callers, NEW y, call' = [call EXCEPT ![c] = y],
         begun' = begun, states' \subseteq states,
         \A g \in Grants : grants'[g].issued = grants[g].issued,
         \A g \in Grants : Redeems(y, g) => Redeems(call[c], g) /\ (Redeemed(y) <=> Redeemed(call[c])),
         Refreshes(y) => \/ Refreshes(call[c]) /\ RefGrant(y) = RefGrant(call[c])
                         \/ session # NoSession /\ session.grant = RefGrant(y),
         session' # NoSession =>
           /\ session'.grant \in Grants
           /\ \/ session # NoSession /\ session'.grant = session.grant
              \/ Refreshes(call[c]) /\ session'.grant = RefGrant(call[c])
              \/ Redeems(call[c], session'.grant) /\ \A g \in Grants : ~Redeems(y, g)
  PROVE  CodeInv'
<1>1. call'[c] = y /\ \A d \in Callers : d # c => call'[d] = call[d]
  BY OneMoves
<1>2. \A d \in Callers, g \in Grants :
        Redeems(call'[d], g) => Redeems(call[d], g) /\ (Redeemed(call'[d]) <=> Redeemed(call[d]))
  <2> SUFFICES ASSUME NEW d \in Callers, NEW g \in Grants, Redeems(call'[d], g)
      PROVE  Redeems(call[d], g) /\ (Redeemed(call'[d]) <=> Redeemed(call[d]))
    OBVIOUS
  <2>1. CASE d = c
    BY <1>1, <2>1
  <2>2. CASE d # c
    <3>1. call'[d] = call[d]
      BY <1>1, <2>2
    <3> QED
      BY <3>1, Zenon
  <2> QED BY <2>1, <2>2
<1>3. \A d \in Callers : Refreshes(call'[d]) =>
        \/ Refreshes(call[d]) /\ RefGrant(call'[d]) = RefGrant(call[d])
        \/ session # NoSession /\ session.grant = RefGrant(call'[d])
  <2> SUFFICES ASSUME NEW d \in Callers, Refreshes(call'[d])
      PROVE  \/ Refreshes(call[d]) /\ RefGrant(call'[d]) = RefGrant(call[d])
             \/ session # NoSession /\ session.grant = RefGrant(call'[d])
    OBVIOUS
  <2>1. CASE d = c
    BY <1>1, <2>1
  <2>2. CASE d # c
    <3>1. call'[d] = call[d]
      BY <1>1, <2>2
    <3> QED
      BY <3>1, Zenon
  <2> QED BY <2>1, <2>2
<1>4. \A g \in Grants : g > begun' \/ g \in states' =>
        grants'[g].issued = 0 /\ \A d \in Callers : ~Redeems(call'[d], g)
  BY <1>2 DEF CodeInv
<1>5. \A g \in Grants, d, e \in Callers : Redeems(call'[d], g) /\ Redeems(call'[e], g) => d = e
  BY <1>2 DEF CodeInv
<1>6. ASSUME NEW g \in Grants, NEW d \in Callers, Redeems(call'[d], g)
      PROVE  /\ grants'[g].issued = IF Redeemed(call'[d]) THEN 1 ELSE 0
             /\ session' # NoSession => session'.grant # g
             /\ \A e \in Callers : Refreshes(call'[e]) => RefGrant(call'[e]) # g
  <2>1. Redeems(call[d], g) /\ (Redeemed(call'[d]) <=> Redeemed(call[d]))
    BY <1>2, <1>6
  <2>2. /\ grants[g].issued = IF Redeemed(call[d]) THEN 1 ELSE 0
        /\ session # NoSession => session.grant # g
        /\ \A e \in Callers : Refreshes(call[e]) => RefGrant(call[e]) # g
    BY <2>1 DEF CodeInv
  <2>3. session' # NoSession => session'.grant # g
    <3>1. ASSUME Redeems(call[c], g), \A h \in Grants : ~Redeems(y, h) PROVE FALSE
      <4>1. d = c
        BY <2>1, <3>1 DEF CodeInv
      <4> QED
        BY <1>1, <1>6, <3>1, <4>1
    <3> QED
      BY <2>2, <3>1
  <2>4. \A e \in Callers : Refreshes(call'[e]) => RefGrant(call'[e]) # g
    BY <1>3, <2>2
  <2> QED
    BY <2>1, <2>2, <2>3, <2>4
<1> QED
  BY <1>4, <1>5, <1>6 DEF CodeInv, Redeems, Redeemed, Refreshes, RefGrant, HasTokens

(* A destroyed successor stays destroyed. *)
LEMMA RefreshFitsOn ==
  ASSUME NEW x, NEW gr, NEW gr2, NEW lost, NEW lost2, lost \subseteq lost2, RefreshFits(x, gr, lost),
         gr2[RefGrant(x)].issued = gr[RefGrant(x)].issued, Refreshes(x)
  PROVE  RefreshFits(x, gr2, lost2)
<1>1. x.pc \in Asking => x.grant = RefGrant(x)
  BY DEF RefGrant
<1>2. x.pc \in {"verify", "save"} => x.tokens.grant = RefGrant(x)
  BY DEF RefGrant, Asking
<1> QED
  BY <1>1, <1>2 DEF RefreshFits, Current

(* The grant a call refreshes is a grant. *)
LEMMA RefGrants ==
  ASSUME NEW x \in CallStates, Refreshes(x)
  PROVE  RefGrant(x) \in Grants
<1>1. CASE x.pc \in Asking
  BY <1>1, CallPlaces, RequestFields DEF RefGrant
<1>2. CASE x.pc \in {"verify", "save"}
  <2>1. x.tokens \in TokenSets
    BY <1>2, CallPlaces DEF HoldStates
  <2> QED
    BY <1>2, <2>1, TokenFields DEF RefGrant, Asking
<1> QED
  BY <1>1, <1>2 DEF Refreshes

LEMMA TokenMove ==
  ASSUME OAuthTypes, TokenInv, NEW c \in Callers, NEW y, call' = [call EXCEPT ![c] = y],
         \A g \in Grants : grants'[g].issued = grants[g].issued,
         orphaned \subseteq orphaned',
         replayed' = replayed \/ replayed' \subseteq orphaned',
         Refreshes(y) => RefreshFits(y, grants', orphaned'),
         session' # NoSession =>
           \/ /\ session # NoSession /\ session'.grant = session.grant /\ session'.number = session.number
              /\ Succeeds(call[c], session.grant, session.number) =>
                   \/ Succeeds(y, session.grant, session.number)
                   \/ <<session.grant, session.number>> \in orphaned'
           \/ /\ session'.grant \in Grants /\ grants[session'.grant].issued = session'.number
              /\ grants[session'.grant].issued >= 1
  PROVE  TokenInv'
<1>1. call'[c] = y /\ \A d \in Callers : d # c => call'[d] = call[d]
  BY OneMoves
<1>2. ASSUME NEW d \in Callers, Refreshes(call'[d]) PROVE RefreshFits(call'[d], grants', orphaned')
  <2>1. CASE d = c
    BY <1>1, <1>2, <2>1
  <2>2. CASE d # c
    <3>1. call'[d] = call[d]
      BY <1>1, <2>2
    <3>2. Refreshes(call[d]) /\ RefreshFits(call[d], grants, orphaned)
      BY <1>2, <3>1 DEF TokenInv
    <3>3. call[d] \in CallStates
      BY DEF OAuthTypes
    <3>4. RefGrant(call[d]) \in Grants
      BY <3>2, <3>3, RefGrants
    <3>5. RefreshFits(call[d], grants', orphaned')
      BY <3>2, <3>4, RefreshFitsOn
    <3> QED
      BY <3>1, <3>5, Zenon
  <2> QED BY <2>1, <2>2
<1>3. ASSUME session' # NoSession
      PROVE  /\ grants'[session'.grant].issued >= 1
             /\ \/ Current(grants', orphaned', session'.grant, session'.number)
                \/ \E d \in Callers : Succeeds(call'[d], session'.grant, session'.number)
  <2>1. CASE /\ session'.grant \in Grants /\ grants[session'.grant].issued = session'.number
             /\ grants[session'.grant].issued >= 1
    BY <2>1 DEF Current
  <2>2. CASE /\ session # NoSession /\ session'.grant = session.grant /\ session'.number = session.number
             /\ Succeeds(call[c], session.grant, session.number) =>
                  \/ Succeeds(y, session.grant, session.number)
                  \/ <<session.grant, session.number>> \in orphaned'
    <3> DEFINE g == session.grant
               n == session.number
    <3>1. g \in Grants
      BY <2>2, TokenFields DEF OAuthTypes
    <3>2. grants[g].issued >= 1 /\ (Current(grants, orphaned, g, n) \/ \E d \in Callers : Succeeds(call[d], g, n))
      BY <2>2 DEF TokenInv
    <3>3. grants'[g].issued >= 1
      BY <3>1, <3>2
    <3>4. CASE Current(grants, orphaned, g, n)
      BY <2>2, <3>1, <3>3, <3>4 DEF Current
    <3>5. CASE \E d \in Callers : Succeeds(call[d], g, n)
      <4>1. PICK d \in Callers : Succeeds(call[d], g, n)
        BY <3>5
      <4>2. CASE d # c
        <5>1. Succeeds(call'[d], g, n)
          BY <1>1, <4>1, <4>2, Zenon
        <5> QED
          BY <2>2, <3>3, <5>1
      <4>3. CASE d = c
        BY <1>1, <2>2, <3>3, <4>1, <4>3 DEF Current
      <4> QED BY <4>2, <4>3
    <3> QED BY <3>2, <3>4, <3>5
  <2> QED BY <1>3, <2>1, <2>2
<1>4. replayed' \subseteq orphaned'
  BY DEF TokenInv
<1> QED
  BY <1>2, <1>3, <1>4
     DEF TokenInv, Current, Succeeds, Refreshes, RefreshFits, RefGrant, HasTokens

LEMMA OutMove ==
  ASSUME OAuthTypes, OutInv, NEW c \in Callers, NEW y, call' = [call EXCEPT ![c] = y],
         ~raced' => ~raced,
         out' /\ ~raced' =>
           \/ out /\ Refreshes(call[c])
           \/ /\ out /\ session' \in {session, NoSession}
              /\ Refreshes(y) => session # NoSession
           \/ /\ session' = NoSession /\ ~Refreshes(y)
              /\ \A d \in Callers : d # c => ~Refreshes(call[d])
  PROVE  OutInv'
<1>1. call'[c] = y /\ \A d \in Callers : d # c => call'[d] = call[d]
  BY OneMoves
<1> SUFFICES ASSUME out', ~raced'
    PROVE  session' = NoSession /\ \A d \in Callers : ~Refreshes(call'[d])
  BY DEF OutInv, Refreshes
<1>2. \A d \in Callers : d # c => (Refreshes(call'[d]) <=> Refreshes(call[d]))
  BY <1>1, Zenon
<1>3. ~raced
  OBVIOUS
<1>4. ASSUME out PROVE session = NoSession /\ \A d \in Callers : ~Refreshes(call[d])
  BY <1>3, <1>4 DEF OutInv
<1> QED
  BY <1>1, <1>2, <1>4

(* A call that still relies on what it read is in its window. *)
LEMMA OutsideWindow ==
  ASSUME NEW d \in Callers, ~InWindow(d), NEW s, NEW gr, NEW f
  PROVE  WindowFits(call[d], s, gr, f)
BY DEF InWindow, WindowFits, Refreshes, Asking

LEMMA WindowMove ==
  ASSUME OAuthTypes, WindowInv, NEW c \in Callers, NEW y, call' = [call EXCEPT ![c] = y],
         ~raced' => ~raced, oauthFaults' = 0 => oauthFaults = 0,
         \A g \in Grants : grants[g].revoked => grants'[g].revoked,
         \/ session' = session
         \/ ~raced' => \A d \in Callers : d # c => ~InWindow(d),
         ~raced' => WindowFits(y, session', grants', oauthFaults')
  PROVE  WindowInv'
<1>1. call'[c] = y /\ \A d \in Callers : d # c => call'[d] = call[d]
  BY OneMoves
<1> SUFFICES ASSUME ~raced', NEW d \in Callers
    PROVE  WindowFits(call'[d], session', grants', oauthFaults')
  BY DEF WindowInv, WindowFits, Refreshes, RefGrant
<1>2. CASE d = c
  BY <1>1, <1>2
<1>3. CASE d # c
  <2>1. call'[d] = call[d]
    BY <1>1, <1>3
  <2>2. CASE ~InWindow(d)
    <3>1. WindowFits(call[d], session', grants', oauthFaults')
      BY <2>2, OutsideWindow
    <3> QED
      BY <2>1, <3>1, Zenon
  <2>3. CASE session' = session
    <3>1. WindowFits(call[d], session, grants, oauthFaults)
      BY DEF WindowInv
    <3>2. session # NoSession => session.grant \in Grants
      BY TokenFields DEF OAuthTypes
    <3>3. WindowFits(call[d], session, grants', oauthFaults')
      BY <3>1, <3>2 DEF WindowFits
    <3> QED
      BY <2>1, <2>3, <3>3, Zenon
  <2> QED BY <1>3, <2>2, <2>3
<1> QED BY <1>2, <1>3

LEMMA StrayMove ==
  ASSUME OAuthTypes, StrayInv, NEW c \in Callers, NEW y, call' = [call EXCEPT ![c] = y],
         ~raced' => ~raced, oauthFaults' = 0 => oauthFaults = 0,
         ~raced' /\ oauthFaults' = 0 => \A g \in Grants : grants'[g].issued > 0 /\ ~grants'[g].revoked =>
           /\ Keeps(y, g) \/ (grants[g].issued > 0 /\ ~grants[g].revoked)
           /\ session # NoSession /\ session.grant = g =>
                (session' # NoSession /\ session'.grant = g) \/ Keeps(y, g)
           /\ Keeps(call[c], g) => (session' # NoSession /\ session'.grant = g) \/ Keeps(y, g)
  PROVE  StrayInv'
<1>1. call'[c] = y /\ \A d \in Callers : d # c => call'[d] = call[d]
  BY OneMoves
<1> SUFFICES ASSUME ~raced', oauthFaults' = 0, NEW g \in Grants, grants'[g].issued > 0, ~grants'[g].revoked
    PROVE  (session' # NoSession /\ session'.grant = g) \/ \E d \in Callers : Keeps(call'[d], g)
  BY DEF StrayInv, Keeps, HasTokens
<1>2. CASE Keeps(y, g)
  BY <1>1, <1>2
<1>3. CASE ~Keeps(y, g)
  <2>1. (session # NoSession /\ session.grant = g) \/ \E d \in Callers : Keeps(call[d], g)
    BY <1>3 DEF StrayInv
  <2>2. ASSUME NEW d \in Callers, Keeps(call[d], g)
        PROVE  (session' # NoSession /\ session'.grant = g) \/ Keeps(call'[d], g)
    <3>1. CASE d = c
      BY <1>3, <2>2, <3>1
    <3>2. CASE d # c
      BY <1>1, <2>2, <3>2, Zenon
    <3> QED BY <3>1, <3>2
  <2> QED
    BY <1>3, <2>1, <2>2
<1> QED BY <1>2, <1>3

(* What the kinds of states mean for the invariants. *)
LEMMA IdleState ==
  ASSUME NEW y, y.pc \in {"returned", "wait", "delete", "revoke"}
  PROVE  /\ ~Refreshes(y) /\ ~Redeemed(y) /\ ~HasTokens(y)
         /\ \A g : ~Redeems(y, g) /\ ~Keeps(y, g) /\ \A n : ~Succeeds(y, g, n)
BY DEF Refreshes, Redeemed, HasTokens, Redeems, Keeps, Succeeds, Asking, NewTokens, Holding

LEMMA NewState ==
  ASSUME NEW y, y.pc \in NewTokens
  PROVE  /\ ~Refreshes(y) /\ Redeemed(y) /\ ~HasTokens(y)
         /\ \A g : /\ (Redeems(y, g) <=> y.tokens.grant = g) /\ (Keeps(y, g) <=> y.tokens.grant = g)
                   /\ \A n : ~Succeeds(y, g, n)
BY DEF Refreshes, Redeemed, HasTokens, Redeems, Keeps, Succeeds, Asking, NewTokens, Holding

LEMMA VerifyState ==
  ASSUME NEW y, y.pc = "verify"
  PROVE  /\ Refreshes(y) /\ RefGrant(y) = y.tokens.grant /\ ~HasTokens(y)
         /\ \A g : ~Redeems(y, g) /\ ~Keeps(y, g) /\ \A n : ~Succeeds(y, g, n)
BY DEF Refreshes, RefGrant, HasTokens, Redeems, Keeps, Succeeds, Asking, NewTokens, Holding

LEMMA SaveState ==
  ASSUME NEW y, y.pc = "save"
  PROVE  /\ Refreshes(y) /\ RefGrant(y) = y.tokens.grant /\ ~HasTokens(y)
         /\ \A g : /\ ~Redeems(y, g) /\ (Keeps(y, g) <=> y.tokens.grant = g)
                   /\ \A n : Succeeds(y, g, n) <=> y.tokens.grant = g /\ y.tokens.number = n + 1
BY DEF Refreshes, RefGrant, HasTokens, Redeems, Keeps, Succeeds, Asking, NewTokens, Holding

LEMMA RequestState ==
  ASSUME NEW y, y.pc \in Asking
  PROVE  /\ (Refreshes(y) <=> y.what = "refresh") /\ RefGrant(y) = y.grant
         /\ (Redeemed(y) <=> HasTokens(y))
         /\ \A g : /\ Redeems(y, g) <=> y.what = "exchange" /\ y.grant = g
                   /\ Keeps(y, g) <=> HasTokens(y) /\ y.grant = g
                   /\ \A n : Succeeds(y, g, n) <=>
                        HasTokens(y) /\ y.what = "refresh" /\ y.grant = g /\ y.number = n
BY DEF Refreshes, RefGrant, Redeemed, HasTokens, Redeems, Keeps, Succeeds, Asking, NewTokens, Holding

(* What a step may leave of a call in its window. *)
LEMMA PlainWindow ==
  ASSUME NEW y, ~Refreshes(y), y.pc \notin {"supersede", "revoke", "store", "clear", "delete"},
         NEW s, NEW gr, NEW f
  PROVE  WindowFits(y, s, gr, f)
BY DEF WindowFits

OAuthRest == LockInv /\ CodeInv /\ TokenInv /\ OutInv /\ WindowInv /\ StrayInv

(* Nothing a call holds in state x is lost in state y, and no code is new.    *)
Carries(x, y) ==
  \A g \in Grants :
    /\ Redeems(y, g) => Redeems(x, g) /\ (Redeemed(y) <=> Redeemed(x))
    /\ Keeps(x, g) => Keeps(y, g)
    /\ \A n \in Nat : Succeeds(x, g, n) => Succeeds(y, g, n)

(* The lock is kept, released or taken by a call that moves from x to y. *)
LockFits(c, x, y) ==
  \/ refreshLock' = refreshLock /\ (Refreshes(y) <=> Refreshes(x))
  \/ refreshLock' = (IF refreshLock = c THEN Nobody ELSE refreshLock) /\ ~Refreshes(y)
  \/ refreshLock = Nobody /\ refreshLock' = c /\ Refreshes(y)

(* A refresh goes on, or begins with the stored session. *)
RefreshOn(x, y) ==
  Refreshes(y) => \/ Refreshes(x) /\ RefGrant(y) = RefGrant(x)
                  \/ session # NoSession /\ session.grant = RefGrant(y)

(* A step of one call that leaves the stores and the server alone. *)
LEMMA QuietMove ==
  ASSUME OAuthTypes, OAuthRest, NEW c \in Callers, NEW y, call' = [call EXCEPT ![c] = y],
         begun' = begun, states' \subseteq states,
         UNCHANGED <<grants, session, orphaned, replayed, out, raced>>,
         oauthFaults' = 0 => oauthFaults = 0,
         LockFits(c, call[c], y), Carries(call[c], y), RefreshOn(call[c], y),
         Refreshes(y) => RefreshFits(y, grants, orphaned),
         ~raced => WindowFits(y, session, grants, oauthFaults')
  PROVE  OAuthRest'
<1>0. LockInv /\ CodeInv /\ TokenInv /\ OutInv /\ WindowInv /\ StrayInv
  BY DEF OAuthRest
<1>1. session # NoSession => session.grant \in Grants /\ session.number \in Nat
  BY TokenFields, OAuthNumbers DEF OAuthTypes
<1>2. LockInv'
  BY <1>0, LockMove DEF LockFits
<1>3. CodeInv'
  BY <1>0, <1>1, CodeMove DEF Carries, RefreshOn
<1>4. TokenInv'
  BY <1>0, <1>1, TokenMove DEF Carries
<1>5. OutInv'
  <2>1. out' /\ ~raced' => out /\ (Refreshes(call[c])
                                   \/ (session' \in {session, NoSession} /\ (Refreshes(y) => session # NoSession)))
    BY DEF RefreshOn
  <2> QED
    BY <1>0, <2>1, OutMove
<1>6. WindowInv'
  BY <1>0, WindowMove
<1>7. StrayInv'
  BY <1>0, StrayMove DEF Carries
<1> QED
  BY <1>2, <1>3, <1>4, <1>5, <1>6, <1>7 DEF OAuthRest

(* A call that has the successor of a token is refreshing. *)
LEMMA SucceedsRefreshes ==
  ASSUME NEW x, NEW g, NEW n, Succeeds(x, g, n)
  PROVE  Refreshes(x)
BY DEF Succeeds, Refreshes, HasTokens, Asking

LEMMA QuietSteps ==
  ASSUME OAuthTypes, OAuthRest, NEW c \in Callers,
         \/ VerifyIssuer(c) \/ ReadOld(c) \/ GetSession(c) \/ LockAndReread(c) \/ Refresh(c)
         \/ SignOut(c) \/ Receive(c) \/ Retry(c)
  PROVE  OAuthRest'
<1> DEFINE x == call[c]
<1>0. x \in CallStates /\ CallFits(x, epoch, begun) /\ oauthFaults \in Nat
  BY DEF OAuthTypes
<1>00. /\ LockInv /\ TokenInv /\ WindowInv
       /\ Refreshes(x) => RefreshFits(x, grants, orphaned)
       /\ ~raced => WindowFits(x, session, grants, oauthFaults)
  BY DEF OAuthRest, TokenInv, WindowInv
<1>1. CASE VerifyIssuer(c)
  <2>1. PICK next \in {"old", "undo"} : call' = [call EXCEPT ![c] = [x EXCEPT !.pc = next]]
    BY <1>1 DEF VerifyIssuer, Goto
  <2>2. x.pc = "check" /\ x \in HoldStates
    BY <1>0, <1>1, CallPlaces DEF VerifyIssuer
  <2> DEFINE y == [x EXCEPT !.pc = next]
  <2>3. y.pc \in {"old", "undo"} /\ y.tokens = x.tokens /\ call' = [call EXCEPT ![c] = y]
    BY <2>1, <2>2 DEF HoldStates
  <2>4. UNCHANGED <<grants, session, orphaned, replayed, out, raced, states, begun, oauthFaults, refreshLock>>
    BY <1>1 DEF VerifyIssuer, Goto
  <2> HIDE DEF y, x
  <2>5. x.pc \in NewTokens /\ y.pc \in NewTokens /\ y.pc \notin {"supersede", "revoke", "store", "clear", "delete"}
    BY <2>2, <2>3 DEF NewTokens
  <2>6. WindowFits(y, session, grants, oauthFaults')
    BY <2>5, NewState, PlainWindow
  <2>11. Carries(x, y)
    BY <2>3, <2>4, <2>5, <2>6, NewState DEF Carries
  <2>12. LockFits(c, x, y) /\ RefreshOn(x, y)
    BY <2>3, <2>4, <2>5, <2>6, NewState DEF LockFits, RefreshOn
  <2>13. Refreshes(y) => RefreshFits(y, grants, orphaned)
    BY <2>3, <2>4, <2>5, <2>6, NewState
  <2> QED
    BY <2>3, <2>4, <2>5, <2>6, <2>11, <2>12, <2>13, QuietMove DEF x
<1>2. CASE ReadOld(c)
  <2>1. x.pc = "old" /\ x \in HoldStates
    BY <1>0, <1>2, CallPlaces DEF ReadOld
  <2>2. PICK y : /\ call' = [call EXCEPT ![c] = y]
                 /\ \/ /\ y = [x EXCEPT !.pc = "clear"]
                       /\ (session = NoSession /\ oauthFaults' = oauthFaults) \/ oauthFaults' = oauthFaults + 1
                    \/ /\ session # NoSession /\ oauthFaults' = oauthFaults
                       /\ y = [pc |-> "supersede", tokens |-> x.tokens, old |-> session.grant]
    BY <1>2 DEF ReadOld, Goto, OAuthFault
  <2>3. y.pc \in NewTokens /\ y.tokens = x.tokens /\ x.pc \in NewTokens
    BY <2>1, <2>2 DEF HoldStates, NewTokens
  <2>4. UNCHANGED <<grants, session, orphaned, replayed, out, raced, states, begun, refreshLock>>
    BY <1>2 DEF ReadOld, Goto
  <2>5. WindowFits(y, session, grants, oauthFaults')
    <3>1. CASE y = [x EXCEPT !.pc = "clear"]
               /\ ((session = NoSession /\ oauthFaults' = oauthFaults) \/ oauthFaults' = oauthFaults + 1)
      <4>1. y.pc = "clear" /\ ~Refreshes(y)
        BY <2>1, <2>3, <3>1, NewState DEF HoldStates
      <4>2. oauthFaults' = 0 => session = NoSession
        BY <1>0, <3>1
      <4> QED
        BY <4>1, <4>2 DEF WindowFits
    <3>2. CASE session # NoSession /\ y = [pc |-> "supersede", tokens |-> x.tokens, old |-> session.grant]
      <4>1. ~Refreshes(y)
        BY <2>3, NewState
      <4> QED
        BY <3>2, <4>1 DEF WindowFits
    <3> QED BY <2>2, <3>1, <3>2
  <2>6. oauthFaults' = 0 => oauthFaults = 0
    BY <1>0, <2>2
  <2> HIDE DEF x
  <2>11. Carries(x, y)
    BY <2>2, <2>3, <2>4, <2>5, <2>6, NewState DEF Carries
  <2>12. LockFits(c, x, y) /\ RefreshOn(x, y)
    BY <2>2, <2>3, <2>4, <2>5, <2>6, NewState DEF LockFits, RefreshOn
  <2>13. Refreshes(y) => RefreshFits(y, grants, orphaned)
    BY <2>2, <2>3, <2>4, <2>5, <2>6, NewState
  <2> QED
    BY <2>2, <2>3, <2>4, <2>5, <2>6, <2>11, <2>12, <2>13, QuietMove DEF x
<1>3. CASE GetSession(c)
  <2> DEFINE y == [pc |-> "wait", seen |-> session]
  <2>1. y.pc = "wait" /\ x.pc = "returned" /\ call' = [call EXCEPT ![c] = y]
    BY <1>3 DEF GetSession, Goto
  <2>2. UNCHANGED <<grants, session, orphaned, replayed, out, raced, states, begun, oauthFaults, refreshLock>>
    BY <1>3 DEF GetSession, Goto
  <2> HIDE DEF y, x
  <2>3. WindowFits(y, session, grants, oauthFaults')
    BY <2>1, IdleState, PlainWindow
  <2>11. Carries(x, y)
    BY <2>1, <2>2, <2>3, IdleState DEF Carries
  <2>12. LockFits(c, x, y) /\ RefreshOn(x, y)
    BY <2>1, <2>2, <2>3, IdleState DEF LockFits, RefreshOn
  <2>13. Refreshes(y) => RefreshFits(y, grants, orphaned)
    BY <2>1, <2>2, <2>3, IdleState
  <2> QED
    BY <2>1, <2>2, <2>3, <2>11, <2>12, <2>13, QuietMove DEF x
<1>4. CASE LockAndReread(c)
  <2>1. x.pc = "wait" /\ refreshLock = Nobody
    BY <1>4 DEF LockAndReread
  <2>2. UNCHANGED <<grants, session, orphaned, replayed, out, raced, states, begun, oauthFaults>>
    BY <1>4 DEF LockAndReread
  <2>3. CASE session = NoSession \/ ~session.stale
    <3>1. call' = [call EXCEPT ![c] = Returned] /\ refreshLock' = (IF refreshLock = c THEN Nobody ELSE refreshLock)
      BY <1>4, <2>3 DEF LockAndReread, Return
    <3>2. Returned.pc = "returned"
      BY DEF Returned
    <3>3. WindowFits(Returned, session, grants, oauthFaults')
      BY <3>2, IdleState, PlainWindow
    <3> HIDE DEF x
    <3>11. Carries(x, Returned)
      BY <2>1, <2>2, <3>1, <3>2, <3>3, IdleState DEF Carries
    <3>12. LockFits(c, x, Returned) /\ RefreshOn(x, Returned)
      BY <2>1, <2>2, <3>1, <3>2, <3>3, IdleState DEF LockFits, RefreshOn
    <3>13. Refreshes(Returned) => RefreshFits(Returned, grants, orphaned)
      BY <2>1, <2>2, <3>1, <3>2, <3>3, IdleState
    <3> QED
      BY <2>1, <2>2, <3>1, <3>2, <3>3, <3>11, <3>12, <3>13, QuietMove DEF x
  <2>4. CASE ~(session = NoSession \/ ~session.stale)
    <3> DEFINE y == [pc |-> "verify", tokens |-> session]
    <3>1. call' = [call EXCEPT ![c] = y] /\ refreshLock' = c /\ y.pc = "verify" /\ y.tokens = session
      BY <1>4, <2>4 DEF LockAndReread
    <3> HIDE DEF y
    <3>2. \A d \in Callers : \A g, n : ~Succeeds(call[d], g, n)
      <4>1. \A d \in Callers : ~Refreshes(call[d])
        BY <1>00, <2>1, OAuthAssumption DEF LockInv
      <4> QED
        BY <4>1, SucceedsRefreshes
    <3>3. RefreshFits(y, grants, orphaned)
      <4>1. grants[session.grant].issued >= 1 /\ Current(grants, orphaned, session.grant, session.number)
        BY <1>00, <2>4, <3>2 DEF TokenInv
      <4> QED
        BY <3>1, <4>1 DEF RefreshFits, RefGrant, Asking
    <3>4. WindowFits(y, session, grants, oauthFaults')
      BY <2>4, <3>1, VerifyState DEF WindowFits
    <3> HIDE DEF x
    <3>11. Carries(x, y)
      BY <2>1, <2>2, <2>4, <3>1, <3>3, <3>4, IdleState, VerifyState DEF Carries
    <3>12. LockFits(c, x, y) /\ RefreshOn(x, y)
      BY <2>1, <2>2, <2>4, <3>1, <3>3, <3>4, IdleState, VerifyState DEF LockFits, RefreshOn
    <3>13. Refreshes(y) => RefreshFits(y, grants, orphaned)
      BY <2>1, <2>2, <2>4, <3>1, <3>3, <3>4, IdleState, VerifyState
    <3> QED
      BY <2>1, <2>2, <2>4, <3>1, <3>3, <3>4, <3>11, <3>12, <3>13, QuietMove DEF x
  <2> QED BY <2>3, <2>4
<1>5. CASE Refresh(c)
  <2>1. x.pc = "verify" /\ x.tokens \in TokenSets
    BY <1>0, <1>5, CallPlaces DEF Refresh, HoldStates
  <2>2. UNCHANGED <<grants, session, orphaned, replayed, out, raced, states, begun, oauthFaults>>
    BY <1>5 DEF Refresh
  <2>3. CASE Return(c)
    <3>1. call' = [call EXCEPT ![c] = Returned] /\ refreshLock' = (IF refreshLock = c THEN Nobody ELSE refreshLock)
      BY <2>3 DEF Return
    <3>2. Returned.pc = "returned"
      BY DEF Returned
    <3>3. WindowFits(Returned, session, grants, oauthFaults')
      BY <3>2, IdleState, PlainWindow
    <3> HIDE DEF x
    <3>11. Carries(x, Returned)
      BY <2>1, <2>2, <3>1, <3>2, <3>3, IdleState, VerifyState DEF Carries
    <3>12. LockFits(c, x, Returned) /\ RefreshOn(x, Returned)
      BY <2>1, <2>2, <3>1, <3>2, <3>3, IdleState, VerifyState DEF LockFits, RefreshOn
    <3>13. Refreshes(Returned) => RefreshFits(Returned, grants, orphaned)
      BY <2>1, <2>2, <3>1, <3>2, <3>3, IdleState, VerifyState
    <3> QED
      BY <2>1, <2>2, <3>1, <3>2, <3>3, <3>11, <3>12, <3>13, QuietMove DEF x
  <2>4. CASE Goto(c, Posted("refresh", x.tokens.grant, x.tokens.number, 1, nonce))
    <3> DEFINE y == Posted("refresh", x.tokens.grant, x.tokens.number, 1, nonce)
    <3>1. call' = [call EXCEPT ![c] = y] /\ refreshLock' = refreshLock
      BY <2>4 DEF Goto
    <3>2. y.pc = "sent" /\ y.what = "refresh" /\ y.grant = x.tokens.grant /\ y.number = x.tokens.number
          /\ y.answer = "none"
      BY DEF Posted
    <3> HIDE DEF y
    <3>3. y.pc \in Asking /\ ~HasTokens(y)
      BY <3>2 DEF Asking, HasTokens
    <3>4. Refreshes(y) /\ RefGrant(y) = x.tokens.grant
      BY <3>2, <3>3, RequestState
    <3>5. Refreshes(x) /\ RefGrant(x) = x.tokens.grant
      BY <2>1, VerifyState
    <3>6. RefreshFits(y, grants, orphaned)
      <4>1. grants[x.tokens.grant].issued >= 1 /\ Current(grants, orphaned, x.tokens.grant, x.tokens.number)
        BY <1>00, <2>1, <3>5 DEF RefreshFits
      <4> QED
        BY <3>2, <3>3, <3>4, <4>1 DEF RefreshFits
    <3>7. ~raced => WindowFits(y, session, grants, oauthFaults')
      BY <1>00, <3>2, <3>4, <3>5 DEF WindowFits
    <3> HIDE DEF x
    <3>11. Carries(x, y)
      BY <2>1, <2>2, <3>1, <3>2, <3>3, <3>4, <3>5, <3>6, <3>7, RequestState, VerifyState DEF Carries
    <3>12. LockFits(c, x, y) /\ RefreshOn(x, y)
      BY <2>1, <2>2, <3>1, <3>2, <3>3, <3>4, <3>5, <3>6, <3>7, RequestState, VerifyState DEF LockFits, RefreshOn
    <3>13. Refreshes(y) => RefreshFits(y, grants, orphaned)
      BY <2>1, <2>2, <3>1, <3>2, <3>3, <3>4, <3>5, <3>6, <3>7, RequestState, VerifyState
    <3> QED
      BY <2>1, <2>2, <3>1, <3>2, <3>3, <3>4, <3>5, <3>6, <3>7, <3>11, <3>12, <3>13, QuietMove DEF x
  <2> QED
    BY <1>5, <2>3, <2>4 DEF Refresh
<1>6. CASE SignOut(c)
  <2> DEFINE y == IF session = NoSession THEN [pc |-> "delete"] ELSE [pc |-> "revoke", grant |-> session.grant]
  <2>1. x.pc = "returned" /\ call' = [call EXCEPT ![c] = y]
    BY <1>6 DEF SignOut, Goto
  <2>2. UNCHANGED <<grants, session, orphaned, replayed, out, raced, states, begun, oauthFaults, refreshLock>>
    BY <1>6 DEF SignOut, Goto
  <2>3. y.pc \in {"delete", "revoke"}
    OBVIOUS
  <2>4. WindowFits(y, session, grants, oauthFaults')
    <3>1. ~Refreshes(y)
      <4> HIDE DEF y
      <4> QED BY <2>3, IdleState
    <3> QED
      BY <3>1 DEF WindowFits
  <2> HIDE DEF y, x
  <2>11. Carries(x, y)
    BY <2>1, <2>2, <2>3, <2>4, IdleState DEF Carries
  <2>12. LockFits(c, x, y) /\ RefreshOn(x, y)
    BY <2>1, <2>2, <2>3, <2>4, IdleState DEF LockFits, RefreshOn
  <2>13. Refreshes(y) => RefreshFits(y, grants, orphaned)
    BY <2>1, <2>2, <2>3, <2>4, IdleState
  <2> QED
    BY <2>1, <2>2, <2>3, <2>4, <2>11, <2>12, <2>13, QuietMove DEF x
<1>7. CASE Receive(c)
  <2>1. PICK y \in CallStates :
           /\ x.pc = "answered" /\ x \in RequestStates
           /\ call' = [call EXCEPT ![c] = y]
           /\ UNCHANGED <<grants, epoch, session, states, approved, begun, replayed, orphaned,
                          out, raced, oauthFaults>>
           /\ \/ /\ y = Returned /\ ~HasTokens(x)
                 /\ refreshLock' = IF refreshLock = c THEN Nobody ELSE refreshLock
              \/ /\ y \in RequestStates /\ y.pc = "retry" /\ y.what = x.what /\ y.answer = "none"
                 /\ y.grant = x.grant /\ y.number = x.number /\ y.nonce = x.nonce
                 /\ ~HasTokens(x) /\ refreshLock' = refreshLock
              \/ /\ y \in HoldStates /\ y.tokens = Tokens(x)
                 /\ y.pc = (IF x.what = "refresh" THEN "save" ELSE "check")
                 /\ HasTokens(x) /\ x.what \in {"exchange", "refresh"}
                 /\ refreshLock' = refreshLock
    BY <1>7, ReceiveMoves
  <2>2. x.pc \in Asking
    BY <2>1 DEF Asking
  <2>3. CASE y = Returned /\ ~HasTokens(x) /\ refreshLock' = IF refreshLock = c THEN Nobody ELSE refreshLock
    <3>1. y.pc = "returned"
      BY <2>3 DEF Returned
    <3>2. WindowFits(y, session, grants, oauthFaults')
      BY <3>1, IdleState, PlainWindow
    <3> HIDE DEF x
    <3>11. Carries(x, y)
      BY <2>1, <2>2, <2>3, <3>1, <3>2, IdleState, RequestState DEF Carries
    <3>12. LockFits(c, x, y) /\ RefreshOn(x, y)
      BY <2>1, <2>2, <2>3, <3>1, <3>2, IdleState, RequestState DEF LockFits, RefreshOn
    <3>13. Refreshes(y) => RefreshFits(y, grants, orphaned)
      BY <2>1, <2>2, <2>3, <3>1, <3>2, IdleState, RequestState
    <3> QED
      BY <2>1, <2>2, <2>3, <3>1, <3>2, <3>11, <3>12, <3>13, QuietMove DEF x
  <2>4. CASE /\ y.pc = "retry" /\ y.what = x.what /\ y.answer = "none"
             /\ y.grant = x.grant /\ y.number = x.number
             /\ ~HasTokens(x) /\ refreshLock' = refreshLock
    <3>1. y.pc \in Asking /\ ~HasTokens(y)
      BY <2>4 DEF Asking, HasTokens
    <3>2. /\ Refreshes(y) <=> Refreshes(x)
          /\ RefGrant(y) = RefGrant(x)
      BY <2>2, <2>4, <3>1, RequestState
    <3>3. Refreshes(y) => RefreshFits(y, grants, orphaned)
      BY <1>00, <2>2, <2>4, <3>1, <3>2 DEF RefreshFits, Asking
    <3>4. ~raced => WindowFits(y, session, grants, oauthFaults')
      BY <1>00, <2>1, <2>4, <3>2 DEF WindowFits
    <3> HIDE DEF x
    <3>11. Carries(x, y)
      BY <2>1, <2>2, <2>4, <3>1, <3>2, <3>3, <3>4, RequestState DEF Carries
    <3>12. LockFits(c, x, y) /\ RefreshOn(x, y)
      BY <2>1, <2>2, <2>4, <3>1, <3>2, <3>3, <3>4, RequestState DEF LockFits, RefreshOn
    <3>13. Refreshes(y) => RefreshFits(y, grants, orphaned)
      BY <2>1, <2>2, <2>4, <3>1, <3>2, <3>3, <3>4, RequestState
    <3> QED
      BY <2>1, <2>2, <2>4, <3>1, <3>2, <3>3, <3>4, <3>11, <3>12, <3>13, QuietMove DEF x
  <2>5. CASE /\ y.tokens = Tokens(x) /\ y.pc = (IF x.what = "refresh" THEN "save" ELSE "check")
             /\ HasTokens(x) /\ x.what \in {"exchange", "refresh"} /\ refreshLock' = refreshLock
    <3>1. /\ y.tokens.grant = x.grant
          /\ x.what = "refresh" => y.tokens.number = x.number + 1
      BY <1>0, <2>1, <2>2, <2>5, TokensOf DEF CallFits
    <3>2. CASE x.what = "exchange"
      <4>1. y.pc = "check" /\ y.pc \in NewTokens
        BY <2>5, <3>2 DEF NewTokens
      <4>2. WindowFits(y, session, grants, oauthFaults')
        BY <4>1, NewState, PlainWindow
      <4> HIDE DEF x
      <4>11. Carries(x, y)
        BY <2>1, <2>2, <2>5, <3>1, <3>2, <4>1, <4>2, RequestState, NewState DEF Carries
      <4>12. LockFits(c, x, y) /\ RefreshOn(x, y)
        BY <2>1, <2>2, <2>5, <3>1, <3>2, <4>1, <4>2, RequestState, NewState DEF LockFits, RefreshOn
      <4>13. Refreshes(y) => RefreshFits(y, grants, orphaned)
        BY <2>1, <2>2, <2>5, <3>1, <3>2, <4>1, <4>2, RequestState, NewState
      <4> QED
        BY <2>1, <2>2, <2>5, <3>1, <3>2, <4>1, <4>2, <4>11, <4>12, <4>13, QuietMove DEF x
    <3>3. CASE x.what = "refresh"
      <4>1. y.pc = "save"
        BY <2>5, <3>3
      <4>2. Refreshes(x) /\ RefGrant(x) = x.grant
        BY <2>2, <3>3, RequestState
      <4>3. RefreshFits(y, grants, orphaned)
        <5>1. grants[x.grant].issued >= 1 /\ grants[x.grant].issued = x.number + 1
          BY <1>00, <2>2, <2>5, <4>2 DEF RefreshFits
        <5> QED
          BY <3>1, <3>3, <4>1, <5>1 DEF RefreshFits, RefGrant, Asking
      <4>4. ~raced => WindowFits(y, session, grants, oauthFaults')
        BY <1>00, <3>1, <4>1, <4>2, SaveState DEF WindowFits
      <4> HIDE DEF x
      <4>11. Carries(x, y)
        BY <2>1, <2>2, <2>5, <3>1, <3>3, <4>1, <4>2, <4>3, <4>4, RequestState, SaveState DEF Carries
      <4>12. LockFits(c, x, y) /\ RefreshOn(x, y)
        BY <2>1, <2>2, <2>5, <3>1, <3>3, <4>1, <4>2, <4>3, <4>4, RequestState, SaveState DEF LockFits, RefreshOn
      <4>13. Refreshes(y) => RefreshFits(y, grants, orphaned)
        BY <2>1, <2>2, <2>5, <3>1, <3>3, <4>1, <4>2, <4>3, <4>4, RequestState, SaveState
      <4> QED
        BY <2>1, <2>2, <2>5, <3>1, <3>3, <4>1, <4>2, <4>3, <4>4, <4>11, <4>12, <4>13, QuietMove DEF x
    <3> QED BY <2>5, <3>2, <3>3
  <2> QED BY <2>1, <2>3, <2>4, <2>5
<1>8. CASE Retry(c)
  <2> DEFINE y == Posted(x.what, x.grant, x.number, 2, nonce)
  <2>1. x.pc = "retry" /\ x.pc \in Asking /\ ~HasTokens(x)
    BY <1>8 DEF Retry, Asking, HasTokens
  <2>2. /\ UNCHANGED <<grants, session, orphaned, replayed, out, raced, states, begun, oauthFaults, refreshLock>>
        /\ call' = [call EXCEPT ![c] = y]
    BY <1>8 DEF Retry, Goto
  <2>3. y.pc = "sent" /\ y.what = x.what /\ y.grant = x.grant /\ y.number = x.number /\ y.answer = "none"
    BY DEF Posted
  <2> HIDE DEF y
  <2>4. y.pc \in Asking /\ ~HasTokens(y)
    BY <2>3 DEF Asking, HasTokens
  <2>5. /\ Refreshes(y) <=> Refreshes(x)
        /\ RefGrant(y) = RefGrant(x)
    BY <2>1, <2>3, <2>4, RequestState
  <2>6. Refreshes(y) => RefreshFits(y, grants, orphaned)
    BY <1>00, <2>1, <2>3, <2>4, <2>5 DEF RefreshFits, Asking
  <2>7. ~raced => WindowFits(y, session, grants, oauthFaults')
    BY <1>00, <2>2, <2>3, <2>5 DEF WindowFits
  <2> HIDE DEF x
  <2>11. Carries(x, y)
    BY <2>1, <2>2, <2>3, <2>4, <2>5, <2>6, <2>7, RequestState DEF Carries
  <2>12. LockFits(c, x, y) /\ RefreshOn(x, y)
    BY <2>1, <2>2, <2>3, <2>4, <2>5, <2>6, <2>7, RequestState DEF LockFits, RefreshOn
  <2>13. Refreshes(y) => RefreshFits(y, grants, orphaned)
    BY <2>1, <2>2, <2>3, <2>4, <2>5, <2>6, <2>7, RequestState
  <2> QED
    BY <2>1, <2>2, <2>3, <2>4, <2>5, <2>6, <2>7, <2>11, <2>12, <2>13, QuietMove DEF x
<1> QED
  BY <1>1, <1>2, <1>3, <1>4, <1>5, <1>6, <1>7, <1>8

(* A write to the session store outside every other call's window. *)
LEMMA NoRace ==
  ASSUME NEW c \in Callers, raced' = (raced \/ Races(c)), ~raced'
  PROVE  ~raced /\ \A d \in Callers : d # c => ~InWindow(d)
BY Zenon DEF Races

(* A call outside its window does not refresh. *)
LEMMA RefreshIsWindow ==
  ASSUME NEW d \in Callers, Refreshes(call[d])
  PROVE  InWindow(d)
BY DEF Refreshes, InWindow, Asking

(* A call begins with a request that refreshes nothing. *)
LEMMA BeginMove ==
  ASSUME OAuthTypes, OAuthRest, NEW c \in Callers, NEW y, call' = [call EXCEPT ![c] = y],
         call[c].pc = "returned", y.pc = "sent", y.what # "refresh",
         UNCHANGED <<grants, session, orphaned, replayed, out, raced, oauthFaults, refreshLock>>
  PROVE  LockInv' /\ TokenInv' /\ OutInv' /\ WindowInv' /\ StrayInv'
<1>0. LockInv /\ TokenInv /\ OutInv /\ WindowInv /\ StrayInv
  BY DEF OAuthRest
<1>1. /\ ~Refreshes(call[c])
      /\ \A g : ~Keeps(call[c], g) /\ \A n : ~Succeeds(call[c], g, n)
  BY IdleState
<1>2. ~Refreshes(y)
  BY DEF Refreshes, Asking
<1>3. session # NoSession => session.grant \in Grants /\ session.number \in Nat
  BY TokenFields, OAuthNumbers DEF OAuthTypes
<1>4. WindowFits(y, session', grants', oauthFaults')
  BY <1>2, PlainWindow
<1>5. LockInv'
  BY <1>0, <1>1, <1>2, LockMove
<1>6. TokenInv'
  BY <1>0, <1>1, <1>2, <1>3, TokenMove
<1>7. OutInv'
  BY <1>0, <1>2, OutMove
<1>8. WindowInv'
  BY <1>0, <1>4, WindowMove
<1>9. StrayInv'
  BY <1>0, <1>1, StrayMove
<1> QED
  BY <1>5, <1>6, <1>7, <1>8, <1>9

LEMMA AuthorizeStep ==
  ASSUME OAuthTypes, OAuthRest, NEW c \in Callers, Authorize(c)
  PROVE  OAuthRest'
<1> DEFINE y == Posted("par", begun + 1, 0, 1, nonce)
<1>1. /\ call' = [call EXCEPT ![c] = y] /\ call[c].pc = "returned" /\ begun' = begun + 1
      /\ states' = states \cup {begun + 1}
      /\ UNCHANGED <<grants, session, orphaned, replayed, out, raced, oauthFaults, refreshLock>>
  BY DEF Authorize, Goto
<1>2. y.pc = "sent" /\ y.what = "par"
  BY DEF Posted
<1> HIDE DEF y
<1>3. LockInv' /\ TokenInv' /\ OutInv' /\ WindowInv' /\ StrayInv'
  BY <1>1, <1>2, BeginMove
<1>4. CodeInv'
  <2>1. call'[c] = y /\ \A d \in Callers : d # c => call'[d] = call[d]
    BY <1>1, OneMoves
  <2>2. \A g : ~Redeems(y, g)
    BY <1>2 DEF Redeems, NewTokens
  <2>3. ~Refreshes(y)
    BY <1>2 DEF Refreshes, Asking
  <2>4. \A d \in Callers, g \in Grants : Redeems(call'[d], g) => d # c /\ call'[d] = call[d]
    BY <2>1, <2>2
  <2>5. \A d \in Callers : Refreshes(call'[d]) => d # c /\ call'[d] = call[d]
    BY <2>1, <2>3
  <2>6. CodeInv /\ begun \in Nat
    BY OAuthNumbers DEF OAuthRest, OAuthTypes
  <2>7. \A g \in Grants : g > begun' \/ g \in states' => g > begun \/ g \in states
    BY <1>1, <2>6 DEF Grants
  <2>8. \A g \in Grants : g > begun' \/ g \in states' =>
          grants'[g].issued = 0 /\ \A d \in Callers : ~Redeems(call'[d], g)
    <3> SUFFICES ASSUME NEW g \in Grants, g > begun' \/ g \in states'
        PROVE  grants'[g].issued = 0 /\ \A d \in Callers : ~Redeems(call'[d], g)
      OBVIOUS
    <3>1. grants[g].issued = 0 /\ \A d \in Callers : ~Redeems(call[d], g)
      BY <2>6, <2>7 DEF CodeInv
    <3>2. \A d \in Callers : ~Redeems(call'[d], g)
      BY <2>4, <3>1
    <3> QED
      BY <1>1, <3>1, <3>2
  <2>9. \A g \in Grants, d, e \in Callers : Redeems(call'[d], g) /\ Redeems(call'[e], g) => d = e
    <3> SUFFICES ASSUME NEW g \in Grants, NEW d \in Callers, NEW e \in Callers,
                        Redeems(call'[d], g), Redeems(call'[e], g)
        PROVE  d = e
      OBVIOUS
    <3>1. Redeems(call[d], g) /\ Redeems(call[e], g)
      BY <2>4
    <3> QED
      BY <2>6, <3>1 DEF CodeInv
  <2>10. ASSUME NEW g \in Grants, NEW d \in Callers, Redeems(call'[d], g)
        PROVE  /\ grants'[g].issued = IF Redeemed(call'[d]) THEN 1 ELSE 0
               /\ session' # NoSession => session'.grant # g
               /\ \A e \in Callers : Refreshes(call'[e]) => RefGrant(call'[e]) # g
    <3>1. call'[d] = call[d] /\ Redeems(call[d], g)
      BY <2>4, <2>10
    <3>2. /\ grants[g].issued = IF Redeemed(call[d]) THEN 1 ELSE 0
          /\ session # NoSession => session.grant # g
          /\ \A e \in Callers : Refreshes(call[e]) => RefGrant(call[e]) # g
      BY <2>6, <3>1 DEF CodeInv
    <3>3. \A e \in Callers : Refreshes(call'[e]) => RefGrant(call'[e]) # g
      BY <2>5, <3>2
    <3> QED
      BY <1>1, <3>1, <3>2, <3>3
  <2> QED
    BY <2>8, <2>9, <2>10 DEF CodeInv, Redeems, Redeemed, Refreshes, RefGrant, HasTokens
<1> QED
  BY <1>3, <1>4 DEF OAuthRest

LEMMA CallbackStep ==
  ASSUME OAuthTypes, OAuthRest, NEW c \in Callers, NEW g \in Grants, Callback(c, g)
  PROVE  OAuthRest'
<1>1. /\ call[c].pc = "returned" /\ g \in states /\ states' = states \ {g}
      /\ UNCHANGED <<grants, session, begun, orphaned, replayed, out, raced, oauthFaults>>
  BY DEF Callback
<1>2. CASE Return(c)
  <2>1. call' = [call EXCEPT ![c] = Returned] /\ refreshLock' = (IF refreshLock = c THEN Nobody ELSE refreshLock)
    BY <1>2 DEF Return
  <2>2. Returned.pc = "returned"
    BY DEF Returned
  <2>3. WindowFits(Returned, session, grants, oauthFaults')
    BY <2>2, IdleState, PlainWindow
  <2>4. Carries(call[c], Returned) /\ LockFits(c, call[c], Returned) /\ RefreshOn(call[c], Returned)
        /\ ~Refreshes(Returned)
    BY <1>1, <2>1, <2>2, IdleState DEF Carries, LockFits, RefreshOn
  <2> QED
    BY <1>1, <2>1, <2>3, <2>4, QuietMove
<1>3. CASE Goto(c, Posted("exchange", g, 0, 1, nonce))
  <2> DEFINE y == Posted("exchange", g, 0, 1, nonce)
  <2>1. call' = [call EXCEPT ![c] = y] /\ refreshLock' = refreshLock
    BY <1>3 DEF Goto
  <2>2. y.pc = "sent" /\ y.what = "exchange" /\ y.grant = g
    BY DEF Posted
  <2> HIDE DEF y
  <2>3. LockInv' /\ TokenInv' /\ OutInv' /\ WindowInv' /\ StrayInv'
    BY <1>1, <2>1, <2>2, BeginMove
  <2>4. CodeInv'
    <3>1. call'[c] = y /\ \A d \in Callers : d # c => call'[d] = call[d]
      BY <2>1, OneMoves
    <3>2. /\ \A h : Redeems(y, h) <=> h = g
          /\ ~Redeemed(y) /\ ~Refreshes(y)
      BY <2>2 DEF Redeems, Redeemed, Refreshes, HasTokens, NewTokens, Asking
    <3>3. CodeInv /\ TokenInv /\ begun \in Nat /\ states \subseteq 1..begun
      BY OAuthNumbers DEF OAuthRest, OAuthTypes
    <3>4. grants[g].issued = 0 /\ \A d \in Callers : ~Redeems(call[d], g)
      BY <1>1, <3>3 DEF CodeInv
    <3>5. session # NoSession => session.grant # g
      BY <3>3, <3>4 DEF TokenInv
    <3>6. \A d \in Callers : Refreshes(call[d]) => RefGrant(call[d]) # g
      BY <3>3, <3>4 DEF TokenInv, RefreshFits
    <3>7. \A d \in Callers, h \in Grants :
            Redeems(call'[d], h) => (d = c /\ h = g) \/ (d # c /\ h # g /\ Redeems(call[d], h) /\ call'[d] = call[d])
      <4> SUFFICES ASSUME NEW d \in Callers, NEW h \in Grants, Redeems(call'[d], h)
          PROVE  (d = c /\ h = g) \/ (d # c /\ h # g /\ Redeems(call[d], h) /\ call'[d] = call[d])
        OBVIOUS
      <4>1. CASE d = c
        BY <3>1, <3>2, <4>1
      <4>2. CASE d # c
        <5>1. call'[d] = call[d]
          BY <3>1, <4>2
        <5>2. Redeems(call[d], h)
          BY <5>1, Zenon
        <5> QED
          BY <3>4, <4>2, <5>1, <5>2
      <4> QED BY <4>1, <4>2
    <3>8. \A d \in Callers : Refreshes(call'[d]) => d # c /\ call'[d] = call[d]
      BY <3>1, <3>2
    <3>9. \A h \in Grants : h > begun' \/ h \in states' =>
            grants'[h].issued = 0 /\ \A d \in Callers : ~Redeems(call'[d], h)
      <4> SUFFICES ASSUME NEW h \in Grants, h > begun' \/ h \in states'
          PROVE  grants'[h].issued = 0 /\ \A d \in Callers : ~Redeems(call'[d], h)
        OBVIOUS
      <4>1. h # g /\ (h > begun \/ h \in states)
        BY <1>1, <3>3
      <4>2. grants[h].issued = 0 /\ \A d \in Callers : ~Redeems(call[d], h)
        BY <3>3, <4>1 DEF CodeInv
      <4>3. \A d \in Callers : ~Redeems(call'[d], h)
        BY <3>7, <4>1, <4>2
      <4> QED
        BY <1>1, <4>2, <4>3
    <3>10. \A h \in Grants, d, e \in Callers : Redeems(call'[d], h) /\ Redeems(call'[e], h) => d = e
      BY <3>3, <3>7 DEF CodeInv
    <3>11. ASSUME NEW h \in Grants, NEW d \in Callers, Redeems(call'[d], h)
           PROVE  /\ grants'[h].issued = IF Redeemed(call'[d]) THEN 1 ELSE 0
                  /\ session' # NoSession => session'.grant # h
                  /\ \A e \in Callers : Refreshes(call'[e]) => RefGrant(call'[e]) # h
      <4>1. CASE d = c /\ h = g
        BY <1>1, <3>1, <3>2, <3>4, <3>5, <3>6, <3>8, <4>1
      <4>2. CASE d # c /\ h # g /\ Redeems(call[d], h) /\ call'[d] = call[d]
        <5>1. /\ grants[h].issued = IF Redeemed(call[d]) THEN 1 ELSE 0
              /\ session # NoSession => session.grant # h
              /\ \A e \in Callers : Refreshes(call[e]) => RefGrant(call[e]) # h
          BY <3>3, <4>2 DEF CodeInv
        <5>2. \A e \in Callers : Refreshes(call'[e]) => RefGrant(call'[e]) # h
          BY <3>8, <5>1
        <5> QED
          BY <1>1, <4>2, <5>1, <5>2
      <4> QED BY <3>7, <3>11, <4>1, <4>2
    <3> QED
      BY <3>9, <3>10, <3>11 DEF CodeInv, Redeems, Redeemed, Refreshes, RefGrant, HasTokens
  <2> QED
    BY <2>3, <2>4 DEF OAuthRest
<1> QED
  BY <1>2, <1>3 DEF Callback

(* A call revokes g on its way from x to y. *)
Gives(x, y, g) ==
  /\ ~Refreshes(y) /\ ~Refreshes(x)
  /\ \A h \in Grants :
       /\ Redeems(y, h) => Redeems(x, h) /\ (Redeemed(y) <=> Redeemed(x))
       /\ Keeps(x, h) => Keeps(y, h) \/ h = g
       /\ \A n : ~Succeeds(x, h, n)
  /\ y.pc \notin {"supersede", "revoke", "store"}
  /\ y.pc \in {"clear", "delete"} /\ ~raced => session # NoSession /\ session.grant = g

LEMMA RevokeMove ==
  ASSUME OAuthTypes, OAuthRest, NEW c \in Callers, NEW y, NEW g \in Grants,
         call' = [call EXCEPT ![c] = y], Revoke(g), Gives(call[c], y, g),
         UNCHANGED <<session, states, begun, orphaned, replayed, out, raced>>,
         \/ refreshLock' = refreshLock
         \/ refreshLock' = (IF refreshLock = c THEN Nobody ELSE refreshLock)
  PROVE  OAuthRest'
<1> DEFINE x == call[c]
<1>0. LockInv /\ CodeInv /\ TokenInv /\ OutInv /\ WindowInv /\ StrayInv
  BY DEF OAuthRest
<1>1. /\ ~Refreshes(y) /\ ~Refreshes(x)
      /\ \A h \in Grants :
           /\ Redeems(y, h) => Redeems(x, h) /\ (Redeemed(y) <=> Redeemed(x))
           /\ Keeps(x, h) => Keeps(y, h) \/ h = g
           /\ \A n : ~Succeeds(x, h, n)
      /\ y.pc \notin {"supersede", "revoke", "store"}
      /\ y.pc \in {"clear", "delete"} /\ ~raced => session # NoSession /\ session.grant = g
  BY DEF Gives
<1>2. /\ \A h \in Grants : grants'[h].issued = grants[h].issued
      /\ \A h \in Grants : grants[h].revoked => grants'[h].revoked
      /\ oauthFaults' = 0 => oauthFaults = 0 /\ grants'[g].revoked
  BY RevokeTypes
<1>3. session # NoSession => session.grant \in Grants /\ session.number \in Nat
  BY TokenFields, OAuthNumbers DEF OAuthTypes
<1>4. LockInv'
  BY <1>0, <1>1, LockMove
<1>5. CodeInv'
  BY <1>0, <1>1, <1>2, <1>3, CodeMove
<1>6. TokenInv'
  BY <1>0, <1>1, <1>2, <1>3, TokenMove
<1>7. OutInv'
  BY <1>0, <1>1, OutMove
<1>8. WindowInv'
  <2>1. ~raced' => WindowFits(y, session', grants', oauthFaults')
    BY <1>1, <1>2 DEF WindowFits
  <2> QED
    BY <1>0, <1>1, <1>2, <2>1, WindowMove
<1>9. StrayInv'
  <2>1. ~raced' /\ oauthFaults' = 0 => \A h \in Grants : grants'[h].issued > 0 /\ ~grants'[h].revoked =>
          /\ grants[h].issued > 0 /\ ~grants[h].revoked
          /\ Keeps(x, h) => Keeps(y, h)
    BY <1>1, <1>2
  <2> QED
    BY <1>0, <1>1, <1>2, <2>1, StrayMove
<1> QED
  BY <1>4, <1>5, <1>6, <1>7, <1>8, <1>9 DEF OAuthRest

LEMMA RevokeSteps ==
  ASSUME OAuthTypes, OAuthRest, NEW c \in Callers,
         Undo(c) \/ Supersede(c) \/ SignOutRevoke(c)
  PROVE  OAuthRest'
<1> DEFINE x == call[c]
<1>0. x \in CallStates /\ WindowInv
  BY DEF OAuthTypes, OAuthRest
<1>1. CASE Undo(c)
  <2>1. x.pc = "undo" /\ x.tokens \in TokenSets
    BY <1>0, <1>1, CallPlaces DEF Undo, Holding
  <2>2. x.tokens.grant \in Grants /\ Revoke(x.tokens.grant)
    BY <1>1, <2>1, TokenFields DEF Undo
  <2>3. /\ call' = [call EXCEPT ![c] = Returned]
        /\ refreshLock' = (IF refreshLock = c THEN Nobody ELSE refreshLock)
        /\ UNCHANGED <<session, states, begun, orphaned, replayed, out, raced>>
    BY <1>1 DEF Undo, Return
  <2>4. Returned.pc = "returned" /\ x.pc \in NewTokens
    BY <2>1 DEF Returned, NewTokens
  <2>5. ~Refreshes(Returned) /\ \A h : ~Redeems(Returned, h)
    BY <2>4, IdleState
  <2>6. ~Refreshes(x) /\ \A h : (Keeps(x, h) <=> x.tokens.grant = h) /\ \A n : ~Succeeds(x, h, n)
    BY <2>4, NewState
  <2>7. Gives(x, Returned, x.tokens.grant)
    BY <2>4, <2>5, <2>6 DEF Gives
  <2> QED
    BY <2>2, <2>3, <2>7, RevokeMove
<1>2. CASE Supersede(c)
  <2>1. x.pc = "supersede" /\ x.old \in Grants /\ Revoke(x.old)
    BY <1>0, <1>2, CallPlaces DEF Supersede
  <2> DEFINE y == [pc |-> "clear", tokens |-> x.tokens]
  <2>2. /\ call' = [call EXCEPT ![c] = y] /\ refreshLock' = refreshLock
        /\ UNCHANGED <<session, states, begun, orphaned, replayed, out, raced>>
    BY <1>2 DEF Supersede, Goto
  <2>3. y.pc = "clear" /\ y.tokens = x.tokens
    OBVIOUS
  <2> HIDE DEF y
  <2>4. x.pc \in NewTokens /\ y.pc \in NewTokens
    BY <2>1, <2>3 DEF NewTokens
  <2>5. /\ ~Refreshes(x) /\ ~Refreshes(y) /\ Redeemed(x) /\ Redeemed(y)
        /\ \A h : /\ (Redeems(y, h) => Redeems(x, h)) /\ (Keeps(x, h) => Keeps(y, h))
                  /\ \A n : ~Succeeds(x, h, n)
    BY <2>3, <2>4, NewState
  <2>6. ~raced => session # NoSession /\ session.grant = x.old
    BY <1>0, <2>1 DEF WindowInv, WindowFits
  <2>7. Gives(x, y, x.old)
    BY <2>3, <2>5, <2>6 DEF Gives
  <2> QED
    BY <2>1, <2>2, <2>7, RevokeMove
<1>3. CASE SignOutRevoke(c)
  <2>1. x.pc = "revoke" /\ x.grant \in Grants /\ Revoke(x.grant)
    BY <1>0, <1>3, CallPlaces DEF SignOutRevoke
  <2> DEFINE y == [pc |-> "delete"]
  <2>2. /\ call' = [call EXCEPT ![c] = y] /\ refreshLock' = refreshLock
        /\ UNCHANGED <<session, states, begun, orphaned, replayed, out, raced>>
    BY <1>3 DEF SignOutRevoke, Goto
  <2>3. y.pc = "delete"
    OBVIOUS
  <2> HIDE DEF y
  <2>4. /\ ~Refreshes(x) /\ ~Refreshes(y)
        /\ \A h : ~Redeems(y, h) /\ ~Keeps(x, h) /\ \A n : ~Succeeds(x, h, n)
    BY <2>1, <2>3, IdleState
  <2>5. ~raced => session # NoSession /\ session.grant = x.grant
    BY <1>0, <2>1 DEF WindowInv, WindowFits
  <2>6. Gives(x, y, x.grant)
    BY <2>3, <2>4, <2>5 DEF Gives
  <2> QED
    BY <2>1, <2>2, <2>6, RevokeMove
<1> QED BY <1>1, <1>2, <1>3

(* The steps that write the session store. *)
LEMMA StoreSteps ==
  ASSUME OAuthTypes, OAuthRest, NEW c \in Callers, Clear(c) \/ Store(c)
  PROVE  OAuthRest'
<1> DEFINE x == call[c]
<1>0. /\ x \in CallStates /\ CallFits(x, epoch, begun) /\ oauthFaults \in Nat
      /\ LockInv /\ CodeInv /\ TokenInv /\ OutInv /\ WindowInv /\ StrayInv
  BY DEF OAuthTypes, OAuthRest
<1>1. session # NoSession => session.grant \in Grants /\ session.number \in Nat
  BY TokenFields, OAuthNumbers DEF OAuthTypes
<1>2. raced' = (raced \/ Races(c)) /\ UNCHANGED <<grants, begun, states, orphaned, replayed>>
  BY DEF Clear, Store
<1>3. ~raced' => ~raced /\ \A d \in Callers : d # c => ~InWindow(d)
  BY <1>2, NoRace
<1>4. CASE Clear(c)
  <2>1. x.pc = "clear" /\ x \in HoldStates
    BY <1>0, <1>4, CallPlaces DEF Clear
  <2> DEFINE y == [x EXCEPT !.pc = "store"]
  <2>2. /\ call' = [call EXCEPT ![c] = y] /\ refreshLock' = refreshLock /\ out' = out
        /\ y.pc = "store" /\ y.tokens = x.tokens
    BY <1>4, <2>1 DEF Clear, Goto, HoldStates
  <2>3. \/ session' = NoSession /\ oauthFaults' = oauthFaults
        \/ session' = session /\ oauthFaults' = oauthFaults + 1
    BY <1>4 DEF Clear, OAuthFault
  <2> HIDE DEF y
  <2>4. x.pc \in NewTokens /\ y.pc \in NewTokens
    BY <2>1, <2>2 DEF NewTokens
  <2>5. /\ ~Refreshes(x) /\ ~Refreshes(y) /\ Redeemed(x) /\ Redeemed(y)
        /\ \A h : /\ (Redeems(y, h) => Redeems(x, h)) /\ (Keeps(x, h) => Keeps(y, h))
                  /\ \A n : ~Succeeds(x, h, n)
    BY <2>2, <2>4, NewState
  <2>6. LockInv'
    BY <1>0, <2>2, <2>5, LockMove
  <2>7. CodeInv'
    BY <1>0, <1>1, <1>2, <2>2, <2>3, <2>5, CodeMove
  <2>8. TokenInv'
    BY <1>0, <1>1, <1>2, <2>2, <2>3, <2>5, TokenMove
  <2>9. OutInv'
    BY <1>0, <1>3, <2>2, <2>3, <2>5, OutMove
  <2>10. oauthFaults' = 0 => oauthFaults = 0 /\ session' = NoSession
    BY <1>0, <2>3
  <2>11. WindowInv'
    <3>1. WindowFits(y, session', grants', oauthFaults')
      BY <2>2, <2>5, <2>10 DEF WindowFits
    <3> QED
      BY <1>0, <1>2, <1>3, <2>2, <2>10, <3>1, WindowMove
  <2>12. StrayInv'
    <3>1. ~raced' /\ oauthFaults' = 0 => (session # NoSession => grants[session.grant].revoked)
      BY <1>0, <1>3, <2>1, <2>10 DEF WindowInv, WindowFits
    <3> QED
      BY <1>0, <1>2, <1>3, <2>2, <2>5, <2>10, <3>1, StrayMove
  <2> QED
    BY <2>6, <2>7, <2>8, <2>9, <2>11, <2>12 DEF OAuthRest
<1>5. CASE Store(c)
  <2>1. x.pc = "store" /\ x.pc \in NewTokens /\ x.tokens \in TokenSets /\ x.tokens.number = 1
    BY <1>0, <1>5, CallPlaces DEF Store, CallFits, NewTokens, Holding
  <2>2. /\ call' = [call EXCEPT ![c] = Returned]
        /\ refreshLock' = (IF refreshLock = c THEN Nobody ELSE refreshLock)
    BY <1>5 DEF Store, Return
  <2>3. \/ session' = x.tokens /\ oauthFaults' = oauthFaults /\ out' = FALSE
        \/ session' = session /\ oauthFaults' = oauthFaults + 1 /\ out' = out
    BY <1>5 DEF Store, OAuthFault
  <2>4. Returned.pc = "returned"
    BY DEF Returned
  <2>5. /\ ~Refreshes(x) /\ Redeemed(x)
        /\ \A h : (Redeems(x, h) <=> x.tokens.grant = h) /\ (Keeps(x, h) <=> x.tokens.grant = h)
        /\ \A h, n : ~Succeeds(x, h, n)
    BY <2>1, NewState
  <2>6. /\ ~Refreshes(Returned) /\ \A h : ~Redeems(Returned, h)
    BY <2>4, IdleState
  <2>7. x.tokens.grant \in Grants /\ x.tokens # NoSession
    BY <2>1, TokenFields
  <2>8. grants[x.tokens.grant].issued = 1
    BY <1>0, <2>5, <2>7 DEF CodeInv
  <2>9. LockInv'
    BY <1>0, <2>2, <2>6, LockMove
  <2>10. CodeInv'
    <3>1. session' # NoSession =>
           /\ session'.grant \in Grants
           /\ \/ session # NoSession /\ session'.grant = session.grant
              \/ Redeems(x, session'.grant)
      BY <1>1, <2>3, <2>5, <2>7
    <3> QED
      BY <1>0, <1>2, <2>2, <2>6, <3>1, CodeMove
  <2>11. TokenInv'
    <3>1. session' # NoSession =>
            \/ session # NoSession /\ session'.grant = session.grant /\ session'.number = session.number
            \/ /\ session'.grant \in Grants /\ grants[session'.grant].issued = session'.number
               /\ grants[session'.grant].issued >= 1
      BY <2>1, <2>3, <2>7, <2>8
    <3> QED
      BY <1>0, <1>2, <2>2, <2>5, <2>6, <3>1, TokenMove
  <2>12. OutInv'
    <3>1. out' /\ ~raced' => out /\ session' \in {session, NoSession}
      BY <2>3
    <3> QED
      BY <1>0, <1>3, <2>2, <2>6, <3>1, OutMove
  <2>13. oauthFaults' = 0 => oauthFaults = 0 /\ session' = x.tokens
    BY <1>0, <2>3
  <2>14. WindowInv'
    <3>1. WindowFits(Returned, session', grants', oauthFaults')
      BY <2>4, <2>6, PlainWindow
    <3> QED
      BY <1>0, <1>2, <1>3, <2>2, <2>13, <3>1, WindowMove
  <2>15. StrayInv'
    <3>1. ~raced' /\ oauthFaults' = 0 => session = NoSession
      BY <1>0, <1>3, <2>1, <2>13 DEF WindowInv, WindowFits
    <3>2. \A h : Keeps(x, h) => h = x.tokens.grant
      BY <2>5
    <3> QED
      BY <1>0, <1>2, <1>3, <2>2, <2>7, <2>13, <3>1, <3>2, StrayMove
  <2> QED
    BY <2>9, <2>10, <2>11, <2>12, <2>14, <2>15 DEF OAuthRest
<1> QED BY <1>4, <1>5
(* A successor lost with a call is recorded as lost. *)
LEMMA LosesSuccessor ==
  ASSUME NEW c \in Callers, call[c] \in CallStates, NEW g, NEW n \in Nat, Succeeds(call[c], g, n)
  PROVE  <<g, n>> \in LostSuccessor(c)
<1>1. CASE call[c].pc = "save"
  <2>1. call[c].tokens \in TokenSets
    BY <1>1, CallPlaces DEF Holding
  <2>2. call[c].tokens.grant = g /\ call[c].tokens.number = n + 1
    BY <1>1, SaveState
  <2>3. LostSuccessor(c) = {<<call[c].tokens.grant, call[c].tokens.number - 1>>}
    BY <1>1 DEF LostSuccessor
  <2> QED
    BY <2>2, <2>3
<1>2. CASE call[c].pc # "save"
  BY <1>2 DEF Succeeds, HasTokens, LostSuccessor
<1> QED BY <1>1, <1>2

LEMMA SaveStep ==
  ASSUME OAuthTypes, OAuthRest, NEW c \in Callers, Save(c)
  PROVE  OAuthRest'
<1> DEFINE x == call[c]
<1>0. /\ x \in CallStates /\ CallFits(x, epoch, begun) /\ oauthFaults \in Nat
      /\ LockInv /\ CodeInv /\ TokenInv /\ OutInv /\ WindowInv /\ StrayInv
  BY DEF OAuthTypes, OAuthRest
<1>1. session # NoSession => session.grant \in Grants /\ session.number \in Nat
  BY TokenFields, OAuthNumbers DEF OAuthTypes
<1>2. raced' = (raced \/ Races(c)) /\ UNCHANGED <<grants, begun, states, replayed, out>>
  BY DEF Save
<1>3. ~raced' => ~raced /\ \A d \in Callers : d # c => ~InWindow(d)
  BY <1>2, NoRace
<1>4. x.pc = "save" /\ x.tokens \in TokenSets
  BY <1>0, CallPlaces DEF Save, Holding
<1>5. /\ call' = [call EXCEPT ![c] = Returned]
      /\ refreshLock' = (IF refreshLock = c THEN Nobody ELSE refreshLock)
  BY DEF Save, Return
<1>6. \/ session' = x.tokens /\ oauthFaults' = oauthFaults /\ orphaned' = orphaned
      \/ session' = session /\ oauthFaults' = oauthFaults + 1 /\ orphaned' = orphaned \cup LostSuccessor(c)
  BY DEF Save, OAuthFault
<1>7. Returned.pc = "returned"
  BY DEF Returned
<1>8. ~Refreshes(Returned) /\ \A h : ~Redeems(Returned, h)
  BY <1>7, IdleState
<1>9. /\ Refreshes(x) /\ RefGrant(x) = x.tokens.grant
      /\ \A h : Keeps(x, h) <=> x.tokens.grant = h
  BY <1>4, SaveState
<1>10. x.tokens.grant \in Grants /\ x.tokens # NoSession /\ x.tokens.number \in 1..MaxNumber
  BY <1>4, TokenFields
<1>11. grants[x.tokens.grant].issued = x.tokens.number
  BY <1>0, <1>4, <1>9 DEF TokenInv, RefreshFits
<1>12. LockInv'
  BY <1>0, <1>5, <1>8, LockMove
<1>13. CodeInv'
  <2>1. session' # NoSession =>
         /\ session'.grant \in Grants
         /\ \/ session # NoSession /\ session'.grant = session.grant
            \/ Refreshes(x) /\ session'.grant = RefGrant(x)
    BY <1>1, <1>6, <1>9, <1>10
  <2> QED
    BY <1>0, <1>2, <1>5, <1>8, <2>1, CodeMove
<1>14. TokenInv'
  <2>1. session # NoSession => (Succeeds(x, session.grant, session.number) =>
          <<session.grant, session.number>> \in LostSuccessor(c))
    BY <1>0, <1>1, LosesSuccessor
  <2>2. session' # NoSession =>
          \/ /\ session # NoSession /\ session'.grant = session.grant /\ session'.number = session.number
             /\ Succeeds(x, session.grant, session.number) => <<session.grant, session.number>> \in orphaned'
          \/ /\ session'.grant \in Grants /\ grants[session'.grant].issued = session'.number
             /\ grants[session'.grant].issued >= 1
    BY <1>6, <1>10, <1>11, <2>1
  <2>3. orphaned \subseteq orphaned'
    BY <1>6
  <2> QED
    BY <1>0, <1>2, <1>5, <1>8, <2>2, <2>3, TokenMove
<1>15. OutInv'
  BY <1>0, <1>2, <1>3, <1>5, <1>9, OutMove
<1>16. oauthFaults' = 0 => oauthFaults = 0 /\ session' = x.tokens
  BY <1>0, <1>6
<1>17. WindowInv'
  <2>1. WindowFits(Returned, session', grants', oauthFaults')
    BY <1>7, <1>8, PlainWindow
  <2> QED
    BY <1>0, <1>2, <1>3, <1>5, <1>16, <2>1, WindowMove
<1>18. StrayInv'
  <2>1. ~raced' => session # NoSession /\ session.grant = x.tokens.grant
    BY <1>0, <1>3, <1>9 DEF WindowInv, WindowFits
  <2>2. \A h : Keeps(x, h) => h = x.tokens.grant
    BY <1>9
  <2> QED
    BY <1>0, <1>2, <1>3, <1>5, <1>10, <1>16, <2>1, <2>2, StrayMove
<1> QED
  BY <1>12, <1>13, <1>14, <1>15, <1>17, <1>18 DEF OAuthRest

LEMMA SignOutDeleteStep ==
  ASSUME OAuthTypes, OAuthRest, NEW c \in Callers, SignOutDelete(c)
  PROVE  OAuthRest'
<1> DEFINE x == call[c]
<1>0. /\ oauthFaults \in Nat
      /\ LockInv /\ CodeInv /\ TokenInv /\ OutInv /\ WindowInv /\ StrayInv
  BY DEF OAuthTypes, OAuthRest
<1>1. session # NoSession => session.grant \in Grants /\ session.number \in Nat
  BY TokenFields, OAuthNumbers DEF OAuthTypes
<1>2. raced' = (raced \/ Races(c)) /\ UNCHANGED <<grants, begun, states, replayed, orphaned>>
  BY DEF SignOutDelete
<1>3. ~raced' => ~raced /\ \A d \in Callers : d # c => ~InWindow(d)
  BY <1>2, NoRace
<1>4. x.pc = "delete"
  BY DEF SignOutDelete
<1>5. /\ call' = [call EXCEPT ![c] = Returned]
      /\ refreshLock' = (IF refreshLock = c THEN Nobody ELSE refreshLock)
  BY DEF SignOutDelete, Return
<1>6. \/ session' = NoSession /\ oauthFaults' = oauthFaults /\ out' = TRUE
      \/ session' = session /\ oauthFaults' = oauthFaults + 1 /\ out' = out
  BY DEF SignOutDelete, OAuthFault
<1>7. Returned.pc = "returned"
  BY DEF Returned
<1>8. ~Refreshes(Returned) /\ \A h : ~Redeems(Returned, h)
  BY <1>7, IdleState
<1>9. ~Refreshes(x) /\ \A h : ~Keeps(x, h) /\ \A n : ~Succeeds(x, h, n)
  BY <1>4, IdleState
<1>10. LockInv'
  BY <1>0, <1>5, <1>8, LockMove
<1>11. CodeInv'
  BY <1>0, <1>1, <1>2, <1>5, <1>6, <1>8, CodeMove
<1>12. TokenInv'
  BY <1>0, <1>1, <1>2, <1>5, <1>6, <1>8, <1>9, TokenMove
<1>13. OutInv'
  <2>1. ~raced' => \A d \in Callers : d # c => ~Refreshes(call[d])
    BY <1>3, RefreshIsWindow
  <2>2. out' /\ ~raced' =>
          \/ out /\ session' \in {session, NoSession} /\ (Refreshes(Returned) => session # NoSession)
          \/ /\ session' = NoSession /\ ~Refreshes(Returned)
             /\ \A d \in Callers : d # c => ~Refreshes(call[d])
    BY <1>6, <1>8, <2>1
  <2> HIDE DEF x
  <2> QED
    BY <1>0, <1>3, <1>5, <2>2, OutMove
<1>14. oauthFaults' = 0 => oauthFaults = 0
  BY <1>0, <1>6
<1>15. WindowInv'
  <2>1. WindowFits(Returned, session', grants', oauthFaults')
    BY <1>7, <1>8, PlainWindow
  <2> QED
    BY <1>0, <1>2, <1>3, <1>5, <1>14, <2>1, WindowMove
<1>16. StrayInv'
  <2>1. ~raced' /\ oauthFaults' = 0 => (session # NoSession => grants[session.grant].revoked)
    BY <1>0, <1>3, <1>4, <1>14 DEF WindowInv, WindowFits
  <2> QED
    BY <1>0, <1>2, <1>3, <1>5, <1>9, <1>14, <2>1, StrayMove
<1> QED
  BY <1>10, <1>11, <1>12, <1>13, <1>15, <1>16 DEF OAuthRest

LEMMA LoseStep ==
  ASSUME OAuthTypes, OAuthRest, NEW c \in Callers, Lose(c)
  PROVE  OAuthRest'
<1> DEFINE x == call[c]
<1>0. /\ x \in CallStates /\ oauthFaults \in Nat
      /\ LockInv /\ CodeInv /\ TokenInv /\ OutInv /\ WindowInv /\ StrayInv
  BY DEF OAuthTypes, OAuthRest
<1>1. session # NoSession => session.grant \in Grants /\ session.number \in Nat
  BY TokenFields, OAuthNumbers DEF OAuthTypes
<1>2. /\ UNCHANGED <<grants, session, begun, states, replayed, out, raced>>
      /\ oauthFaults' = oauthFaults + 1 /\ orphaned' = orphaned \cup LostSuccessor(c)
  BY DEF Lose, OAuthFault
<1>3. /\ call' = [call EXCEPT ![c] = Returned]
      /\ refreshLock' = (IF refreshLock = c THEN Nobody ELSE refreshLock)
  BY DEF Lose, Return
<1>4. Returned.pc = "returned"
  BY DEF Returned
<1>5. ~Refreshes(Returned) /\ \A h : ~Redeems(Returned, h)
  BY <1>4, IdleState
<1>6. oauthFaults' # 0
  BY <1>0, <1>2
<1>7. LockInv'
  BY <1>0, <1>3, <1>5, LockMove
<1>8. CodeInv'
  BY <1>0, <1>1, <1>2, <1>3, <1>5, CodeMove
<1>9. TokenInv'
  <2>1. session # NoSession => (Succeeds(x, session.grant, session.number) =>
          <<session.grant, session.number>> \in LostSuccessor(c))
    BY <1>0, <1>1, LosesSuccessor
  <2> QED
    BY <1>0, <1>2, <1>3, <1>5, <2>1, TokenMove
<1>10. OutInv'
  BY <1>0, <1>2, <1>3, <1>5, OutMove
<1>11. WindowInv'
  <2>1. WindowFits(Returned, session', grants', oauthFaults')
    BY <1>4, <1>5, PlainWindow
  <2> QED
    BY <1>0, <1>2, <1>3, <1>6, <2>1, WindowMove
<1>12. StrayInv'
  BY <1>6 DEF StrayInv
<1> QED
  BY <1>7, <1>8, <1>9, <1>10, <1>11, <1>12 DEF OAuthRest
(* The server answers without tokens, and refuses what was used before. *)
LEMMA RefusalMove ==
  ASSUME OAuthTypes, OAuthRest, NEW c \in Callers, NEW y, call' = [call EXCEPT ![c] = y],
         call[c].pc = "sent", call[c] \in RequestStates,
         y.pc = "answered", y.what = call[c].what, y.grant = call[c].grant, y.number = call[c].number,
         y.answer \notin TokenAnswers,
         UNCHANGED <<grants, session, states, begun, orphaned, out, raced, oauthFaults, refreshLock>>,
         \/ replayed' = replayed
         \/ /\ call[c].what = "refresh" /\ call[c].number < grants[call[c].grant].issued
            /\ replayed' = replayed \cup {<<call[c].grant, call[c].number>>}
  PROVE  OAuthRest'
<1> DEFINE x == call[c]
<1>0. LockInv /\ CodeInv /\ TokenInv /\ OutInv /\ WindowInv /\ StrayInv
  BY DEF OAuthRest
<1>1. session # NoSession => session.grant \in Grants /\ session.number \in Nat
  BY TokenFields, OAuthNumbers DEF OAuthTypes
<1>2. /\ ~HasTokens(x) /\ ~HasTokens(y) /\ x.pc \in Asking /\ y.pc \in Asking
  BY DEF HasTokens, Asking
<1>3. /\ (Refreshes(x) <=> x.what = "refresh") /\ RefGrant(x) = x.grant /\ ~Redeemed(x)
      /\ \A g : /\ Redeems(x, g) <=> x.what = "exchange" /\ x.grant = g
                /\ ~Keeps(x, g) /\ \A n : ~Succeeds(x, g, n)
  BY <1>2, RequestState
<1>4. /\ (Refreshes(y) <=> x.what = "refresh") /\ RefGrant(y) = x.grant /\ ~Redeemed(y)
      /\ \A g : Redeems(y, g) <=> x.what = "exchange" /\ x.grant = g
  BY <1>2, RequestState
<1>5. x.grant \in Grants /\ x.number \in 0..MaxNumber
  BY RequestFields
<1>6. x.what = "refresh" => /\ grants[x.grant].issued >= 1
                            /\ Current(grants, orphaned, x.grant, x.number)
  BY <1>0, <1>2, <1>3 DEF TokenInv, RefreshFits
<1>7. replayed' \subseteq orphaned'
  BY <1>0, <1>5, <1>6, OAuthNumbers DEF TokenInv, Current, OAuthTypes
<1>8. Refreshes(y) => RefreshFits(y, grants', orphaned')
  BY <1>2, <1>4, <1>6 DEF RefreshFits, Asking
<1>9. LockInv'
  BY <1>0, <1>3, <1>4, LockMove
<1>10. CodeInv'
  BY <1>0, <1>1, <1>3, <1>4, CodeMove
<1>11. TokenInv'
  BY <1>0, <1>1, <1>3, <1>7, <1>8, TokenMove
<1>12. OutInv'
  <2>1. out' /\ ~raced' =>
          \/ out /\ Refreshes(x)
          \/ out /\ session' \in {session, NoSession} /\ (Refreshes(y) => session # NoSession)
    BY <1>3, <1>4
  <2> QED
    BY <1>0, <2>1, OutMove
<1>13. WindowInv'
  <2>1. ~raced' => WindowFits(y, session', grants', oauthFaults')
    BY <1>0, <1>3, <1>4 DEF WindowInv, WindowFits
  <2> QED
    BY <1>0, <2>1, WindowMove
<1>14. StrayInv'
  BY <1>0, <1>3, StrayMove
<1> QED
  BY <1>9, <1>10, <1>11, <1>12, <1>13, <1>14 DEF OAuthRest

(* The server issues tokens for a code or a refresh token. *)
LEMMA IssueMove ==
  ASSUME OAuthTypes, OAuthRest, NEW c \in Callers, NEW y, call' = [call EXCEPT ![c] = y],
         call[c].pc = "sent", call[c] \in RequestStates,
         y.pc = "answered", y.what = call[c].what, y.grant = call[c].grant, y.number = call[c].number,
         y.answer \in TokenAnswers, call[c].what \in {"exchange", "refresh"},
         grants' = [grants EXCEPT ![call[c].grant].issued = @ + 1],
         grants[call[c].grant].issued = (IF call[c].what = "refresh" THEN call[c].number ELSE 0),
         UNCHANGED <<session, states, begun, orphaned, replayed, out, raced, oauthFaults, refreshLock>>
  PROVE  OAuthRest'
<1> DEFINE x == call[c]
           g == call[c].grant
<1>0. /\ LockInv /\ CodeInv /\ TokenInv /\ OutInv /\ WindowInv /\ StrayInv
      /\ CallFits(x, epoch, begun)
  BY DEF OAuthRest, OAuthTypes
<1>1. /\ session # NoSession => session.grant \in Grants /\ session.number \in Nat
      /\ \A h \in Grants : grants[h].issued \in Nat
  BY TokenFields, OAuthNumbers DEF OAuthTypes
<1>2. /\ ~HasTokens(x) /\ HasTokens(y) /\ x.pc \in Asking /\ y.pc \in Asking
  BY DEF HasTokens, Asking
<1>3. /\ (Refreshes(x) <=> x.what = "refresh") /\ RefGrant(x) = g
      /\ \A h : /\ Redeems(x, h) <=> x.what = "exchange" /\ g = h
                /\ ~Keeps(x, h) /\ \A n : ~Succeeds(x, h, n)
  BY <1>2, RequestState
<1>4. /\ (Refreshes(y) <=> x.what = "refresh") /\ RefGrant(y) = g /\ Redeemed(y)
      /\ \A h : /\ Redeems(y, h) <=> x.what = "exchange" /\ g = h
                /\ Keeps(y, h) <=> h = g
                /\ \A n : Succeeds(y, h, n) <=> x.what = "refresh" /\ h = g /\ x.number = n
  <2>1. /\ (Refreshes(y) <=> y.what = "refresh") /\ RefGrant(y) = y.grant /\ Redeemed(y)
        /\ \A h : /\ Redeems(y, h) <=> y.what = "exchange" /\ y.grant = h
                  /\ Keeps(y, h) <=> y.grant = h
                  /\ \A n : Succeeds(y, h, n) <=> y.what = "refresh" /\ y.grant = h /\ y.number = n
    BY <1>2, RequestState
  <2> QED
    BY <2>1
<1>5. /\ g \in Grants /\ x.number \in Nat
      /\ x.what = "refresh" => x.number < MaxNumber
  BY <1>0, <1>2, RequestFields, OAuthNumbers DEF CallFits
<1>6. /\ grants'[g].issued = grants[g].issued + 1 /\ grants'[g].revoked = grants[g].revoked
      /\ \A h \in Grants : h # g => grants'[h] = grants[h]
  <2>1. grants[g].issued < MaxNumber
    BY <1>5, OAuthNumbers
  <2> HIDE DEF g
  <2>2. grants' = [grants EXCEPT ![g].issued = @ + 1]
    BY DEF g
  <2> QED
    BY <1>5, <2>1, <2>2, IssueTypes
<1>7. call'[c] = y /\ \A d \in Callers : d # c => call'[d] = call[d]
  BY OneMoves
<1>8. x.what = "refresh" => grants[g].issued >= 1
  BY <1>0, <1>3 DEF TokenInv, RefreshFits
<1>9. x.what = "exchange" =>
        /\ \A d \in Callers : Redeems(call[d], g) => d = c
        /\ session # NoSession => session.grant # g
        /\ \A d \in Callers : Refreshes(call[d]) => RefGrant(call[d]) # g
  BY <1>0, <1>3, <1>5 DEF CodeInv
<1>10. x.what = "refresh" => \A d \in Callers : Refreshes(call[d]) => d = c
  BY <1>0, <1>3, OneRefresh
<1> HIDE DEF x, g
<1>11. LockInv'
  BY <1>0, <1>3, <1>4, LockMove DEF x
<1>12. CodeInv'
  <2>1. \A d \in Callers, h \in Grants : Redeems(call'[d], h) <=> Redeems(call[d], h)
    <3> SUFFICES ASSUME NEW d \in Callers, NEW h \in Grants
        PROVE  Redeems(call'[d], h) <=> Redeems(call[d], h)
      OBVIOUS
    <3>1. CASE d = c
      BY <1>3, <1>4, <1>7, <3>1 DEF x
    <3>2. CASE d # c
      BY <1>7, <3>2, Zenon
    <3> QED BY <3>1, <3>2
  <2>2. \A d \in Callers : Refreshes(call'[d]) => Refreshes(call[d]) /\ RefGrant(call'[d]) = RefGrant(call[d])
    <3> SUFFICES ASSUME NEW d \in Callers, Refreshes(call'[d])
        PROVE  Refreshes(call[d]) /\ RefGrant(call'[d]) = RefGrant(call[d])
      OBVIOUS
    <3>1. CASE d = c
      BY <1>3, <1>4, <1>7, <3>1 DEF x
    <3>2. CASE d # c
      <4>1. call'[d] = call[d]
        BY <1>7, <3>2
      <4> QED
        BY <4>1, Zenon
    <3> QED BY <3>1, <3>2
  <2>3. \A h \in Grants : h > begun' \/ h \in states' =>
          grants'[h].issued = 0 /\ \A d \in Callers : ~Redeems(call'[d], h)
    <3> SUFFICES ASSUME NEW h \in Grants, h > begun' \/ h \in states'
        PROVE  grants'[h].issued = 0 /\ \A d \in Callers : ~Redeems(call'[d], h)
      OBVIOUS
    <3>1. grants[h].issued = 0 /\ \A d \in Callers : ~Redeems(call[d], h)
      BY <1>0 DEF CodeInv
    <3>2. h # g
      BY <1>3, <1>8, <3>1 DEF x
    <3> QED
      BY <1>6, <2>1, <3>1, <3>2
  <2>4. \A h \in Grants, d, e \in Callers : Redeems(call'[d], h) /\ Redeems(call'[e], h) => d = e
    BY <1>0, <2>1 DEF CodeInv
  <2>5. ASSUME NEW h \in Grants, NEW d \in Callers, Redeems(call'[d], h)
        PROVE  /\ grants'[h].issued = IF Redeemed(call'[d]) THEN 1 ELSE 0
               /\ session' # NoSession => session'.grant # h
               /\ \A e \in Callers : Refreshes(call'[e]) => RefGrant(call'[e]) # h
    <3>1. Redeems(call[d], h)
      BY <2>1, <2>5
    <3>2. /\ grants[h].issued = IF Redeemed(call[d]) THEN 1 ELSE 0
          /\ session # NoSession => session.grant # h
          /\ \A e \in Callers : Refreshes(call[e]) => RefGrant(call[e]) # h
      BY <1>0, <3>1 DEF CodeInv
    <3>3. \A e \in Callers : Refreshes(call'[e]) => RefGrant(call'[e]) # h
      BY <2>2, <3>2
    <3>4. grants'[h].issued = IF Redeemed(call'[d]) THEN 1 ELSE 0
      <4>1. CASE h = g
        <5>1. x.what = "exchange"
          BY <1>3, <3>2, <4>1 DEF x
        <5>2. d = c
          BY <1>9, <3>1, <4>1, <5>1
        <5>3. grants[g].issued = 0
          BY <5>1 DEF x, g
        <5> QED
          BY <1>4, <1>6, <1>7, <4>1, <5>2, <5>3
      <4>2. CASE h # g
        <5>1. d # c
          BY <1>3, <3>1, <4>2 DEF x
        <5>2. Redeemed(call'[d]) <=> Redeemed(call[d])
          BY <1>7, <5>1, Zenon
        <5> QED
          BY <1>6, <3>2, <4>2, <5>2
      <4> QED BY <4>1, <4>2
    <3> QED
      BY <3>2, <3>3, <3>4
  <2> QED
    BY <2>3, <2>4, <2>5 DEF CodeInv, Redeems, Redeemed, Refreshes, RefGrant, HasTokens
<1>13. TokenInv'
  <2>1. ASSUME NEW d \in Callers, Refreshes(call'[d]) PROVE RefreshFits(call'[d], grants', orphaned')
    <3>1. CASE d = c
      <4>1. x.what = "refresh"
        BY <1>4, <1>7, <2>1, <3>1
      <4>2. grants'[g].issued = x.number + 1
        BY <1>6, <4>1 DEF x, g
      <4>3. RefreshFits(y, grants', orphaned')
        BY <1>2, <1>4, <1>5, <4>2 DEF RefreshFits, Asking, x, g
      <4> QED
        BY <1>7, <3>1, <4>3
    <3>2. CASE d # c
      <4>1. call'[d] = call[d]
        BY <1>7, <3>2
      <4>2. Refreshes(call[d]) /\ RefreshFits(call[d], grants, orphaned)
        BY <1>0, <2>1, <4>1 DEF TokenInv
      <4>3. x.what = "exchange"
        BY <1>10, <3>2, <4>2 DEF x
      <4>4. RefGrant(call[d]) # g /\ RefGrant(call[d]) \in Grants
        BY <1>9, <4>2, <4>3, RefGrants DEF OAuthTypes
      <4>5. RefreshFits(call[d], grants', orphaned')
        BY <1>6, <4>2, <4>4, RefreshFitsOn
      <4> QED
        BY <4>1, <4>5, Zenon
    <3> QED BY <3>1, <3>2
  <2>2. ASSUME session' # NoSession
        PROVE  /\ grants'[session'.grant].issued >= 1
               /\ \/ Current(grants', orphaned', session'.grant, session'.number)
                  \/ \E d \in Callers : Succeeds(call'[d], session'.grant, session'.number)
    <3>1. PICK h, n : session # NoSession /\ h = session.grant /\ n = session.number
      BY <2>2
    <3>2. /\ h \in Grants /\ grants[h].issued >= 1
          /\ Current(grants, orphaned, h, n) \/ \E d \in Callers : Succeeds(call[d], h, n)
      BY <1>0, <1>1, <3>1 DEF TokenInv
    <3>3. grants'[h].issued >= 1
      BY <1>1, <1>6, <3>2
    <3>4. Current(grants', orphaned', h, n) \/ \E d \in Callers : Succeeds(call'[d], h, n)
      <4>1. CASE h # g
        <5>1. CASE Current(grants, orphaned, h, n)
          BY <1>6, <3>2, <4>1, <5>1 DEF Current
        <5>2. CASE \E d \in Callers : Succeeds(call[d], h, n)
          <6>1. PICK d \in Callers : Succeeds(call[d], h, n)
            BY <5>2
          <6>2. d # c
            BY <1>3, <6>1 DEF x
          <6>3. Succeeds(call'[d], h, n)
            BY <1>7, <6>1, <6>2, Zenon
          <6> QED BY <6>3
        <5> QED BY <3>2, <5>1, <5>2
      <4>2. CASE h = g
        <5>1. x.what = "refresh"
          BY <1>9, <3>1, <4>2 DEF x
        <5>2. \A d \in Callers : ~Succeeds(call[d], h, n)
          BY <1>3, <1>10, <5>1, SucceedsRefreshes DEF x
        <5>3. <<h, n>> \in orphaned \/ n = x.number
          BY <3>2, <4>2, <5>1, <5>2 DEF Current, x, g
        <5>4. n = x.number => Succeeds(call'[c], h, n)
          BY <1>4, <1>7, <4>2, <5>1
        <5> QED
          BY <5>3, <5>4 DEF Current
      <4> QED BY <4>1, <4>2
    <3> QED
      BY <3>1, <3>3, <3>4
  <2>3. replayed' \subseteq orphaned'
    BY <1>0 DEF TokenInv
  <2> QED
    BY <2>1, <2>2, <2>3
       DEF TokenInv, Current, Succeeds, Refreshes, RefreshFits, RefGrant, HasTokens
<1>14. OutInv'
  <2>1. out' /\ ~raced' =>
          \/ out /\ Refreshes(call[c])
          \/ out /\ session' \in {session, NoSession} /\ (Refreshes(y) => session # NoSession)
    BY <1>3, <1>4 DEF x
  <2> QED
    BY <1>0, <2>1, OutMove
<1>15. WindowInv'
  <2>1. ~raced' => WindowFits(y, session', grants', oauthFaults')
    BY <1>0, <1>3, <1>4 DEF WindowInv, WindowFits, x
  <2>2. \A h \in Grants : grants[h].revoked => grants'[h].revoked
    BY <1>6
  <2> QED
    BY <1>0, <2>1, <2>2, WindowMove
<1>16. StrayInv'
  <2>1. \A h \in Grants : /\ h # g => grants'[h] = grants[h]
                          /\ h = g => Keeps(y, h)
                          /\ ~Keeps(call[c], h)
    BY <1>3, <1>4, <1>6 DEF x
  <2> QED
    BY <1>0, <2>1, StrayMove
<1> QED
  BY <1>11, <1>12, <1>13, <1>14, <1>15, <1>16 DEF OAuthRest

LEMMA ServeStep ==
  ASSUME OAuthTypes, OAuthRest, NEW c \in Callers, Serve(c)
  PROVE  OAuthRest'
<1>1. PICK a \in Answers :
        /\ call[c].pc = "sent" /\ call[c] \in RequestStates
        /\ call' = [call EXCEPT ![c] = [call[c] EXCEPT !.pc = "answered", !.answer = a, !.nonce = epoch]]
        /\ refreshLock' = refreshLock
        /\ UNCHANGED <<epoch, session, states, begun, nonce, orphaned, out, raced, oauthFaults>>
        /\ \/ a \notin TokenAnswers /\ grants' = grants
           \/ /\ a \in TokenAnswers /\ call[c].what \in {"exchange", "refresh"}
              /\ grants' = [grants EXCEPT ![call[c].grant].issued = @ + 1]
              /\ grants[call[c].grant].issued = (IF call[c].what = "refresh" THEN call[c].number ELSE 0)
        /\ \/ replayed' = replayed
           \/ /\ call[c].what = "refresh" /\ call[c].number < grants[call[c].grant].issued
              /\ replayed' = replayed \cup {<<call[c].grant, call[c].number>>}
  BY ServeAnswers
<1> DEFINE y == [call[c] EXCEPT !.pc = "answered", !.answer = a, !.nonce = epoch]
<1>2. /\ y.pc = "answered" /\ y.what = call[c].what /\ y.grant = call[c].grant
      /\ y.number = call[c].number /\ y.answer = a
  BY <1>1 DEF RequestStates
<1>3. call' = [call EXCEPT ![c] = y]
  BY <1>1
<1> HIDE DEF y
<1>4. CASE a \notin TokenAnswers
  BY <1>1, <1>2, <1>3, <1>4, RefusalMove
<1>5. CASE a \in TokenAnswers
  <2>1. replayed' = replayed
    <3>1. call[c].number \in Nat
      BY <1>1, RequestFields, OAuthNumbers
    <3> QED
      BY <1>1, <1>5, <3>1
  <2> QED
    BY <1>1, <1>2, <1>3, <1>5, <2>1, IssueMove
<1> QED BY <1>4, <1>5
(* Time passes, or nothing does: the calls and what the session holds stay.  *)
LEMMA CalmStep ==
  ASSUME OAuthTypes, OAuthRest,
         UNCHANGED <<grants, call, refreshLock, begun, states, orphaned, replayed, out, raced, oauthFaults>>,
         \/ session' = session
         \/ /\ session # NoSession /\ session' # NoSession
            /\ session'.grant = session.grant /\ session'.number = session.number
  PROVE  OAuthRest'
<1>0. LockInv /\ CodeInv /\ TokenInv /\ OutInv /\ WindowInv /\ StrayInv
  BY DEF OAuthRest
<1>1. /\ session' = NoSession <=> session = NoSession
      /\ session # NoSession => session'.grant = session.grant /\ session'.number = session.number
  OBVIOUS
<1>2. LockInv'
  BY <1>0 DEF LockInv, Refreshes
<1>3. CodeInv'
  BY <1>0, <1>1 DEF CodeInv, Redeems, Redeemed, Refreshes, RefGrant, HasTokens
<1>4. TokenInv'
  BY <1>0, <1>1 DEF TokenInv, Current, Succeeds, Refreshes, RefreshFits, RefGrant, HasTokens
<1>5. OutInv'
  BY <1>0, <1>1 DEF OutInv, Refreshes
<1>6. WindowInv'
  BY <1>0, <1>1 DEF WindowInv, WindowFits, Refreshes, RefGrant
<1>7. StrayInv'
  BY <1>0, <1>1 DEF StrayInv, Keeps, HasTokens
<1> QED
  BY <1>2, <1>3, <1>4, <1>5, <1>6, <1>7 DEF OAuthRest

LEMMA RestartStep ==
  ASSUME OAuthTypes, OAuthRest, Restarts
  PROVE  OAuthRest'
<1>0. /\ oauthFaults \in Nat /\ \A c \in Callers : call[c] \in CallStates
      /\ LockInv /\ CodeInv /\ TokenInv /\ OutInv /\ WindowInv /\ StrayInv
  BY DEF OAuthTypes, OAuthRest
<1>1. /\ UNCHANGED <<grants, begun, replayed, out, raced>> /\ refreshLock' = Nobody
      /\ oauthFaults' = oauthFaults + 1 /\ \A c \in Callers : call'[c] = Returned
      /\ \/ session' = session /\ states' = states
         \/ session' = NoSession /\ states' = {}
  BY DEF Restarts, OAuthFault
<1>2. orphaned \subseteq orphaned' /\ \A c \in Callers : LostSuccessor(c) \subseteq orphaned'
  BY DEF Restarts
<1>3. Returned.pc = "returned"
  BY DEF Returned
<1>4. /\ ~Refreshes(Returned) /\ \A g : ~Redeems(Returned, g)
  BY <1>3, IdleState
<1>5. \A c \in Callers : ~Refreshes(call'[c]) /\ \A g : ~Redeems(call'[c], g)
  BY <1>1, <1>4
<1>6. LockInv'
  BY <1>1, <1>5, OAuthAssumption DEF LockInv, Refreshes
<1>7. CodeInv'
  <2>1. \A g \in Grants : g > begun' \/ g \in states' => grants'[g].issued = 0
    BY <1>0, <1>1 DEF CodeInv
  <2> QED
    BY <1>5, <2>1 DEF CodeInv, Redeems, Redeemed, Refreshes, RefGrant, HasTokens
<1>8. TokenInv'
  <2>1. ASSUME session' # NoSession
        PROVE  /\ grants'[session'.grant].issued >= 1
               /\ Current(grants', orphaned', session'.grant, session'.number)
    <3>1. PICK g, n : session # NoSession /\ g = session.grant /\ n = session.number
      BY <1>1, <2>1
    <3>2. /\ grants[g].issued >= 1 /\ n \in Nat
          /\ Current(grants, orphaned, g, n) \/ \E c \in Callers : Succeeds(call[c], g, n)
      BY <1>0, <3>1, TokenFields, OAuthNumbers DEF TokenInv, OAuthTypes
    <3>3. ASSUME NEW c \in Callers, Succeeds(call[c], g, n) PROVE <<g, n>> \in orphaned'
      <4>1. <<g, n>> \in LostSuccessor(c)
        BY <1>0, <3>2, <3>3, LosesSuccessor
      <4> QED
        BY <1>2, <4>1
    <3> QED
      BY <1>1, <1>2, <2>1, <3>1, <3>2, <3>3 DEF Current
  <2>2. replayed' \subseteq orphaned'
    BY <1>0, <1>1, <1>2 DEF TokenInv
  <2> QED
    BY <1>5, <2>1, <2>2
       DEF TokenInv, Current, Succeeds, Refreshes, RefreshFits, RefGrant, HasTokens
<1>9. OutInv'
  BY <1>0, <1>1, <1>5 DEF OutInv, Refreshes
<1>10. WindowInv'
  <2>1. \A c \in Callers : WindowFits(call'[c], session', grants', oauthFaults')
    BY <1>1, <1>3, <1>4, PlainWindow
  <2> QED
    BY <2>1 DEF WindowInv, WindowFits, Refreshes, RefGrant
<1>11. StrayInv'
  BY <1>0, <1>1 DEF StrayInv
<1> QED
  BY <1>6, <1>7, <1>8, <1>9, <1>10, <1>11 DEF OAuthRest

LEMMA OAuthInvariant == OAuthSpec => []OAuthInv
<1>1. OAuthInit => OAuthInv
  <2> SUFFICES ASSUME OAuthInit PROVE OAuthInv
    OBVIOUS
  <2>1. Returned.pc = "returned"
    BY DEF Returned
  <2>2. \A c \in Callers : call[c] = Returned
    BY DEF OAuthInit
  <2>3. /\ ~Refreshes(Returned) /\ \A g : ~Redeems(Returned, g)
    BY <2>1, IdleState
  <2>4. OAuthTypes
    BY <2>2, OAuthNumbers, CallKinds, ReturnedFits DEF OAuthInit, OAuthTypes
  <2>5. LockInv
    BY <2>2, <2>3, OAuthAssumption DEF LockInv, OAuthInit
  <2>6. \A g \in Grants : grants[g].issued = 0
    BY DEF OAuthInit
  <2>7. session = NoSession /\ replayed = {} /\ out = FALSE
    BY DEF OAuthInit
  <2>8. CodeInv
    BY <2>2, <2>3, <2>6, <2>7 DEF CodeInv
  <2>9. TokenInv
    BY <2>2, <2>3, <2>7 DEF TokenInv
  <2>10. OutInv
    BY <2>7 DEF OutInv
  <2>11. WindowInv
    BY <2>1, <2>2, <2>3, PlainWindow DEF WindowInv
  <2>12. StrayInv
    BY <2>6 DEF StrayInv
  <2> QED
    BY <2>4, <2>5, <2>8, <2>9, <2>10, <2>11, <2>12 DEF OAuthInv
<1>2. OAuthInv /\ [OAuthNext]_oauthVars => OAuthInv'
  <2> SUFFICES ASSUME OAuthTypes, OAuthRest, [OAuthNext]_oauthVars PROVE OAuthTypes' /\ OAuthRest'
    BY DEF OAuthInv, OAuthRest
  <2>1. CASE UNCHANGED oauthVars
    <3>1. OAuthTypes'
      BY <2>1 DEF oauthVars, OAuthTypes, CallFits
    <3>2. OAuthRest'
      BY <2>1, CalmStep DEF oauthVars
    <3> QED BY <3>1, <3>2
  <2>2. CASE OAuthNext
    <3>1. OAuthTypes'
      BY <2>2, OAuthTypesStep
    <3>2. ASSUME NEW c \in Callers, CallStep(c) PROVE OAuthRest'
      BY <3>2, AuthorizeStep, QuietSteps, RevokeSteps, StoreSteps, CallbackStep, SaveStep,
         SignOutDeleteStep DEF CallStep
    <3>3. ASSUME NEW c \in Callers, Serve(c) \/ Lose(c) PROVE OAuthRest'
      BY <3>3, ServeStep, LoseStep
    <3>4. ASSUME RotateNonce PROVE OAuthRest'
      BY <3>4, CalmStep DEF RotateNonce
    <3>5. ASSUME Expire PROVE OAuthRest'
      <4>1. session # NoSession /\ session \in TokenSets /\ session' = [session EXCEPT !.stale = TRUE]
        BY <3>5 DEF Expire, OAuthTypes
      <4>2. session' \in TokenSets /\ session'.grant = session.grant /\ session'.number = session.number
        BY <4>1 DEF TokenSets
      <4>3. session' # NoSession
        BY <4>2, TokenFields
      <4>4. UNCHANGED <<grants, call, refreshLock, begun, states, orphaned, replayed, out, raced, oauthFaults>>
        BY <3>5 DEF Expire
      <4> QED
        BY <4>1, <4>2, <4>3, <4>4, CalmStep
    <3>6. ASSUME Restarts PROVE OAuthRest'
      BY <3>6, RestartStep
    <3> QED
      BY <2>2, <3>1, <3>2, <3>3, <3>4, <3>5, <3>6 DEF OAuthNext
  <2> QED BY <2>1, <2>2
<1> QED
  BY <1>1, <1>2, PTL DEF OAuthSpec

(* Whatever calls overlap and whatever fails, the state has its type, and    *)
(* the refresh lock of get_session is held by exactly the call that is       *)
(* refreshing.                                                               *)
THEOREM OAuthTypeCorrect == OAuthSpec => []OAuthTypeOK
<1>1. OAuthInv => OAuthTypeOK
  <2> SUFFICES ASSUME OAuthInv PROVE OAuthTypeOK
    OBVIOUS
  <2>1. OAuthTypes /\ LockInv
    BY DEF OAuthInv
  <2>2. 1..begun \subseteq Grants
    BY <2>1, OAuthNumbers DEF OAuthTypes, Grants
  <2> QED
    BY <2>1, <2>2 DEF OAuthTypes, OAuthTypeOK, LockInv, Refreshes, Asking
<1> QED
  BY <1>1, OAuthInvariant, PTL

(* A refresh token that was used up is presented again only if a fault       *)
(* destroyed its successor, and no two calls exchange the same code: the     *)
(* refresh lock with its second read, and take() of the state store, make    *)
(* every credential single-use for any number of calls and faults.           *)
THEOREM OAuthSpentOnce == OAuthSpec => []SpentOnce
<1>1. OAuthInv => SpentOnce
  <2> SUFFICES ASSUME OAuthInv PROVE SpentOnce
    OBVIOUS
  <2>1. OAuthTypes /\ CodeInv /\ TokenInv
    BY DEF OAuthInv
  <2>2. RefreshTokenUsedOnce
    BY <2>1 DEF TokenInv, RefreshTokenUsedOnce
  <2>3. \A g \in states : grants[g].issued = 0
    <3>1. states \subseteq Grants
      BY <2>1, OAuthNumbers DEF OAuthTypes, Grants
    <3> QED
      BY <2>1, <3>1 DEF CodeInv
  <2>4. ASSUME NEW c \in Callers, NEW d \in Callers, c # d,
               call[c].pc \in {"sent", "answered", "retry"}, call[c].what = "exchange",
               call[d].pc \in {"sent", "answered", "retry"}, call[d].what = "exchange",
               call[c].grant = call[d].grant
        PROVE  FALSE
    <3>1. call[c] \in CallStates
      BY <2>1 DEF OAuthTypes
    <3>2. call[c].grant \in Grants
      BY <2>4, <3>1, CallPlaces, RequestFields DEF Asking
    <3>3. Redeems(call[c], call[c].grant) /\ Redeems(call[d], call[c].grant)
      BY <2>4 DEF Redeems, Asking
    <3> QED
      BY <2>1, <2>4, <3>2, <3>3 DEF CodeInv
  <2>5. CodeRedeemedOnce
    BY <2>3, <2>4 DEF CodeRedeemedOnce
  <2> QED
    BY <2>2, <2>5 DEF SpentOnce
<1> QED
  BY <1>1, OAuthInvariant, PTL

(* Without a write in another call's read-to-write window, a session signed  *)
(* out stays out; and if no fault hit a request either, every grant the      *)
(* server honours is stored or in the hands of a call: what callback and     *)
(* sign_out revoke before they delete is all that could have been left.      *)
THEOREM OAuthNothingOutlives == OAuthSpec => []NothingOutlives
<1>1. OAuthInv => NothingOutlives
  <2> SUFFICES ASSUME OAuthInv PROVE NothingOutlives
    OBVIOUS
  <2>1. OAuthTypes /\ OutInv /\ StrayInv
    BY DEF OAuthInv
  <2>2. SignedOutStaysOut
    BY <2>1 DEF OutInv, SignedOutStaysOut
  <2>3. NoStrayGrant
    BY <2>1 DEF StrayInv, Keeps, HasTokens, NoStrayGrant, OAuthTypes
  <2> QED
    BY <2>2, <2>3 DEF NothingOutlives
<1> QED
  BY <1>1, OAuthInvariant, PTL

-----------------------------------------------------------------------------
(* The rate limiter. *)

RateRequests ==
  [pc : {"waiting", "charge", "consume", "handler", "done"}, client : Clients,
   keys : SUBSET Limits, costs : [Limits -> Nat],
   status : [Limits -> {"within", "exceeded", "failed"}], next : Nat, clock : Nat,
   outcome : {"none", "admitted", "limited", "error"}]

RateTypes ==
  /\ now \in Nat
  /\ windows \in [StoreKeys -> [ends : Nat, consumed : Nat] \cup {NoWindow}]
  /\ tally \in [StoreKeys -> [opened : Nat, total : Nat] \cup {NoWindow}]
  /\ request \in [Reqs -> RateRequests]
  /\ charged \in [StoreKeys -> [Reqs -> Nat]]

(* The window the store has for a key, with limit l, is the one its charges  *)
(* are tallied in, and it is forgotten only when it is over.                 *)
StoredFits(w, t, l, time) ==
  /\ t = NoWindow => w = NoWindow
  /\ w = NoWindow /\ t # NoWindow => t.opened + LimitDuration[l] <= time
  /\ w # NoWindow => w.ends = t.opened + LimitDuration[l] /\ w.consumed = t.total

StoreInv == \A k \in StoreKeys : StoredFits(windows[k], tally[k], k[1], now)

(* A request that was counted in a key has charged it, and once only: it is  *)
(* past that limit, and the limit's status says whether the tally was within *)
(* it at that moment.                                                        *)
CountFits(q, k, n) ==
  /\ q.client = k[2] /\ q.pc # "waiting"
  /\ q.pc \in {"charge", "consume"} => k[1] < q.next
  /\ q.status[k[1]] = "exceeded" \/ (q.status[k[1]] = "within" /\ n <= LimitPoints[k[1]])

CountInv == \A k \in StoreKeys, r \in Reqs : charged[k][r] # 0 => CountFits(request[r], k, charged[k][r])

(* Only a decided request is admitted, and none that exceeded a limit; one   *)
(* about to charge has read a clock that is not ahead.                       *)
RequestFits(q, time) ==
  /\ q.outcome = "admitted" => q.pc \in {"handler", "done"} /\ \A l \in Limits : q.status[l] # "exceeded"
  /\ q.pc = "consume" => q.next \in Limits /\ q.clock <= time

RequestInv == \A r \in Reqs : RequestFits(request[r], now)

RateInv == RateTypes /\ StoreInv /\ CountInv /\ RequestInv

LEMMA LimitNumbers == Limits \subseteq Nat
BY RateAssumption, FS_CardinalityType

LEMMA RateStart == RateInit => RateInv
<1> SUFFICES ASSUME RateInit PROVE RateInv
  OBVIOUS
<1>1. (CHOOSE c \in Clients : TRUE) \in Clients
  BY RateAssumption
<1>2. Waiting \in RateRequests
  BY <1>1, LimitNumbers DEF Waiting, RateRequests
<1>3. RateTypes
  BY <1>2 DEF RateInit, RateTypes
<1>4. StoreInv
  BY DEF StoreInv, StoredFits, RateInit
<1>5. CountInv
  BY DEF CountInv, RateInit
<1>6. RequestFits(Waiting, now)
  BY DEF RequestFits, Waiting
<1>7. RequestInv
  BY <1>6 DEF RequestInv, RateInit
<1> QED
  BY <1>3, <1>4, <1>5, <1>7 DEF RateInv

(* A step that moves one request and leaves the store alone. *)
LEMMA RequestMove ==
  ASSUME RateInv, NEW r \in Reqs, NEW q \in RateRequests, Put(r, q), RequestFits(q, now),
         \A k \in StoreKeys, n \in Nat : CountFits(request[r], k, n) => CountFits(q, k, n),
         UNCHANGED <<now, windows, tally, charged>>
  PROVE  RateInv'
<1>1. request' = [request EXCEPT ![r] = q] /\ request \in [Reqs -> RateRequests]
      /\ charged \in [StoreKeys -> [Reqs -> Nat]]
  BY DEF Put, RateInv, RateTypes
<1>2. RateTypes'
  BY <1>1 DEF RateInv, RateTypes
<1>3. StoreInv'
  BY DEF RateInv, StoreInv
<1>4. CountInv'
  <2> SUFFICES ASSUME NEW k \in StoreKeys, NEW p \in Reqs, charged'[k][p] # 0
               PROVE  CountFits(request'[p], k, charged'[k][p])
    BY DEF CountInv, CountFits
  <2>1. CountFits(request[p], k, charged[k][p]) /\ charged[k][p] \in Nat
    BY <1>1 DEF RateInv, CountInv
  <2>2. CASE p = r
    <3>1. request'[p] = q
      BY <1>1, <2>2
    <3> QED
      BY <2>1, <2>2, <3>1
  <2>3. CASE p # r
    <3>1. request'[p] = request[p]
      BY <1>1, <2>3
    <3> QED
      BY <2>1, <3>1
  <2> QED
    BY <2>2, <2>3
<1>5. RequestInv'
  <2> SUFFICES ASSUME NEW p \in Reqs PROVE RequestFits(request'[p], now)
    BY DEF RequestInv, RequestFits
  <2>1. p # r => request'[p] = request[p]
    BY <1>1
  <2>2. p = r => request'[p] = q
    BY <1>1
  <2> QED
    BY <2>1, <2>2 DEF RateInv, RequestInv
<1> QED
  BY <1>2, <1>3, <1>4, <1>5 DEF RateInv

LEMMA TickKept == RateInv /\ Tick => RateInv'
<1> SUFFICES ASSUME RateInv, Tick PROVE RateInv'
  OBVIOUS
<1>1. now \in Nat /\ now' = now + 1
      /\ UNCHANGED <<windows, request, storeFaults, tally, charged>>
  BY DEF RateInv, RateTypes, Tick
<1>2. RateTypes'
  BY <1>1 DEF RateInv, RateTypes
<1>3. StoreInv'
  <2> SUFFICES ASSUME NEW k \in StoreKeys PROVE StoredFits(windows[k], tally[k], k[1], now')
    BY <1>1 DEF StoreInv, StoredFits
  <2>1. StoredFits(windows[k], tally[k], k[1], now) /\ k[1] \in Limits
    BY DEF RateInv, StoreInv, StoreKeys
  <2>2. tally[k] # NoWindow => tally[k].opened \in Nat
    BY DEF RateInv, RateTypes
  <2>3. LimitDuration[k[1]] \in Nat
    BY <2>1, RateAssumption
  <2> QED
    BY <1>1, <2>1, <2>2, <2>3 DEF StoredFits
<1>4. CountInv'
  BY <1>1 DEF RateInv, CountInv
<1>5. RequestInv'
  <2> SUFFICES ASSUME NEW r \in Reqs PROVE RequestFits(request[r], now')
    BY <1>1 DEF RequestInv, RequestFits
  <2>1. RequestFits(request[r], now) /\ request[r].clock \in Nat
    BY DEF RateInv, RequestInv, RateTypes, RateRequests
  <2> QED
    BY <1>1, <2>1 DEF RequestFits
<1> QED
  BY <1>2, <1>3, <1>4, <1>5 DEF RateInv

LEMMA PlanKept == RateInv => \A r \in Reqs, c \in Clients : Plan(r, c) => RateInv'
<1> SUFFICES ASSUME RateInv, NEW r \in Reqs, NEW c \in Clients, Plan(r, c) PROVE RateInv'
  OBVIOUS
<1>1. request[r] \in RateRequests /\ request[r].pc = "waiting" /\ RequestFits(request[r], now)
      /\ UNCHANGED <<now, windows, tally, charged>>
  BY DEF RateInv, RateTypes, RequestInv, Plan
<1>2. \A k \in StoreKeys, n \in Nat, q \in RateRequests :
        CountFits(request[r], k, n) => CountFits(q, k, n)
  BY <1>1 DEF CountFits
<1>3. ASSUME NEW keys \in SUBSET Limits, NEW costs \in [Limits -> 0..MaxPoints],
             Put(r, [request[r] EXCEPT !.pc = "charge", !.client = c, !.keys = keys,
                                       !.costs = costs, !.next = 1])
      PROVE  RateInv'
  <2> DEFINE q == [request[r] EXCEPT !.pc = "charge", !.client = c, !.keys = keys,
                                     !.costs = costs, !.next = 1]
  <2>1. costs \in [Limits -> Nat]
    BY RateAssumption
  <2>2. q \in RateRequests
    BY <1>1, <2>1 DEF RateRequests
  <2>3. RequestFits(q, now)
    BY <1>1 DEF RequestFits, RateRequests
  <2> QED
    BY <1>1, <1>2, <1>3, <2>2, <2>3, RequestMove
<1>4. CASE Put(r, [request[r] EXCEPT !.pc = "done", !.outcome = "error"])
  <2> DEFINE q == [request[r] EXCEPT !.pc = "done", !.outcome = "error"]
  <2>1. q \in RateRequests
    BY <1>1 DEF RateRequests
  <2>2. RequestFits(q, now)
    BY <1>1 DEF RequestFits, RateRequests
  <2> QED
    BY <1>1, <1>2, <1>4, <2>1, <2>2, RequestMove
<1> QED
  BY <1>3, <1>4 DEF Plan

LEMMA ReadNowKept == RateInv => \A r \in Reqs : ReadNow(r) => RateInv'
<1> SUFFICES ASSUME RateInv, NEW r \in Reqs, ReadNow(r) PROVE RateInv'
  OBVIOUS
<1> DEFINE q == [request[r] EXCEPT !.pc = "consume", !.clock = now]
<1>1. request[r] \in RateRequests /\ now \in Nat /\ RequestFits(request[r], now)
  BY DEF RateInv, RateTypes, RequestInv
<1>2. request[r].pc = "charge" /\ request[r].next \in Limits /\ Put(r, q)
      /\ UNCHANGED <<now, windows, tally, charged>>
  BY DEF ReadNow
<1>3. q \in RateRequests
  BY <1>1 DEF RateRequests
<1>4. RequestFits(q, now)
  BY <1>1, <1>2 DEF RequestFits, RateRequests
<1>5. \A k \in StoreKeys, n \in Nat : CountFits(request[r], k, n) => CountFits(q, k, n)
  BY <1>1, <1>2 DEF CountFits, RateRequests
<1> QED
  BY <1>2, <1>3, <1>4, <1>5, RequestMove

(* Charging a limit sets its status and goes on to the next; the counts of   *)
(* the limits before it stand.                                               *)
NextCharge(q, s) ==
  [q EXCEPT !.pc = "charge", !.status[q.next] = s, !.next = @ + 1, !.clock = 0]

LEMMA ChargedFits ==
  ASSUME NEW q \in RateRequests, NEW time \in Nat, NEW s \in {"within", "exceeded", "failed"},
         q.pc \in {"charge", "consume"}, q.next \in Limits, RequestFits(q, time)
  PROVE  /\ NextCharge(q, s) \in RateRequests /\ RequestFits(NextCharge(q, s), time)
         /\ NextCharge(q, s).pc = "charge" /\ NextCharge(q, s).client = q.client
         /\ NextCharge(q, s).next = q.next + 1 /\ NextCharge(q, s).status[q.next] = s
         /\ \A k \in StoreKeys, n \in Nat : CountFits(q, k, n) => CountFits(NextCharge(q, s), k, n)
<1> DEFINE p == [q EXCEPT !.pc = "charge", !.status[q.next] = s, !.next = @ + 1, !.clock = 0]
<1>1. p \in RateRequests
  <2>1. PICK st \in [Limits -> {"within", "exceeded", "failed"}] : st = [q.status EXCEPT ![q.next] = s]
    BY DEF RateRequests
  <2>2. PICK n \in Nat : n = q.next + 1
    BY DEF RateRequests
  <2>3. p = [q EXCEPT !.pc = "charge", !.status = st, !.next = n, !.clock = 0]
    BY <2>1, <2>2 DEF RateRequests
  <2>4. [q EXCEPT !.pc = "charge", !.status = st, !.next = n, !.clock = 0] \in RateRequests
    BY DEF RateRequests
  <2> QED
    BY <2>3, <2>4
<1>2. p.pc = "charge" /\ p.client = q.client /\ p.next = q.next + 1 /\ p.outcome = q.outcome
      /\ p.status = [q.status EXCEPT ![q.next] = s]
  BY DEF RateRequests
<1>3. p.status[q.next] = s /\ \A l \in Limits : l # q.next => p.status[l] = q.status[l]
  BY <1>2 DEF RateRequests
<1>4. RequestFits(p, time)
  BY <1>2 DEF RequestFits
<1>5. ASSUME NEW k \in StoreKeys, NEW n \in Nat, CountFits(q, k, n)
      PROVE  CountFits(p, k, n)
  <2>1. k[1] \in Limits /\ k[1] \in Nat /\ q.next \in Nat /\ k[1] < q.next
    BY <1>5, LimitNumbers DEF CountFits, StoreKeys, RateRequests
  <2>2. k[1] < p.next /\ p.status[k[1]] = q.status[k[1]]
    BY <1>2, <1>3, <2>1
  <2> QED
    BY <1>2, <1>5, <2>2 DEF CountFits
<1>6. NextCharge(q, s) = p
  BY DEF NextCharge
<1> HIDE DEF p
<1> QED
  BY <1>1, <1>2, <1>3, <1>4, <1>5, <1>6

LEMMA ConsumeFailsKept == RateInv => \A r \in Reqs : ConsumeFails(r) \/ SkipCharge(r) => RateInv'
<1> SUFFICES ASSUME RateInv, NEW r \in Reqs, ConsumeFails(r) \/ SkipCharge(r) PROVE RateInv'
  OBVIOUS
<1>1. request[r] \in RateRequests /\ now \in Nat /\ RequestFits(request[r], now)
  BY DEF RateInv, RateTypes, RequestInv
<1>2. PICK s \in {"within", "exceeded", "failed"} :
        /\ request[r].pc = "charge" /\ request[r].next \in Limits /\ Charged(r, s)
        /\ UNCHANGED <<now, windows, tally, charged>>
  BY DEF ConsumeFails, SkipCharge
<1> DEFINE q == NextCharge(request[r], s)
<1>3. /\ q \in RateRequests /\ RequestFits(q, now)
      /\ \A k \in StoreKeys, n \in Nat : CountFits(request[r], k, n) => CountFits(q, k, n)
  BY <1>1, <1>2, ChargedFits
<1>4. Put(r, q)
  BY <1>2 DEF Charged, NextCharge
<1> HIDE DEF q
<1> QED
  BY <1>2, <1>3, <1>4, RequestMove

LEMMA DecideKept == RateInv => \A r \in Reqs : Decide(r) => RateInv'
<1> SUFFICES ASSUME RateInv, NEW r \in Reqs, Decide(r) PROVE RateInv'
  OBVIOUS
<1> DEFINE v == Verdict(request[r].status)
           q == [request[r] EXCEPT !.pc = IF v = "admitted" THEN "handler" ELSE "done",
                                   !.outcome = v, !.next = 1]
<1>1. request[r] \in RateRequests /\ now \in Nat /\ RequestFits(request[r], now)
  BY DEF RateInv, RateTypes, RequestInv
<1>2. request[r].pc = "charge" /\ Put(r, q) /\ UNCHANGED <<now, windows, tally, charged>>
  BY DEF Decide
<1>3. v \in {"admitted", "limited", "error"}
      /\ (v = "admitted" => \A l \in Limits : request[r].status[l] # "exceeded")
  BY DEF Verdict
<1> HIDE DEF v
<1>4. q \in RateRequests
  BY <1>1, <1>3 DEF RateRequests
<1>5. q.status = request[r].status /\ q.outcome = v /\ q.client = request[r].client
      /\ q.pc = IF v = "admitted" THEN "handler" ELSE "done"
  BY <1>1 DEF RateRequests
<1> HIDE DEF q
<1>6. RequestFits(q, now)
  BY <1>3, <1>5 DEF RequestFits
<1>7. \A k \in StoreKeys, n \in Nat : CountFits(request[r], k, n) => CountFits(q, k, n)
  BY <1>5 DEF CountFits
<1> QED
  BY <1>2, <1>4, <1>6, <1>7, RequestMove

(* A sweep forgets only windows that are over by the sweeper's clock. *)
LEMMA SweepFits ==
  ASSUME RateTypes, StoreInv, NEW t \in Nat, t <= now
  PROVE  /\ Swept(t) \in [StoreKeys -> [ends : Nat, consumed : Nat] \cup {NoWindow}]
         /\ \A k \in StoreKeys : StoredFits(Swept(t)[k], tally[k], k[1], now)
<1> DEFINE live == [k \in StoreKeys |-> IF k \in Open /\ windows[k].ends > t THEN windows[k] ELSE NoWindow]
<1>1. live \in [StoreKeys -> [ends : Nat, consumed : Nat] \cup {NoWindow}]
  BY DEF RateTypes
<1>2. ASSUME NEW k \in StoreKeys PROVE StoredFits(live[k], tally[k], k[1], now)
  <2>1. StoredFits(windows[k], tally[k], k[1], now)
    BY DEF StoreInv
  <2>2. CASE k \in Open /\ windows[k].ends > t
    BY <2>1, <2>2
  <2>3. CASE k \in Open /\ ~(windows[k].ends > t)
    <3>1. windows[k] # NoWindow /\ live[k] = NoWindow
      BY <2>3 DEF Open
    <3>2. windows[k].ends = tally[k].opened + LimitDuration[k[1]] /\ windows[k].ends \in Nat
      BY <2>1, <3>1 DEF StoredFits, RateTypes
    <3>3. windows[k].ends <= now
      BY <2>3, <3>2 DEF RateTypes
    <3> QED
      BY <3>1, <3>2, <3>3 DEF StoredFits
  <2>4. CASE k \notin Open
    <3>1. windows[k] = NoWindow /\ live[k] = NoWindow
      BY <2>4 DEF Open
    <3> QED
      BY <2>1, <3>1
  <2> QED
    BY <2>2, <2>3, <2>4
<1> HIDE DEF live
<1>3. Swept(t) = windows \/ Swept(t) = live
  BY DEF Swept, live
<1>4. windows \in [StoreKeys -> [ends : Nat, consumed : Nat] \cup {NoWindow}]
      /\ \A k \in StoreKeys : StoredFits(windows[k], tally[k], k[1], now)
  BY DEF RateTypes, StoreInv
<1> QED
  BY <1>1, <1>2, <1>3, <1>4

(* The window consume writes and the one the history tallies the charge in   *)
(* are the same: it is a new one for the store exactly when it is for the    *)
(* history.                                                                  *)
LEMMA WindowTallied ==
  ASSUME NEW k \in StoreKeys, NEW t \in Nat, NEW n \in Nat, now \in Nat, t <= now,
         tally[k] \in [opened : Nat, total : Nat] \cup {NoWindow},
         NEW w \in [ends : Nat, consumed : Nat] \cup {NoWindow},
         StoredFits(w, tally[k], k[1], now)
  PROVE  LET new == IF w = NoWindow \/ w.ends <= t
                    THEN [ends |-> t + LimitDuration[k[1]], consumed |-> 0] ELSE w
             written == [new EXCEPT !.consumed = new.consumed + n]
             seen == Tally(k, t, n, w = NoWindow)
         IN /\ written \in [ends : Nat, consumed : Nat] /\ seen \in [opened : Nat, total : Nat]
            /\ StoredFits(written, seen, k[1], now) /\ new.consumed + n = seen.total
<1> DEFINE new == IF w = NoWindow \/ w.ends <= t
                  THEN [ends |-> t + LimitDuration[k[1]], consumed |-> 0] ELSE w
           written == [new EXCEPT !.consumed = new.consumed + n]
           seen == Tally(k, t, n, w = NoWindow)
<1>1. PICK d \in Nat : d = LimitDuration[k[1]]
  BY RateAssumption DEF StoreKeys
<1>2. CASE w = NoWindow \/ w.ends <= t
  <2>1. tally[k] # NoWindow => tally[k].opened + d <= t \/ (tally[k].opened + d <= now /\ w = NoWindow)
    BY <1>1, <1>2 DEF StoredFits
  <2>2. seen = [opened |-> t, total |-> n]
    BY <1>1, <2>1 DEF Tally
  <2>3. written = [ends |-> t + d, consumed |-> n]
    BY <1>1, <1>2
  <2>4. new.consumed + n = n
    BY <1>2
  <2>5. [ends |-> t + d, consumed |-> n] \in [ends : Nat, consumed : Nat]
        /\ [opened |-> t, total |-> n] \in [opened : Nat, total : Nat]
    OBVIOUS
  <2>6. StoredFits([ends |-> t + d, consumed |-> n], [opened |-> t, total |-> n], k[1], now)
    BY <1>1, <2>5, RateAssumption DEF StoredFits
  <2> QED
    BY <2>2, <2>3, <2>4, <2>5, <2>6
<1>3. CASE w # NoWindow /\ ~(w.ends <= t)
  <2>1. w \in [ends : Nat, consumed : Nat] /\ tally[k] # NoWindow
        /\ tally[k] \in [opened : Nat, total : Nat]
        /\ w.ends = tally[k].opened + d /\ w.consumed = tally[k].total
    BY <1>1, <1>3 DEF StoredFits
  <2>2. seen = [tally[k] EXCEPT !.total = tally[k].total + n]
    BY <1>1, <1>3, <2>1 DEF Tally
  <2>3. new = w /\ written = [w EXCEPT !.consumed = w.consumed + n]
    BY <1>3
  <2>4. written \in [ends : Nat, consumed : Nat] /\ written.ends = w.ends
        /\ written.consumed = w.consumed + n
    BY <2>1, <2>3
  <2>5. seen \in [opened : Nat, total : Nat] /\ seen.opened = tally[k].opened
        /\ seen.total = tally[k].total + n
    BY <2>1, <2>2
  <2>6. StoredFits(written, seen, k[1], now)
    <3> HIDE DEF written, seen
    <3> QED
      BY <1>1, <2>1, <2>4, <2>5, RateAssumption DEF StoredFits
  <2> QED
    BY <2>1, <2>3, <2>4, <2>5, <2>6
<1> QED
  BY <1>2, <1>3

LEMMA ConsumeKept == RateInv => \A r \in Reqs : Consume(r) => RateInv'
<1> SUFFICES ASSUME RateInv, NEW r \in Reqs, Consume(r) PROVE RateInv'
  OBVIOUS
<1> DEFINE l == request[r].next
           key == <<l, request[r].client>>
           t == request[r].clock
           points == request[r].costs[l]
           left == Swept(t)
           window == IF left[key] = NoWindow \/ left[key].ends <= t
                     THEN [ends |-> t + LimitDuration[l], consumed |-> 0] ELSE left[key]
           total == window.consumed + points
           seen == Tally(key, t, points, left[key] = NoWindow)
           written == [window EXCEPT !.consumed = total]
           s == IF total > LimitPoints[l] THEN "exceeded" ELSE "within"
           q == NextCharge(request[r], s)
<1>1. RateTypes /\ StoreInv /\ CountInv /\ RequestInv
  BY DEF RateInv
<1>2. request[r] \in RateRequests /\ request[r].pc = "consume" /\ RequestFits(request[r], now)
      /\ now \in Nat
  BY <1>1 DEF RateTypes, RequestInv, Consume
<1>3. l \in Limits /\ t \in Nat /\ t <= now
  BY <1>2 DEF RequestFits, RateRequests
<1>4. key \in StoreKeys /\ key[1] = l /\ key[2] = request[r].client /\ points \in Nat
  BY <1>2, <1>3 DEF StoreKeys, RateRequests
<1>5. /\ windows' = [left EXCEPT ![key] = written]
      /\ request' = [request EXCEPT ![r] = q]
      /\ tally' = [tally EXCEPT ![key] = seen]
      /\ charged' = [charged EXCEPT ![key][r] = seen.total]
      /\ now' = now
  BY DEF Consume, Charged, Put, NextCharge
<1>6. left \in [StoreKeys -> [ends : Nat, consumed : Nat] \cup {NoWindow}]
      /\ \A k \in StoreKeys : StoredFits(left[k], tally[k], k[1], now)
  BY <1>1, <1>3, SweepFits
<1>7. /\ written \in [ends : Nat, consumed : Nat] /\ seen \in [opened : Nat, total : Nat]
      /\ StoredFits(written, seen, l, now) /\ total = seen.total
  <2>1. tally[key] \in [opened : Nat, total : Nat] \cup {NoWindow}
    BY <1>1, <1>4 DEF RateTypes
  <2>2. PICK w \in [ends : Nat, consumed : Nat] \cup {NoWindow} : w = left[key]
    BY <1>4, <1>6
  <2>3. StoredFits(w, tally[key], key[1], now)
    BY <1>4, <1>6, <2>2
  <2> HIDE DEF key, t, points, left
  <2> QED
    BY <1>2, <1>3, <1>4, <2>1, <2>2, <2>3, WindowTallied
<1> HIDE DEF window, total, seen, written, left
<1>8. s \in {"within", "exceeded"} /\ (s = "within" => seen.total <= LimitPoints[l])
  BY <1>3, <1>7, RateAssumption
<1> HIDE DEF s
<1>9. /\ q \in RateRequests /\ RequestFits(q, now)
      /\ q.pc = "charge" /\ q.client = request[r].client /\ q.next = l + 1 /\ q.status[l] = s
      /\ \A k \in StoreKeys, n \in Nat : CountFits(request[r], k, n) => CountFits(q, k, n)
  <2>1. s \in {"within", "exceeded", "failed"} /\ request[r].pc \in {"charge", "consume"}
    BY <1>2, <1>8
  <2> QED
    BY <1>2, <1>3, <2>1, ChargedFits
<1>10. l \in Nat
  BY <1>3, LimitNumbers
<1> HIDE DEF q, t, points
<1>11. RateTypes'
  <2>1. windows' \in [StoreKeys -> [ends : Nat, consumed : Nat] \cup {NoWindow}]
    BY <1>5, <1>6, <1>7
  <2>2. tally' \in [StoreKeys -> [opened : Nat, total : Nat] \cup {NoWindow}]
    BY <1>1, <1>5, <1>7 DEF RateTypes
  <2>3. request' \in [Reqs -> RateRequests]
    BY <1>1, <1>5, <1>9 DEF RateTypes
  <2>4. seen.total \in Nat
    BY <1>7
  <2>5. charged' \in [StoreKeys -> [Reqs -> Nat]]
    BY <1>1, <1>5, <2>4 DEF RateTypes
  <2> QED
    BY <1>2, <1>5, <2>1, <2>2, <2>3, <2>5 DEF RateTypes
<1>12. StoreInv'
  <2> SUFFICES ASSUME NEW k \in StoreKeys PROVE StoredFits(windows'[k], tally'[k], k[1], now)
    BY <1>5 DEF StoreInv, StoredFits
  <2>1. CASE k = key
    <3>1. windows'[k] = written /\ tally'[k] = seen
      BY <1>1, <1>4, <1>5, <1>6, <2>1 DEF RateTypes
    <3> QED
      BY <1>4, <1>7, <2>1, <3>1
  <2>2. CASE k # key
    <3>1. windows'[k] = left[k] /\ tally'[k] = tally[k]
      BY <1>1, <1>5, <1>6, <2>2 DEF RateTypes
    <3> QED
      BY <1>6, <3>1
  <2> QED
    BY <2>1, <2>2
<1>13. CountInv'
  <2> SUFFICES ASSUME NEW k \in StoreKeys, NEW p \in Reqs, charged'[k][p] # 0
               PROVE  CountFits(request'[p], k, charged'[k][p])
    BY DEF CountInv, CountFits
  <2>1. CASE k = key /\ p = r
    <3>1. request'[p] = q /\ charged'[k][p] = seen.total
      BY <1>1, <1>4, <1>5, <2>1 DEF RateTypes
    <3> QED
      BY <1>4, <1>8, <1>9, <1>10, <2>1, <3>1 DEF CountFits
  <2>2. CASE ~(k = key /\ p = r)
    <3>1. charged'[k][p] = charged[k][p] /\ charged[k][p] \in Nat
      BY <1>1, <1>4, <1>5, <2>2 DEF RateTypes
    <3>2. CountFits(request[p], k, charged[k][p])
      BY <1>1, <3>1 DEF CountInv
    <3>3. p # r => request'[p] = request[p]
      BY <1>1, <1>5 DEF RateTypes
    <3>4. p = r => request'[p] = q
      BY <1>1, <1>5 DEF RateTypes
    <3> QED
      BY <1>9, <3>1, <3>2, <3>3, <3>4
  <2> QED
    BY <2>1, <2>2
<1>14. RequestInv'
  <2> SUFFICES ASSUME NEW p \in Reqs PROVE RequestFits(request'[p], now)
    BY <1>5 DEF RequestInv, RequestFits
  <2>1. p # r => request'[p] = request[p]
    BY <1>1, <1>5 DEF RateTypes
  <2>2. p = r => request'[p] = q
    BY <1>1, <1>5 DEF RateTypes
  <2> QED
    BY <1>1, <1>9, <2>1, <2>2 DEF RequestInv
<1> QED
  BY <1>11, <1>12, <1>13, <1>14 DEF RateInv

LEMMA ResetKept == RateInv => \A r \in Reqs : Reset(r) => RateInv'
<1> SUFFICES ASSUME RateInv, NEW r \in Reqs, Reset(r) PROVE RateInv'
  OBVIOUS
<1> DEFINE l == request[r].next
           key == <<l, request[r].client>>
           q == [request[r] EXCEPT !.next = @ + 1]
<1>1. RateTypes /\ StoreInv /\ CountInv /\ RequestInv
  BY DEF RateInv
<1>2. request[r] \in RateRequests /\ request[r].pc = "handler" /\ RequestFits(request[r], now)
      /\ l \in Limits /\ Put(r, q) /\ now' = now /\ now \in Nat
  BY <1>1 DEF RateTypes, RequestInv, Reset
<1>3. q \in RateRequests
  BY <1>2 DEF RateRequests
<1>4. q.pc = "handler" /\ q.status = request[r].status /\ q.outcome = request[r].outcome
      /\ q.client = request[r].client
  BY <1>2 DEF RateRequests
<1> HIDE DEF q
<1>5. RequestFits(q, now)
  BY <1>2, <1>4 DEF RequestFits
<1>6. \A k \in StoreKeys, n \in Nat : CountFits(request[r], k, n) => CountFits(q, k, n)
  BY <1>4 DEF CountFits
<1>7. CASE UNCHANGED <<windows, tally, charged>>
  BY <1>2, <1>3, <1>5, <1>6, <1>7, RequestMove
<1>8. CASE /\ windows' = [windows EXCEPT ![key] = NoWindow]
           /\ tally' = [tally EXCEPT ![key] = NoWindow]
           /\ charged' = [charged EXCEPT ![key] = [p \in Reqs |-> 0]]
  <2>1. request' = [request EXCEPT ![r] = q]
    BY <1>2 DEF Put
  <2>2. RateTypes'
    BY <1>1, <1>2, <1>3, <1>8, <2>1 DEF RateTypes
  <2>3. StoreInv'
    <3> SUFFICES ASSUME NEW k \in StoreKeys PROVE StoredFits(windows'[k], tally'[k], k[1], now)
      BY <1>2 DEF StoreInv, StoredFits
    <3>1. CASE k = key
      <4>1. windows'[k] = NoWindow /\ tally'[k] = NoWindow
        BY <1>1, <1>8, <3>1 DEF RateTypes
      <4> QED
        BY <4>1 DEF StoredFits
    <3>2. CASE k # key
      <4>1. windows'[k] = windows[k] /\ tally'[k] = tally[k]
        BY <1>1, <1>8, <3>2 DEF RateTypes
      <4> QED
        BY <1>1, <4>1 DEF StoreInv
    <3> QED
      BY <3>1, <3>2
  <2>4. CountInv'
    <3> SUFFICES ASSUME NEW k \in StoreKeys, NEW p \in Reqs, charged'[k][p] # 0
                 PROVE  CountFits(request'[p], k, charged'[k][p])
      BY DEF CountInv, CountFits
    <3>1. charged'[k][p] = charged[k][p] /\ charged[k][p] \in Nat
      BY <1>1, <1>8 DEF RateTypes
    <3>2. CountFits(request[p], k, charged[k][p])
      BY <1>1, <3>1 DEF CountInv
    <3>3. p # r => request'[p] = request[p]
      BY <1>1, <2>1 DEF RateTypes
    <3>4. p = r => request'[p] = q
      BY <1>1, <2>1 DEF RateTypes
    <3> QED
      BY <1>6, <3>1, <3>2, <3>3, <3>4
  <2>5. RequestInv'
    <3> SUFFICES ASSUME NEW p \in Reqs PROVE RequestFits(request'[p], now)
      BY <1>2 DEF RequestInv, RequestFits
    <3>1. p # r => request'[p] = request[p]
      BY <1>1, <2>1 DEF RateTypes
    <3>2. p = r => request'[p] = q
      BY <1>1, <2>1 DEF RateTypes
    <3> QED
      BY <1>1, <1>5, <3>1, <3>2 DEF RequestInv
  <2> QED
    BY <2>2, <2>3, <2>4, <2>5 DEF RateInv
<1> QED
  BY <1>7, <1>8 DEF Reset

(* The store counts every charge in the window it belongs to, and a request  *)
(* is counted in each of its keys at most once.                              *)
THEOREM RateInvariant == RateSpec => []RateInv
<1>1. RateInit => RateInv
  BY RateStart
<1>2. RateInv /\ [RateNext]_rateVars => RateInv'
  <2> SUFFICES ASSUME RateInv, [RateNext]_rateVars PROVE RateInv'
    OBVIOUS
  <2>1. CASE Tick
    BY <2>1, TickKept
  <2>2. ASSUME NEW r \in Reqs, NEW c \in Clients, Plan(r, c) PROVE RateInv'
    BY <2>2, PlanKept
  <2>3. ASSUME NEW r \in Reqs, ReadNow(r) PROVE RateInv'
    BY <2>3, ReadNowKept
  <2>4. ASSUME NEW r \in Reqs, Consume(r) PROVE RateInv'
    BY <2>4, ConsumeKept
  <2>5. ASSUME NEW r \in Reqs, ConsumeFails(r) \/ SkipCharge(r) PROVE RateInv'
    BY <2>5, ConsumeFailsKept
  <2>6. ASSUME NEW r \in Reqs, Decide(r) PROVE RateInv'
    BY <2>6, DecideKept
  <2>7. ASSUME NEW r \in Reqs, Reset(r) PROVE RateInv'
    BY <2>7, ResetKept
  <2>8. CASE UNCHANGED rateVars
    BY <2>8 DEF rateVars, RateInv, RateTypes, StoreInv, CountInv, RequestInv
  <2> QED
    BY <2>1, <2>2, <2>3, <2>4, <2>5, <2>6, <2>7, <2>8 DEF RateNext
<1> QED
  BY <1>1, <1>2, PTL DEF RateSpec

(* MemoryStore and charge admit within the limits, for any requests, limits, *)
(* clients, costs and store faults: when an admitted request was charged,    *)
(* all charges of that window since the last reset were within the limit.    *)
THEOREM RateAdmittedWithinLimit == RateSpec => []AdmittedWithinLimit
<1>1. RateInv => AdmittedWithinLimit
  <2> SUFFICES ASSUME RateInv, NEW k \in StoreKeys, NEW r \in Reqs, request[r].outcome = "admitted"
               PROVE  charged[k][r] <= LimitPoints[k[1]]
    BY DEF AdmittedWithinLimit
  <2>1. k[1] \in Limits /\ LimitPoints[k[1]] \in Nat
    BY RateAssumption DEF StoreKeys
  <2>2. request[r].status[k[1]] # "exceeded"
    BY <2>1 DEF RateInv, RequestInv, RequestFits
  <2>3. charged[k][r] # 0 => charged[k][r] <= LimitPoints[k[1]]
    BY <2>2 DEF RateInv, CountInv, CountFits
  <2> QED
    BY <2>1, <2>3
<1> QED
  BY <1>1, RateInvariant, PTL

-----------------------------------------------------------------------------
(* The composition. *)

(* A behaviour of the library is one of each of its components: they share   *)
(* no state, so what is proved of a component holds in the library.          *)
THEOREM LibraryComposes == LibSpec => OAuthSpec /\ DirSpec /\ LimiterSpec /\ TidSpec
<1>1. LibInit => OAuthInit /\ DirInit /\ LimiterInit /\ TidInit
  BY DEF LibInit
<1>2. [LibNext]_libVars => [OAuthNext]_oauthVars
  BY DEF LibNext, libVars
<1>3. [LibNext]_libVars => [DirNext]_dirVars
  BY DEF LibNext, libVars
<1>4. [LibNext]_libVars => [LimiterNext]_limiterVars
  BY DEF LibNext, libVars
<1>5. [LibNext]_libVars => [TidNext]_tidVars
  BY DEF LibNext, libVars
<1> QED
  BY <1>1, <1>2, <1>3, <1>4, <1>5, PTL DEF LibSpec, OAuthSpec, DirSpec, LimiterSpec, TidSpec

(* The refresh lock has its holder, the identity cache and the map of token  *)
(* buckets stay within their capacities and no TID leaves its 53 bits, for   *)
(* any constants and numbers of concurrent calls.                            *)
THEOREM LibraryTypeCorrect == LibSpec => []LibTypeOK
<1>1. OAuthTypeOK /\ DirTypeOK /\ LimiterTypeOK /\ TidTypeOK => LibTypeOK
  BY DEF LibTypeOK
<1> QED
  BY <1>1, LibraryComposes, OAuthTypeCorrect, DirTypeCorrect, LimiterTypeCorrect, TidTypeCorrect, PTL

=============================================================================
