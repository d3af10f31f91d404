-------------------------- MODULE IdentityDirectory --------------------------
(***************************************************************************)
(* identity/directory.rs: lookup_did with its cache of capacity Capacity   *)
(* and generation counter, and purge, called concurrently.  An identity is *)
(* the version of the DID document it was resolved from; the handle check  *)
(* of lookup_did is part of resolving.  purge bumps the generation without *)
(* the cache lock and removes the entry under it.                          *)
(***************************************************************************)
EXTENDS Naturals, FiniteSets

CONSTANTS
  DirDids,      \* DIDs looked up
  Lookers,      \* concurrent calls of lookup_did
  Purgers,      \* concurrent calls of purge
  Capacity,     \* capacity of the cache
  MaxVersion,   \* bound on the versions of a DID document
  MaxPurges,    \* bound on calls of purge
  NoEntry       \* the cache has no entry

ASSUME DirectoryAssumption ==
  /\ Capacity \in Nat \ {0} /\ MaxVersion \in Nat /\ MaxPurges \in Nat
  /\ Lookers \cap Purgers = {}

VARIABLES
  document,    \* the published version of each DID's document
  cache,       \* cache: the entry of each DID
  generation,  \* generation
  writer,      \* the lookups holding the cache lock across a step
  look,        \* where each lookup is
  purging,     \* where each purge is
  floor        \* per DID, the version published when its last purge began

dirVars == <<document, cache, generation, writer, look, purging, floor>>

Versions == 0..MaxVersion
Generations == 0..MaxPurges
Cached == {d \in DirDids : cache[d] # NoEntry}
NotLooking == [pc |-> "done", version |-> 0, floor |-> 0]

(* A new version of a DID document is published (external). *)
PublishDocument(d) ==
  /\ document[d] < MaxVersion
  /\ document' = [document EXCEPT ![d] = @ + 1]
  /\ UNCHANGED <<cache, generation, writer, look, purging, floor>>

(* Time passes the entry's expires_at. *)
ExpireEntry(d) ==
  /\ d \in Cached /\ ~cache[d].expired
  /\ cache' = [cache EXCEPT ![d].expired = TRUE]
  /\ UNCHANGED <<document, generation, writer, look, purging, floor>>

-----------------------------------------------------------------------------
(* lookup_did. *)

(* The generation is loaded first. *)
LookupDid(c, d) ==
  /\ look[c].pc = "done"
  /\ look' = [look EXCEPT ![c] = [pc |-> "check", did |-> d, generation |-> generation,
                                  floor |-> floor[d]]]
  /\ UNCHANGED <<document, cache, generation, writer, purging, floor>>

(* A cached entry is served while it is unexpired and of the generation     *)
(* loaded.                                                                  *)
Hit(c) ==
  LET d == look[c].did IN
  d \in Cached /\ ~cache[d].expired /\ cache[d].generation = look[c].generation

Serves(c, version) ==
  look' = [look EXCEPT ![c] = [pc |-> "done", version |-> version, floor |-> look[c].floor]]

CheckCache(c) ==
  /\ look[c].pc = "check" /\ writer = {}
  /\ IF Hit(c) THEN Serves(c, cache[look[c].did].version)
               ELSE look' = [look EXCEPT ![c].pc = "resolve"]
  /\ UNCHANGED <<document, cache, generation, writer, purging, floor>>

(* The document is fetched and its handle verified, or that fails. *)
Resolve(c) ==
  /\ look[c].pc = "resolve"
  /\ \/ look' = [look EXCEPT ![c] =
                   [pc |-> "resolved", did |-> look[c].did, generation |-> look[c].generation,
                    floor |-> look[c].floor, version |-> document[look[c].did]]]
     \/ look' = [look EXCEPT ![c] = NotLooking]
  /\ UNCHANGED <<document, cache, generation, writer, purging, floor>>

(* The cache is locked and the generation compared: a lookup that a purge   *)
(* overtook serves its result without caching it.                           *)
CompareGeneration(c) ==
  /\ look[c].pc = "resolved" /\ writer = {}
  /\ IF generation # look[c].generation
     THEN Serves(c, look[c].version) /\ UNCHANGED writer
     ELSE /\ look' = [look EXCEPT ![c].pc = "insert"]
          /\ writer' = {c}
  /\ UNCHANGED <<document, cache, generation, purging, floor>>

(* Mutant: nothing is evicted at capacity. *)
NoVictims(d) == {{}}

(* The entry that makes room for one of d: an expired one, else any. *)
Victims(d) ==
  IF d \in Cached \/ Cardinality(Cached) < Capacity THEN {{}}
  ELSE LET old == {e \in Cached : cache[e].expired} IN
       {{e} : e \in IF old = {} THEN Cached ELSE old}

(* Mutant: the entry is stamped with the generation of its insertion. *)
InsertNow(c) ==
  /\ look[c].pc = "insert"
  /\ \E gone \in Victims(look[c].did) :
       cache' = [d \in DirDids |->
                   IF d = look[c].did
                   THEN [version |-> look[c].version, expired |-> FALSE,
                         generation |-> generation]
                   ELSE IF d \in gone THEN NoEntry ELSE cache[d]]
  /\ writer' = {}
  /\ Serves(c, look[c].version)
  /\ UNCHANGED <<document, generation, purging, floor>>

(* The entry is stored with the generation loaded at the start. *)
Insert(c) ==
  /\ look[c].pc = "insert"
  /\ \E gone \in Victims(look[c].did) :
       cache' = [d \in DirDids |->
                   IF d = look[c].did
                   THEN [version |-> look[c].version, expired |-> FALSE,
                         generation |-> look[c].generation]
                   ELSE IF d \in gone THEN NoEntry ELSE cache[d]]
  /\ writer' = {}
  /\ Serves(c, look[c].version)
  /\ UNCHANGED <<document, generation, purging, floor>>

-----------------------------------------------------------------------------
(* purge: the generation is bumped, then the entry removed under the lock. *)

Bump(p, d) ==
  /\ purging[p] = NoEntry /\ generation < MaxPurges
  /\ generation' = generation + 1
  /\ purging' = [purging EXCEPT ![p] = d]
  /\ floor' = [floor EXCEPT ![d] = document[d]]
  /\ UNCHANGED <<document, cache, writer, look>>

Remove(p) ==
  /\ purging[p] # NoEntry /\ writer = {}
  /\ cache' = [cache EXCEPT ![purging[p]] = NoEntry]
  /\ purging' = [purging EXCEPT ![p] = NoEntry]
  /\ UNCHANGED <<document, generation, writer, look, floor>>

-----------------------------------------------------------------------------
DirInit ==
  /\ document = [d \in DirDids |-> 0]
  /\ cache = [d \in DirDids |-> NoEntry]
  /\ generation = 0 /\ writer = {}
  /\ look = [c \in Lookers |-> NotLooking]
  /\ purging = [p \in Purgers |-> NoEntry]
  /\ floor = [d \in DirDids |-> 0]

DirNext ==
  \/ \E d \in DirDids : PublishDocument(d) \/ ExpireEntry(d)
  \/ \E c \in Lookers :
       \/ \E d \in DirDids : LookupDid(c, d)
       \/ CheckCache(c) \/ Resolve(c) \/ CompareGeneration(c) \/ Insert(c)
  \/ \E p \in Purgers : Remove(p) \/ \E d \in DirDids : Bump(p, d)

DirSpec == DirInit /\ [][DirNext]_dirVars

-----------------------------------------------------------------------------
(* Properties. *)

(* The state has its type, the cache lock has one holder and the cache      *)
(* never outgrows its capacity.                                             *)
DirTypeOK ==
  /\ document \in [DirDids -> Versions] /\ floor \in [DirDids -> Versions]
  /\ cache \in [DirDids -> [version : Versions, expired : BOOLEAN,
                            generation : Generations] \cup {NoEntry}]
  /\ generation \in Generations
  /\ writer \subseteq Lookers /\ Cardinality(writer) <= 1
  /\ purging \in [Purgers -> DirDids \cup {NoEntry}]
  /\ Cardinality(Cached) <= Capacity

(* purge forces "the next lookup to resolve it again": a lookup that begins *)
(* once a purge of its DID has bumped the generation never serves a version *)
(* older than the one published then, whatever earlier lookups are still    *)
(* resolving, and whether or not the purge has reached the cache.  (A       *)
(* lookup that fails serves nothing.)                                       *)
PurgeForgets ==
  \A c \in Lookers : look[c].pc = "done" => look[c].version >= look[c].floor
=============================================================================
