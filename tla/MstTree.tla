------------------------------- MODULE MstTree -------------------------------
(***************************************************************************)
(* The Merkle Search Tree (mst/tree.rs DetachedTree and Tree, mst/diff.rs) *)
(* and the inversion of a commit's operations (sync/invert.rs).            *)
(*                                                                         *)
(* A CID is the block it names, and a block is its entries, pairs of key   *)
(* and value in key order, with the CIDs of the Len(ents) + 1 subtrees     *)
(* around them: kids[1] is `left`, kids[i + 1] the `right` of entry i.     *)
(* Nodes in memory are loaded or stubs; blocks are read from a source that *)
(* may lack one.  Keys are numbers with heights HeightOf.  Blocks are      *)
(* built by the MST rules: rejecting malformed ones is not modelled.       *)
(***************************************************************************)
EXTENDS Integers, Sequences, FiniteSets, Bags, Functions

CONSTANTS
  MstKeys,      \* keys, a set of numbers
  HeightOf,     \* height_for_key
  Vals,         \* value CIDs
  MaxOps,       \* bound on calls between two flushes
  MaxRootCids,  \* bound on calls of Tree::root_cid after a change
  NoNode        \* None

ASSUME MstAssumption ==
  /\ MstKeys \subseteq Nat /\ HeightOf \in [MstKeys -> Nat] /\ MaxOps \in Nat
  /\ MaxRootCids \in Nat

-----------------------------------------------------------------------------
(* Nodes. *)

Key(entry) == entry[1]
Below(ents, key) == Cardinality({i \in DOMAIN ents : Key(ents[i]) < key})
Has(ents, key) == \E i \in DOMAIN ents : Key(ents[i]) = key

Block(kids, ents) == [kids |-> kids, ents |-> ents]
EmptyBlock == Block(<<NoNode>>, <<>>)

Fresh(height, kids, ents) ==
  [cid |-> NoNode, height |-> height, loaded |-> TRUE, kids |-> kids, ents |-> ents]
Stub(cid, height) ==
  [cid |-> cid, height |-> height, loaded |-> FALSE, kids |-> <<>>, ents |-> <<>>]

(* The CID a node gives up when it changes (touch) or is dropped (discard). *)
Cids(n) == IF n.cid = NoNode THEN EmptyBag ELSE SetToBag({n.cid})

(* trim_node and prune_empty: a node with neither entry nor subtree. *)
Hollow(n) == n.loaded /\ n.ents = <<>> /\ n.kids[1] = NoNode
Trim(n) == IF Hollow(n) THEN NoNode ELSE n

(* What a mutation returns: the node, the CIDs released, and whether every  *)
(* node it reached was loaded (require_loaded).                             *)
Done(n, rel) == [n |-> n, rel |-> rel, ok |-> TRUE]
Unloaded == [n |-> NoNode, rel |-> EmptyBag, ok |-> FALSE]

(* Splits kid i of n into two kids around a new entry, or joins kids. *)
WithKid(n, i, kid) == [n EXCEPT !.kids[i] = kid, !.cid = NoNode]

-----------------------------------------------------------------------------
(* insert. *)

RECURSIVE SplitNode(_, _)
SplitNode(n, key) ==
  IF n = NoNode THEN [l |-> NoNode, r |-> NoNode, rel |-> EmptyBag, ok |-> TRUE]
  ELSE IF ~n.loaded THEN [l |-> NoNode, r |-> NoNode, rel |-> EmptyBag, ok |-> FALSE]
  ELSE
  LET i == Below(n.ents, key)
      mid == SplitNode(n.kids[i + 1], key)
  IN [l |-> Trim(Fresh(n.height, SubSeq(n.kids, 1, i) \o <<mid.l>>, SubSeq(n.ents, 1, i))),
      r |-> Trim(Fresh(n.height, <<mid.r>> \o SubSeq(n.kids, i + 2, Len(n.kids)),
                       SubSeq(n.ents, i + 1, Len(n.ents)))),
      rel |-> Cids(n) (+) mid.rel, ok |-> mid.ok]

RECURSIVE InsertNode(_, _, _)
InsertNode(n, key, val) ==
  LET height == HeightOf[key]  i == Below(n.ents, key) IN
  IF n = NoNode THEN Done(Fresh(height, <<NoNode, NoNode>>, <<<<key, val>>>>), EmptyBag)
  ELSE IF ~n.loaded THEN Unloaded
  ELSE IF height > n.height
  THEN InsertNode(Fresh(n.height + 1, <<n>>, <<>>), key, val)
  ELSE IF height < n.height
  THEN \* insert_below
    LET kid == n.kids[i + 1]
        sub == InsertNode(IF kid = NoNode /\ n.height - 1 # height
                          THEN Fresh(n.height - 1, <<NoNode>>, <<>>) ELSE kid, key, val)
    IN [Done(WithKid(n, i + 1, sub.n), Cids(n) (+) sub.rel) EXCEPT !.ok = sub.ok]
  ELSE \* insert_at_level
    LET cut == SplitNode(n.kids[i + 1], key)
    IN [Done(Fresh(n.height,
                   SubSeq(n.kids, 1, i) \o <<cut.l, cut.r>> \o SubSeq(n.kids, i + 2, Len(n.kids)),
                   SubSeq(n.ents, 1, i) \o <<<<key, val>>>> \o SubSeq(n.ents, i + 1, Len(n.ents))),
             Cids(n) (+) cut.rel) EXCEPT !.ok = cut.ok]

RECURSIVE UpdateNode(_, _, _)
UpdateNode(n, key, val) ==
  LET i == Below(n.ents, key) IN
  IF n = NoNode \/ ~n.loaded THEN Unloaded
  ELSE IF Has(n.ents, key)
  THEN Done([n EXCEPT !.ents[i + 1] = <<key, val>>, !.cid = NoNode], Cids(n))
  ELSE LET sub == UpdateNode(n.kids[i + 1], key, val)
       IN [Done(WithKid(n, i + 1, sub.n), Cids(n) (+) sub.rel) EXCEPT !.ok = sub.ok]

-----------------------------------------------------------------------------
(* remove. *)

RECURSIVE MergeNodes(_, _)
MergeNodes(l, r) ==
  IF l = NoNode \/ r = NoNode THEN Done(IF l = NoNode THEN r ELSE l, EmptyBag)
  ELSE IF ~l.loaded \/ ~r.loaded THEN Unloaded
  ELSE
  LET mid == MergeNodes(l.kids[Len(l.kids)], r.kids[1])
  IN [Done(Fresh(l.height, SubSeq(l.kids, 1, Len(l.kids) - 1) \o <<mid.n>> \o Tail(r.kids),
                 l.ents \o r.ents),
           Cids(l) (+) Cids(r) (+) mid.rel) EXCEPT !.ok = mid.ok]

(* A node left hollow is dropped, its CID already given up. *)
RECURSIVE RemoveNode(_, _)
RemoveNode(n, key) ==
  LET i == Below(n.ents, key) IN
  IF n = NoNode \/ ~n.loaded THEN Unloaded
  ELSE IF Has(n.ents, key)
  THEN LET mid == MergeNodes(n.kids[i + 1], n.kids[i + 2])
       IN [Done(Trim(Fresh(n.height,
                           SubSeq(n.kids, 1, i) \o <<mid.n>> \o SubSeq(n.kids, i + 3, Len(n.kids)),
                           SubSeq(n.ents, 1, i) \o SubSeq(n.ents, i + 2, Len(n.ents)))),
                Cids(n) (+) mid.rel) EXCEPT !.ok = mid.ok]
  ELSE LET sub == RemoveNode(n.kids[i + 1], key)
       IN [Done(Trim(WithKid(n, i + 1, sub.n)), Cids(n) (+) sub.rel) EXCEPT !.ok = sub.ok]

(* A height-0 stub is the root as it stands. *)
RECURSIVE TrimTop(_)
TrimTop(n) ==
  IF n = NoNode \/ (~n.loaded /\ n.height = 0) \/ (n.loaded /\ n.ents # <<>>)
  THEN Done(n, EmptyBag)
  ELSE IF ~n.loaded THEN Unloaded
  ELSE LET sub == TrimTop(n.kids[1]) IN [sub EXCEPT !.rel = Cids(n) (+) @]

RemoveFromRoot(root, key) ==
  LET cut == RemoveNode(root, key) IN
  IF ~cut.ok THEN cut
  ELSE LET top == TrimTop(cut.n) IN [top EXCEPT !.rel = cut.rel (+) @]

-----------------------------------------------------------------------------
(* Loading. Each operator returns the node with what it could load, the     *)
(* counts, the CIDs the source lacks and whether a block was rejected.      *)

Got(n, refs) == [n |-> n, refs |-> refs, lacks |-> {}, bad |-> FALSE]

(* Loader::load with populate_node: the height comes from the first key, or *)
(* from the parent when the node has none; a child already counted is       *)
(* rejected.                                                                *)
LoadNode(n, src, refs) ==
  IF n.loaded THEN Got(n, refs)
  ELSE IF n.cid \notin src THEN [Got(n, refs) EXCEPT !.lacks = {n.cid}]
  ELSE
  LET kids == n.cid.kids
      linked == {kids[i] : i \in DOMAIN kids} \ {NoNode}
      height == IF n.cid.ents = <<>> THEN n.height ELSE HeightOf[Key(n.cid.ents[1])]
      below == IF height = 0 THEN 0 ELSE height - 1
  IN IF \E c \in linked : BagIn(c, refs) THEN [Got(n, refs) EXCEPT !.bad = TRUE]
     ELSE Got([cid |-> n.cid, height |-> height, loaded |-> TRUE, ents |-> n.cid.ents,
               kids |-> [i \in DOMAIN kids |->
                           IF kids[i] = NoNode THEN NoNode ELSE Stub(kids[i], below)]],
              refs (+) SetToBag(linked))

Stopped(r) == r.bad \/ r.lacks # {}

RECURSIVE VisitRootChain(_, _, _, _)
VisitRootChain(n, chain, src, refs) ==
  IF n = NoNode \/ ~chain THEN Got(n, refs)
  ELSE
  LET r == LoadNode(n, src, refs) IN
  IF r.bad THEN r
  ELSE IF r.lacks # {} THEN [r EXCEPT !.lacks = IF n.height > 0 THEN @ ELSE {}]
  ELSE LET sub == VisitRootChain(r.n.kids[1], r.n.ents = <<>>, src, r.refs)
       IN [sub EXCEPT !.n = [r.n EXCEPT !.kids[1] = sub.n]]

(* The result has both nodes, l and r. *)
RECURSIVE VisitMerge(_, _, _, _, _)
VisitMerge(l, r, chain, src, refs) ==
  IF l = NoNode
  THEN LET v == VisitRootChain(r, chain, src, refs)
       IN [l |-> l, r |-> v.n, refs |-> v.refs, lacks |-> v.lacks, bad |-> v.bad]
  ELSE IF r = NoNode
  THEN LET v == VisitRootChain(l, chain, src, refs)
       IN [l |-> v.n, r |-> r, refs |-> v.refs, lacks |-> v.lacks, bad |-> v.bad]
  ELSE
  LET a == LoadNode(l, src, refs)
      b == LoadNode(r, src, a.refs)
      last == Len(a.n.kids)
      mid == VisitMerge(a.n.kids[last], b.n.kids[1],
                        chain /\ a.n.ents = <<>> /\ b.n.ents = <<>>, src, b.refs)
  IN IF a.bad \/ Stopped(b) \/ a.lacks # {}
     THEN [l |-> a.n, r |-> b.n, refs |-> b.refs, lacks |-> a.lacks \cup b.lacks,
           bad |-> a.bad \/ b.bad]
     ELSE [mid EXCEPT !.l = [a.n EXCEPT !.kids[last] = mid.l],
                      !.r = [b.n EXCEPT !.kids[1] = mid.r]]

RECURSIVE VisitKeyPath(_, _, _, _, _, _)
VisitKeyPath(n, key, removing, top, src, refs) ==
  LET got == LoadNode(n, src, refs)
      ents == got.n.ents
      i == Below(ents, key)
  IN
  IF Stopped(got) THEN got
  ELSE IF Has(ents, key)
  THEN IF ~removing THEN got
       ELSE LET mid == VisitMerge(got.n.kids[i + 1], got.n.kids[i + 2],
                                  top /\ Len(ents) = 1, src, got.refs)
            IN [n |-> [got.n EXCEPT !.kids[i + 1] = mid.l, !.kids[i + 2] = mid.r],
                refs |-> mid.refs, lacks |-> mid.lacks, bad |-> mid.bad]
  ELSE IF got.n.kids[i + 1] = NoNode THEN got
  ELSE LET sub == VisitKeyPath(got.n.kids[i + 1], key, removing, top /\ ents = <<>>,
                               src, got.refs)
       IN [sub EXCEPT !.n = [got.n EXCEPT !.kids[i + 1] = sub.n]]

(* get_node on a loaded path: the value, or NoNode. *)
RECURSIVE GetNode(_, _)
GetNode(n, key) ==
  LET i == Below(n.ents, key) IN
  IF n = NoNode THEN NoNode
  ELSE IF Has(n.ents, key) THEN n.ents[i + 1][2]
  ELSE GetNode(n.kids[i + 1], key)

-----------------------------------------------------------------------------
(* The calls of DetachedTree, on a tree t: its root, the counts, the CIDs   *)
(* released since the last flush, the empty root and the poison flag.  An   *)
(* outcome is the tree with how the call ended.                             *)

NewTree == [root |-> NoNode, refs |-> EmptyBag, released |-> EmptyBag,
            empty |-> NoNode, poisoned |-> FALSE]
LoadTree(cid) == [NewTree EXCEPT !.root = Stub(cid, 0), !.refs = SetToBag({cid})]

Poison(t) == [t EXCEPT !.root = NoNode, !.poisoned = TRUE]

(* The tree after a mutation m, which fails only if it met a stub. *)
Mutated(t, m) ==
  IF m.ok THEN [t |-> [t EXCEPT !.root = m.n, !.released = @ (+) m.rel], end |-> "ok"]
  ELSE [t |-> Poison(t), end |-> "broken"]

(* load_key_path: the tree with the path loaded, and how that ended. *)
PathLoaded(t, v) ==
  [t |-> [t EXCEPT !.root = v.n, !.refs = v.refs],
   end |-> IF v.bad THEN "rejected" ELSE IF v.lacks # {} THEN "lacks" ELSE "ok"]

LoadKeyPath(t, key, removing, src) ==
  IF t.root = NoNode THEN [t |-> t, end |-> "ok"]
  ELSE PathLoaded(t, VisitKeyPath(t.root, key, removing, TRUE, src, t.refs))

(* insert, once the path is loaded. *)
InsertAlong(path, key, val) ==
  LET prev == GetNode(path.t.root, key) IN
  IF path.end # "ok" \/ prev = val THEN path
  ELSE IF prev # NoNode THEN Mutated(path.t, UpdateNode(path.t.root, key, val))
  ELSE IF path.t.root # NoNode \/ path.t.empty = NoNode
  THEN Mutated(path.t, InsertNode(path.t.root, key, val))
  ELSE Mutated([path.t EXCEPT !.released = @ (+) SetToBag({path.t.empty}), !.empty = NoNode],
               InsertNode(NoNode, key, val))

TreeInsert(t, key, val, src) == InsertAlong(LoadKeyPath(t, key, FALSE, src), key, val)

(* remove, once the path is loaded. *)
RemoveAlong(path, key) ==
  IF path.end # "ok" \/ GetNode(path.t.root, key) = NoNode THEN path
  ELSE Mutated(path.t, RemoveFromRoot(path.t.root, key))

TreeRemove(t, key, src) == RemoveAlong(LoadKeyPath(t, key, TRUE, src), key)

(* write_node: the node with CIDs throughout, and the blocks it wrote. *)
RECURSIVE WriteNode(_)
WriteNode(n) ==
  IF n = NoNode \/ n.cid # NoNode THEN [n |-> n, out |-> {}]
  ELSE
  LET subs == [i \in DOMAIN n.kids |-> WriteNode(n.kids[i])]
      cid == Block([i \in DOMAIN subs |-> IF subs[i].n = NoNode THEN NoNode ELSE subs[i].n.cid],
                   n.ents)
  IN [n |-> [n EXCEPT !.cid = cid, !.kids = [i \in DOMAIN subs |-> subs[i].n]],
      out |-> {cid} \cup UNION {subs[i].out : i \in DOMAIN subs}]

(* Mutant: a block still referenced elsewhere is retired. *)
SettleRetiresAll(released, refs) == BagToSet(released)

(* settle: of the released CIDs, those no node carries any more. *)
Retired(released, refs) == {c \in BagToSet(released) : ~BagIn(c, refs)}

(* flush and settle: the tree, the root's CID, the blocks that are new (one *)
(* still counted is persisted already) and those retired.                   *)
TreeFlush(t) ==
  LET none == t.root = NoNode
      w == WriteNode(t.root)
      written == IF none THEN {EmptyBlock} ELSE w.out
      released == IF none /\ t.empty # NoNode THEN t.released (+) SetToBag({t.empty})
                  ELSE t.released
      refs == (t.refs (-) released) (+) SetToBag(written)
  IN IF ~(released \sqsubseteq t.refs)
     THEN [t |-> Poison(t), root |-> NoNode, new |-> {}, retired |-> {}]
     ELSE [t |-> [t EXCEPT !.root = w.n, !.refs = refs, !.released = EmptyBag,
                           !.empty = IF none THEN EmptyBlock ELSE @],
           root |-> IF none THEN EmptyBlock ELSE w.n.cid,
           new |-> {c \in written : ~BagIn(c, t.refs)},
           retired |-> Retired(released, refs)]

-----------------------------------------------------------------------------
(* walk, diff and the inversion of a commit. *)

RECURSIVE Walk(_)
Walk(block) ==
  IF block = NoNode THEN <<>>
  ELSE LET parts[i \in 0..Len(block.ents)] ==
             (IF i = 0 THEN <<>> ELSE parts[i - 1] \o <<block.ents[i]>>)
               \o Walk(block.kids[i + 1])
       IN parts[Len(block.ents)]

NoDiff == [added |-> {}, updated |-> {}, removed |-> {}]

(* diff over the two entry lists from positions li and ri. *)
RECURSIVE DiffFrom(_, _, _, _)
DiffFrom(left, right, li, ri) ==
  IF li > Len(left) /\ ri > Len(right) THEN NoDiff
  ELSE IF ri > Len(right) \/ (li <= Len(left) /\ Key(left[li]) < Key(right[ri]))
  THEN [DiffFrom(left, right, li + 1, ri) EXCEPT !.removed = @ \cup {left[li]}]
  ELSE IF li > Len(left) \/ Key(right[ri]) < Key(left[li])
  THEN [DiffFrom(left, right, li, ri + 1) EXCEPT !.added = @ \cup {right[ri]}]
  ELSE LET rest == DiffFrom(left, right, li + 1, ri + 1) IN
       IF left[li][2] = right[ri][2] THEN rest
       ELSE [rest EXCEPT !.updated = @ \cup {<<Key(left[li]), left[li][2], right[ri][2]>>}]

(* A commit's operations: per key, the value before and the value after. *)
Ops(diff) == {<<e[1], NoNode>> : e \in diff.added} \cup {<<e[1], e[2]>> : e \in diff.removed}
               \cup {<<e[1], e[2]>> : e \in diff.updated}

(* Mutant: a created key is not removed. *)
InvertsUpdatesOnly(t, op, src) ==
  IF op[2] = NoNode THEN [t |-> t, end |-> "ok"] ELSE TreeInsert(t, op[1], op[2], src)

InvertOp(t, op, src) ==
  IF op[2] = NoNode THEN TreeRemove(t, op[1], src) ELSE TreeInsert(t, op[1], op[2], src)

(* invert_decoded_commit, the operations listed in any order and undone     *)
(* from the last: the root before them, or how it failed.                   *)
RECURSIVE UndoOps(_, _, _)
UndoOps(done, list, src) ==
  IF done.end # "ok" \/ list = <<>> THEN done
  ELSE UndoOps(InvertOp(done.t, list[Len(list)], src), SubSeq(list, 1, Len(list) - 1), src)

Inverted(done) ==
  [root |-> IF done.end = "ok" THEN TreeFlush(done.t).root ELSE NoNode, end |-> done.end]

Invert(t, list, src) == Inverted(UndoOps([t |-> t, end |-> "ok"], list, src))

-----------------------------------------------------------------------------
VARIABLES
  tree,      \* the DetachedTree
  owner,     \* who holds it: "tree" (Tree over a BlockStore), or "detached"
  stored,    \* the blocks on disk
  unsaved,   \* Tree::unsaved
  rootCid,   \* the root the last flush returned
  content,   \* the entries put and not removed
  flushed,   \* the entries at the last flush
  ops,       \* calls since the last flush
  rootCids   \* calls of root_cid after a change

mstVars == <<tree, owner, stored, unsaved, rootCid, content, flushed, ops, rootCids>>

(* A source that has every block, or lacks one. *)
Sources == {stored} \cup {stored \ {b} : b \in stored}

Without(key) == {e \in content : Key(e) # key}

Call(outcome, after) ==
  /\ ~tree.poisoned /\ ops < MaxOps
  /\ tree' = outcome.t
  /\ content' = IF outcome.end = "ok" THEN after ELSE content
  /\ ops' = ops + 1
  /\ UNCHANGED <<owner, stored, unsaved, rootCid, flushed, rootCids>>

MstInsert(key, val, src) == Call(TreeInsert(tree, key, val, src), Without(key) \cup {<<key, val>>})

MstRemove(key, src) == Call(TreeRemove(tree, key, src), Without(key))

Flushed(f) ==
  /\ tree' = f.t /\ rootCid' = f.root
  /\ flushed' = content /\ ops' = 0

(* The caller of flush stores the new blocks and deletes the retired ones. *)
MstFlush ==
  LET f == TreeFlush(tree) IN
  /\ owner = "detached" /\ ~tree.poisoned /\ ops > 0
  /\ Flushed(f)
  /\ stored' = (stored \cup f.new) \ f.retired
  /\ UNCHANGED <<owner, unsaved, content, rootCids>>

(* Tree::root_cid: blocks are put one by one; those the store has not       *)
(* accepted are kept for the next call.  Nothing is deleted.                *)
RootCid ==
  LET f == TreeFlush(tree) IN
  /\ owner = "tree" /\ ~tree.poisoned
  /\ \/ ops > 0 /\ rootCids < MaxRootCids /\ rootCids' = rootCids + 1
     \/ ops = 0 /\ unsaved # {} /\ UNCHANGED rootCids
  /\ Flushed(f)
  /\ \E kept \in {{}} \cup {{b} : b \in unsaved \cup f.new} :
       /\ stored' = stored \cup ((unsaved \cup f.new) \ kept)
       /\ unsaved' = kept
  /\ UNCHANGED <<owner, content>>

(* The tree is dropped with its changes and opened again at the last root. *)
MstReload ==
  /\ rootCid # NoNode /\ unsaved = {}
  /\ tree' = LoadTree(rootCid)
  /\ content' = flushed /\ ops' = 0
  /\ UNCHANGED <<owner, stored, unsaved, rootCid, flushed, rootCids>>

MstInit ==
  /\ tree = NewTree /\ owner \in {"tree", "detached"}
  /\ stored = {} /\ unsaved = {} /\ rootCid = NoNode
  /\ content = {} /\ flushed = {} /\ ops = 0 /\ rootCids = 0

MstNext ==
  \/ \E key \in MstKeys, src \in Sources :
       MstRemove(key, src) \/ \E val \in Vals : MstInsert(key, val, src)
  \/ MstFlush \/ RootCid \/ MstReload

MstSpec == MstInit /\ [][MstNext]_mstVars

-----------------------------------------------------------------------------
(* Properties. *)

(* The one block an MST of these entries has, from its definition: a node   *)
(* holds the keys of its height, and between them the trees of the keys in  *)
(* each gap, one height lower.                                              *)
RECURSIVE Build(_, _)
Build(entries, height) ==
  LET here == {e \in entries : HeightOf[Key(e)] = height}
      list == CHOOSE q \in [1..Cardinality(here) -> here] :
                \A i, j \in DOMAIN q : i < j => Key(q[i]) < Key(q[j])
      Gap(i) == {e \in entries \ here :
                   /\ i > 1 => Key(list[i - 1]) < Key(e)
                   /\ i <= Len(list) => Key(e) < Key(list[i])}
  IN IF entries = {} THEN NoNode
     ELSE Block([i \in 1..Len(list) + 1 |-> Build(Gap(i), height - 1)], list)

Canonical(entries) ==
  LET tops == {HeightOf[Key(e)] : e \in entries} IN
  IF entries = {} THEN EmptyBlock
  ELSE Build(entries, CHOOSE h \in tops : \A g \in tops : g <= h)

(* The block a node stands for, stubs being their CIDs. *)
RECURSIVE Shape(_)
Shape(n) ==
  IF n = NoNode THEN NoNode
  ELSE IF ~n.loaded THEN n.cid
  ELSE Block([i \in DOMAIN n.kids |-> Shape(n.kids[i])], n.ents)

RECURSIVE Nodes(_)
Nodes(n) == IF n = NoNode THEN {} ELSE {n} \cup UNION {Nodes(n.kids[i]) : i \in DOMAIN n.kids}

RECURSIVE Reachable(_)
Reachable(block) ==
  IF block = NoNode THEN {}
  ELSE {block} \cup UNION {Reachable(block.kids[i]) : i \in DOMAIN block.kids}

(* The tree is at every moment the canonical tree of its entries, whatever  *)
(* order they came in, which nodes were loaded and which calls failed for   *)
(* want of a block; every CID a node carries names what the node holds.     *)
TreeIsCanonical ==
  tree.poisoned \/
  /\ Shape(tree.root) \in {Canonical(content)} \cup (IF content = {} THEN {NoNode} ELSE {})
  /\ \A n \in Nodes(tree.root) : n.cid \in {NoNode, Shape(n)}

(* "insert and remove load every node they will touch before restructuring  *)
(* anything", and a failure after that "only a bug can cause": no sequence  *)
(* of calls over any partial source poisons the tree or rejects a block.    *)
NeverPoisoned ==
  /\ ~tree.poisoned
  /\ \A key \in MstKeys :
       /\ LoadKeyPath(tree, key, TRUE, stored).end # "rejected"
       /\ TreeRemove(tree, key, stored).end # "broken"

(* The blocks on disk serve the root flush returned: storing the new blocks *)
(* and deleting the retired ones leaves exactly the reachable ones, and a   *)
(* block the store refused is not lost.                                     *)
StoreServesRoot ==
  rootCid # NoNode =>
    /\ Reachable(rootCid) \subseteq stored \cup unsaved
    /\ owner = "detached" => stored = Reachable(rootCid)

(* The tree is usable and canonical after every call, whichever blocks its  *)
(* source lacked, and the store serves the root it last returned.           *)
TreeIsSound == TreeIsCanonical /\ NeverPoisoned /\ StoreServesRoot

(* diff of the trees of two commits, the last flush and now, is the         *)
(* difference of their entries; inverting those operations on the later     *)
(* tree, in whatever order the commit lists them, gives the earlier root,   *)
(* or fails for want of a block: never another root, whichever block the    *)
(* commit's CAR lacks.                                                      *)
InversionIsExact ==
  LET later == Canonical(content)
      car == Reachable(later)
      diff == DiffFrom(Walk(Canonical(flushed)), Walk(later), 1, 1)
      keys == [e \in {flushed, content} |-> {Key(x) : x \in e}]
      orders == {q \in [1..Cardinality(Ops(diff)) -> Ops(diff)] : IsInjective(q)}
  IN
  /\ diff.removed = {e \in flushed : Key(e) \notin keys[content]}
  /\ diff.added = {e \in content : Key(e) \notin keys[flushed]}
  /\ \A src \in {car} \cup {car \ {b} : b \in car}, list \in orders :
       Invert(LoadTree(later), list, src) \in
         {[root |-> Canonical(flushed), end |-> "ok"]}
           \cup (IF src = car THEN {} ELSE {[root |-> NoNode, end |-> "lacks"]})
=============================================================================
