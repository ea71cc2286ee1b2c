----------------------------- MODULE BlockTrees -----------------------------
(***************************************************************************)
(* The reference counts, block -> count, and the overflow extents,         *)
(* (inode, logical block) -> extent.  A count of 1 is not stored, and the  *)
(* last leaf read is kept in memory.  Neither tree ever frees a leaf.      *)
(***************************************************************************)
EXTENDS BTree

(***************************************************************************)
(* Reference counts                                                        *)
(***************************************************************************)
NoLeaf == [valid |-> FALSE, recs |-> << >>]

Count(recs, k) ==
    LET hit == {i \in 1..Len(recs) : recs[i].key = k}
    IN  IF hit = {} THEN 1 ELSE recs[Max(hit)].val

\* The cached leaf answers for every block between its first and last key.
Cached(c, k) ==
    c.valid /\ c.recs # << >> /\ c.recs[1].key <= k /\ k <= c.recs[Len(c.recs)].key

\* The count, and the leaf that is cached afterwards.
refcount_get(t, c, k) ==
    LET leaf == Descend(t, k).leaf
    IN  IF t.mem.root = 0 THEN [val |-> 1, cache |-> c]
        ELSE IF Cached(c, k) THEN [val |-> Count(c.recs, k), cache |-> c]
        ELSE [val |-> Count(Live(t.node[leaf]), k),
              cache |-> [valid |-> TRUE, recs |-> Live(t.node[leaf])]]

refcount_remove(t, k) ==
    IF t.mem.root = 0 THEN Finished(t, "ok")
    ELSE LET c == ShiftOut(t, Descend(t, k), k)
         IN  IF c.rc = "notfound" THEN Finished(t, "ok") ELSE c

refcount_split_leaf(t, b, r) == CountNode(Relink(SplitLeaf(t, b, r)))

refcount_into_parent(at, c) ==
    IF FitsIndex(c.t, at.lba) THEN Saved(IntoIndex(at, c))
    ELSE CountNode(Relink(SplitIndex(at, c)))

refcount_grow_root(c) == Saved(Counted(GrowRoot(c)))

(* Mutant: the cached leaf outlives a change. *)
MutCacheAfterSet(c) == c

\* Every change invalidates the cached leaf.
refcount_cache_after_set(c) == NoLeaf

refcount_set(t, r) ==
    IF r.val <= 1 THEN refcount_remove(t, r.key)
    ELSE IF t.mem.root = 0 THEN FirstLeaf(t, r, 1)
    ELSE InsertAlong(t, Descend(t, r.key), r, refcount_split_leaf,
                     refcount_into_parent, refcount_grow_root)

\* inc and dec read through the cache, then set; 1 is never taken down.
refcount_inc(t, c, k) == refcount_set(t, Rec(k, refcount_get(t, c, k).val + 1))

refcount_dec(t, c, k) ==
    LET cur == refcount_get(t, c, k).val
    IN  IF cur <= 1 THEN Finished(t, "ok") ELSE refcount_set(t, Rec(k, cur - 1))

(***************************************************************************)
(* Overflow extents                                                        *)
(***************************************************************************)

\* A scan for an inode starts at the child before the first separator of
\* that inode: the last entry of an earlier inode.
overflow_index_find_left(n, inode) ==
    Max({1} \cup {i \in 1..n.keys : Owner(n.recs[i].key) < inode})

overflow_first_leaf(t, inode) == Walk(t, LAMBDA n : overflow_index_find_left(n, inode)).leaf

overflow_collect(t, inode) ==
    IF t.mem.root = 0 THEN << >>
    ELSE OfOwner(Chain(t, overflow_first_leaf(t, inode)), inode)

\* The record of the inode whose range holds the key; records are one block.
overflow_find_extent(t, k) ==
    LET hits == SelectSeq(overflow_collect(t, Owner(k)), LAMBDA r : r.key = k)
    IN  IF hits = << >> THEN Rec(0, 0) ELSE hits[1]

overflow_split_leaf(t, b, r) == CountNode(Relink(SplitLeaf(t, b, r)))

overflow_into_parent(at, c) ==
    IF FitsIndex(c.t, at.lba) THEN Saved(IntoIndex(at, c))
    ELSE CountNode(Relink(SplitIndex(at, c)))

overflow_grow_root(c) == Saved(Counted(GrowRoot(c)))

overflow_insert(t, r) ==
    IF t.mem.root = 0 THEN FirstLeaf(t, r, 1)
    ELSE InsertAlong(t, Descend(t, r.key), r, overflow_split_leaf,
                     overflow_into_parent, overflow_grow_root)

overflow_clear_inode(t, inode) ==
    IF t.mem.root = 0 THEN Finished(t, "ok")
    ELSE Finished(ClearOwner(t, overflow_first_leaf(t, inode), inode), "ok")
=============================================================================
