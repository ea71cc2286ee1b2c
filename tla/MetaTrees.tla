------------------------------ MODULE MetaTrees ------------------------------
(***************************************************************************)
(* The metadata of images: (inode, key) -> value, its reverse index        *)
(* (key, value, inode) and the numeric indexes (key, number, inode).  All  *)
(* three fix neighbours, count nodes and write the header.                 *)
(***************************************************************************)
EXTENDS BTree

meta_tree_lookup(t, k) == Lookup(t, k)

meta_split_leaf(t, b, r) == CountNode(Relink(SplitLeaf(t, b, r)))

meta_into_parent(at, c) ==
    IF FitsIndex(c.t, at.lba) THEN Saved(IntoIndex(at, c))
    ELSE CountNode(Relink(SplitIndex(at, c)))

meta_grow_root(c) == Saved(Counted(GrowRoot(c)))

meta_tree_put(t, r) ==
    IF t.mem.root = 0 THEN FirstLeaf(t, r, 1)
    ELSE InsertAlong(t, Descend(t, r.key), r, meta_split_leaf,
                     meta_into_parent, meta_grow_root)

meta_tree_delete(t, k) ==
    IF t.mem.root = 0 THEN Finished(t, "notfound")
    ELSE DeleteAlong(t, Descend(t, k), k)

metadata_list(t, inode) == List(t, inode)

(***************************************************************************)
(* Reverse index.  The entry is its own key; putting it again rewrites it. *)
(***************************************************************************)
midx_split_leaf(t, b, r) == CountNode(Relink(SplitLeaf(t, b, r)))

midx_into_parent(at, c) ==
    IF FitsIndex(c.t, at.lba) THEN Saved(IntoIndex(at, c))
    ELSE CountNode(Relink(SplitIndex(at, c)))

midx_grow_root(c) == Saved(Counted(GrowRoot(c)))

midx_tree_put(t, r) ==
    IF t.mem.root = 0 THEN FirstLeaf(t, r, 1)
    ELSE InsertAlong(t, Descend(t, r.key), r, midx_split_leaf,
                     midx_into_parent, midx_grow_root)

midx_tree_delete(t, k) ==
    IF t.mem.root = 0 THEN Finished(t, "notfound")
    ELSE DeleteAlong(t, Descend(t, k), k)

(***************************************************************************)
(* Numeric index.  An entry that is there is left alone.                   *)
(***************************************************************************)
numidx_split_leaf(t, b, r) == CountNode(Relink(SplitLeaf(t, b, r)))

numidx_into_parent(at, c) ==
    IF FitsIndex(c.t, at.lba) THEN Saved(IntoIndex(at, c))
    ELSE CountNode(Relink(SplitIndex(at, c)))

numidx_grow_root(c) == Saved(Counted(GrowRoot(c)))

numidx_put_ex(t, r) ==
    LET w == Descend(t, r.key)
    IN  IF t.mem.root = 0 THEN FirstLeaf(t, r, 1)
        ELSE IF w.rc = "ok" /\ LeafFind(t.node[w.leaf], r.key) # {} THEN Finished(t, "ok")
        ELSE InsertAlong(t, w, r, numidx_split_leaf, numidx_into_parent, numidx_grow_root)

numidx_delete_ex(t, k) ==
    IF t.mem.root = 0 THEN Finished(t, "notfound")
    ELSE DeleteAlong(t, Descend(t, k), k)

\* The entries from low to high of one key, from the leaf low belongs to on.
numidx_collect_range_ex(t, low, high) ==
    IF t.mem.root = 0 THEN << >>
    ELSE SelectSeq(OfOwner(Chain(t, Descend(t, low).leaf), Owner(low)),
                   LAMBDA r : low <= r.key /\ r.key <= high)
=============================================================================
