------------------------------ MODULE NameTrees ------------------------------
(***************************************************************************)
(* The catalog, (parent directory, name) -> inode id, and the inode tree,  *)
(* inode id -> inode record.  Both copies of the B+Tree code fix the       *)
(* neighbour of a split node, count their nodes and write the header at    *)
(* the end of every insert that took a block.                              *)
(***************************************************************************)
EXTENDS BTree

(***************************************************************************)
(* Catalog                                                                 *)
(***************************************************************************)
catalog_lookup(t, k) == Lookup(t, k)

\* The entries of a directory, in name order.
catalog_list(t, parent) == List(t, parent)

\* The first entry, in key order, that names the inode: a scan of all leaves.
catalog_find_by_inode(t, inode) ==
    LET hits == SelectSeq(AllRecords(t), LAMBDA r : r.val = inode)
    IN  IF hits = << >> THEN Rec(0, 0) ELSE hits[1]

catalog_first_leaf(t, r) == FirstLeaf(t, r, 1)

catalog_split_leaf(t, b, r) == CountNode(Relink(SplitLeaf(t, b, r)))

catalog_into_parent(at, c) ==
    IF FitsIndex(c.t, at.lba) THEN Saved(IntoIndex(at, c))
    ELSE CountNode(Relink(SplitIndex(at, c)))

catalog_grow_root(c) == Saved(Counted(GrowRoot(c)))

catalog_insert(t, r) ==
    IF t.mem.root = 0 THEN catalog_first_leaf(t, r)
    ELSE InsertAlong(t, Descend(t, r.key), r, catalog_split_leaf,
                     catalog_into_parent, catalog_grow_root)

catalog_delete(t, k) ==
    IF t.mem.root = 0 THEN Finished(t, "notfound")
    ELSE DeleteAlong(t, Descend(t, k), k)

(***************************************************************************)
(* Inodes.  Freeing the data blocks of a deleted inode is FileExtents'.    *)
(***************************************************************************)
inode_get(t, k) == Lookup(t, k)

inode_first_leaf(t, r) == FirstLeaf(t, r, 1)

inode_split_leaf(t, b, r) == CountNode(Relink(SplitLeaf(t, b, r)))

inode_into_parent(at, c) ==
    IF FitsIndex(c.t, at.lba) THEN Saved(IntoIndex(at, c))
    ELSE CountNode(Relink(SplitIndex(at, c)))

inode_grow_root(c) == Saved(Counted(GrowRoot(c)))

inode_put(t, r) ==
    IF t.mem.root = 0 THEN inode_first_leaf(t, r)
    ELSE InsertAlong(t, Descend(t, r.key), r, inode_split_leaf,
                     inode_into_parent, inode_grow_root)

inode_delete(t, k) ==
    IF t.mem.root = 0 THEN Finished(t, "notfound")
    ELSE DeleteAlong(t, Descend(t, k), k)
=============================================================================
