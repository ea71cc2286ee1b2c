------------------------------ MODULE TagTrees ------------------------------
(***************************************************************************)
(* The trees that describe disc images: sector tags (a data tree, hash ->  *)
(* tag, and a reference tree, (inode, sector) -> hash), media tags, the    *)
(* three hash trees of CD sectors and the map of junk regions.             *)
(***************************************************************************)
EXTENDS BTree

\* Deleting the keys of a sequence one after the other; an absent one is
\* skipped, any other error ends the loop.
DeleteEach(t, keys, Delete(_, _)) ==
    FoldLeft(LAMBDA c, k : IF c.rc # "ok" THEN c
                           ELSE LET d == Delete(c.t, k)
                                IN  IF d.rc = "notfound" THEN c ELSE d,
             Finished(t, "ok"), keys)

KeysOf(recs) == [i \in DOMAIN recs |-> recs[i].key]

(***************************************************************************)
(* Sector tag data.  Nodes are not counted, the neighbour of a split node  *)
(* keeps its left link, and an insert that finds room in a parent returns  *)
(* without writing the header.                                             *)
(***************************************************************************)
stdata_tree_lookup(t, hash) == Lookup(t, hash)

stdata_split_leaf(t, b, r) == SplitLeaf(t, b, r)

stdata_into_parent(at, c) ==
    IF FitsIndex(c.t, at.lba) THEN IntoIndex(at, c) ELSE SplitIndex(at, c)

stdata_grow_root(c) == Saved(GrowRoot(c))

stdata_tree_put(t, r) ==
    IF t.mem.root = 0 THEN FirstLeaf(t, r, t.mem.total)
    ELSE InsertAlong(t, Descend(t, r.key), r, stdata_split_leaf,
                     stdata_into_parent, stdata_grow_root)

(***************************************************************************)
(* Sector tag references                                                   *)
(***************************************************************************)
stref_tree_lookup(t, k) == Lookup(t, k)

stref_split_leaf(t, b, r) == SplitLeaf(t, b, r)

stref_into_parent(at, c) ==
    IF FitsIndex(c.t, at.lba) THEN IntoIndex(at, c) ELSE SplitIndex(at, c)

stref_grow_root(c) == Saved(GrowRoot(c))

stref_tree_put(t, r) ==
    IF t.mem.root = 0 THEN FirstLeaf(t, r, t.mem.total)
    ELSE InsertAlong(t, Descend(t, r.key), r, stref_split_leaf,
                     stref_into_parent, stref_grow_root)

stref_tree_delete(t, k) ==
    IF t.mem.root = 0 THEN Finished(t, "notfound")
    ELSE DeleteAlong(t, Descend(t, k), k)

stref_list_for_inode(t, inode) == List(t, inode)

sector_tag_delete_all(t, inode) ==
    DeleteEach(t, Reverse(KeysOf(stref_list_for_inode(t, inode))), stref_tree_delete)

(***************************************************************************)
(* Media tags.  Data too long for the record goes to blocks of its own:    *)
(* "ext" holds the keys whose external blocks are allocated.               *)
(***************************************************************************)
CONSTANT InlineMax   \* the longest data kept in the record (MEDIA_TAG_INLINE_MAX)

media_tag_tree_lookup(t, k) == Lookup(t, k)

(* Mutant: the blocks of replaced or deleted data are not freed. *)
MutFreeExternal(ext, r) == ext

media_tag_free_external(ext, r) == IF r.val > InlineMax THEN ext \ {r.key} ELSE ext

media_tag_build_record(ext, r) == IF r.val > InlineMax THEN ext \cup {r.key} ELSE ext

media_tag_split_leaf(t, b, r) == CountNode(Relink(SplitLeaf(t, b, r)))

media_tag_into_parent(at, c) ==
    IF FitsIndex(c.t, at.lba) THEN Saved(IntoIndex(at, c))
    ELSE CountNode(Relink(SplitIndex(at, c)))

media_tag_grow_root(c) == Saved(Counted(GrowRoot(c)))

media_tag_tree_put(t, r) ==
    IF t.mem.root = 0 THEN FirstLeaf(t, r, 1)
    ELSE InsertAlong(t, Descend(t, r.key), r, media_tag_split_leaf,
                     media_tag_into_parent, media_tag_grow_root)

media_tag_tree_delete(t, k) ==
    IF t.mem.root = 0 THEN Finished(t, "notfound")
    ELSE DeleteAlong(t, Descend(t, k), k)

\* The external blocks of the data a key has are freed.
media_tag_free_old(t, ext, k) ==
    LET old == media_tag_tree_lookup(t, k)
    IN  IF old.rc = "ok" THEN media_tag_free_external(ext, Rec(k, old.val)) ELSE ext

media_tag_list(t, inode) == List(t, inode)

\* The first tag is deleted and the list taken anew, until it is empty.
media_tag_delete_all(t, inode) ==
    DeleteEach(t, KeysOf(media_tag_list(t, inode)), media_tag_tree_delete)

(***************************************************************************)
(* CD prefixes, suffixes and subchannels                                   *)
(***************************************************************************)
cd_hash_tree_lookup(t, hash) == Lookup(t, hash)

cd_hash_split_leaf(t, b, r) == CountNode(Relink(SplitLeaf(t, b, r)))

cd_hash_into_parent(at, c) ==
    IF FitsIndex(c.t, at.lba) THEN Saved(IntoIndex(at, c))
    ELSE CountNode(Relink(SplitIndex(at, c)))

cd_hash_grow_root(c) == Saved(Counted(GrowRoot(c)))

cd_hash_tree_put(t, r) ==
    IF t.mem.root = 0 THEN FirstLeaf(t, r, 1)
    ELSE InsertAlong(t, Descend(t, r.key), r, cd_hash_split_leaf,
                     cd_hash_into_parent, cd_hash_grow_root)

cd_hash_tree_delete(t, hash) ==
    IF t.mem.root = 0 THEN Finished(t, "notfound")
    ELSE DeleteAlong(t, Descend(t, hash), hash)

(***************************************************************************)
(* Junk map: (inode, offset) -> length of a region.  Neighbours keep their *)
(* left links and leaves are never freed.                                  *)
(***************************************************************************)

(* Mutant: the offset just behind a region counts as inside. *)
MutJunkLookup(t, k) ==
    LET w == Descend(t, k)
        n == t.node[w.leaf]
        before == {i \in 1..n.keys : Owner(n.recs[i].key) = Owner(k) /\ n.recs[i].key <= k}
        last == n.recs[Max(before)]
    IN  IF t.mem.root = 0 THEN [rc |-> "notfound", val |-> 0]
        ELSE IF w.rc # "ok" THEN [rc |-> w.rc, val |-> 0]
        ELSE IF before = {} \/ last.key + last.val < k THEN [rc |-> "notfound", val |-> 0]
        ELSE [rc |-> "ok", val |-> last.key]

\* The last record of the inode in the leaf that starts at or before the
\* offset, if it reaches it.
junk_map_lookup(t, k) ==
    LET w == Descend(t, k)
        n == t.node[w.leaf]
        before == {i \in 1..n.keys : Owner(n.recs[i].key) = Owner(k) /\ n.recs[i].key <= k}
        last == n.recs[Max(before)]
    IN  IF t.mem.root = 0 THEN [rc |-> "notfound", val |-> 0]
        ELSE IF w.rc # "ok" THEN [rc |-> w.rc, val |-> 0]
        ELSE IF before = {} \/ last.key + last.val <= k THEN [rc |-> "notfound", val |-> 0]
        ELSE [rc |-> "ok", val |-> last.key]

junk_map_split_leaf(t, b, r) == CountNode(SplitLeaf(t, b, r))

junk_map_into_parent(at, c) ==
    IF FitsIndex(c.t, at.lba) THEN Saved(IntoIndex(at, c))
    ELSE CountNode(SplitIndex(at, c))

junk_map_grow_root(c) == Saved(Counted(GrowRoot(c)))

junk_map_put(t, r) ==
    IF t.mem.root = 0 THEN FirstLeaf(t, r, t.mem.total + 1)
    ELSE InsertAlong(t, Descend(t, r.key), r, junk_map_split_leaf,
                     junk_map_into_parent, junk_map_grow_root)

junk_map_remove(t, k) == ShiftOut(t, Descend(t, k), k)

junk_map_delete_all(t, inode) ==
    LET found == KeysOf(List(t, inode))
    IN  IF found = << >> THEN Finished(t, "ok")
        ELSE Finished(HeaderWrite(DeleteEach(t, Reverse(found), junk_map_remove).t), "ok")
=============================================================================
