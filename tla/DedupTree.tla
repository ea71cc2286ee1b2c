----------------------------- MODULE DedupTree -----------------------------
(***************************************************************************)
(* The dedup tree of a sector size, hash -> place of the sector.  It has a *)
(* root from the start, entries are never removed, and a search on behalf  *)
(* of an insert repairs what it cannot read: a block that is no node       *)
(* becomes an empty leaf, a child out of range gets a new leaf.            *)
(***************************************************************************)
EXTENDS BTree

EmptyLeaf == Node(0, << >>, 0, 0)

\* The header is read from its block on every use; the first use of a sector
\* size creates the tree with an empty root leaf.
dedup_get_tree(t) ==
    IF t.disk.root # 0 THEN HeaderRead(t)
    ELSE LET b == t.used + 1
         IN  HeaderWrite([WriteNode(t, b, EmptyLeaf)
                EXCEPT !.used = b, !.mem = [EmptyHeader EXCEPT !.root = b, !.total = 1]])

dedup_lookup(t, hash) == Lookup(t, hash)

\* Descent that stops above the leaves: the child is returned unread.
dedup_find_leaf_lba(t, hash) == Descend(t, hash).leaf

\* The leaves of many hashes, level by level.
dedup_batch_find_leaves(t, hashes) == [h \in hashes |-> dedup_find_leaf_lba(t, h)]

(* Mutant: the leaves are found along their right links. *)
MutCollect(t) == ToSet(ChainBlocks(t, LeftmostLeaf(t)))

\* All leaves, by depth-first search of the index nodes.
collect_all_leaf_lbas(t) ==
    {b \in Reachable(t) : b # 0 /\ t.node[b].level = 0}

\* What the warmups read: the hashes of every leaf that is still a node.
keyset_warmup(t) ==
    UNION {{t.node[b].recs[i].key : i \in 1..t.node[b].keys} : b \in collect_all_leaf_lbas(t)}

\* A child that cannot be read gets a new leaf and its parent entry is
\* patched; a block without the magic becomes an empty leaf where it is.
dedup_heal(t, w) ==
    LET b == t.used + 1
        up == w.path[Len(w.path)]
    IN  IF w.rc = "badmagic" THEN WriteNode(t, w.leaf, EmptyLeaf)
        ELSE IF w.rc = "io" /\ w.path # << >> /\ b \in Block
        THEN [WriteNode(t, b, EmptyLeaf)
                EXCEPT !.used = b, !.node[up.lba].recs[up.slot].val = b]
        ELSE t

\* The search starts again at the root after a repair.
dedup_upsert_find(t, hash) == LET h == dedup_heal(t, Descend(t, hash))
                              IN  [t |-> h, w |-> Descend(h, hash)]

dedup_split_leaf(t, b, r) == CountNode(Relink(SplitLeaf(t, b, r)))

dedup_into_parent(at, c) ==
    IF FitsIndex(c.t, at.lba) THEN IntoIndex(at, c)
    ELSE CountNode(Relink(SplitIndex(at, c)))

dedup_grow_root(c) == Counted(GrowRoot(c))

dedup_upsert_insert(t, w, r) ==
    InsertAlong(t, w, r, dedup_split_leaf, dedup_into_parent, dedup_grow_root)

\* One entry of a drain: the header is read before and written after it,
\* also when the insert fails; a hash that is there keeps its place.
dedup_upsert(t0, r) ==
    LET f == dedup_upsert_find(dedup_get_tree(t0), r.key)
        c == dedup_upsert_insert(f.t, f.w, r)
    IN  IF f.w.rc # "ok" THEN Finished(HeaderWrite(f.t), f.w.rc)
        ELSE IF LeafFind(f.t.node[f.w.leaf], r.key) # {} THEN Finished(f.t, "ok")
        ELSE Finished(HeaderWrite(c.t), c.rc)
=============================================================================
