-------------------------------- MODULE Trees --------------------------------
(***************************************************************************)
(* A tree of a volume in use: the operations of its callers one after the  *)
(* other (the context lock serialises them), a full volume, a remount, and *)
(* for the dedup tree a block that goes bad.  A behaviour is about one     *)
(* tree, of the kind chosen at the start.                                  *)
(***************************************************************************)
EXTENDS NameTrees, BlockTrees, TagTrees, MetaTrees, DedupTree

CONSTANTS
    Kinds,            \* the trees looked at
    Remountable,      \* the trees that are also looked at across a remount
    Chained,          \* the trees whose leaves are still scanned after a deletion
    Inputs,           \* the records the callers store
    MaxBadBlocks,     \* blocks that go bad
    MaxRemovals,      \* operations that take records away
    MaxDeleteLevels   \* levels of a tree from which records are still deleted

ASSUME TreesAssumption ==
    /\ \A r \in Inputs : r.key \in Nat \ {0} /\ r.val \in Nat \ {0, 1}
    /\ MaxBadBlocks \in Nat /\ MaxRemovals \in Nat /\ MaxDeleteLevels \in Nat

AllKeys == {r.key : r \in Inputs}

Values == {r.val : r \in Inputs}

VARIABLES
    kind,    \* which tree
    tree,    \* the tree, see BTree
    call,    \* the last operation with its key and value: read by no action,
             \* it lets the map of KeyMap be held to what was asked
    rc,      \* the result of the last operation
    map,     \* what a lookup of each key answers, 0 for none
    cache,   \* refcount_leaf_cache
    ext,     \* the media tags whose external blocks are allocated
    bad,     \* blocks that went bad
    removals,  \* operations so far that took records away
    gone,    \* inodes whose junk regions were deleted
    halfway  \* a put of a media tag failed after it touched external blocks

vars == <<kind, tree, call, rc, map, cache, ext, bad, removals, gone, halfway>>

Call(do, k, v) == [do |-> do, key |-> k, val |-> v]

\* What the lookup of each tree answers; the reverse and numeric indexes are
\* only scanned, and reference counts and junk regions have answers of
\* their own, see CachedCounts and JunkFound.
Found(t, k) ==
    CASE kind = "catalog" -> catalog_lookup(t, k).val
      [] kind = "inode" -> inode_get(t, k).val
      [] kind = "overflow" -> overflow_find_extent(t, k).val
      [] kind = "stdata" -> stdata_tree_lookup(t, k).val
      [] kind = "stref" -> stref_tree_lookup(t, k).val
      [] kind = "media" -> media_tag_tree_lookup(t, k).val
      [] kind = "cd" -> cd_hash_tree_lookup(t, k).val
      [] kind = "meta" -> meta_tree_lookup(t, k).val
      [] kind = "dedup" -> dedup_lookup(t, k).val
      [] OTHER -> Lookup(t, k).val

Contents(t) == [k \in AllKeys |-> Found(t, k)]

Owners == {Owner(k) : k \in AllKeys}

Init ==
    /\ kind \in Kinds
    /\ tree = IF kind = "dedup" THEN dedup_get_tree(EmptyTree) ELSE EmptyTree
    /\ map = Contents(tree)
    /\ call = Call("none", 0, 0) /\ rc = "ok" /\ cache = NoLeaf
    /\ ext = {} /\ halfway = FALSE /\ bad = 0 /\ removals = 0 /\ gone = {}

\* An operation leaves a tree and a result.
Becomes(t) == tree' = t /\ map' = Contents(t)

Done(c) == Becomes(c.t) /\ rc' = c.rc

\* The keys that are stored.
Held == {k \in AllKeys : map[k] # 0}

On(k) == kind = k /\ UNCHANGED <<kind, bad, removals>>

\* Records are taken away.
Off(k) ==
    /\ kind = k /\ UNCHANGED <<kind, bad>>
    /\ removals < MaxRemovals /\ removals' = removals + 1

\* The operations of a tree's callers.
Stores(k, r) == On(k) /\ call' = Call("put", r.key, r.val)

\* What is stored already stays.
Adds(k, r) == On(k) /\ call' = Call("add", r.key, r.val)

Deletes(k, key) == Off(k) /\ call' = Call("delete", key, 0)

DeletesOwner(k, o) == Off(k) /\ call' = Call("delete owner", o, 0)

External == <<ext, halfway>>

Others == UNCHANGED <<cache, External, gone>>

\* The volume has no block left, or enough for a split of every level: in
\* between, a split that runs out of blocks half way loses records.
Room == Available(tree) = 0 \/ Available(tree) > Levels(tree)

\* Sector tag leaves do not know their left neighbour: after a deletion their
\* chain is broken, and a list of an inode's tags may be short.
ChainWhole == kind \in Chained \/ removals = 0

MayDelete == Levels(tree) <= MaxDeleteLevels

CatalogInsert(r) == Stores("catalog", r) /\ Room /\ Done(catalog_insert(tree, r)) /\ Others

CatalogDelete(k) == Deletes("catalog", k) /\ MayDelete /\ Done(catalog_delete(tree, k)) /\ Others

InodePut(r) == Stores("inode", r) /\ Room /\ Done(inode_put(tree, r)) /\ Others

InodeDelete(k) == Deletes("inode", k) /\ MayDelete /\ Done(inode_delete(tree, k)) /\ Others

RefcountGet(k) ==
    /\ On("refcount")
    /\ cache' = refcount_get(tree, cache, k).cache
    /\ UNCHANGED <<tree, call, rc, map, External, gone>>

\* The read that precedes the change may have filled the cache; it is
\* dropped with the change, or kept when there is nothing to take away.
RefcountInc(k) ==
    /\ On("refcount") /\ Room /\ call' = Call("increment", k, 0)
    /\ Rec(k, refcount_get(tree, cache, k).val + 1) \in Inputs
    /\ Done(refcount_inc(tree, cache, k))
    /\ cache' = refcount_cache_after_set(cache)
    /\ UNCHANGED <<External, gone>>

RefcountDec(k) ==
    LET got == refcount_get(tree, cache, k)
    IN  /\ Off("refcount") /\ call' = Call("decrement", k, 0)
        /\ Done(refcount_dec(tree, cache, k))
        /\ cache' = IF got.val <= 1 THEN got.cache ELSE refcount_cache_after_set(cache)
        /\ UNCHANGED <<External, gone>>

OverflowInsert(r) == Stores("overflow", r) /\ Room /\ Done(overflow_insert(tree, r)) /\ Others

OverflowClear(o) == DeletesOwner("overflow", o) /\ Done(overflow_clear_inode(tree, o)) /\ Others

StdataPut(r) == Stores("stdata", r) /\ Room /\ Done(stdata_tree_put(tree, r)) /\ Others

StrefPut(r) == Stores("stref", r) /\ Room /\ Done(stref_tree_put(tree, r)) /\ Others

\* No caller of the library deletes sector tags.
StrefDelete(k) == Deletes("stref", k) /\ MayDelete /\ Done(stref_tree_delete(tree, k)) /\ Others

StrefDeleteAll(o) ==
    /\ DeletesOwner("stref", o) /\ MayDelete /\ ChainWhole
    /\ Done(sector_tag_delete_all(tree, o)) /\ Others

\* The external blocks of the old data are freed first, then the new data is
\* written to blocks of its own, then the record goes into the tree.  When no
\* blocks are found for the new data the old record is left with blocks that
\* are free; when the tree has no room the new blocks stay allocated.
MediaPut(r) ==
    LET freed == media_tag_free_old(tree, ext, r.key)
    IN  /\ On("media") /\ Room
        /\ call' = Call(IF r.val > InlineMax THEN "put outside" ELSE "put", r.key, r.val)
        /\ \/ /\ Done(media_tag_tree_put(tree, r))
              /\ ext' = media_tag_build_record(freed, r)
           \/ /\ r.val > InlineMax
              /\ rc' = "nospc" /\ UNCHANGED <<tree, map>>
              /\ ext' = freed
        /\ halfway' = (halfway \/ (rc' # "ok" /\ ext' # ext))
        /\ UNCHANGED <<cache, gone>>

MediaDelete(k) ==
    /\ Deletes("media", k) /\ MayDelete
    /\ Done(media_tag_tree_delete(tree, k))
    /\ ext' = media_tag_free_old(tree, ext, k)
    /\ UNCHANGED <<cache, gone, halfway>>

MediaDeleteAll(o) ==
    /\ DeletesOwner("media", o) /\ MayDelete
    /\ Done(media_tag_delete_all(tree, o))
    /\ ext' = FoldLeft(LAMBDA e, k : media_tag_free_old(tree, e, k),
                       ext, KeysOf(media_tag_list(tree, o)))
    /\ UNCHANGED <<cache, gone, halfway>>

CdPut(r) == Stores("cd", r) /\ Room /\ Done(cd_hash_tree_put(tree, r)) /\ Others

CdDelete(k) == Deletes("cd", k) /\ MayDelete /\ Done(cd_hash_tree_delete(tree, k)) /\ Others

\* Regions of an inode do not overlap, and an inode that lost its regions
\* is being deleted and gets no new ones.
JunkPut(r) ==
    /\ Stores("junk", r) /\ Room
    /\ Owner(r.key) \notin gone
    /\ \A k \in Held :
         \/ Owner(k) # Owner(r.key)
         \/ k + map[k] <= r.key
         \/ r.key + r.val <= k
    /\ Done(junk_map_put(tree, r)) /\ Others

JunkDeleteAll(o) ==
    /\ DeletesOwner("junk", o)
    /\ Done(junk_map_delete_all(tree, o))
    /\ gone' = gone \cup {o}
    /\ UNCHANGED <<cache, External>>

MetaPut(r) == Stores("meta", r) /\ Room /\ Done(meta_tree_put(tree, r)) /\ Others

MetaDelete(k) == Deletes("meta", k) /\ MayDelete /\ Done(meta_tree_delete(tree, k)) /\ Others

MidxPut(r) == Stores("midx", r) /\ Room /\ Done(midx_tree_put(tree, r)) /\ Others

MidxDelete(k) == Deletes("midx", k) /\ MayDelete /\ Done(midx_tree_delete(tree, k)) /\ Others

NumidxPut(r) == Adds("numidx", r) /\ Room /\ Done(numidx_put_ex(tree, r)) /\ Others

NumidxDelete(k) == Deletes("numidx", k) /\ MayDelete /\ Done(numidx_delete_ex(tree, k)) /\ Others

DedupUpsert(r) == Adds("dedup", r) /\ Room /\ Done(dedup_upsert(tree, r)) /\ Others

\* A clean unmount and mount: the headers in memory come from their blocks.
Remount ==
    /\ kind \in Remountable
    /\ call' = Call("remount", 0, 0)
    /\ Becomes(HeaderRead(tree))
    /\ cache' = NoLeaf
    /\ UNCHANGED <<kind, rc, External, bad, removals, gone>>

\* A block of the dedup tree is overwritten, or an entry of an index node.
BadBlock(b) ==
    /\ kind = "dedup" /\ bad < MaxBadBlocks
    /\ call' = Call("lose", 0, 0)
    /\ \/ Becomes(WriteNode(tree, b, FreeBlock(0)))
       \/ /\ tree.node[b].level > 0
          /\ \E i \in 1..tree.node[b].keys : Becomes([tree EXCEPT !.node[b].recs[i].val = 0])
    /\ bad' = bad + 1
    /\ UNCHANGED <<kind, rc, cache, External, removals, gone>>

Put(r) ==
    \/ CatalogInsert(r) \/ InodePut(r) \/ OverflowInsert(r) \/ StdataPut(r)
    \/ StrefPut(r) \/ MediaPut(r) \/ CdPut(r) \/ JunkPut(r) \/ MetaPut(r)
    \/ MidxPut(r) \/ NumidxPut(r) \/ DedupUpsert(r)

Delete(k) ==
    \/ CatalogDelete(k) \/ InodeDelete(k) \/ StrefDelete(k) \/ MediaDelete(k) \/ CdDelete(k)
    \/ MetaDelete(k) \/ MidxDelete(k) \/ NumidxDelete(k)

Next ==
    \/ \E r \in Inputs : Put(r)
    \/ \E k \in AllKeys : Delete(k) \/ RefcountGet(k) \/ RefcountInc(k) \/ RefcountDec(k)
    \/ \E o \in Owners : OverflowClear(o) \/ StrefDeleteAll(o) \/ MediaDeleteAll(o) \/ JunkDeleteAll(o)
    \/ Remount
    \/ \E b \in Reachable(tree) : BadBlock(b)

Spec == Init /\ [][Next]_vars

-----------------------------------------------------------------------------
(***************************************************************************)
(* Properties                                                              *)
(***************************************************************************)

\* Types of the state.
TypeOK ==
    /\ kind \in Kinds
    /\ DOMAIN tree.node = Block /\ tree.used \in 0..NumBlocks
    /\ tree.mem.root \in 0..NumBlocks /\ tree.disk.root \in 0..NumBlocks
    /\ rc \in {"ok", "notfound", "nospc", "io", "badmagic", "inval"}
    /\ ext \subseteq AllKeys /\ halfway \in BOOLEAN
    /\ bad \in 0..MaxBadBlocks /\ gone \subseteq Owners

\* The map a tree stands for.
Map == INSTANCE KeyMap WITH Keys <- AllKeys, hurt <- bad

\* Whatever splits, shrinks and repairs the nodes go through, a tree answers
\* like a map: a call that succeeds does to the key it was given what was
\* asked and changes no other one, one that fails changes nothing and fails
\* for a reason, and a remount brings back what was there.
ActsAsMap == Map!Spec

\* The list of an owner's records that each tree offers.
ListOf(o) ==
    CASE kind = "catalog" -> catalog_list(tree, o)
      [] kind = "overflow" -> overflow_collect(tree, o)
      [] kind = "stref" -> stref_list_for_inode(tree, o)
      [] kind = "media" -> media_tag_list(tree, o)
      [] kind = "meta" -> metadata_list(tree, o)
      [] kind = "numidx" -> numidx_collect_range_ex(tree, FirstKey(o), FirstKey(o + 1) - 1)
      [] OTHER -> List(tree, o)

Ordered(recs, keys) ==
    /\ {recs[i].key : i \in DOMAIN recs} = keys
    /\ \A i, j \in DOMAIN recs : i < j => recs[i].key < recs[j].key

\* A scan along the leaves sees what lookups see, in order: the list of a
\* directory or an inode, the range of a numeric index, and the search of
\* the whole catalog for the first name of an inode, as long as the chain
\* of leaves is whole.
ScansAgree ==
    (bad = 0 /\ ChainWhole) =>
        /\ Ordered(AllRecords(tree), Held)
        /\ \A o \in Owners : Ordered(ListOf(o), {k \in Held : Owner(k) = o})
        /\ kind = "catalog" => \A v \in Values :
             LET named == {k \in Held : map[k] = v}
             IN  catalog_find_by_inode(tree, v).key = IF named = {} THEN 0 ELSE Min(named)

\* A block is either part of the tree or on its free list, never both: the
\* list in memory, and the one a mount would find in the header block.
NodesOwned ==
    /\ Reachable(tree) \cap FreeChain(tree, tree.mem) = {}
    /\ kind \in Remountable => Reachable(tree) \cap FreeChain(tree, tree.disk) = {}

\* The header counts the nodes of the tree (obmafsck compares them).
NodesCounted ==
    (kind \notin {"stdata", "stref"} /\ bad = 0) =>
        tree.mem.total = Cardinality(Reachable(tree))

\* The cached leaf never answers a count that is out of date.
CachedCounts ==
    \A k \in AllKeys : Cached(cache, k) =>
        Count(cache.recs, k) = (IF map[k] = 0 THEN 1 ELSE map[k])

LongTags == {k \in AllKeys : map[k] > InlineMax}

\* As long as no put of a media tag failed half way, external blocks are
\* allocated for exactly the long tags that are stored: replacing, deleting
\* and deleting all tags leaks none and frees none that a record refers to.
ExternalKept == (kind = "media" /\ ~halfway) => ext = LongTags

\* The same of every put, also of one that fails (media_tag.c:925 "its
\* external data is freed before storing the new data").  Refuted: a full
\* tree leaks the new blocks, and when the new data finds no blocks the old
\* record keeps the ones that were just freed.
ExternalExact == kind = "media" => ext = LongTags

\* An offset inside a junk region is found, wherever the leaves were split.
JunkFound ==
    kind = "junk" => \A k \in AllKeys :
        LET in == {s \in Held :
                      Owner(s) = Owner(k) /\ s <= k /\ k < s + map[s]}
            got == junk_map_lookup(tree, k)
        IN  IF in = {} THEN got.rc = "notfound" ELSE got = [rc |-> "ok", val |-> Max(in)]

\* The set of known hashes loaded at mount is the set of hashes a lookup
\* finds, also after repairs (a hash missing from it would be stored twice),
\* and the batched search of housekeeping arrives at the leaf that has it.
KeysetComplete ==
    kind = "dedup" =>
        /\ keyset_warmup(tree) = Held
        /\ \A h \in Held : LeafFind(tree.node[dedup_batch_find_leaves(tree, AllKeys)[h]], h) # {}

\* A tree is in one piece: no node is part of it and free at once, its header
\* counts its nodes, and its leaves in order hold what lookups find (the
\* shared node code of btree.c and its copies in each tree's file).
TreeSound == TypeOK /\ NodesOwned /\ NodesCounted /\ ScansAgree

\* What is kept beside a tree agrees with its records: the cached leaf of
\* reference counts, the external blocks of media tags, the search of a junk
\* region that starts in an earlier leaf, and the set of known hashes.
BesideTree == CachedCounts /\ ExternalKept /\ JunkFound /\ KeysetComplete
=============================================================================
