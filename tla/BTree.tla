------------------------------- MODULE BTree -------------------------------
(***************************************************************************)
(* The on-disk B+Trees of a volume: node blocks, the tree header, the      *)
(* chain of free nodes, and the steps from which every tree of the library *)
(* (catalog, inodes, reference counts, tags, metadata, dedup) builds its   *)
(* own copy of lookup, insert and delete.                                  *)
(*                                                                         *)
(* A tree is a value                                                       *)
(*   [mem, disk : header, node : block -> node, used : blocks handed out]  *)
(* where "mem" is the header in struct obmafs3_ctx and "disk" the header   *)
(* block as it was last written.  Node blocks are written through at once, *)
(* the header only where the code calls obmafs3_btree_header_write.        *)
(*                                                                         *)
(* Keys are integers: the composite keys of the source, (parent, name),    *)
(* (inode, offset), (inode, sector, tag), are ordered pairs whose first    *)
(* component is Owner(key).                                                *)
(***************************************************************************)
EXTENDS Integers, Sequences, FiniteSets, SequencesExt

CONSTANTS
    NumBlocks,   \* blocks of the volume a tree can take its nodes from
    MaxLeaf,     \* records that fit in a leaf
    MaxIndex,    \* entries that fit in an index node
    Clump,       \* nodes taken from the bitmap at once (btree_clump_size)
    MaxDepth,    \* index levels of a path (BTREE_MAX_DEPTH, 8 in the code)
    PerOwner     \* keys of one owner (directory, inode)

ASSUME TreeAssumption ==
    /\ NumBlocks \in Nat \ {0} /\ Clump \in Nat \ {0} /\ MaxDepth \in Nat
    /\ MaxLeaf \in Nat /\ MaxLeaf >= 2
    /\ MaxIndex \in Nat /\ MaxIndex >= 2
    /\ PerOwner \in Nat \ {0}

Block == 1..NumBlocks

Owner(k) == (k - 1) \div PerOwner

\* The lowest key an owner can have: what a list of the owner looks for.
FirstKey(o) == o * PerOwner + 1

(***************************************************************************)
(* Nodes.  "magic" holds of a block written as a tree node; a free node    *)
(* keeps only the next pointer.  Entries of "recs" beyond "keys" are bytes *)
(* left behind by a removal and are still there for a reader that looks.   *)
(***************************************************************************)
Rec(k, v) == [key |-> k, val |-> v]

Node(level, recs, left, right) ==
    [magic |-> TRUE, level |-> level, keys |-> Len(recs), recs |-> recs,
     left |-> left, right |-> right, next |-> 0]

FreeBlock(next) ==
    [magic |-> FALSE, level |-> 0, keys |-> 0, recs |-> << >>,
     left |-> 0, right |-> 0, next |-> next]

Live(n) == SubSeq(n.recs, 1, n.keys)

EmptyHeader == [root |-> 0, total |-> 0, head |-> 0, free |-> 0]

EmptyTree ==
    [mem |-> EmptyHeader, disk |-> EmptyHeader,
     node |-> [b \in Block |-> FreeBlock(0)], used |-> 0]

WriteNode(t, b, n) == [t EXCEPT !.node[b] = n]

\* obmafs3_btree_header_write: the header block becomes what memory holds.
HeaderWrite(t) == [t EXCEPT !.disk = t.mem]

\* obmafs3_btree_header_read at mount: memory becomes what the block holds.
HeaderRead(t) == [t EXCEPT !.mem = t.disk]

(***************************************************************************)
(* The node allocator.                                                     *)
(***************************************************************************)

\* Full clump first, then half of it, and so on down to a single node.
ClumpSizes == {c \in 1..Clump : \E i \in 0..Clump : c = Clump \div (2^i)}

\* The first block of a clump is handed out, the others are chained before
\* the old head of the free list.
TakeClump(t, c) ==
    LET first == t.used + 1
        chained == [b \in Block |->
            IF b \in (first + 1)..(first + c - 1)
            THEN FreeBlock(IF b = first + c - 1 THEN t.mem.head ELSE b + 1)
            ELSE t.node[b]]
    IN  [t EXCEPT !.used = t.used + c,
                  !.node = chained,
                  !.mem.head = IF c > 1 THEN first + 1 ELSE t.mem.head,
                  !.mem.free = t.mem.free + c - 1]

\* Popping trusts the head; only the next pointer read from the block is
\* looked at, and a node magic in its place ends the list.
PopFree(t) ==
    LET n == t.node[t.mem.head]
    IN  [t EXCEPT !.mem.head = IF n.magic THEN 0 ELSE n.next,
                  !.mem.free = IF n.magic THEN 0 ELSE t.mem.free - 1]

(* Mutant: a clump may reach one block past the end of the volume. *)
MutAllocNode(t) ==
    LET fits == {c \in ClumpSizes : t.used + c <= NumBlocks + 1}
    IN  IF t.mem.head # 0 /\ t.mem.free > 0
        THEN [t |-> PopFree(t), lba |-> t.mem.head]
        ELSE IF fits = {} THEN [t |-> t, lba |-> 0]
        ELSE [t |-> TakeClump(t, Max(fits)), lba |-> t.used + 1]

AllocNode(t) ==
    LET fits == {c \in ClumpSizes : t.used + c <= NumBlocks}
    IN  IF t.mem.head # 0 /\ t.mem.free > 0
        THEN [t |-> PopFree(t), lba |-> t.mem.head]
        ELSE IF fits = {} THEN [t |-> t, lba |-> 0]
        ELSE [t |-> TakeClump(t, Max(fits)), lba |-> t.used + 1]

FreeNode(t, b) ==
    IF b \notin Block THEN t
    ELSE [WriteNode(t, b, FreeBlock(t.mem.head))
            EXCEPT !.mem.head = b, !.mem.free = t.mem.free + 1]

\* Nodes an operation can still obtain.
Available(t) == t.mem.free + (NumBlocks - t.used)

(***************************************************************************)
(* Searching.  leaf_find and index_find are binary searches over keys in   *)
(* ascending order: the position of the key, the last entry not above it.  *)
(***************************************************************************)
LeafFind(n, k) == {i \in 1..n.keys : n.recs[i].key = k}

InsertPos(n, k) == 1 + Cardinality({i \in 1..n.keys : n.recs[i].key < k})

IndexFind(n, k) == Max({1} \cup {i \in 1..n.keys : n.recs[i].key <= k})

\* The path from the root to the leaf a key belongs to.  "at" is the block
\* reached after d steps; a leaf, or a block that is no node, ends the walk.
\* Choose(n) is the slot an index node sends the walk to.
Walk(t, Choose(_)) ==
    LET at[d \in 0..MaxDepth] ==
            IF d = 0 THEN t.mem.root
            ELSE LET b == at[d - 1]
                 IN  IF b # 0 /\ t.node[b].magic /\ t.node[b].level > 0
                     THEN t.node[b].recs[Choose(t.node[b])].val ELSE b
        inner == {d \in 0..MaxDepth : /\ at[d] # 0
                                      /\ t.node[at[d]].magic
                                      /\ t.node[at[d]].level > 0}
    IN  [leaf |-> at[MaxDepth],
         path |-> [d \in 1..Cardinality(inner) |->
                     [lba |-> at[d - 1], slot |-> Choose(t.node[at[d - 1]])]],
         rc |-> IF at[MaxDepth] = 0 THEN "io"
                ELSE IF ~t.node[at[MaxDepth]].magic THEN "badmagic"
                ELSE IF t.node[at[MaxDepth]].level > 0 THEN "inval" ELSE "ok"]

Descend(t, k) == Walk(t, LAMBDA n : IndexFind(n, k))

\* What a lookup answers: the value, or the reason there is none.
Lookup(t, k) ==
    IF t.mem.root = 0 THEN [rc |-> "notfound", val |-> 0]
    ELSE LET w == Descend(t, k)
             n == t.node[w.leaf]
             hit == LeafFind(n, k)
         IN  IF w.rc # "ok" THEN [rc |-> w.rc, val |-> 0]
             ELSE IF hit = {} THEN [rc |-> "notfound", val |-> 0]
             ELSE [rc |-> "ok", val |-> n.recs[Max(hit)].val]

\* The leaves from block b on, following right links, and their records.
ChainBlocks(t, b) ==
    LET at[i \in 0..NumBlocks] ==
            IF i = 0 THEN b
            ELSE LET x == at[i - 1] IN IF x = 0 THEN 0 ELSE t.node[x].right
    IN  SelectSeq([i \in 1..NumBlocks |-> at[i - 1]], LAMBDA x : x # 0)

Chain(t, b) ==
    LET leaves == ChainBlocks(t, b)
    IN  FlattenSeq([i \in DOMAIN leaves |-> Live(t.node[leaves[i]])])

\* Scanning the chain for one owner stops at the first record of a later one.
OfOwner(recs, o) ==
    LET past == {i \in 1..Len(recs) : Owner(recs[i].key) > o}
        upto == IF past = {} THEN Len(recs) ELSE Min(past) - 1
    IN  SelectSeq(SubSeq(recs, 1, upto), LAMBDA r : Owner(r.key) = o)

List(t, o) ==
    IF t.mem.root = 0 THEN << >>
    ELSE OfOwner(Chain(t, Descend(t, FirstKey(o)).leaf), o)

LeftmostLeaf(t) == Walk(t, LAMBDA n : 1).leaf

AllRecords(t) == IF t.mem.root = 0 THEN << >> ELSE Chain(t, LeftmostLeaf(t))

(***************************************************************************)
(* Inserting.  A step works on a carry: the tree so far and, after a       *)
(* split, the separator for the new right node ("push") and the key and    *)
(* block of the left one, to be entered in the level above.  rc is "split" *)
(* while there is something to enter, then the result of the operation.    *)
(***************************************************************************)
Carry(t, push, left) == [t |-> t, rc |-> "split", push |-> push, left |-> left]

Finished(t, rc) == [t |-> t, rc |-> rc, push |-> Rec(0, 0), left |-> Rec(0, 0)]

\* Empty tree: a single leaf becomes the root, and the header is written
\* with the number of nodes the caller sets.
FirstLeaf(t, r, total) ==
    LET a == AllocNode(t)
    IN  IF a.lba = 0 THEN Finished(t, "nospc")
        ELSE Finished(HeaderWrite([WriteNode(a.t, a.lba, Node(0, <<r>>, 0, 0))
                        EXCEPT !.mem.root = a.lba, !.mem.total = total]), "ok")

\* The record replaces the one with its key, or is shifted in.
IntoLeaf(t, b, r) ==
    LET n == t.node[b]
        hit == LeafFind(n, r.key)
        recs == IF hit # {} THEN [Live(n) EXCEPT ![Max(hit)] = r]
                ELSE InsertAt(Live(n), InsertPos(n, r.key), r)
    IN  Finished(WriteNode(t, b, Node(0, recs, n.left, n.right)), "ok")

FitsLeaf(t, b, r) == LeafFind(t.node[b], r.key) # {} \/ t.node[b].keys < MaxLeaf

(* Mutant: the first record of the upper half is dropped. *)
MutSplitLeaf(t, b, r) ==
    LET n == t.node[b]
        all == InsertAt(Live(n), InsertPos(n, r.key), r)
        half == Len(all) \div 2
        a == AllocNode(t)
    IN  IF a.lba = 0 THEN Finished(t, "nospc")
        ELSE Carry(WriteNode(WriteNode(a.t, b,
                       Node(0, SubSeq(all, 1, half), n.left, a.lba)), a.lba,
                       Node(0, SubSeq(all, half + 2, Len(all)), b, n.right)),
                   Rec(all[half + 1].key, a.lba), Rec(all[1].key, b))

\* The lower half of the records stays, the rest moves to a new right
\* sibling; on a full volume nothing has been written yet.
SplitLeaf(t, b, r) ==
    LET n == t.node[b]
        all == InsertAt(Live(n), InsertPos(n, r.key), r)
        half == Len(all) \div 2
        a == AllocNode(t)
    IN  IF a.lba = 0 THEN Finished(t, "nospc")
        ELSE Carry(WriteNode(WriteNode(a.t, b,
                       Node(0, SubSeq(all, 1, half), n.left, a.lba)), a.lba,
                       Node(0, SubSeq(all, half + 1, Len(all)), b, n.right)),
                   Rec(all[half + 1].key, a.lba), Rec(all[1].key, b))

\* The old right neighbour of a node that was split points back to the new one.
Relink(c) ==
    LET old_right == c.t.node[c.push.val].right
    IN  IF c.rc # "split" \/ old_right = 0 THEN c
        ELSE [c EXCEPT !.t.node[old_right].left = c.push.val]

CountNode(c) == IF c.rc = "split" THEN [c EXCEPT !.t.mem.total = @ + 1] ELSE c

\* The entries of a parent with its left key brought up to date and the new
\* separator behind it.
WithSeparator(n, slot, c) ==
    InsertAt([n.recs EXCEPT ![slot].key = c.left.key], slot + 1, c.push)

FitsIndex(t, b) == t.node[b].keys < MaxIndex

IntoIndex(at, c) ==
    LET n == c.t.node[at.lba]
    IN  Finished(WriteNode(c.t, at.lba,
                   [n EXCEPT !.recs = WithSeparator(n, at.slot, c),
                             !.keys = n.keys + 1]), "ok")

\* A full parent is split in turn.  When there is no block for its sibling
\* the operation stops here, with the level below already split.
SplitIndex(at, c) ==
    LET n == c.t.node[at.lba]
        all == WithSeparator(n, at.slot, c)
        half == Len(all) \div 2
        a == AllocNode(c.t)
    IN  IF a.lba = 0 THEN Finished(c.t, "nospc")
        ELSE Carry(WriteNode(WriteNode(a.t, at.lba,
                       Node(n.level, SubSeq(all, 1, half), n.left, a.lba)), a.lba,
                       Node(n.level, SubSeq(all, half + 1, Len(all)), at.lba, n.right)),
                   Rec(all[half + 1].key, a.lba), Rec(all[1].key, at.lba))

\* The root itself was split: a new root holds the two halves.
GrowRoot(c) ==
    LET a == AllocNode(c.t)
        level == c.t.node[c.left.val].level + 1
    IN  IF a.lba = 0 THEN Finished(c.t, "nospc")
        ELSE Finished([WriteNode(a.t, a.lba, Node(level, <<c.left, c.push>>, 0, 0))
                         EXCEPT !.mem.root = a.lba], "ok")

(* Mutant: the new root is not counted. *)
MutCounted(c) == c

Counted(c) == IF c.rc = "ok" THEN [c EXCEPT !.t.mem.total = @ + 1] ELSE c

(* Mutant: the header stays in memory. *)
MutSaved(c) == c

Saved(c) == IF c.rc = "ok" THEN [c EXCEPT !.t = HeaderWrite(c.t)] ELSE c

\* An insert along a path found before: into the leaf, or split it and take
\* the separator up the path as far as the nodes are full, and to a new root.
\* Split, Parent and Root are the steps of the tree at hand.
InsertAlong(t, w, r, Split(_, _, _), Parent(_, _), Root(_)) ==
    LET up == FoldRight(LAMBDA at, c : IF c.rc = "split" THEN Parent(at, c) ELSE c,
                        w.path, Split(t, w.leaf, r))
    IN  IF w.rc # "ok" THEN Finished(t, w.rc)
        ELSE IF FitsLeaf(t, w.leaf, r) THEN IntoLeaf(t, w.leaf, r)
        ELSE IF up.rc = "split" THEN Root(up) ELSE up

(***************************************************************************)
(* Deleting.                                                               *)
(***************************************************************************)
FromLeaf(t, b, k) ==
    LET n == t.node[b]
    IN  WriteNode(t, b, Node(0, SelectSeq(Live(n), LAMBDA r : r.key # k),
                             n.left, n.right))

(* Mutant: only the right sibling learns of it. *)
MutJoinSiblings(t, b) ==
    LET n == t.node[b]
    IN  IF n.right = 0 THEN t ELSE [t EXCEPT !.node[n.right].left = n.left]

\* The siblings of a leaf that goes away are joined.
JoinSiblings(t, b) ==
    LET n == t.node[b]
        l == IF n.left = 0 THEN t ELSE [t EXCEPT !.node[n.left].right = n.right]
    IN  IF n.right = 0 THEN l ELSE [l EXCEPT !.node[n.right].left = n.left]

\* The last entry of an index node is only uncounted, its bytes stay.
FromIndex(n, slot) ==
    IF n.keys <= 1 THEN [n EXCEPT !.keys = 0]
    ELSE [n EXCEPT !.recs = RemoveAt(Live(n), slot), !.keys = n.keys - 1]

\* Removing an emptied leaf: the header is written before the blocks are
\* pushed on the free list.  A root left with one child gives way to it.
DropLeaf(t, w) ==
    LET b == w.leaf
        joined == JoinSiblings(t, b)
        up == w.path[Len(w.path)]
        parent == FromIndex(joined.node[up.lba], up.slot)
        Shrink(root) == FreeNode(FreeNode(HeaderWrite(
            [joined EXCEPT !.mem.root = root, !.mem.total = @ - 2]), b), up.lba)
    IN  IF w.path = << >>
        THEN FreeNode(HeaderWrite([t EXCEPT !.mem.root = 0, !.mem.total = @ - 1]), b)
        ELSE IF Len(w.path) = 1 /\ parent.keys = 0 THEN Shrink(0)
        ELSE IF Len(w.path) = 1 /\ parent.keys = 1 THEN Shrink(parent.recs[1].val)
        ELSE FreeNode(HeaderWrite([WriteNode(joined, up.lba, parent)
                                     EXCEPT !.mem.total = @ - 1]), b)

\* A delete along a path: the record is shifted out, an emptied leaf goes.
DeleteAlong(t, w, k) ==
    IF w.rc # "ok" THEN Finished(t, w.rc)
    ELSE IF LeafFind(t.node[w.leaf], k) = {} THEN Finished(t, "notfound")
    ELSE IF t.node[w.leaf].keys = 1 THEN Finished(DropLeaf(t, w), "ok")
    ELSE Finished(FromLeaf(t, w.leaf, k), "ok")

\* Trees that never give a leaf back only shift the record out.
ShiftOut(t, w, k) ==
    IF w.rc # "ok" THEN Finished(t, w.rc)
    ELSE IF LeafFind(t.node[w.leaf], k) = {} THEN Finished(t, "notfound")
    ELSE Finished(FromLeaf(t, w.leaf, k), "ok")

\* Walking the leaves from block b and compacting out the records of one
\* owner, up to the first leaf that also holds a later owner.
ClearOwner(t, b, o) ==
    LET leaves == ChainBlocks(t, b)
        Past(i) == \E j \in 1..t.node[leaves[i]].keys : Owner(t.node[leaves[i]].recs[j].key) > o
        ends == {i \in DOMAIN leaves : Past(i)}
        walked == {leaves[i] : i \in 1..(IF ends = {} THEN Len(leaves) ELSE Min(ends))}
        Without(n) == Node(0, SelectSeq(Live(n), LAMBDA r : Owner(r.key) # o), n.left, n.right)
    IN  [t EXCEPT !.node = [x \in Block |-> IF x \in walked THEN Without(t.node[x]) ELSE t.node[x]]]

(***************************************************************************)
(* What a tree holds, for the properties.                                  *)
(***************************************************************************)
Levels(t) == IF t.mem.root = 0 THEN 0 ELSE t.node[t.mem.root].level + 1

\* Nodes reachable from the root, level by level.
Reachable(t) ==
    LET below[d \in 0..MaxDepth] ==
            IF d = 0 THEN {t.mem.root} \ {0}
            ELSE LET above == below[d - 1]
                 IN  above \cup
                     UNION {{t.node[b].recs[i].val : i \in 1..t.node[b].keys} \ {0} :
                              b \in {x \in above : t.node[x].level > 0}}
    IN  below[MaxDepth]

\* Blocks on the free chain that starts in a header.
FreeChain(t, h) ==
    LET at[i \in 0..NumBlocks] ==
            IF i = 0 THEN h.head
            ELSE LET x == at[i - 1]
                 IN  IF x = 0 \/ t.node[x].magic THEN 0 ELSE t.node[x].next
    IN  {at[i] : i \in 0..(IF h.free > NumBlocks THEN NumBlocks ELSE h.free) - 1} \ {0}
=============================================================================
