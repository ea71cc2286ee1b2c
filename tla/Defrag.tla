------------------------------- MODULE Defrag -------------------------------
(***************************************************************************)
(* The defragmenter (defrag_analysis.c, defrag_compact.c): it classifies   *)
(* every block of an unmounted volume, moves the trees to the end, packs   *)
(* file extents at the start and dedup blocks after them, and rewrites     *)
(* what referred to the blocks it moved.                                   *)
(*                                                                         *)
(* A block is what the code can tell from its bytes: a tree header, a      *)
(* node, the list of dedup trees, a free node, or payload that may begin   *)
(* with a block header giving its length.  Pointers are LBAs, so a block   *)
(* copied or overwritten at the wrong moment is really lost.  The trees    *)
(* whose records hold LBAs are here (inode, overflow, dedup); they have at *)
(* most two levels.  Sector numbers, checksums and progress are left out.  *)
(***************************************************************************)
EXTENDS Integers, Sequences, FiniteSets, SequencesExt, FiniteSetsExt

CONSTANTS
    Layouts,    \* volumes to start from, see below
    TreeClump   \* COMPACT_TREE_CLUMP, 64 in the code

(***************************************************************************)
(* A layout says where the items of a volume of size blocks lie: place     *)
(* gives each item its start and width.  inodes gives for each inode its   *)
(* inline and its overflow extents, dedup the dedup blocks in tree order   *)
(* (the last one is the block being filled), stored the blocks an item     *)
(* with a block header really fills, maps the dedup blocks a sector map    *)
(* refers to.                                                              *)
(***************************************************************************)
ASSUME DefragAssumption ==
    /\ TreeClump \in Nat
    /\ \A l \in Layouts :
          /\ l.size \in Nat \ {0} /\ l.passes \in Nat /\ l.cancel \in BOOLEAN
          /\ l.perDedup \in Nat \ {0}
          /\ \A i \in DOMAIN l.place : /\ l.place[i].start \in 1 .. l.size - 2
                                       /\ l.place[i].start + l.place[i].width < l.size
          /\ \A i, j \in DOMAIN l.place : i # j =>
                \/ l.place[i].start + l.place[i].width <= l.place[j].start
                \/ l.place[j].start + l.place[j].width <= l.place[i].start

VARIABLES
    layout,     \* the volume this behaviour started from
    disk,       \* the blocks of the volume
    bits,       \* the bitmap: blocks that are allocated
    types,      \* analysis->block_types
    sb,         \* superblock: header LBAs of the trees, LBA of the tree list
    pc,         \* what the compaction thread does next
    trees,      \* trees[]: [hdr, orig, nodes]
    area,       \* trees_start and total_blocks_needed
    cursor,     \* cursor of compact_trees, then write_cursor
    scan,       \* loop position
    range,      \* range_cursor of find_free_range_at_end
    todo,       \* inode leaves still to read
    buf,        \* node_buf: the inode leaf in memory
    work,       \* extents to place: of the leaf in memory, or oc[]
    room,       \* the destination being cleared
    relocs,     \* relocations: of phase 1 and 2, of obstacles, of phase 3
    cancelled,  \* cancel_requested
    passes      \* runs of the defragmenter

vars == <<layout, disk, bits, types, sb, pc, trees, area, cursor, scan, range,
          todo, buf, work, room, relocs, cancelled, passes>>
-----------------------------------------------------------------------------
(* The volume a layout describes.                                           *)

Span(start, n) == start .. start + n - 1

LBAs == DOMAIN disk
Total == layout.size

Has(l, item) == item \in DOMAIN l.place
At(l, item) == IF Has(l, item) THEN l.place[item].start ELSE 0
Width(l, item) == l.place[item].width
StoredBlocks(l, item) == IF item \in DOMAIN l.stored THEN l.stored[item] ELSE 0

Ext(l, item) == [start |-> At(l, item), count |-> Width(l, item)]
Record(l, id, items) == [id |-> id, exts |-> [e \in DOMAIN items |-> Ext(l, items[e])]]

Nothing == [t |-> "none"]
Leaf(left, right, recs) == [t |-> "leaf", left |-> left, right |-> right, recs |-> recs]
Header(root, free, last) == [t |-> "hdr", root |-> root, free |-> free, last |-> last]
FreeNode == [t |-> "free", next |-> 0]
Payload(l, item, p) ==
    [t |-> "data", id |-> <<item, p>>,
     len |-> IF p = 1 THEN StoredBlocks(l, item) ELSE 0,
     smes |-> IF p = 1 /\ item \in DOMAIN l.maps
              THEN [k \in DOMAIN l.maps[item] |-> At(l, l.maps[item][k])] ELSE <<>>]

InodeRecords(l) == [i \in DOMAIN l.inodes |-> Record(l, i, l.inodes[i].inline)]
OverflowRecords(l) ==
    LET Of(i) == [e \in DOMAIN l.inodes[i].overflow |-> Record(l, i, <<l.inodes[i].overflow[e]>>)]
    IN FlattenSeq([i \in DOMAIN l.inodes |-> Of(i)])
DedupRecords(l) == [k \in DOMAIN l.dedup |-> At(l, l.dedup[k])]
LastBlock(l) == IF l.dedup = <<>> THEN 0 ELSE At(l, Last(l.dedup))

Content(l, item, p) ==
    CASE item = "ihdr"  -> Header(At(l, "iroot"), At(l, "ifree"), 0)
      [] item = "ohdr"  -> Header(At(l, "oleaf"), 0, 0)
      [] item = "dhdr"  -> Header(At(l, "dleaf"), At(l, "dfree"), LastBlock(l))
      [] item = "list"  -> [t |-> "list", trees |-> <<At(l, "dhdr")>>]
      [] item = "iroot" -> IF Has(l, "ileaf1")
                           THEN [t |-> "index", kids |-> <<At(l, "ileaf1"), At(l, "ileaf2")>>]
                           ELSE Leaf(0, 0, InodeRecords(l))
      [] item = "ileaf1" -> Leaf(0, At(l, "ileaf2"), SubSeq(InodeRecords(l), 1, 1))
      [] item = "ileaf2" -> Leaf(At(l, "ileaf1"), 0, Tail(InodeRecords(l)))
      [] item = "oleaf" -> Leaf(0, 0, OverflowRecords(l))
      [] item = "dleaf" -> Leaf(0, 0, DedupRecords(l))
      [] item \in {"ifree", "dfree"} -> FreeNode
      [] item = "bitmap" -> Nothing
      \* the trailing blocks of the block being filled were never written
      [] OTHER -> IF StoredBlocks(l, item) \in 1 .. p - 1 THEN Nothing ELSE Payload(l, item, p)

ItemsAt(l, b) == {i \in DOMAIN l.place : b \in Span(At(l, i), Width(l, i))}

DiskOf(l) ==
    [b \in 0 .. l.size - 1 |->
        IF ItemsAt(l, b) = {} THEN Nothing
        ELSE LET i == CHOOSE i \in ItemsAt(l, b) : TRUE IN Content(l, i, b - At(l, i) + 1)]

BitsOf(l) == {0, l.size - 1} \cup UNION {Span(At(l, i), Width(l, i)) : i \in DOMAIN l.place}

NoRoom == [pos |-> 0, count |-> 0, at |-> 0]
NoRelocs == [phase2 |-> <<>>, evict |-> <<>>, main |-> <<>>]

Init ==
    /\ layout \in Layouts
    /\ disk = DiskOf(layout) /\ bits = BitsOf(layout)
    /\ sb = [inode |-> At(layout, "ihdr"), overflow |-> At(layout, "ohdr"),
             dedup |-> At(layout, "list")]
    /\ types = [b \in DOMAIN disk |-> "free"]
    /\ pc = "analyse" /\ trees = <<>> /\ area = [start |-> 0, size |-> 0]
    /\ cursor = 0 /\ scan = 0 /\ range = 0
    /\ todo = <<>> /\ buf = Nothing /\ work = <<>> /\ room = NoRoom
    /\ relocs = NoRelocs /\ cancelled = FALSE /\ passes = 1
-----------------------------------------------------------------------------
(* Reading trees.  A block of another kind fails the check of its magic:    *)
(* the code skips it.                                                       *)

Kids(d, n) == IF d[n].t = "index" THEN d[n].kids ELSE <<>>
NextFree(d, n) == IF d[n].t = "free" THEN d[n].next ELSE 0
FreeChain(d, f) ==
    IF f = 0 THEN <<>> ELSE <<f>> \o IF NextFree(d, f) = 0 THEN <<>> ELSE <<NextFree(d, f)>>

IsTree(d, h) == h # 0 /\ d[h].t = "hdr" /\ d[h].root # 0
Nodes(d, h) == <<d[h].root>> \o Kids(d, d[h].root)
InKeyOrder(d, h) == IF ~IsTree(d, h) THEN <<>> ELSE SelectSeq(Nodes(d, h), LAMBDA n : d[n].t = "leaf")

\* The code reads the nodes of a level by LBA.
Leaves(d, h) == SortSeq(InKeyOrder(d, h), <)

collect_tree_nodes(d, h) == IF ~IsTree(d, h) THEN <<>> ELSE Nodes(d, h) \o FreeChain(d, d[h].free)

TreeList(d, s) == IF s.dedup # 0 /\ d[s.dedup].t = "list" THEN d[s.dedup].trees ELSE <<>>
DedupTrees(d, s) == SelectSeq(TreeList(d, s), LAMBDA h : h # 0)
Headers(d, s) == SelectSeq(<<s.inode, s.overflow>>, LAMBDA h : h # 0) \o DedupTrees(d, s)

(* Blocks of the payload that starts at b, by its block header; 0 if b has  *)
(* no block header.                                                         *)
Stored(b) == IF disk[b].t = "data" THEN disk[b].len ELSE 0
-----------------------------------------------------------------------------
(* defrag_analysis_run                                                      *)

walk_dedup_data_blocks(h) ==
    UNION {UNION {Span(disk[n].recs[r], IF Stored(disk[n].recs[r]) = 0 THEN layout.perDedup
                                        ELSE Min({Stored(disk[n].recs[r]), layout.perDedup}))
                    : r \in DOMAIN disk[n].recs} : n \in ToSet(Leaves(disk, h))}

\* The block being filled keeps all its blocks.
LastBlocks(h) ==
    IF disk[h].t = "hdr" /\ disk[h].last # 0 THEN Span(disk[h].last, layout.perDedup) ELSE {}

Classified ==
    LET hs    == ToSet(Headers(disk, sb))
        meta  == {0, Total - 1, At(layout, "bitmap"), sb.dedup} \cup hs
        nodes == UNION {ToSet(collect_tree_nodes(disk, h)) : h \in hs}
        dedup == UNION {walk_dedup_data_blocks(h) \cup LastBlocks(h) : h \in ToSet(DedupTrees(disk, sb))}
    IN [b \in LBAs |-> CASE b \in dedup -> "dedup"
                         [] b \in nodes \ dedup -> "tree"
                         [] b \in meta \ (dedup \cup nodes) -> "meta"
                         [] b \in bits \ (dedup \cup nodes \cup meta) -> "used"
                         [] OTHER -> "free"]

Analyse ==
    /\ pc = "analyse" /\ pc' = "plan"
    /\ types' = Classified
    /\ UNCHANGED <<layout, disk, bits, sb, trees, area, cursor, scan, range, todo, buf, work,
                   room, relocs, cancelled, passes>>
-----------------------------------------------------------------------------
(* Moving blocks.                                                           *)

\* A run goes through a buffer, so source and destination may overlap.
copy_blocks(src, dst, n) ==
    [b \in LBAs |-> IF b \in Span(dst, n) /\ src + b - dst \in LBAs THEN disk[src + b - dst] ELSE disk[b]]

\* Dedup blocks moved out of the way; the caller records the relocation.
Evict(base, dst, n) ==
    /\ disk' = copy_blocks(base, dst, n)
    /\ bits' = (bits \cup Span(dst, n)) \ Span(base, n)
    /\ types' = [b \in LBAs |-> IF b \in Span(base, n) THEN "free"
                                ELSE IF b \in Span(dst, n) THEN "dedup" ELSE types[b]]

\* Blocks typed dedup that begin with no block header are given up.
Drop(blocks) ==
    /\ bits' = bits \ blocks
    /\ types' = [b \in LBAs |-> IF b \in blocks THEN "free" ELSE types[b]]
    /\ UNCHANGED disk

Reloc(old, new) == [old |-> old, new |-> new]

\* The start of the run of dedup blocks that b continues, and the end of
\* the one that starts at b.
RunBase(b) == Min({a \in 1 .. b : \A c \in a .. b - 1 : types[c] = "dedup"})
RunEnd(b) == Min({e \in b .. Total : e = Total \/ types[e] # "dedup"})

(* Mutant: the search begins behind the last block of the volume. *)
Mutfind_free_range_at_end(count, notBefore) ==
    LET top     == IF range = 0 \/ range >= Total - 1 THEN Total ELSE range
        fitting == {r \in notBefore + count .. top : Span(r - count + 1, count) \cap bits = {}}
    IN [base |-> Max(fitting) - count + 1, range |-> Max(fitting) - count]

\* range_cursor steps down by whole windows and is never put back.
find_free_range_at_end(count, notBefore) ==
    LET top     == IF range = 0 \/ range >= Total - 1 THEN Total - 2 ELSE range
        tops    == {r \in notBefore + count .. top : (top - r) % count = 0}
        fitting == {r \in tops : Span(r - count + 1, count) \cap bits = {}}
    IN IF fitting # {} THEN [base |-> Max(fitting) - count + 1, range |-> Max(fitting) - count]
       ELSE [base |-> 0, range |-> IF tops = {} THEN top ELSE Min(tops) - count]
-----------------------------------------------------------------------------
(* compact_trees                                                            *)

TreesOf(d, s) ==
    [k \in DOMAIN Headers(d, s) |->
        LET h == Headers(d, s)[k] IN [hdr |-> h, orig |-> h, nodes |-> collect_tree_nodes(d, h)]]

BlocksNeeded(ts) ==
    Cardinality({k \in DOMAIN ts : ts[k].nodes # <<>>})
    + (IF sb.dedup # 0 THEN 1 ELSE 0)
    + FoldLeft(LAMBDA n, t : n + Len(t.nodes), 0, ts)
    + (Len(ts) - 1) * TreeClump

Area == Span(area.start, area.size)

PlanTrees ==
    /\ pc = "plan" /\ pc' = "evict"
    /\ LET ts == TreesOf(disk, sb) IN
         /\ trees' = ts
         /\ area' = [start |-> Total - 1 - BlocksNeeded(ts), size |-> BlocksNeeded(ts)]
         /\ scan' = Total - 1 - BlocksNeeded(ts)
    /\ UNCHANGED <<layout, disk, bits, types, sb, cursor, range, todo, buf, work, room, relocs,
                   cancelled, passes>>

DedupIn(from, to) == {b \in from .. to : types[b] = "dedup"}
InArea == DedupIn(scan, area.start + area.size - 1)

\* The highest window below the area whose blocks are typed free.
BelowArea(n) ==
    LET ends == {s \in n .. area.start : \A b \in Span(s - n, n) : types[b] = "free"}
    IN IF ends = {} THEN 0 ELSE Max(ends) - n

EvictForTrees ==
    /\ pc = "evict" /\ InArea # {}
    /\ \E pos \in {Min(InArea)} : \E base \in {RunBase(pos)} :
       \E n \in {Stored(base)} : \E dst \in {BelowArea(n)} :
          IF n = 0
          THEN LET end == Min({RunEnd(pos), area.start + area.size}) IN
               Drop(pos .. end - 1) /\ scan' = end /\ UNCHANGED relocs
          ELSE /\ scan' = base + n
               /\ IF dst = 0 THEN UNCHANGED <<disk, bits, types, relocs>>
                  ELSE /\ Evict(base, dst, n)
                       /\ relocs' = [relocs EXCEPT !.phase2 = Append(@, Reloc(base, dst))]
    /\ UNCHANGED <<layout, sb, pc, trees, area, cursor, range, todo, buf, work, room, cancelled,
                   passes>>

\* Phase A writes the tree list, then the headers, one block each.  A list
\* that is in place already does not move the cursor.
PlaceBlock(from, at) ==
    /\ disk' = [disk EXCEPT ![at] = disk[from]]
    /\ bits' = (bits \cup {at}) \ (IF from \in Area THEN {} ELSE {from})

MoveTreeList ==
    /\ pc = "evict" /\ InArea = {} /\ pc' = "headers" /\ scan' = 1
    /\ IF sb.dedup # 0 /\ sb.dedup # area.start
       THEN /\ PlaceBlock(sb.dedup, area.start)
            /\ sb' = [sb EXCEPT !.dedup = area.start]
            /\ cursor' = area.start + 1
       ELSE cursor' = area.start /\ UNCHANGED <<disk, bits, sb>>
    /\ UNCHANGED <<layout, types, trees, area, range, todo, buf, work, room, relocs, cancelled,
                   passes>>

MoveHeader ==
    /\ pc = "headers" /\ scan <= Len(trees) /\ scan' = scan + 1
    /\ LET t == trees[scan] IN
         IF t.nodes = <<>> THEN UNCHANGED <<disk, bits, trees, cursor>>
         ELSE /\ cursor' = cursor + 1
              /\ IF t.hdr = cursor THEN UNCHANGED <<disk, bits, trees>>
                 ELSE PlaceBlock(t.hdr, cursor) /\ trees' = [trees EXCEPT ![scan].hdr = cursor]
    /\ UNCHANGED <<layout, types, sb, pc, area, range, todo, buf, work, room, relocs, cancelled,
                   passes>>

HeadersMoved ==
    /\ pc = "headers" /\ scan > Len(trees) /\ pc' = "nodes" /\ scan' = 1
    /\ UNCHANGED <<layout, disk, bits, types, sb, trees, area, cursor, range, todo, buf, work,
                   room, relocs, cancelled, passes>>

\* MAP_LOOKUP: where the nodes of tree t go when they are laid out from dst.
NewLBA(t, dst, old) ==
    IF old \in ToSet(t.nodes) THEN dst + (CHOOSE k \in DOMAIN t.nodes : t.nodes[k] = old) - 1 ELSE old

(* Mutant: the links between leaves are not mapped. *)
MutRewritten(t, dst, b) ==
    LET new(l) == NewLBA(t, dst, l) IN
    CASE b.t = "free"  -> [b EXCEPT !.next = new(@)]
      [] b.t = "index" -> [b EXCEPT !.kids = [k \in DOMAIN @ |-> new(@[k])]]
      [] OTHER -> b

Rewritten(t, dst, b) ==
    LET new(l) == NewLBA(t, dst, l) IN
    CASE b.t = "free"  -> [b EXCEPT !.next = new(@)]
      [] b.t = "index" -> [b EXCEPT !.kids = [k \in DOMAIN @ |-> new(@[k])]]
      [] b.t = "leaf"  -> [b EXCEPT !.left = new(@), !.right = new(@)]
      [] OTHER -> b

\* All nodes are read before the first is written; a header that cannot be
\* read afterwards ends compact_trees, which reports success.
relocate_tree ==
    /\ pc = "nodes" /\ scan <= Len(trees) /\ scan' = scan + 1
    /\ LET t       == trees[scan]
           n       == Len(t.nodes)
           dst     == Span(cursor, n)
           old     == ToSet(t.nodes) \ dst
           written == [b \in LBAs |-> IF b \in dst
                                      THEN Rewritten(t, cursor, disk[t.nodes[b - cursor + 1]])
                                      ELSE disk[b]]
       IN IF n = 0 THEN UNCHANGED <<disk, bits, types, cursor, pc>>
          ELSE IF written[t.hdr].t # "hdr"
          THEN disk' = written /\ pc' = "data" /\ UNCHANGED <<bits, types, cursor>>
          ELSE /\ disk' = [written EXCEPT ![t.hdr].root = NewLBA(t, cursor, @),
                                          ![t.hdr].free = NewLBA(t, cursor, @)]
               /\ bits' = (bits \cup dst) \ old
               /\ types' = [b \in LBAs |-> IF b \in dst THEN "tree"
                                           ELSE IF b \in old THEN "free" ELSE types[b]]
               /\ cursor' = cursor + n + TreeClump
               /\ UNCHANGED pc
    /\ UNCHANGED <<layout, sb, trees, area, range, todo, buf, work, room, relocs, cancelled, passes>>

\* The superblock field is found by the old LBA, tree after tree.
MovedIn(s, t) ==
    IF t.nodes = <<>> \/ t.hdr = t.orig THEN s
    ELSE IF t.orig = s.inode THEN [s EXCEPT !.inode = t.hdr]
    ELSE IF t.orig = s.overflow THEN [s EXCEPT !.overflow = t.hdr] ELSE s

NewHeader(h) ==
    LET moved == {k \in DOMAIN trees : trees[k].nodes # <<>> /\ trees[k].orig = h /\ trees[k].hdr # h}
    IN IF moved = {} THEN h ELSE trees[Min(moved)].hdr

UpdatedList == [k \in DOMAIN TreeList(disk, sb) |-> NewHeader(TreeList(disk, sb)[k])]

UpdateSuperblock ==
    /\ pc = "nodes" /\ scan > Len(trees) /\ pc' = "data"
    /\ sb' = FoldLeft(MovedIn, sb, trees)
    /\ disk' = IF TreeList(disk, sb) = <<>> THEN disk ELSE [disk EXCEPT ![sb.dedup].trees = UpdatedList]
    /\ UNCHANGED <<layout, bits, types, trees, area, cursor, scan, range, todo, buf, work, room,
                   relocs, cancelled, passes>>
-----------------------------------------------------------------------------
(* compact_data_blocks: the inline extents leaf by leaf, then the overflow  *)
(* extents by LBA.                                                          *)

Entries(n, recs) ==
    LET Of(r) == [e \in DOMAIN recs[r].exts |->
                    [node |-> n, rec |-> r, ext |-> e, moved |-> FALSE,
                     start |-> recs[r].exts[e].start, count |-> recs[r].exts[e].count]]
    IN SelectSeq(FlattenSeq([r \in DOMAIN recs |-> Of(r)]), LAMBDA w : w.start # 0 /\ w.count # 0)

\* The node at n with the extents of the work list where they are now.
Patched(n, node) ==
    [node EXCEPT !.recs = [r \in DOMAIN @ |-> [@[r] EXCEPT !.exts = [e \in DOMAIN @ |->
        LET ws == {k \in DOMAIN work : work[k].node = n /\ work[k].rec = r /\ work[k].ext = e}
        IN IF ws = {} THEN @[e] ELSE [@[e] EXCEPT !.start = work[Max(ws)].start]]]]]

StartData ==
    /\ pc = "data" /\ pc' = "leaves"
    /\ cursor' = 1 /\ todo' = Leaves(disk, sb.inode)
    /\ UNCHANGED <<layout, disk, bits, types, sb, trees, area, scan, range, buf, work, room,
                   relocs, cancelled, passes>>

ReadLeaf ==
    /\ pc = "leaves" /\ todo # <<>> /\ pc' = "inline"
    /\ buf' = disk[Head(todo)] /\ work' = Entries(Head(todo), disk[Head(todo)].recs)
    /\ scan' = 1
    /\ UNCHANGED <<layout, disk, bits, types, sb, trees, area, cursor, range, todo, room, relocs,
                   cancelled, passes>>

Placing == pc \in {"inline", "overflow"} /\ scan <= Len(work)

\* An extent that starts at or before the cursor stays.
SkipExtent ==
    /\ Placing /\ work[scan].start <= cursor /\ scan' = scan + 1
    /\ cursor' = Max({cursor, work[scan].start + work[scan].count})
    /\ UNCHANGED <<layout, disk, bits, types, sb, pc, trees, area, range, todo, buf, work, room,
                   relocs, cancelled, passes>>

(* Mutant: a run may begin with the blocks of another file. *)
Mutfind_free_range(from, count, notPast) ==
    LET usable == {p \in from .. notPast - count : \A b \in Span(p, count) : types[b] \notin {"meta", "tree"}}
    IN IF usable = {} THEN 0 ELSE Min(usable)

\* The first run that holds nothing but free and dedup blocks.
find_free_range(from, count, notPast) ==
    LET usable == {p \in from .. notPast - count : \A b \in Span(p, count) : types[b] \in {"free", "dedup"}}
    IN IF usable = {} THEN 0 ELSE Min(usable)

FindRoom ==
    /\ Placing /\ work[scan].start > cursor
    /\ LET w   == work[scan]
           pos == find_free_range(cursor, w.count, w.start)
       IN IF pos = 0
          THEN /\ scan' = scan + 1
               /\ cursor' = IF pc = "overflow" THEN w.start + w.count ELSE cursor
               /\ UNCHANGED <<pc, room>>
          ELSE /\ room' = [pos |-> pos, count |-> w.count, at |-> 0]
               /\ pc' = IF pc = "inline" THEN "room inline" ELSE "room overflow"
               /\ UNCHANGED <<scan, cursor>>
    /\ UNCHANGED <<layout, disk, bits, types, sb, trees, area, range, todo, buf, work, relocs,
                   cancelled, passes>>

Clearing == pc \in {"room inline", "room overflow"}
InRoom == DedupIn(room.pos + room.at, room.pos + room.count - 1)

\* A dedup block in the way goes to the end; where there is no room for it
\* it stays, and is overwritten.  Behind blocks without a header the search
\* ends wherever they end.
EvictForData ==
    /\ Clearing /\ InRoom # {}
    /\ \E base \in {RunBase(Min(InRoom))} : \E n \in {Stored(base)} :
          IF n = 0
          THEN /\ Drop(base .. RunEnd(base) - 1)
               /\ room' = [room EXCEPT !.pos = RunEnd(base), !.at = room.count]
               /\ UNCHANGED <<range, relocs>>
          ELSE \E end \in {find_free_range_at_end(n, room.pos + room.count)} :
               /\ room' = [room EXCEPT !.at = IF base + n > room.pos THEN base + n - room.pos
                                                  ELSE Min(InRoom) - room.pos + 1]
               /\ range' = end.range
               /\ IF end.base = 0 THEN UNCHANGED <<disk, bits, types, relocs>>
                  ELSE /\ Evict(base, end.base, n)
                       /\ relocs' = [relocs EXCEPT !.phase2 = Append(@, Reloc(base, end.base))]
    /\ UNCHANGED <<layout, sb, pc, trees, area, cursor, scan, todo, buf, work, cancelled, passes>>

move_extent ==
    /\ Clearing /\ InRoom = {}
    /\ pc' = IF pc = "room inline" THEN "inline" ELSE "overflow"
    /\ scan' = scan + 1 /\ cursor' = room.pos + room.count
    /\ LET w   == work[scan]
           dst == Span(room.pos, w.count)
       IN IF room.pos = w.start THEN UNCHANGED <<disk, bits, types, work>>
          ELSE /\ disk' = copy_blocks(w.start, room.pos, w.count)
               /\ bits' = (bits \cup dst) \ Span(w.start, w.count)
               /\ types' = [b \in LBAs |->
                     IF b \in dst /\ (room.pos < w.start \/ b \notin Span(w.start, w.count)) THEN "used"
                     ELSE IF b \in Span(w.start, w.count) THEN "free" ELSE types[b]]
               /\ work' = [work EXCEPT ![scan].start = room.pos, ![scan].moved = TRUE]
    /\ UNCHANGED <<layout, sb, trees, area, range, todo, buf, room, relocs, cancelled, passes>>

Dirty == {work[k].node : k \in {k \in DOMAIN work : work[k].moved}}

WriteLeaf ==
    /\ pc = "inline" /\ scan > Len(work) /\ pc' = "leaves" /\ todo' = Tail(todo)
    /\ disk' = IF Dirty = {} THEN disk ELSE [disk EXCEPT ![Head(todo)] = Patched(Head(todo), buf)]
    /\ UNCHANGED <<layout, bits, types, sb, trees, area, cursor, scan, range, buf, work, room,
                   relocs, cancelled, passes>>

CollectOverflow ==
    /\ pc = "leaves" /\ todo = <<>> /\ pc' = "overflow" /\ scan' = 1
    /\ LET leaves == Leaves(disk, sb.overflow)
           all    == FlattenSeq([k \in DOMAIN leaves |-> Entries(leaves[k], disk[leaves[k]].recs)])
       IN work' = SortSeq(all, LAMBDA v, w : v.start < w.start)
    /\ UNCHANGED <<layout, disk, bits, types, sb, trees, area, cursor, range, todo, buf, room,
                   relocs, cancelled, passes>>

WriteOverflow ==
    /\ pc = "overflow" /\ scan > Len(work) /\ pc' = "dedup"
    /\ disk' = [b \in LBAs |-> IF b \in Dirty /\ disk[b].t = "leaf" THEN Patched(b, disk[b]) ELSE disk[b]]
    /\ scan' = cursor
    /\ UNCHANGED <<layout, bits, types, sb, trees, area, cursor, range, todo, buf, work, room,
                   relocs, cancelled, passes>>
-----------------------------------------------------------------------------
(* compact_dedup_blocks                                                     *)

NextPlace == Min({c \in cursor .. Total : c = Total \/ types[c] \notin {"used", "meta", "dedup"}})
NextDedup == DedupIn(Max({scan, NextPlace + 1}), Total - 1)

Moving == pc = "dedup" /\ ~cancelled /\ NextDedup # {}

(* Mutant: a fragment is skipped without being given up, one block short.   *)
MutDropFragment ==
    /\ Moving /\ Stored(Min(NextDedup)) = 0
    /\ cursor' = NextPlace /\ scan' = Min(NextDedup)
    /\ UNCHANGED <<layout, disk, bits, types, sb, pc, trees, area, range, todo, buf, work, room,
                   relocs, cancelled, passes>>

\* Blocks without a header are what is left of a block moved before.
DropFragment ==
    /\ Moving /\ Stored(Min(NextDedup)) = 0
    /\ LET from == Min(NextDedup)
           end  == Min({RunEnd(from), from + layout.perDedup})
       IN Drop(from .. end - 1) /\ scan' = end
    /\ cursor' = NextPlace
    /\ UNCHANGED <<layout, sb, pc, trees, area, range, todo, buf, work, room, relocs, cancelled,
                   passes>>

ChooseDedup ==
    /\ Moving /\ Stored(Min(NextDedup)) # 0 /\ pc' = "clear"
    /\ cursor' = NextPlace /\ scan' = Min(NextDedup)
    /\ room' = [pos |-> NextPlace, count |-> Min({Stored(Min(NextDedup)), layout.perDedup}), at |-> 0]
    /\ UNCHANGED <<layout, disk, bits, types, sb, trees, area, range, todo, buf, work, relocs,
                   cancelled, passes>>

Source == Span(scan, room.count)
Obstacles ==
    {b \in Span(room.pos + room.at, room.count - room.at) \ Source :
        b < Total /\ b \in bits /\ types[b] # "free"}

\* Whatever begins with a block header is moved as a dedup block; anything
\* else is taken for a fragment and left where it is.
ClearObstacle ==
    /\ pc = "clear" /\ Obstacles # {}
    /\ \E pos \in {Min(Obstacles)} : \E base \in {RunBase(pos)} : \E n \in {Stored(base)} :
       LET after(e) == IF e > room.pos THEN e - room.pos ELSE pos - room.pos + 1
       IN IF n = 0
          THEN /\ room' = [room EXCEPT !.at = after(RunEnd(base))]
               /\ UNCHANGED <<disk, bits, types, range, relocs>>
          ELSE \E end \in {find_free_range_at_end(n, room.pos + room.count)} :
               /\ range' = end.range
               /\ IF end.base = 0
                  THEN room' = [room EXCEPT !.at = room.count] /\ UNCHANGED <<disk, bits, types, relocs>>
                  ELSE /\ Evict(base, end.base, n)
                       /\ relocs' = [relocs EXCEPT !.evict = Append(@, Reloc(base, end.base))]
                       /\ room' = [room EXCEPT !.at = after(base + n)]
    /\ UNCHANGED <<layout, sb, pc, trees, area, cursor, scan, todo, buf, work, cancelled, passes>>

(* Mutant: the bits of the source are cleared after those of the            *)
(* destination are set, although the two may overlap.                       *)
MutAfterMove == (bits \cup Span(room.pos, room.count)) \ Source

AfterMove == (bits \ Source) \cup Span(room.pos, room.count)

(* Mutant: the scan goes on after the cursor moved past a free block. *)
MutAfterCursor == room.pos + room.count + 1

AfterCursor == room.pos + room.count

MoveDedup ==
    /\ pc = "clear" /\ Obstacles = {} /\ pc' = "dedup"
    /\ disk' = copy_blocks(scan, room.pos, room.count)
    /\ types' = [b \in LBAs |-> IF b \in Span(room.pos, room.count) THEN "dedup"
                                ELSE IF b \in Source THEN "free" ELSE types[b]]
    /\ bits' = AfterMove
    /\ relocs' = [relocs EXCEPT !.main = Append(@, Reloc(scan, room.pos))]
    /\ cursor' = AfterCursor /\ scan' = scan + room.count
    /\ UNCHANGED <<layout, sb, trees, area, range, todo, buf, work, room, cancelled, passes>>

DedupDone ==
    /\ pc = "dedup" /\ (cancelled \/ NextDedup = {}) /\ pc' = "refs" /\ scan' = 1
    /\ UNCHANGED <<layout, disk, bits, types, sb, trees, area, cursor, range, todo, buf, work, room,
                   relocs, cancelled, passes>>

\* The user interface asks the compaction thread to stop.
Cancel ==
    /\ layout.cancel /\ pc \in {"dedup", "clear", "refs", "maps"} /\ ~cancelled /\ cancelled' = TRUE
    /\ UNCHANGED <<layout, disk, bits, types, sb, pc, trees, area, cursor, scan, range, todo, buf,
                   work, room, relocs, passes>>
-----------------------------------------------------------------------------
(* Phase 4: every reference to a dedup block is looked up in the three      *)
(* relocation maps, one after the other.                                    *)

Steps == <<relocs.phase2, relocs.evict, relocs.main>>

reloc_map_get(step, old) ==
    LET hits == {k \in DOMAIN step : step[k].old = old}
    IN IF hits = {} THEN old ELSE step[Min(hits)].new

update_dedup_tree_refs ==
    /\ pc = "refs" /\ scan <= 3 /\ pc' = "maps"
    /\ \E hs \in {{h \in ToSet(DedupTrees(disk, sb)) : IsTree(disk, h)}} :
       \E leaves \in {UNION {ToSet(Leaves(disk, h)) : h \in hs}} :
       LET new(l) == reloc_map_get(Steps[scan], l)
       IN disk' = [b \in LBAs |->
             CASE b \in hs     -> [disk[b] EXCEPT !.last = new(@)]
               [] b \in leaves -> [disk[b] EXCEPT !.recs = [r \in DOMAIN @ |-> new(@[r])]]
               [] OTHER        -> disk[b]]
    /\ UNCHANGED <<layout, bits, types, sb, trees, area, cursor, scan, range, todo, buf, work, room,
                   relocs, cancelled, passes>>

Records(h) == LET ls == InKeyOrder(disk, h) IN FlattenSeq([k \in DOMAIN ls |-> disk[ls[k]].recs])
ExtentsOf(h, id) ==
    UNION {ToSet(Records(h)[r].exts) : r \in {r \in DOMAIN Records(h) : Records(h)[r].id = id}}

\* read_inode_data and write_inode_data: the sector maps of all inodes.
FileBlocks ==
    UNION {UNION {Span(e.start, e.count) : e \in ExtentsOf(sb.inode, i) \cup ExtentsOf(sb.overflow, i)}
             : i \in {Records(sb.inode)[r].id : r \in DOMAIN Records(sb.inode)}}

(* Mutant: of the three steps only the last reaches the sector maps. *)
MutMapSteps == {3}

MapSteps == 1 .. 3

update_sme_refs ==
    /\ pc = "maps" /\ pc' = "refs" /\ scan' = scan + 1
    /\ \E files \in {FileBlocks} :
         disk' = IF cancelled \/ scan \notin MapSteps THEN disk
                 ELSE [b \in LBAs |->
                      IF b \in files /\ disk[b].t = "data"
                      THEN [disk[b] EXCEPT !.smes = [k \in DOMAIN @ |-> reloc_map_get(Steps[scan], @[k])]]
                      ELSE disk[b]]
    /\ UNCHANGED <<layout, bits, types, sb, trees, area, cursor, range, todo, buf, work, room,
                   relocs, cancelled, passes>>

Finish ==
    /\ pc = "refs" /\ scan > 3 /\ pc' = "done"
    /\ UNCHANGED <<layout, disk, bits, types, sb, trees, area, cursor, scan, range, todo, buf, work,
                   room, relocs, cancelled, passes>>

\* The defragmenter started again on the result.
Again ==
    /\ pc = "done" /\ passes < layout.passes /\ passes' = passes + 1 /\ pc' = "analyse"
    /\ range' = 0 /\ work' = <<>> /\ relocs' = NoRelocs /\ cancelled' = FALSE
    /\ UNCHANGED <<layout, disk, bits, types, sb, trees, area, cursor, scan, todo, buf, room>>

Compact ==
    \/ Analyse \/ PlanTrees \/ EvictForTrees \/ MoveTreeList \/ MoveHeader \/ HeadersMoved
    \/ relocate_tree \/ UpdateSuperblock
    \/ StartData \/ ReadLeaf \/ SkipExtent \/ FindRoom \/ EvictForData \/ move_extent
    \/ WriteLeaf \/ CollectOverflow \/ WriteOverflow
    \/ DropFragment \/ ChooseDedup \/ ClearObstacle \/ MoveDedup \/ DedupDone
    \/ update_dedup_tree_refs \/ update_sme_refs \/ Finish

Exit == pc = "done" /\ passes >= layout.passes /\ UNCHANGED vars

Next == Compact \/ Cancel \/ Again \/ Exit

\* One thread runs the compaction until it returns: weak fairness of Compact,
\* with the states in which it is not enabled written out.
Spec == Init /\ [][Next]_vars /\ WF_vars(Compact)
-----------------------------------------------------------------------------
TypeOK ==
    /\ passes \in 1 .. Max({1, layout.passes}) /\ cancelled \in BOOLEAN
    /\ DOMAIN disk = LBAs /\ bits \subseteq LBAs
    /\ types \in [LBAs -> {"free", "used", "dedup", "tree", "meta"}]
    /\ sb \in [inode : LBAs, overflow : LBAs, dedup : LBAs]
    /\ cursor \in 0 .. Total /\ scan \in 0 .. Total /\ range \in 0 .. Total
    /\ \A k \in DOMAIN work : work[k].start \in LBAs
    /\ \A k \in 1 .. 3 : \A i \in DOMAIN Steps[k] : Steps[k][i].old \in LBAs /\ Steps[k][i].new \in LBAs

Holds(start, item, n) ==
    \A p \in 1 .. n : start + p - 1 \in LBAs /\ disk[start + p - 1].t = "data"
                      /\ disk[start + p - 1].id = <<item, p>>

\* The records of a tree, with the extents that are being moved where they are.
CurrentRecords(h) ==
    LET ls == InKeyOrder(disk, h) IN FlattenSeq([k \in DOMAIN ls |-> Patched(ls[k], disk[ls[k]]).recs])

(***************************************************************************)
(* No file loses a block: at every moment of every phase, each extent of   *)
(* each inode, inline or overflow, holds the blocks it held before,        *)
(* whatever was copied, evicted or overwritten around it.                  *)
(***************************************************************************)
FilesKept ==
    LET recs == CurrentRecords(sb.inode)
        ovfs == CurrentRecords(sb.overflow)
        want(i) == layout.inodes[i]
        items == FlattenSeq([i \in DOMAIN layout.inodes |-> want(i).overflow])
    IN /\ Len(recs) = Len(layout.inodes) /\ Len(ovfs) = Len(items)
       /\ \A i \in DOMAIN recs : \A e \in DOMAIN want(i).inline :
             Holds(recs[i].exts[e].start, want(i).inline[e], recs[i].exts[e].count)
       /\ \A k \in DOMAIN ovfs : Holds(ovfs[k].exts[1].start, items[k], ovfs[k].exts[1].count)

\* The dedup blocks behind an LBA, as far as they were ever written.
HoldsDedup(lba, item) == Holds(lba, item, StoredBlocks(layout, item))

(***************************************************************************)
(* When the defragmenter has finished, every entry of every dedup tree,    *)
(* the block being filled and every sector map refer to the dedup blocks   *)
(* they referred to before, through up to three moves of a block.          *)
(***************************************************************************)
ImagesReadable ==
    pc = "done" =>
        /\ \A h \in ToSet(DedupTrees(disk, sb)) :
              /\ Len(Records(h)) = Len(layout.dedup)
              /\ \A k \in DOMAIN layout.dedup : HoldsDedup(Records(h)[k], layout.dedup[k])
              /\ HoldsDedup(disk[h].last, Last(layout.dedup))
        /\ layout.dedup # <<>> => Len(DedupTrees(disk, sb)) = 1 /\ IsTree(disk, DedupTrees(disk, sb)[1])
        /\ \A b \in FileBlocks : disk[b].t = "data" /\ disk[b].id[2] = 1 =>
              LET item == disk[b].id[1] IN
              item \in DOMAIN layout.maps =>
                 \A k \in DOMAIN disk[b].smes : HoldsDedup(disk[b].smes[k], layout.maps[item][k])

\* The block being filled keeps the blocks it has yet to write; another one
\* has what its block header says, which is nothing if it was never written.
DedupBlocks(h, lba) ==
    Span(lba, IF lba = disk[h].last THEN layout.perDedup ELSE Stored(lba))

\* Everything the superblock leads to: pairs of an owner and its blocks.
Owned ==
    LET hs == ToSet(Headers(disk, sb))
        files == {sb.inode, sb.overflow} \ {0}
        dedup == ToSet(DedupTrees(disk, sb))
        owns(kind, h, r, e, blocks) == <<kind, h, r, e, blocks>>
    IN {owns("fixed", b, 0, 0, {b}) : b \in {0, Total - 1, At(layout, "bitmap")}}
       \cup {owns("list", b, 0, 0, {b}) : b \in {sb.dedup} \ {0}}
       \cup {owns("header", h, 0, 0, {h}) : h \in hs}
       \cup UNION {{owns("node", h, n, 0, {n}) : n \in ToSet(collect_tree_nodes(disk, h))} : h \in hs}
       \cup UNION {UNION {{owns("extent", h, r, e, Span(Records(h)[r].exts[e].start,
                                                        Records(h)[r].exts[e].count))
              : e \in DOMAIN Records(h)[r].exts} : r \in DOMAIN Records(h)} : h \in files}
       \cup UNION {{owns("dedup", h, r, 0, DedupBlocks(h, Records(h)[r])) : r \in DOMAIN Records(h)}
                     : h \in dedup}

(***************************************************************************)
(* When the defragmenter has finished, every block the volume refers to is *)
(* allocated and has one owner: no later write can be given a block that   *)
(* something still refers to, and no two things were moved to one place.   *)
(* The block being filled counts with all its blocks, written or not       *)
(* (defrag_analysis.c:757).  compact_dedup_blocks moves only what the      *)
(* block header counts and gives up the rest: a volume on which a partly   *)
(* written block has to move breaks this (MCDefragLosses.cfg).             *)
(***************************************************************************)
AllocatedOnce ==
    pc = "done" =>
        \A p \in Owned : /\ p[5] \subseteq bits
                         /\ \A q \in Owned : p # q => p[5] \cap q[5] = {}

(***************************************************************************)
(* When the defragmenter has finished, the leaves of every tree follow     *)
(* each other by their sibling links in key order, and the header leads to *)
(* the chain of free nodes, although all of them moved to new LBAs.        *)
(***************************************************************************)
TreesLinked ==
    pc = "done" => \A h \in ToSet(Headers(disk, sb)) :
        LET ls == InKeyOrder(disk, h) IN
        /\ \A k \in 1 .. Len(ls) - 1 : disk[ls[k]].right = ls[k + 1] /\ disk[ls[k + 1]].left = ls[k]
        /\ disk[h].free # 0 => disk[disk[h].free].t = "free"

(***************************************************************************)
(* What the defragmenter is for: unless it was cancelled, it leaves no     *)
(* free block between dedup blocks.                                        *)
(***************************************************************************)
Packed ==
    pc = "done" /\ ~cancelled =>
        \A a \in DedupIn(1, Total - 1) : \A c \in DedupIn(a + 1, Total - 1) :
            \A b \in a .. c : types[b] # "free"

(***************************************************************************)
(* The compaction thread returns: no loop of evictions, fragments and      *)
(* moves goes on for ever.                                                 *)
(***************************************************************************)
Terminates == <>[](pc = "done")

(***************************************************************************)
(* The volume the defragmenter leaves is one a mount can use: no block has *)
(* two owners or is free while in use, and every tree is linked through.   *)
(***************************************************************************)
VolumeSound == TypeOK /\ AllocatedOnce /\ TreesLinked
=============================================================================
