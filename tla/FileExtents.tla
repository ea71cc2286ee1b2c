----------------------------- MODULE FileExtents -----------------------------
(***************************************************************************)
(* The data of ordinary files: extents in the inode and in the overflow    *)
(* tree, compression groups, copy on write, truncation, clones that share  *)
(* blocks by reference count, and deletion (block.c, refcount.c, inode.c   *)
(* and the FUSE callbacks that call them).                                 *)
(*                                                                         *)
(* One action is one FUSE call, which holds tree_lock for writing.  A file *)
(* has one handle, whose copy of the inode is the inode; what several      *)
(* copies do to each other is left out.  Sizes and offsets count blocks.   *)
(* A disk block is the sequence of the block contents in it: one for a     *)
(* plain block, all those of the group for the first block of a compressed *)
(* extent, none for its other blocks.                                      *)
(*                                                                         *)
(* A loop of the code over a list is a recursive function whose value at i *)
(* is what the loop has made of the first i elements.                      *)
(***************************************************************************)
EXTENDS Integers, SequencesExt

CONSTANTS
    Files,          \* inode numbers of ordinary files
    Values,         \* contents of a block; "zero" is one of them
    NumBlocks,      \* blocks of the data area
    GroupBlocks,    \* OBMAFS3_COMPRESS_GROUP_BLOCKS
    InlineSlots,    \* extents in an inode: 8
    Compression,    \* ctx->compression
    MaxSize,        \* bound on file sizes
    Risks           \* uses of the volume that are not ruled out

ASSUME ExtentsAssumption ==
    /\ NumBlocks \in Nat \ {0} /\ GroupBlocks \in Nat \ {0, 1} /\ InlineSlots \in Nat \ {0}
    /\ MaxSize \in Nat \ {0} /\ Compression \in BOOLEAN /\ IsFiniteSet(Files)
    /\ "zero" \in Values /\ "error" \notin Values
    \* a write behind the end of the file; a clone that cuts groups; deleting
    \* a file that shares blocks; running out of space
    /\ Risks \subseteq {"gap", "cut", "deleteShared", "full"}

Blocks == 1 .. NumBlocks
Span(start, n) == start .. start + n - 1

(* struct extent_descriptor; phys_count = logical_count means uncompressed. *)
Extents == [ls : Nat, lc : Nat, ps : Nat, pc : Nat]
Extent(ls, lc, ps, pc) == [ls |-> ls, lc |-> lc, ps |-> ps, pc |-> pc]
End(e) == e.ls + e.lc
Plain(e) == e.lc = e.pc

VARIABLES
    inode,          \* inode_record: size and inline extents (no logical start)
    vol,            \* bitmap, hint, refcount tree, overflow tree, disk blocks
    content         \* ghost: what each file should read as

vars == <<inode, vol, content>>

Absent == [live |-> FALSE, size |-> 0, slots |-> <<>>]
NewInode == [live |-> TRUE, size |-> 0, slots |-> <<>>]

Init ==
    /\ inode = [f \in Files |-> Absent]
    /\ vol = [bitmap |-> {}, hint |-> 1, refs |-> [b \in Blocks |-> 1],
              overflow |-> [f \in Files |-> {}], disk |-> [b \in Blocks |-> <<>>]]
    /\ content = [f \in Files |-> <<>>]
-----------------------------------------------------------------------------
(* Blocks: allocation (first fit from the hint, then from the start), and   *)
(* free_single_phys_block on every block of a set.  A block that is free    *)
(* reads as nothing: whoever still reads it gets an error.                  *)

FreeRuns(v, from, to, n) == {s \in from .. to - n + 1 : Span(s, n) \cap v.bitmap = {}}

AllocStart(v, n) ==
    LET from   == IF v.hint > NumBlocks THEN 1 ELSE v.hint
        first  == FreeRuns(v, from, NumBlocks, n)
        second == FreeRuns(v, 1, from - 1, n)
    IN IF first # {} THEN Min(first) ELSE IF second # {} THEN Min(second) ELSE 0

(* obmafs3_alloc_blocks and obmafs3_block_write of the run.                 *)
AllocAndWrite(v, start, image) ==
    LET end == start + Len(image) IN
    [v EXCEPT !.bitmap = @ \cup Span(start, Len(image)),
              !.hint = IF end > @ THEN end ELSE @,
              !.disk = [b \in Blocks |-> IF b \in Span(start, Len(image))
                                         THEN image[b - start + 1] ELSE @[b]]]

FreeBlocks(v, S) ==
    [v EXCEPT !.refs = [b \in Blocks |-> IF b \in S /\ @[b] > 1 THEN @[b] - 1 ELSE @[b]],
              !.bitmap = @ \ {b \in S : v.refs[b] <= 1},
              !.disk = [b \in Blocks |-> IF b \in S /\ v.refs[b] <= 1 THEN <<>> ELSE @[b]]]

(* Mutant: only the first block of a run is counted. *)
MutShareBlocks(v, S) == [v EXCEPT !.refs = [b \in Blocks |-> IF S # {} /\ b = Min(S)
                                                               THEN @[b] + 1 ELSE @[b]]]

(* obmafs3_refcount_inc on every block of a set. *)
ShareBlocks(v, S) == [v EXCEPT !.refs = [b \in Blocks |-> IF b \in S THEN @[b] + 1 ELSE @[b]]]
-----------------------------------------------------------------------------
(* The extent map of a file.                                               *)

(* Inline extents follow each other: where the first i of them end.         *)
LogicalEnd(slots) ==
    LET end[i \in 0 .. Len(slots)] == IF i = 0 THEN 0 ELSE end[i - 1] + slots[i].lc
    IN end

Inline(slots) ==
    [i \in 1 .. Len(slots) |->
        Extent(LogicalEnd(slots)[i - 1], slots[i].lc, slots[i].ps, slots[i].pc)]

(* The overflow tree is ordered by inode and logical offset.                *)
InKeyOrder(S) ==
    CHOOSE seq \in Injection(1 .. Cardinality(S), S) :
        \A i, j \in DOMAIN seq : i < j => seq[i].ls <= seq[j].ls

(* collect_all_extents: the inline ones, then those of the overflow tree.   *)
Collect(v, f) == Inline(inode[f].slots) \o InKeyOrder(v.overflow[f])

(* read_extent_blocks for one block: a compressed extent must start with a  *)
(* block that holds it, a block read as it is must be a plain one.          *)
ReadExtent(v, e, lb) ==
    LET first == v.disk[IF Plain(e) THEN e.ps + (lb - e.ls) ELSE e.ps]
    IN IF Len(first) # (IF Plain(e) THEN 1 ELSE e.lc) THEN "error"
       ELSE first[IF Plain(e) THEN 1 ELSE lb - e.ls + 1]

Covering(list, lb) == {i \in DOMAIN list : lb \in Span(list[i].ls, list[i].lc)}

(* find_extent, overflow_find_extent and obmafs3_read_file_data.            *)
ReadBlock(f, lb) ==
    LET list == Collect(vol, f) IN
    IF Covering(list, lb) = {} THEN "error"
    ELSE ReadExtent(vol, list[Min(Covering(list, lb))], lb)

(* Mutant: compressed extents are joined too. *)
MutContiguous(d, e) == d.ps + d.pc = e.ps /\ End(d) = e.ls

(* write_extent_list: adjacent plain extents that are contiguous on disk    *)
(* become one.                                                              *)
Contiguous(d, e) == Plain(d) /\ Plain(e) /\ d.ps + d.pc = e.ps /\ End(d) = e.ls

Joined(d, e) == Extent(d.ls, d.lc + e.lc, d.ps, d.pc + e.pc)

Merge(done, e) ==
    IF done # <<>> /\ Contiguous(Last(done), e)
    THEN [done EXCEPT ![Len(done)] = Joined(@, e)]
    ELSE Append(done, e)

Merged(list) ==
    LET merged[i \in 0 .. Len(list)] == IF i = 0 THEN <<>> ELSE Merge(merged[i - 1], list[i])
    IN merged

Coalesce(list) == Merged(list)[Len(list)]

Slot(e) == [lc |-> e.lc, ps |-> e.ps, pc |-> e.pc]

(* Mutant: one extent more than there are slots. *)
MutInlineLimit == InlineSlots + 1
InlineLimit == InlineSlots

SlotsOf(list) ==
    [i \in 1 .. Min({InlineLimit, Len(list)}) |-> Slot(list[i])]
OverflowOf(list) ==
    {list[i] : i \in InlineLimit + 1 .. Len(list)}

(* What a call leaves behind: the volume and the inode of the file written. *)
Result(v, node, failed) == [vol |-> v, node |-> node, failed |-> failed]

WriteExtentList(v, f, node, list) ==
    Result([v EXCEPT !.overflow[f] = OverflowOf(Coalesce(list))],
           [node EXCEPT !.slots = SlotsOf(Coalesce(list))], FALSE)
-----------------------------------------------------------------------------
(* Cutting a range out of an extent list, when a group is rewritten and     *)
(* when a clone lands on it.  A plain extent keeps what lies outside, a     *)
(* compressed one goes as a whole.                                          *)

Overlaps(e, from, to) == e.ls < to /\ End(e) > from

LeftPart(e, from) == Extent(e.ls, from - e.ls, e.ps, from - e.ls)
RightPart(e, to)  == Extent(to, End(e) - to, e.ps + (to - e.ls), End(e) - to)

KeepLeft(kept, e, from) ==
    IF End(e) <= from THEN Append(kept, e)
    ELSE IF e.ls < from /\ Plain(e) THEN Append(kept, LeftPart(e, from)) ELSE kept

KeepRight(kept, e, to) ==
    IF e.ls >= to THEN Append(kept, e)
    ELSE IF End(e) > to /\ Plain(e) THEN Append(kept, RightPart(e, to)) ELSE kept

Before(list, from) ==
    LET kept[i \in 0 .. Len(list)] == IF i = 0 THEN <<>> ELSE KeepLeft(kept[i - 1], list[i], from)
    IN kept

After(list, to) ==
    LET kept[i \in 0 .. Len(list)] == IF i = 0 THEN <<>> ELSE KeepRight(kept[i - 1], list[i], to)
    IN kept

PhysIn(e, from, to) ==
    IF ~Overlaps(e, from, to) THEN {}
    ELSE IF Plain(e)
         THEN {e.ps + (lb - e.ls) : lb \in Span(e.ls, e.lc) \cap (from .. to - 1)}
         ELSE Span(e.ps, e.pc)

FreeRange(v, list, from, to) ==
    LET freed[i \in 0 .. Len(list)] ==
            IF i = 0 THEN v ELSE FreeBlocks(freed[i - 1], PhysIn(list[i], from, to))
    IN freed

Replace(list, from, to, new) ==
    Before(list, from)[Len(list)] \o new \o After(list, to)[Len(list)]
-----------------------------------------------------------------------------
(* obmafs3_write_file_data.                                                *)

FirstGroup(off) == off \div GroupBlocks
NumGroups(off, n) == (off + n - 1) \div GroupBlocks - FirstGroup(off) + 1
GroupStart(g) == g * GroupBlocks
GroupEnd(g, size) == Min({(g + 1) * GroupBlocks, size})

(* The assembled group: old data where extents overlap it, zeros elsewhere, *)
(* the new data on top.                                                     *)
GroupData(v, list, g, size, off, n, val) ==
    [i \in 1 .. GroupEnd(g, size) - GroupStart(g) |->
        LET lb == GroupStart(g) + i - 1 IN
        IF lb \in Span(off, n) THEN val
        ELSE IF Covering(list, lb) = {} THEN "zero"
             ELSE ReadExtent(v, list[Max(Covering(list, lb))], lb)]

(* What goes to disk: a full group that compresses into zip blocks, or the  *)
(* blocks as they are.  zip = 0: compression is not worthwhile.             *)
Compresses(data, zip) == Compression /\ Len(data) = GroupBlocks /\ zip > 0
Image(data, zip) ==
    IF Compresses(data, zip)
    THEN [i \in 1 .. zip |-> IF i = 1 THEN data ELSE <<>>]
    ELSE [i \in DOMAIN data |-> <<data[i]>>]

(* Mutant: any write at the end takes the fast path. *)
MutIsAppend(node, off) == off >= node.size

(* The fast path: no existing group is touched.                             *)
IsAppend(node, off) ==
    off >= node.size /\ (node.size = 0 \/ off \div GroupBlocks
                            >= (node.size + GroupBlocks - 1) \div GroupBlocks)

Grown(node, end) == [node EXCEPT !.size = IF end > @ THEN end ELSE @]

(* write_file_data_append, one group: the new extent goes to a free slot or *)
(* into the overflow tree.                                                  *)
AppendGroup(r, f, g, off, n, val, zip) ==
    LET data  == GroupData(r.vol, <<>>, g, r.node.size, off, n, val)
        image == Image(data, zip)
        start == AllocStart(r.vol, Len(image))
        v     == AllocAndWrite(r.vol, start, image)
        e     == Extent(GroupStart(g), Len(data), start, Len(image))
    IN IF r.failed \/ start = 0 THEN [r EXCEPT !.failed = TRUE]
       ELSE IF Len(r.node.slots) < InlineSlots
            THEN Result(v, [r.node EXCEPT !.slots = Append(@, Slot(e))], FALSE)
            ELSE Result([v EXCEPT !.overflow[f] = {d \in @ : d.ls # e.ls} \cup {e}], r.node, FALSE)

Released(v, list, g, size) == FreeRange(v, list, GroupStart(g), GroupEnd(g, size))[Len(list)]

(* One group that overlaps existing data: its old blocks are freed before   *)
(* the new ones are allocated.                                              *)
RewriteGroup(r, g, size, off, n, val, zip) ==
    LET data  == GroupData(r.vol, r.list, g, size, off, n, val)
        image == Image(data, zip)
        v     == Released(r.vol, r.list, g, size)
        start == AllocStart(v, Len(image))
        e     == Extent(GroupStart(g), Len(data), start, Len(image))
    IN IF r.failed \/ "error" \in ToSet(data) THEN [r EXCEPT !.failed = TRUE]
       ELSE IF start = 0 THEN [r EXCEPT !.vol = v, !.failed = TRUE]
       ELSE [r EXCEPT !.vol = AllocAndWrite(v, start, image),
                      !.list = Replace(@, GroupStart(g), GroupEnd(g, size), <<e>>)]

Appended(f, off, n, val, zip) ==
    LET done[i \in 0 .. NumGroups(off, n)] ==
            IF i = 0 THEN Result(vol, Grown(inode[f], off + n), FALSE)
            ELSE AppendGroup(done[i - 1], f, FirstGroup(off) + i - 1, off, n, val, zip)
    IN done

Rewritten(f, size, off, n, val, zip) ==
    LET done[i \in 0 .. NumGroups(off, n)] ==
            IF i = 0 THEN [vol |-> vol, list |-> Collect(vol, f), failed |-> FALSE]
            ELSE RewriteGroup(done[i - 1], FirstGroup(off) + i - 1, size, off, n, val, zip)
    IN done

(* A call that fails half way returns before the extent list is written.    *)
WriteData(f, off, n, val, zip) ==
    LET node == Grown(inode[f], off + n) IN
    IF IsAppend(inode[f], off)
    THEN Appended(f, off, n, val, zip)[NumGroups(off, n)]
    ELSE LET r == Rewritten(f, node.size, off, n, val, zip)[NumGroups(off, n)]
         IN IF r.failed THEN Result(r.vol, node, TRUE)
            ELSE WriteExtentList(r.vol, f, node, r.list)
-----------------------------------------------------------------------------
(* obmafs3_truncate_file_blocks: extents before the cut stay, those behind  *)
(* it are freed, a compressed one at the cut is stored plain again.         *)
CutExtent(r, e, keep) ==
    LET to == r.pos + e.lc IN
    IF r.failed \/ to <= keep
    THEN [r EXCEPT !.pos = to, !.list = IF r.failed THEN @ ELSE Append(@, e)]
    ELSE IF r.pos >= keep
    THEN [r EXCEPT !.vol = FreeBlocks(@, Span(e.ps, e.pc))]
    ELSE LET left  == keep - r.pos
             image == [i \in 1 .. left |-> <<ReadExtent(r.vol, e, r.pos + i - 1)>>]
             freed == FreeBlocks(r.vol, Span(e.ps, e.pc))
             start == AllocStart(freed, left)
         IN IF Plain(e)
            THEN [r EXCEPT !.vol = FreeBlocks(@, Span(e.ps + left, e.pc - left)),
                           !.list = Append(@, Extent(e.ls, left, e.ps, left)), !.pos = keep]
            ELSE IF <<"error">> \in ToSet(image) THEN [r EXCEPT !.failed = TRUE]
            ELSE IF start = 0 THEN [r EXCEPT !.vol = freed, !.failed = TRUE]
            ELSE [r EXCEPT !.vol = AllocAndWrite(freed, start, image),
                           !.list = Append(@, Extent(e.ls, left, start, left)), !.pos = keep]

CutAt(list, keep) ==
    LET done[i \in 0 .. Len(list)] ==
            IF i = 0 THEN [vol |-> vol, list |-> <<>>, pos |-> 0, failed |-> FALSE]
            ELSE CutExtent(done[i - 1], list[i], keep)
    IN done

TruncateBlocks(f, keep) ==
    LET list == Collect(vol, f)
        r    == CutAt(list, keep)[Len(list)]
        node == [inode[f] EXCEPT !.size = keep]
    IN IF keep >= LogicalEnd(list)[Len(list)] THEN Result(vol, node, FALSE)
       ELSE IF r.failed THEN Result(r.vol, inode[f], TRUE)
       ELSE WriteExtentList(r.vol, f, node, r.list)
-----------------------------------------------------------------------------
(* obmafs3_clone_file_range.  An extent of the source inside the range is   *)
(* shared; a compressed one that is only partly inside is copied.           *)
CloneExtent(r, e, from, to, shift) ==
    LET first == Max({e.ls, from})
        n     == Min({End(e), to}) - first
        image == [i \in 1 .. n |-> <<ReadExtent(r.vol, e, first + i - 1)>>]
        start == AllocStart(r.vol, n)
        Add(v, ps, pc) == [r EXCEPT !.vol = v, !.list = Append(@, Extent(first + shift, n, ps, pc))]
    IN IF r.failed \/ ~Overlaps(e, from, to) THEN r
       ELSE IF Plain(e)
       THEN LET ps == e.ps + (first - e.ls) IN Add(ShareBlocks(r.vol, Span(ps, n)), ps, n)
       ELSE IF n = e.lc THEN Add(ShareBlocks(r.vol, Span(e.ps, e.pc)), e.ps, e.pc)
       ELSE IF <<"error">> \in ToSet(image) \/ start = 0 THEN [r EXCEPT !.failed = TRUE]
       ELSE Add(AllocAndWrite(r.vol, start, image), start, n)

Cloned(list, from, to, shift) ==
    LET done[i \in 0 .. Len(list)] ==
            IF i = 0 THEN [vol |-> vol, list |-> <<>>, failed |-> FALSE]
            ELSE CloneExtent(done[i - 1], list[i], from, to, shift)
    IN done

CloneRange(src, soff, dst, doff, n) ==
    LET list == Collect(vol, src)
        r    == Cloned(list, soff, soff + n, doff - soff)[Len(list)]
        old  == Collect(vol, dst)
        v    == FreeRange(r.vol, old, doff, doff + n)[Len(old)]
    IN IF r.failed THEN Result(r.vol, inode[dst], TRUE)
       ELSE WriteExtentList(v, dst, Grown(inode[dst], doff + n),
                            Replace(old, doff, doff + n, r.list))
-----------------------------------------------------------------------------
(* obmafs3_free_file_blocks, and obmafs3_inode_delete, which frees the      *)
(* inline extents of the record in the tree.                                *)
FreeAll(v, list) ==
    LET freed[i \in 0 .. Len(list)] ==
            IF i = 0 THEN v ELSE FreeBlocks(freed[i - 1], Span(list[i].ps, list[i].pc))
    IN freed

FreeFileBlocks(v, f) ==
    LET list == Collect(v, f) IN [FreeAll(v, list)[Len(list)] EXCEPT !.overflow[f] = {}]

InodeDelete(v, f) ==
    LET S == UNION {Span(s.ps, s.pc) : s \in ToSet(inode[f].slots)} IN
    [v EXCEPT !.bitmap = @ \ S,
              !.disk = [b \in Blocks |-> IF b \in S THEN <<>> ELSE @[b]]]
-----------------------------------------------------------------------------
(* The FUSE calls.                                                         *)

Shares(f) == \E b \in Blocks : vol.refs[b] > 1 /\ \E e \in ToSet(Collect(vol, f)) :
                                                     b \in Span(e.ps, e.pc)

Finish(f, r, text) ==
    /\ r.failed => "full" \in Risks
    /\ vol' = r.vol
    /\ inode' = [inode EXCEPT ![f] = r.node]
    /\ content' = IF r.failed THEN content ELSE [content EXCEPT ![f] = text]

Padded(text, n) == [i \in 1 .. Max({n, Len(text)}) |-> IF i <= Len(text) THEN text[i] ELSE "zero"]
Overlay(text, off, new) ==
    [i \in DOMAIN Padded(text, off + Len(new)) |->
        IF i - 1 \in Span(off, Len(new)) THEN new[i - off] ELSE Padded(text, off + Len(new))[i]]

(* obmafs3_fuse_create *)
Create(f) ==
    /\ ~inode[f].live
    /\ inode' = [inode EXCEPT ![f] = NewInode]
    /\ content' = [content EXCEPT ![f] = <<>>]
    /\ UNCHANGED vol

(* obmafs3_fuse_write *)
Write(f, off, n, val, zip) ==
    /\ inode[f].live /\ off + n <= MaxSize
    /\ off <= inode[f].size \/ "gap" \in Risks
    /\ Finish(f, WriteData(f, off, n, val, zip),
              Overlay(content[f], off, [i \in 1 .. n |-> val]))

(* obmafs3_fuse_truncate: longer is zeros written at the end.               *)
Truncate(f, n, zip) ==
    /\ inode[f].live /\ n # inode[f].size
    /\ IF n > inode[f].size
       THEN Finish(f, WriteData(f, inode[f].size, n - inode[f].size, "zero", zip),
                   Padded(content[f], n))
       ELSE Finish(f, TruncateBlocks(f, n), SubSeq(content[f], 1, n))

CutsGroups(soff, doff, n) == soff % GroupBlocks # doff % GroupBlocks \/ doff % GroupBlocks # 0
                                \/ n % GroupBlocks # 0

(* obmafs3_fuse_copy_file_range, the length clamped to the source.          *)
Clone(src, soff, dst, doff, n) ==
    /\ inode[src].live /\ inode[dst].live /\ src # dst
    /\ soff + n <= inode[src].size /\ doff + n <= MaxSize
    /\ doff <= inode[dst].size \/ "gap" \in Risks
    /\ Compression /\ CutsGroups(soff, doff, n) => "cut" \in Risks
    /\ Finish(dst, CloneRange(src, soff, dst, doff, n),
              Overlay(content[dst], doff, SubSeq(content[src], soff + 1, soff + n)))

(* obmafs3_fuse_unlink of the last name. *)
Unlink(f) ==
    /\ inode[f].live
    /\ Shares(f) => "deleteShared" \in Risks
    /\ vol' = InodeDelete(FreeFileBlocks(vol, f), f)
    /\ inode' = [inode EXCEPT ![f] = Absent]
    /\ content' = [content EXCEPT ![f] = <<>>]

Offsets == 0 .. MaxSize - 1
Lengths == 1 .. MaxSize
Zips == IF Compression THEN 0 .. GroupBlocks - 1 ELSE {0}

Next ==
    \E f \in Files :
        \/ Create(f) \/ Unlink(f)
        \/ \E off \in Offsets, n \in Lengths, val \in Values, zip \in Zips :
              Write(f, off, n, val, zip)
        \/ \E n \in Offsets \cup Lengths, zip \in Zips : Truncate(f, n, zip)
        \/ \E g \in Files, soff \in Offsets, doff \in Offsets, n \in Lengths :
              Clone(f, soff, g, doff, n)

Spec == Init /\ [][Next]_vars
-----------------------------------------------------------------------------
SlotSeqs == UNION {[1 .. n -> [lc : 1 .. MaxSize, ps : Blocks, pc : 1 .. MaxSize]]
                        : n \in 0 .. InlineSlots}

(* Inodes, their inline slots, and the volume's structures have their types. *)
TypeOK ==
    /\ \A f \in Files :
          /\ inode[f].live \in BOOLEAN /\ inode[f].size \in 0 .. MaxSize
          /\ inode[f].slots \in SlotSeqs
          /\ vol.overflow[f] \subseteq Extents
    /\ vol.bitmap \subseteq Blocks /\ vol.hint \in 1 .. NumBlocks + 1
    /\ vol.refs \in [Blocks -> Nat]

(* What a file reads as is what was written to it, by writes, truncations   *)
(* and clones: nothing another file does shows through shared blocks, and   *)
(* no extent is lost or misplaced.                                          *)
ReadsBack ==
    \A f \in Files : inode[f].live =>
        [i \in 1 .. inode[f].size |-> ReadBlock(f, i - 1)] = content[f]

(* The extents that hold a block. *)
Holding(list, b) == {i \in 1 .. Len(list) : b \in Span(list[i].ps, list[i].pc)}
Holders(b) == UNION {{f} \X Holding(Collect(vol, f), b) : f \in Files}

(* "checks each block's refcount before freeing": the reference count of a  *)
(* block is the number of extents that hold it, a block that is held is     *)
(* allocated, and an allocated block is held.                               *)
ReferencesCounted ==
    \A b \in Blocks :
        Cardinality(Holders(b)) = IF b \in vol.bitmap THEN vol.refs[b] ELSE 0

(* "Verify that each inode's file_size matches the sum of its extent        *)
(* logical blocks": the extents of a file cover as many blocks as its size  *)
(* says.                                                                    *)
SizeCovered ==
    \A f \in Files :
        LET list == Collect(vol, f) IN LogicalEnd(list)[Len(list)] = inode[f].size

(* "Compressed extents that straddle (shouldn't happen by design)": a       *)
(* compressed extent is a whole group.                                      *)
CompressedAreGroups ==
    \A f \in Files : \A e \in ToSet(Collect(vol, f)) :
        ~Plain(e) => e.ls % GroupBlocks = 0 /\ e.lc = GroupBlocks
=============================================================================
