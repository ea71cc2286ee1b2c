--------------------------- MODULE BlockAllocator ---------------------------
(***************************************************************************)
(* The free-space bitmap: obmafs3_alloc_blocks and obmafs3_free_blocks     *)
(* (btree.c, bitmap.c), the word-level search obmafs3_bitmap_find_free     *)
(* runs under bitmap_lock, and how the bitmap reaches the disk and comes   *)
(* back (obmafs3_bitmap_write and obmafs3_bitmap_read).                    *)
(*                                                                         *)
(* A bitmap is the set of its allocated blocks, a word the set of its free *)
(* bits.  The search is a step machine, one step per word and one per free *)
(* bit.  A checksum is the bitmap it was computed over: two bitmaps have   *)
(* one checksum only if they are equal.  Every caller holds tree_lock for  *)
(* writing, so an allocation, a free and a bitmap write never overlap.     *)
(***************************************************************************)
EXTENDS Integers

CONSTANTS
    Clients,        \* who holds blocks: files, trees, dedup blocks
    TotalBlocks,    \* sb.total_bytes / sb.block_size
    WordBits,       \* 64 in the code
    ChunkBits,      \* bits of the bitmap in one disk block
    Reserved,       \* blocks the formatter allocates: superblock, bitmap, trees
    MaxCount,       \* largest request
    MaxWrites,      \* bound on the number of bitmap writes
    MaxCrashes      \* bound on the number of crashes

ASSUME AllocatorAssumption ==
    /\ TotalBlocks \in Nat \ {0} /\ WordBits \in Nat \ {0} /\ ChunkBits \in Nat \ {0}
    /\ Reserved \in Nat /\ Reserved <= TotalBlocks
    /\ MaxCount \in Nat /\ MaxWrites \in Nat /\ MaxCrashes \in Nat

Blocks == 0 .. TotalBlocks - 1
Run(start, n) == start .. start + n - 1
WordIndex(b) == b \div WordBits

WordEnd(b) == (WordIndex(b) + 1) * WordBits
Chunks == {b \div ChunkBits : b \in Blocks}

VARIABLES
    bitmap,         \* ctx->bitmap: the allocated blocks
    hint,           \* ctx->next_free_lba
    search,         \* local state of the allocation in progress
    held,           \* ghost: the blocks each client was given and has not freed
    base,           \* ghost: what was allocated when the volume was mounted
    disk,           \* on disk: header checksum and hint, bitmap data
    writing,        \* chunks obmafs3_bitmap_write has still to write
    mounted,        \* "yes", "no" or "refused" (OBMAFS3_ERR_CHECKSUM)
    written,        \* ghost: the bitmap the last obmafs3_bitmap_write was given
    writes, crashes \* bounds

diskVars == <<disk, writing, written, writes>>
vars == <<bitmap, hint, search, held, base, diskVars, mounted, crashes>>

Idle == [pc |-> "idle", client |-> "none", count |-> 0, pass |-> 0, from |-> 0, bit |-> 0,
         free |-> {}, runStart |-> 0, runLen |-> 0]

(* obmafs3_create: the reserved area and the last block, which holds the    *)
(* backup superblock, are allocated; the hint is behind the reserved area.  *)
Init ==
    /\ bitmap = (0 .. Reserved - 1) \cup {TotalBlocks - 1} /\ hint = Reserved
    /\ search = Idle
    /\ held = [c \in Clients |-> {}] /\ base = bitmap
    /\ disk = [sum |-> bitmap, hint |-> hint, bits |-> bitmap]
    /\ writing = {} /\ written = bitmap /\ writes = 0
    /\ mounted = "yes" /\ crashes = 0

Ready == mounted = "yes" /\ search.pc = "idle" /\ writing = {}
-----------------------------------------------------------------------------
(* obmafs3_bitmap_find_free: two passes, [hint, end) and then [0, hint).    *)

PassStart(p) == IF p = 1 THEN search.from ELSE 0

(* Mutant: the first pass runs one block past the volume. *)
MutPassEnd(p) == IF p = 1 THEN TotalBlocks + 1 ELSE search.from
PassEnd(p) == IF p = 1 THEN TotalBlocks ELSE search.from
Passes == IF search.from > 0 THEN 2 ELSE 1

(* obmafs3_alloc_blocks takes the lock; the hint is clamped to the volume.  *)
Alloc(c, n) ==
    /\ Ready
    /\ LET from == IF hint >= TotalBlocks THEN 0 ELSE hint IN
       search' = [Idle EXCEPT !.pc = "word", !.client = c, !.count = n, !.pass = 1,
                              !.from = from, !.bit = from]
    /\ UNCHANGED <<bitmap, hint, held, base, diskVars, mounted, crashes>>

(* Mutant: the bits behind the current position are not masked out.         *)
MutFreeInWord ==
    {b \in Run(WordIndex(search.bit) * WordBits, WordBits) :
        b < PassEnd(search.pass) /\ b \notin bitmap}

(* The free bits of the word at the current position, those below it and    *)
(* those at or past the end of the pass masked out.                         *)
FreeInWord ==
    {b \in Run(WordIndex(search.bit) * WordBits, WordBits) :
        b >= search.bit /\ b < PassEnd(search.pass) /\ b \notin bitmap}

(* Load a word; a word without a free bit breaks the run.                   *)
ScanWord ==
    /\ search.pc = "word" /\ search.bit < PassEnd(search.pass)
    /\ search' = IF FreeInWord = {}
                 THEN [search EXCEPT !.runLen = 0, !.bit = WordEnd(search.bit)]
                 ELSE [search EXCEPT !.pc = "bits", !.free = FreeInWord]
    /\ UNCHANGED <<bitmap, hint, held, base, diskVars, mounted, crashes>>

ContinuesRun(b) == search.runLen # 0 /\ b = search.runStart + search.runLen

(* The lowest free bit of the word extends the run or starts a new one.     *)
ScanBit ==
    /\ search.pc = "bits" /\ search.free # {}
    /\ \E b \in search.free :
          /\ \A other \in search.free : b <= other
          /\ LET start == IF ContinuesRun(b) THEN search.runStart ELSE b
                 len   == IF ContinuesRun(b) THEN search.runLen + 1 ELSE 1
             IN search' = [search EXCEPT !.runStart = start, !.runLen = len,
                                         !.free = @ \ {b},
                                         !.pc = IF len >= search.count THEN "found" ELSE "bits"]
    /\ UNCHANGED <<bitmap, hint, held, base, diskVars, mounted, crashes>>

WordDone ==
    /\ search.pc = "bits" /\ search.free = {}
    /\ search' = [search EXCEPT !.pc = "word", !.bit = WordEnd(search.bit)]
    /\ UNCHANGED <<bitmap, hint, held, base, diskVars, mounted, crashes>>

(* Mutant: the first pass is started over again. *)
MutNextPass == [search EXCEPT !.bit = search.from, !.runStart = 0, !.runLen = 0]
NextPass == [search EXCEPT !.pass = 2, !.bit = 0, !.runStart = 0, !.runLen = 0]

PassDone ==
    /\ search.pc = "word" /\ search.bit >= PassEnd(search.pass)
    /\ search' = IF search.pass < Passes THEN NextPass ELSE [search EXCEPT !.pc = "nospace"]
    /\ UNCHANGED <<bitmap, hint, held, base, diskVars, mounted, crashes>>

(* Mutants: one block too many, or one too few, is marked. *)
MutMarked == Run(search.runStart, search.count + 1)
MutMarkedShort == Run(search.runStart, search.count - 1)
Marked == Run(search.runStart, search.count)

(* obmafs3_alloc_blocks: mark the run, move the hint up, unlock. *)
AllocFound ==
    /\ search.pc = "found"
    /\ bitmap' = bitmap \cup Marked
    /\ hint' = IF search.runStart + search.count > hint
               THEN search.runStart + search.count ELSE hint
    /\ held' = [held EXCEPT ![search.client] = @ \cup Run(search.runStart, search.count)]
    /\ search' = Idle
    /\ UNCHANGED <<base, diskVars, mounted, crashes>>

AllocNoSpace ==
    /\ search.pc = "nospace"
    /\ search' = Idle
    /\ UNCHANGED <<bitmap, hint, held, base, diskVars, mounted, crashes>>

(* obmafs3_free_blocks: a client gives back a run of blocks it holds, whole *)
(* or in part.  The hint does not move back.                                *)
Free(c, start, n) ==
    /\ Ready /\ Run(start, n) \subseteq held[c]
    /\ bitmap' = bitmap \ Run(start, n)
    /\ held' = [held EXCEPT ![c] = @ \ Run(start, n)]
    /\ UNCHANGED <<hint, search, base, diskVars, mounted, crashes>>
-----------------------------------------------------------------------------
(* obmafs3_bitmap_write and obmafs3_bitmap_read.                            *)

ChunkOf(S, k) == {b \in S : b \div ChunkBits = k}

(* The first disk block: header with a fresh checksum, and the first chunk. *)
WriteHeader ==
    /\ Ready /\ writes < MaxWrites
    /\ disk' = [sum |-> bitmap, hint |-> hint,
                bits |-> (disk.bits \ ChunkOf(Blocks, 0)) \cup ChunkOf(bitmap, 0)]
    /\ writing' = Chunks \ {0}
    /\ written' = bitmap /\ writes' = writes + 1
    /\ UNCHANGED <<bitmap, hint, search, held, base, mounted, crashes>>

(* The other disk blocks, in order. *)
WriteChunk ==
    /\ mounted = "yes"
    /\ \E k \in writing :
          /\ \A j \in writing : k <= j
          /\ disk' = [disk EXCEPT !.bits = (@ \ ChunkOf(Blocks, k)) \cup ChunkOf(bitmap, k)]
          /\ writing' = writing \ {k}
    /\ UNCHANGED <<bitmap, hint, search, held, base, mounted, written, writes, crashes>>

(* The process or the machine stops at any point. *)
Crash ==
    /\ mounted = "yes" /\ crashes < MaxCrashes
    /\ crashes' = crashes + 1 /\ mounted' = "no"
    /\ search' = Idle /\ writing' = {}
    /\ bitmap' = {} /\ base' = {} /\ held' = [c \in Clients |-> {}]
    /\ UNCHANGED <<hint, disk, written, writes>>

(* Mutant: the checksum is not compared. *)
MutChecksumMatches == TRUE
ChecksumMatches == disk.sum = disk.bits

(* obmafs3_open reads the bitmap and refuses it if the checksum differs.    *)
Mount ==
    /\ mounted = "no"
    /\ IF ChecksumMatches
       THEN /\ mounted' = "yes"
            /\ bitmap' = disk.bits /\ base' = disk.bits /\ hint' = disk.hint
       ELSE /\ mounted' = "refused"
            /\ UNCHANGED <<bitmap, base, hint>>
    /\ UNCHANGED <<search, held, diskVars, crashes>>

SearchStep == ScanWord \/ ScanBit \/ WordDone \/ PassDone \/ AllocFound \/ AllocNoSpace

Next ==
    \/ \E c \in Clients, n \in 1 .. MaxCount : Alloc(c, n)
    \/ SearchStep
    \/ \E c \in Clients, start \in Blocks, n \in 1 .. MaxCount : Free(c, start, n)
    \/ WriteHeader \/ WriteChunk \/ Crash \/ Mount

Spec == Init /\ [][Next]_vars

(* The thread that holds the lock runs on. *)
FairSpec == Spec /\ WF_vars(SearchStep)
-----------------------------------------------------------------------------
SearchStates ==
    [pc : {"idle", "word", "bits", "found", "nospace"}, client : Clients \cup {"none"},
     count : Nat, pass : 0 .. 2, from : Nat, bit : Nat, free : SUBSET Blocks,
     runStart : Nat, runLen : Nat]

(* The bitmap, its disk image and the state of the search have their types. *)
TypeOK ==
    /\ bitmap \subseteq Blocks /\ hint \in Nat
    /\ search \in SearchStates
    /\ held \in [Clients -> SUBSET Blocks] /\ base \subseteq Blocks
    /\ disk \in [sum : SUBSET Blocks, hint : Nat, bits : SUBSET Blocks]
    /\ writing \subseteq Chunks /\ written \subseteq Blocks /\ writes \in Nat
    /\ mounted \in {"yes", "no", "refused"} /\ crashes \in Nat

(* No block is given to two clients, or to a client while it belongs to the *)
(* volume's own structures, and a block somebody holds is never free in the *)
(* bitmap.                                                                  *)
NoDoubleAllocation ==
    /\ \A c \in Clients : held[c] \cap base = {} /\ held[c] \subseteq bitmap
    /\ \A c, d \in Clients : c # d => held[c] \cap held[d] = {}

(* Nothing leaks: every allocated block is held or was allocated before.    *)
NothingLeaks ==
    mounted = "yes" => bitmap = base \cup UNION {held[c] : c \in Clients}

(* The blocks of one pass, and the runs of n free blocks inside it.         *)
PassRange(p) == IF p = 1 THEN search.from .. TotalBlocks - 1 ELSE 0 .. search.from - 1
FreeRuns(p) ==
    {s \in PassRange(p) : Run(s, search.count) \subseteq PassRange(p) \ bitmap}

(* The word-level search finds what a bit-by-bit search of each pass would. *)
LowestFit ==
    /\ search.pc = "found" =>
          /\ search.runStart \in FreeRuns(search.pass)
          /\ \A s \in FreeRuns(search.pass) : search.runStart <= s
          /\ \A p \in 1 .. search.pass - 1 : FreeRuns(p) = {}
    /\ search.pc = "nospace" => \A p \in 1 .. Passes : FreeRuns(p) = {}

(* The runs of free blocks anywhere on the volume that would do.            *)
LongEnough == {s \in Blocks : Run(s, search.count) \subseteq Blocks \ bitmap}
SpansHint(s) == s < search.from /\ search.from < s + search.count

(* obmafs3_bitmap_find_free returns the lowest run of the first pass that   *)
(* has one, and it gives up only when every free run that is long enough    *)
(* starts before the hint and ends behind it: those, which neither pass     *)
(* sees, are all it ever misses.  Its own comment promises more             *)
(* (NoSpaceMeansNone).                                                      *)
FirstFit ==
    /\ LowestFit
    /\ search.pc = "nospace" => \A s \in LongEnough : SpansHint(s)

(* "OBMAFS3_ERR_NOSPC if no sufficiently large run exists" (bitmap.c:285):  *)
(* does not hold, a run across the hint is missed (MCAllocAcrossHint.cfg).  *)
NoSpaceMeansNone == search.pc = "nospace" => LongEnough = {}

(* Whatever the moment of a crash, the bitmap that a later mount accepts is *)
(* the last one written, as a whole: never a mix of two.                    *)
AcceptedBitmapIsWhole ==
    [][mounted = "no" /\ mounted' = "yes" => bitmap' = written]_vars

(* An allocation request is answered. *)
SearchEnds == search.pc # "idle" ~> search.pc = "idle"
=============================================================================
