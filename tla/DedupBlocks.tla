----------------------------- MODULE DedupBlocks -----------------------------
(***************************************************************************)
(* Where the bytes of deduplicated sectors go: the dedup data blocks of    *)
(* dedup_write.c and the per-handle dedup block cache of dedup_cache.c,    *)
(* for one sector size.                                                    *)
(*                                                                         *)
(* Every open handle accumulates sectors in a buffer of its own, which it  *)
(* sets up from the position (last_block_lba, last_block_offset) in the    *)
(* header of the dedup tree, and writes that position back.  A dedup block *)
(* has Capacity slots of one sector; offsets are slot numbers.  A block on *)
(* disk holds the slots its block_header covers.  A write call holds       *)
(* tree_lock from its first sector to the header update; the job that      *)
(* compresses a full block runs beside it.  Whether a sector is known is   *)
(* decided by DedupPending; here a sector is known once it has a location. *)
(***************************************************************************)
EXTENDS Naturals, FiniteSets

CONSTANTS
    Handles,        \* open files of media images
    Sectors,        \* distinct sector contents
    Blocks,         \* addresses of dedup blocks
    Capacity,       \* sectors in a dedup block
    MaxWriters,     \* handles open at the same time
    MaxNoSpace      \* bound on failed allocations

ASSUME BlocksAssumption ==
    /\ Blocks \subseteq Nat \ {0} /\ Capacity \in Nat \ {0}
    /\ MaxWriters \in Nat /\ MaxNoSpace \in Nat
    /\ "none" \notin Handles /\ "hole" \notin Sectors

Slots  == 0 .. Capacity - 1
Images == [Slots -> Sectors \cup {"hole"}]
Empty  == [i \in Slots |-> "hole"]
NoLoc  == [lba |-> 0, off |-> 0]

VARIABLES
    disk,           \* dedup blocks on disk
    allocated,      \* addresses in use
    hdr,            \* last_block_lba and last_block_offset of the tree header
    cache,          \* struct dedup_block_cache of each handle
    call,           \* the write call that holds tree_lock, if any
    job,            \* the block being compressed and written by the pool
    where,          \* block_lba and block_offset recorded for each sector
    smes,           \* sector map entries cached by each handle
    mapped,         \* sectors whose map entries are on disk
    alive,          \* FALSE when the process has died
    noSpace         \* failed allocations so far

vars == <<disk, allocated, hdr, cache, call, job, where, smes, mapped, alive, noSpace>>

Closed == [open |-> FALSE, initialized |-> FALSE, lba |-> 0, off |-> 0,
           data |-> Empty, hasData |-> FALSE, dirty |-> FALSE]
NoCall == [handle |-> "none", misses |-> FALSE, failed |-> FALSE, batch |-> {}]
NoJob  == [lba |-> 0, data |-> Empty]

Init ==
    /\ disk = [b \in Blocks |-> Empty] /\ allocated = {}
    /\ hdr = NoLoc
    /\ cache = [h \in Handles |-> Closed]
    /\ call = NoCall /\ job = NoJob
    /\ where = [s \in Sectors |-> NoLoc]
    /\ smes = [h \in Handles |-> {}] /\ mapped = {}
    /\ alive = TRUE /\ noSpace = 0

OpenHandles == {h \in Handles : cache[h].open}

(* obmafs3_alloc_blocks hands out the lowest free address. *)
NextFree == {b \in Blocks \ allocated : \A c \in Blocks \ allocated : b <= c}

(* An image that covers the first off slots of a buffer. *)
Image(data, off) == [i \in Slots |-> IF i < off THEN data[i] ELSE "hole"]

(* obmafs3_fuse_open and obmafs3_fuse_create: a handle with an empty cache. *)
Open(h) ==
    /\ alive /\ ~cache[h].open /\ Cardinality(OpenHandles) < MaxWriters
    /\ cache' = [cache EXCEPT ![h] = [Closed EXCEPT !.open = TRUE]]
    /\ UNCHANGED <<disk, allocated, hdr, call, job, where, smes, mapped, alive, noSpace>>

(* Mutant: the partial block is not read back from disk. *)
MutBlockInit == [Closed EXCEPT !.open = TRUE, !.initialized = TRUE, !.hasData = TRUE,
                               !.lba = hdr.lba, !.off = hdr.off]

(* dedup_block_init: resume the partial block the header names.             *)
BlockInit == [Closed EXCEPT !.open = TRUE, !.initialized = TRUE, !.hasData = TRUE,
                            !.lba = hdr.lba, !.off = hdr.off,
                            !.data = IF hdr.lba = 0 THEN Empty ELSE disk[hdr.lba]]

(* The cold setup of the first write call, in a lock section of its own.    *)
ColdSetup(h) ==
    /\ alive /\ call = NoCall
    /\ cache[h].open /\ ~cache[h].initialized
    /\ cache' = [cache EXCEPT ![h] = BlockInit]
    /\ UNCHANGED <<disk, allocated, hdr, call, job, where, smes, mapped, alive, noSpace>>

BeginWrite(h) ==
    /\ alive /\ call = NoCall
    /\ cache[h].initialized
    /\ call' = [NoCall EXCEPT !.handle = h]
    /\ UNCHANGED <<disk, allocated, hdr, cache, job, where, smes, mapped, alive, noSpace>>
-----------------------------------------------------------------------------
(* Phase 1 of obmafs3_write_media_image_data, one sector at a time.         *)

Writing(h) == alive /\ call.handle = h /\ ~call.failed

StoreHit(h, s) ==
    /\ Writing(h) /\ where[s] # NoLoc
    /\ call' = [call EXCEPT !.batch = @ \cup {s}]
    /\ UNCHANGED <<disk, allocated, hdr, cache, job, where, smes, mapped, alive, noSpace>>

(* The tail of dedup_block_store: the sector is appended to the block db.   *)
Append(h, db, s) ==
    /\ cache' = [cache EXCEPT ![h] =
                    [db EXCEPT !.data[db.off] = s, !.off = db.off + 1, !.dirty = TRUE]]
    /\ where' = [where EXCEPT ![s] = [lba |-> db.lba, off |-> db.off]]
    /\ call' = [call EXCEPT !.batch = @ \cup {s}, !.misses = TRUE]

(* Mutant: the last sector may start at the end of the block. *)
MutHasRoom(h) == cache[h].off <= Capacity
HasRoom(h) == cache[h].off < Capacity

StoreInBlock(h, s) ==
    /\ Writing(h) /\ where[s] = NoLoc
    /\ cache[h].lba # 0 /\ HasRoom(h)
    /\ Append(h, cache[h], s)
    /\ UNCHANGED <<disk, allocated, hdr, job, smes, mapped, alive, noSpace>>

(* dedup_block_new, when the handle has no block yet.  A handle that lost   *)
(* its buffer to a failed allocation clears a null pointer here.            *)
StoreInFirstBlock(h, s) ==
    /\ Writing(h) /\ where[s] = NoLoc /\ cache[h].lba = 0
    /\ \/ \E b \in NextFree :
             /\ allocated' = allocated \cup {b}
             /\ IF cache[h].hasData
                THEN /\ Append(h, [cache[h] EXCEPT !.lba = b, !.off = 0, !.data = Empty], s)
                     /\ UNCHANGED alive
                ELSE /\ alive' = FALSE
                     /\ UNCHANGED <<cache, where, call>>
             /\ UNCHANGED noSpace
       \/ /\ noSpace < MaxNoSpace /\ noSpace' = noSpace + 1
          /\ call' = [call EXCEPT !.failed = TRUE]
          /\ UNCHANGED <<allocated, cache, where, alive>>
    /\ UNCHANGED <<disk, hdr, job, smes, mapped>>

(* The block is full: once the previous job is done the buffer goes to the  *)
(* pool and a new block is allocated; without space the handle is left      *)
(* without block and buffer.                                                *)
StoreInNextBlock(h, s) ==
    /\ Writing(h) /\ where[s] = NoLoc
    /\ cache[h].lba # 0 /\ ~HasRoom(h) /\ job = NoJob
    /\ job' = [lba |-> cache[h].lba, data |-> cache[h].data]
    /\ \/ \E b \in NextFree :
             /\ allocated' = allocated \cup {b}
             /\ Append(h, [cache[h] EXCEPT !.lba = b, !.off = 0, !.data = Empty], s)
             /\ UNCHANGED noSpace
       \/ /\ noSpace < MaxNoSpace /\ noSpace' = noSpace + 1
          /\ call' = [call EXCEPT !.failed = TRUE]
          /\ cache' = [cache EXCEPT ![h].lba = 0, ![h].dirty = FALSE,
                                    ![h].data = Empty, ![h].hasData = FALSE]
          /\ UNCHANGED <<allocated, where>>
    /\ UNCHANGED <<disk, hdr, smes, mapped, alive>>

(* dedup_async_compress_fn on a pool worker. *)
RunJob ==
    /\ alive /\ job # NoJob
    /\ disk' = [disk EXCEPT ![job.lba] = Image(job.data, Capacity)]
    /\ job' = NoJob
    /\ UNCHANGED <<allocated, hdr, cache, call, where, smes, mapped, alive, noSpace>>

(* Mutant: only the block is remembered, not how full it is. *)
MutPosition(h) == [lba |-> cache[h].lba, off |-> 0]
Position(h) == [lba |-> cache[h].lba, off |-> cache[h].off]

(* Phase 2: wait for the job, update the header if a sector was stored,     *)
(* hand the map entries to the handle's cache.                              *)
EndWrite(h) ==
    /\ Writing(h) /\ job = NoJob
    /\ hdr' = IF call.misses THEN Position(h) ELSE hdr
    /\ smes' = [smes EXCEPT ![h] = @ \cup call.batch]
    /\ call' = NoCall
    /\ UNCHANGED <<disk, allocated, cache, job, where, mapped, alive, noSpace>>

Flushed(h) ==
    IF cache[h].dirty /\ cache[h].lba # 0
    THEN [disk EXCEPT ![cache[h].lba] = Image(cache[h].data, cache[h].off)] ELSE disk

(* The error path: the map entries of the call are dropped. *)
FailWrite(h) ==
    /\ alive /\ call.handle = h /\ call.failed /\ job = NoJob
    /\ disk' = Flushed(h)
    /\ cache' = [cache EXCEPT ![h].dirty = @ /\ cache[h].lba = 0]
    /\ hdr' = Position(h)
    /\ call' = NoCall
    /\ UNCHANGED <<allocated, job, where, smes, mapped, alive, noSpace>>
-----------------------------------------------------------------------------
(* flush and fsync: obmafs3_flush_dedup_block_cache, then the sector map.   *)
FlushCache(h) ==
    /\ alive /\ call = NoCall /\ cache[h].open
    /\ disk' = Flushed(h)
    /\ hdr' = IF cache[h].initialized THEN Position(h) ELSE hdr
    /\ mapped' = mapped \cup smes[h]
    /\ smes' = [smes EXCEPT ![h] = {}]
    /\ UNCHANGED <<allocated, call, job, where, alive, noSpace>>

Flush(h) ==
    /\ FlushCache(h)
    /\ cache' = [cache EXCEPT ![h].dirty = @ /\ cache[h].lba = 0]

(* release: the same, and the handle is gone. *)
Release(h) ==
    /\ FlushCache(h)
    /\ cache' = [cache EXCEPT ![h] = Closed]

Store(h, s) ==
    StoreHit(h, s) \/ StoreInBlock(h, s) \/ StoreInFirstBlock(h, s) \/ StoreInNextBlock(h, s)

Next ==
    \/ \E h \in Handles :
          \/ Open(h) \/ ColdSetup(h) \/ BeginWrite(h)
          \/ \E s \in Sectors : Store(h, s)
          \/ EndWrite(h) \/ FailWrite(h) \/ Flush(h) \/ Release(h)
    \/ RunJob

Spec == Init /\ [][Next]_vars
-----------------------------------------------------------------------------
Locations == [lba : Blocks \cup {0}, off : 0 .. Capacity]

(* Buffers, blocks, positions and the write call have their types. *)
TypeOK ==
    /\ disk \in [Blocks -> Images] /\ allocated \subseteq Blocks
    /\ hdr \in Locations
    /\ cache \in [Handles -> [open : BOOLEAN, initialized : BOOLEAN, lba : Blocks \cup {0},
                              off : 0 .. Capacity, data : Images, hasData : BOOLEAN,
                              dirty : BOOLEAN]]
    /\ call \in [handle : Handles \cup {"none"}, misses : BOOLEAN, failed : BOOLEAN,
                 batch : SUBSET Sectors]
    /\ job \in [lba : Blocks \cup {0}, data : Images]
    /\ where \in [Sectors -> Locations]
    /\ smes \in [Handles -> SUBSET Sectors] /\ mapped \subseteq Sectors
    /\ alive \in BOOLEAN /\ noSpace \in 0 .. MaxNoSpace

(* What a sector map entry on disk points to is on disk: the read path      *)
(* finds the sector at the recorded address and offset, however blocks fill *)
(* up, calls fail for want of space, and handles come and go.               *)
MappedSectorsReadable ==
    \A s \in mapped : where[s] # NoLoc /\ disk[where[s].lba][where[s].off] = s

(* Two sectors never share a slot. *)
NoSlotShared ==
    \A s, t \in Sectors : s # t /\ where[s] # NoLoc => where[s] # where[t]

(* "Since dedup blocks are append-only and never moved, these fields remain *)
(* valid for the lifetime of the entry": what is in a slot on disk stays.   *)
AppendOnly ==
    [][\A b \in Blocks, i \in Slots : disk[b][i] # "hole" => disk'[b][i] = disk[b][i]]_vars
=============================================================================
