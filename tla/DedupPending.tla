---------------------------- MODULE DedupPending ----------------------------
(***************************************************************************)
(* How a new sector hash gets from the write path into its dedup B+Tree:   *)
(* the key set, the pending insert buffer, the draining buffer of the      *)
(* housekeeping thread, and what unmount persists and warmup restores      *)
(* (dedup_write.c, dedup_cache.c, dedup_housekeeping.c, dedup_persist.c    *)
(* and the close path of io.c).                                            *)
(*                                                                         *)
(* A hash stands for the dedup_entry that carries it; where the sector's   *)
(* bytes lie is the subject of DedupBlocks.  The hash of a sector of one   *)
(* size is never that of a sector of another size, so SizeOf gives each    *)
(* hash its sector size, and with it the tree it belongs to.  Every        *)
(* section under tree_lock is one step.  The lookup cache returns what the *)
(* tree would return and is not represented.                               *)
(***************************************************************************)
EXTENDS Naturals, FiniteSets

CONSTANTS
    Hashes,         \* sector hashes, ordered as the drain sorts them
    SizeOf,         \* sector size of each hash
    BatchSize,      \* HOUSEKEEPING_BATCH_SIZE
    KeysetCapacity, \* keys the RAM budget (--keyset-limit) has room for
    MaxMounts,      \* bound on mounts after the first
    FaultKinds,     \* which steps may fail (out of memory, out of space, I/O)
    MaxFaults       \* bound on the number of such failures

ASSUME PendingAssumption ==
    /\ Hashes \subseteq Nat
    /\ SizeOf \in [Hashes -> Nat \ {0}]
    /\ BatchSize \in Nat \ {0} /\ KeysetCapacity \in Nat \ {0}
    /\ MaxMounts \in Nat /\ MaxFaults \in Nat
    /\ FaultKinds \subseteq {"sorted", "create", "grow", "tree", "badmagic", "trim",
                             "savePending", "saveKeyset"}

Sizes == {SizeOf[h] : h \in Hashes}

(* struct dedup_pending_buf; a null pointer is a buffer that is not live.   *)
Buffers == [live : BOOLEAN, size : Sizes \cup {0}, entries : SUBSET Hashes]
NoBuf == [live |-> FALSE, size |-> 0, entries |-> {}]
FreshBuf(s) == [live |-> TRUE, size |-> s, entries |-> {}]

VARIABLES
    pending,        \* ctx->dedup_pending
    draining,       \* ctx->dedup_pending_draining
    tree,           \* the hashes in the dedup tree of each sector size
    keyset,         \* ctx->dedup_key_set
    saved,          \* persisted pending extent; live iff sb.pending_lba # 0
    savedKeys,      \* persisted key set extent; live iff sb.keyset_lba # 0
    mount,          \* "mounted", "stopping" (shutdown_requested) or "closed"
    warm,           \* progress of the warmup thread
    toScan,         \* trees the warmup scan has not visited
    hk,             \* housekeeping thread: pc, extracted, inserted, failed
    copies,         \* ghost: how many times the sector's data was stored
    recorded,       \* ghost: hashes a successful write has recorded
    dropped,        \* ghost: hashes whose entry the code gave up and has not inserted since
    mounts, faults  \* bounds

memVars  == <<pending, draining, keyset>>
diskVars == <<tree, saved, savedKeys>>
lifeVars == <<mount, warm, toScan, mounts>>
ghosts   == <<copies, recorded, dropped>>
vars     == <<memVars, diskVars, lifeVars, hk, ghosts, faults>>

HkStates == [pc : {"check", "extract", "batch", "finish", "exited"},
             extracted : SUBSET Hashes, inserted : SUBSET Hashes, failed : BOOLEAN]
HkStart == [pc |-> "check", extracted |-> {}, inserted |-> {}, failed |-> FALSE]

Init ==
    /\ pending = NoBuf /\ draining = NoBuf /\ keyset = {}
    /\ tree = [s \in Sizes |-> {}]
    /\ saved = NoBuf /\ savedKeys = NoBuf
    /\ mount = "mounted" /\ warm = "load" /\ toScan = {}
    /\ hk = HkStart
    /\ copies = [h \in Hashes |-> 0] /\ recorded = {} /\ dropped = {}
    /\ mounts = 0 /\ faults = 0

Fault(kind) ==
    /\ kind \in FaultKinds /\ faults < MaxFaults
    /\ faults' = faults + 1
NoFault == UNCHANGED faults

(* The first n entries in hash order. *)
Smallest(n, S) == {h \in S : Cardinality({g \in S : g < h}) < n}
Prefixes(S) == {Smallest(n, S) : n \in 0 .. Cardinality(S)}

(* keyset_insert of the keys in S: a full key set evicts old keys.  Which   *)
(* of them was used least recently is abstracted away.                      *)
KeysetInsert(S) ==
    {K \in SUBSET (keyset \cup S) :
        /\ S \subseteq K \/ K \subseteq S
        /\ IF Cardinality(keyset \cup S) <= KeysetCapacity
           THEN K = keyset \cup S ELSE Cardinality(K) = KeysetCapacity}

InsertInto(t, s, S) == [t EXCEPT ![s] = @ \cup S]
-----------------------------------------------------------------------------
(* obmafs3_write_media_image_data, Phase 1, for one sector.                *)

(* Mutant: the key set is not asked. *)
MutKnown(h) == h \in pending.entries \cup draining.entries
Known(h) == h \in keyset \cup pending.entries \cup draining.entries
Located(h) == h \in pending.entries \cup draining.entries \cup tree[SizeOf[h]]
Writable == mount = "mounted" /\ warm = "done"

SizeChanged(h) ==
    pending.size # 0 /\ pending.size # SizeOf[h] /\ pending.entries # {}

(* The buffer that takes the new entry, and the entry's insertion in it     *)
(* when pending_insert has room or can grow.                                *)
Buffered(b, h) ==
    [b EXCEPT !.size = IF @ = 0 THEN SizeOf[h] ELSE @, !.entries = @ \cup {h}]

StoreSector(h) == copies' = [copies EXCEPT ![h] = @ + 1]

(* Duplicate: the location is taken from a buffer, the lookup cache or the  *)
(* tree.                                                                    *)
WriteHit(h) ==
    /\ Writable /\ Known(h) /\ Located(h)
    /\ recorded' = recorded \cup {h}
    /\ UNCHANGED <<memVars, diskVars, lifeVars, hk, copies, dropped, faults>>

(* The guard at the sector map entry: the key set knows the hash but its    *)
(* tree does not, so the sector is stored and inserted at once.  When the   *)
(* lookup fails, the sector is stored before upsert_find finds it.          *)
WriteGuardMiss(h) ==
    /\ Writable /\ Known(h) /\ h \notin pending.entries \cup draining.entries
    /\ StoreSector(h)
    /\ \/ /\ IF h \in tree[SizeOf[h]] THEN Fault("tree") ELSE NoFault
          /\ tree' = InsertInto(tree, SizeOf[h], {h})
          /\ recorded' = recorded \cup {h} /\ dropped' = dropped \ {h}
       \/ /\ Fault("tree")
          /\ UNCHANGED <<tree, recorded, dropped>>
    /\ UNCHANGED <<memVars, saved, savedKeys, lifeVars, hk>>

(* Miss with a pending buffer: the tree insert is deferred.  A buffer of    *)
(* another sector size is first handed to the housekeeping thread or, when  *)
(* the draining slot is taken or no fresh buffer can be had, flushed        *)
(* (pending_flush); a flush that fails keeps the old buffer.  An emptied or *)
(* fresh buffer has room for the entry.  At most one step of a write fails. *)
HandOff(h) ==
    /\ SizeChanged(h) /\ ~draining.live
    /\ draining' = pending
    /\ pending' = Buffered(FreshBuf(0), h)
    /\ UNCHANGED tree /\ NoFault

(* Mutant: a busy draining slot is emptied by the writer and taken over.    *)
MutFlushOldSize(h) ==
    /\ SizeChanged(h) /\ draining.live
    /\ tree' = InsertInto(tree, draining.size, draining.entries)
    /\ draining' = pending
    /\ pending' = Buffered(FreshBuf(0), h)
    /\ NoFault

FlushOldSize(h) ==
    /\ SizeChanged(h)
    /\ \/ /\ draining.live \/ "create" \in FaultKinds
          /\ tree' = InsertInto(tree, pending.size, pending.entries)
          /\ pending' = Buffered(FreshBuf(0), h)
          /\ IF draining.live THEN NoFault ELSE Fault("create")
       \/ /\ draining.live /\ Fault("tree")
          /\ \E P \in Prefixes(pending.entries) \ {pending.entries} :
                tree' = InsertInto(tree, pending.size, P)
          /\ pending' = Buffered(pending, h)
    /\ UNCHANGED draining

InsertPending(h) ==
    /\ ~SizeChanged(h)
    /\ pending' = Buffered(pending, h)
    /\ UNCHANGED <<draining, tree>> /\ NoFault

(* pending_insert at 75% load without memory to grow: it returns without    *)
(* inserting the entry, and the write goes on as if it had.                 *)
DropPending(h) ==
    /\ ~SizeChanged(h) /\ pending.entries # {}
    /\ UNCHANGED <<pending, draining, tree>>
    /\ Fault("grow")

WriteMiss(h) ==
    /\ Writable /\ ~Known(h) /\ pending.live
    /\ \/ /\ HandOff(h) \/ FlushOldSize(h) \/ InsertPending(h)
          /\ dropped' = dropped \ {h}
       \/ /\ DropPending(h)
          /\ dropped' = dropped \cup {h}
    /\ StoreSector(h)
    /\ keyset' \in KeysetInsert({h})
    /\ recorded' = recorded \cup {h}
    /\ UNCHANGED <<saved, savedKeys, lifeVars, hk>>

(* No pending buffer (its creation failed): immediate upsert.  The call     *)
(* fails at the lookup, or with the sector stored at the insert or at the   *)
(* flush of the node cache that follows it.                                 *)
WriteImmediate(h) ==
    /\ Writable /\ ~Known(h) /\ ~pending.live
    /\ \/ /\ IF h \in tree[SizeOf[h]]
             THEN UNCHANGED <<tree, keyset, copies>>
             ELSE /\ StoreSector(h)
                  /\ tree' = InsertInto(tree, SizeOf[h], {h})
                  /\ keyset' \in KeysetInsert({h})
          /\ recorded' = recorded \cup {h} /\ dropped' = dropped \ {h}
          /\ NoFault
       \/ /\ Fault("tree")
          /\ \/ UNCHANGED <<tree, copies>>
             \/ /\ h \notin tree[SizeOf[h]] /\ StoreSector(h)
                /\ UNCHANGED tree \/ tree' = InsertInto(tree, SizeOf[h], {h})
          /\ UNCHANGED <<keyset, recorded, dropped>>
    /\ UNCHANGED <<pending, draining, saved, savedKeys, lifeVars, hk>>

Write(h) == WriteHit(h) \/ WriteGuardMiss(h) \/ WriteMiss(h) \/ WriteImmediate(h)
-----------------------------------------------------------------------------
(* housekeeping_thread_func.                                               *)

Stopping == mount = "stopping"

(* Mutant: the test is inverted. *)
MutDrainSlotTest == draining.live
DrainSlotFree == ~draining.live

(* Check for work: swap the active buffer into the draining slot, keeping   *)
(* its sector size for the fresh one.                                       *)
HkCheck ==
    /\ hk.pc = "check" /\ warm = "done" /\ ~Stopping
    /\ \/ /\ pending.live /\ pending.entries # {} /\ DrainSlotFree
          /\ draining' = pending
          /\ \/ pending' = FreshBuf(pending.size) /\ NoFault
             \/ pending' = NoBuf /\ Fault("create")
       \/ /\ ~(pending.live /\ pending.entries # {} /\ DrainSlotFree) /\ draining.live
          /\ UNCHANGED <<pending, draining, faults>>
    /\ hk' = [hk EXCEPT !.pc = "extract"]
    /\ UNCHANGED <<keyset, diskVars, lifeVars, ghosts>>

(* Extract and sort; the loop is left when shutdown interrupts a backoff.   *)
HkExtract ==
    /\ hk.pc = "extract"
    /\ \/ /\ hk.failed /\ Stopping
          /\ hk' = [hk EXCEPT !.pc = "exited"]
          /\ NoFault
       \/ /\ ~(hk.failed /\ Stopping)
          /\ \/ /\ hk' = [hk EXCEPT !.pc = "batch", !.inserted = {},
                                    !.extracted = draining.entries]
                /\ NoFault
             \/ /\ hk' = [hk EXCEPT !.pc = "finish", !.inserted = {}, !.extracted = {}]
                /\ Fault("sorted")
    /\ UNCHANGED <<memVars, diskVars, lifeVars, ghosts>>

Remaining == hk.extracted \ hk.inserted

(* One batch under tree_lock (housekeeping_drain_batch).  An entry whose    *)
(* path leads through a corrupted node (BADMAGIC) is skipped and counted as *)
(* inserted.  Any other error leaves a prefix of the batch in the tree and  *)
(* ends the cycle.                                                          *)
HkBatch ==
    /\ hk.pc = "batch" /\ Remaining # {} /\ ~Stopping
    /\ LET batch == Smallest(BatchSize, Remaining) IN
       \/ \E skipped \in SUBSET batch :
             /\ tree' = InsertInto(tree, draining.size, batch \ skipped)
             /\ dropped' = (dropped \ batch) \cup skipped
             /\ hk' = [hk EXCEPT !.inserted = @ \cup batch]
             /\ IF skipped = {} THEN NoFault ELSE Fault("badmagic")
       \/ /\ \E P \in Prefixes(batch) \ {batch} : tree' = InsertInto(tree, draining.size, P)
          /\ hk' = [hk EXCEPT !.pc = "finish"]
          /\ UNCHANGED dropped
          /\ Fault("tree")
    /\ UNCHANGED <<memVars, saved, savedKeys, lifeVars, copies, recorded>>

HkBatchesDone ==
    /\ hk.pc = "batch" /\ (Remaining = {} \/ Stopping)
    /\ hk' = [hk EXCEPT !.pc = "finish"]
    /\ UNCHANGED <<memVars, diskVars, lifeVars, ghosts, faults>>

(* Mutant: an incomplete drain is taken for a complete one. *)
MutDrainComplete == TRUE

DrainComplete == hk.extracted \subseteq hk.inserted
Trimmed == [draining EXCEPT !.entries = Remaining]

(* finish_drain: discard the buffer, or replace it by what remains.         *)
HkFinish ==
    /\ hk.pc = "finish"
    /\ IF DrainComplete
       THEN draining' = NoBuf /\ NoFault
       ELSE \/ draining' = Trimmed /\ NoFault
            \/ UNCHANGED draining /\ Fault("trim")
    /\ hk' = [hk EXCEPT !.pc = "check", !.failed = ~DrainComplete]
    /\ UNCHANGED <<pending, keyset, diskVars, lifeVars, ghosts>>

(* Mutant: the thread ends only when it has drained everything. *)
MutHkExit ==
    /\ hk.pc = "check" /\ warm = "done" /\ Stopping
    /\ pending.entries \cup draining.entries = {}
    /\ hk' = [hk EXCEPT !.pc = "exited"]
    /\ UNCHANGED <<memVars, diskVars, lifeVars, ghosts, faults>>

HkExit ==
    /\ hk.pc = "check" /\ warm = "done" /\ Stopping
    /\ hk' = [hk EXCEPT !.pc = "exited"]
    /\ UNCHANGED <<memVars, diskVars, lifeVars, ghosts, faults>>

HkStep == HkCheck \/ HkExtract \/ HkBatch \/ HkBatchesDone \/ HkFinish \/ HkExit
-----------------------------------------------------------------------------
(* warmup_thread_func: the persisted key set or a scan of every tree, then  *)
(* the persisted pending entries.                                           *)

WarmLoad ==
    /\ warm = "load"
    /\ IF savedKeys.live
       THEN keyset' = savedKeys.entries /\ warm' = "pendingLoaded" /\ toScan' = {}
       ELSE keyset' = {} /\ warm' = "scan" /\ toScan' = Sizes
    /\ UNCHANGED <<pending, draining, diskVars, mount, mounts, hk, ghosts, faults>>

(* keyset_warmup of one tree; shutdown breaks out of the loop.              *)
WarmScan ==
    /\ warm = "scan"
    /\ IF toScan = {} \/ Stopping
       THEN warm' = "pendingScanned" /\ UNCHANGED <<keyset, toScan>>
       ELSE \E s \in toScan : /\ keyset' \in KeysetInsert(tree[s])
                              /\ toScan' = toScan \ {s}
                              /\ UNCHANGED warm
    /\ UNCHANGED <<pending, draining, diskVars, mount, mounts, hk, ghosts, faults>>

KeysetAfterLoad ==
    IF warm = "pendingScanned" THEN KeysetInsert(saved.entries) ELSE {keyset}

(* obmafs3_dedup_pending_load. *)
WarmPending ==
    /\ warm \in {"pendingLoaded", "pendingScanned"}
    /\ pending' = IF saved.live THEN saved ELSE FreshBuf(0)
    /\ keyset' \in KeysetAfterLoad
    /\ warm' = "done"
    /\ UNCHANGED <<draining, diskVars, mount, toScan, mounts, hk, ghosts, faults>>

WarmStep == WarmLoad \/ WarmScan \/ WarmPending
-----------------------------------------------------------------------------
(* Unmount and mount.                                                      *)

(* obmafs3_close after the FUSE loop has ended: shutdown_requested.         *)
BeginClose ==
    /\ mount = "mounted"
    /\ mount' = "stopping"
    /\ UNCHANGED <<memVars, diskVars, warm, toScan, mounts, hk, ghosts, faults>>

(* Mutant: the sizes of both buffers are accumulated. *)
MutSaveSize == [live |-> TRUE, size |-> pending.size + draining.size,
                entries |-> pending.entries \cup draining.entries]

(* obmafs3_dedup_pending_save: both buffers, under one sector size.         *)
SaveBuffers ==
    [live |-> TRUE,
     size |-> IF draining.live /\ draining.size # 0 THEN draining.size ELSE pending.size,
     entries |-> pending.entries \cup draining.entries]

(* obmafs3_close once housekeeping has stopped and warmup has ended:        *)
(* pending buffers, key set, superblock.  Nothing pending saves nothing.    *)
FinishClose ==
    /\ Stopping /\ hk.pc = "exited" /\ warm = "done"
    /\ \E pendingFails, keysFail \in BOOLEAN :
          /\ pendingFails => "savePending" \in FaultKinds
          /\ keysFail => "saveKeyset" \in FaultKinds
          /\ faults + (IF pendingFails THEN 1 ELSE 0) + (IF keysFail THEN 1 ELSE 0)
                <= MaxFaults
          /\ faults' = faults + (IF pendingFails THEN 1 ELSE 0) + (IF keysFail THEN 1 ELSE 0)
          /\ saved' = IF pending.entries \cup draining.entries = {} THEN saved
                      ELSE IF pendingFails THEN NoBuf ELSE SaveBuffers
          /\ savedKeys' = IF keyset = {} \/ keysFail THEN NoBuf
                          ELSE [live |-> TRUE, size |-> 0, entries |-> keyset]
    /\ mount' = "closed"
    /\ pending' = NoBuf /\ draining' = NoBuf /\ keyset' = {}
    /\ UNCHANGED <<tree, warm, toScan, mounts, hk, ghosts>>

(* obmafs3_open, then obmafs3_dedup_warmup_start and                        *)
(* obmafs3_housekeeping_start from fuse_init.                               *)
Mount ==
    /\ mount = "closed" /\ mounts < MaxMounts
    /\ mounts' = mounts + 1
    /\ mount' = "mounted" /\ warm' = "load"
    /\ hk' = HkStart
    /\ UNCHANGED <<memVars, diskVars, toScan, ghosts, faults>>

Next ==
    \/ \E h \in Hashes : Write(h)
    \/ HkStep
    \/ WarmStep
    \/ BeginClose \/ FinishClose \/ Mount

Spec == Init /\ [][Next]_vars

(* The housekeeping and warmup threads and the closing thread keep running  *)
(* (the idle wait is timed); nothing is assumed of writers or of the        *)
(* decision to unmount.                                                     *)
FairSpec == Spec /\ WF_vars(HkStep) /\ WF_vars(WarmStep) /\ WF_vars(FinishClose)
-----------------------------------------------------------------------------
(* Buffers, trees, key sets and thread states have their types. *)
TypeOK ==
    /\ pending \in Buffers /\ draining \in Buffers /\ saved \in Buffers
    /\ savedKeys \in Buffers
    /\ tree \in [Sizes -> SUBSET Hashes]
    /\ keyset \subseteq Hashes
    /\ mount \in {"mounted", "stopping", "closed"}
    /\ warm \in {"load", "scan", "pendingLoaded", "pendingScanned", "done"}
    /\ toScan \subseteq Sizes
    /\ hk \in HkStates
    /\ copies \in [Hashes -> Nat] /\ recorded \subseteq Hashes /\ dropped \subseteq Hashes
    /\ mounts \in Nat /\ faults \in Nat

InTrees == UNION {tree[s] : s \in Sizes}

(* The persisted extent is the only copy between a close and the end of the *)
(* next warmup.                                                             *)
Restorable == IF mount = "closed" \/ warm # "done" THEN saved.entries ELSE {}

(* "un-drained entries survive across mounts": a hash recorded by a write   *)
(* is at all times in a buffer, in a tree, or in the extent the next warmup *)
(* restores, across swaps, failed and interrupted drains, unmount, remount. *)
(* The code gives an entry up in two places only: pending_insert when the   *)
(* buffer cannot grow, and the drain when the entry's path in the tree is   *)
(* corrupted ("the hash will be re-inserted when the sector is next         *)
(* written"); such a hash is out of the index until a write or a drain      *)
(* inserts it, and no other hash ever is.                                   *)
NothingLost ==
    recorded \ dropped
        \subseteq pending.entries \cup draining.entries \cup InTrees \cup Restorable

(* Deduplication: the data of a sector is stored at most once, however      *)
(* writes interleave with the drain and with unmounts.  "If neither has the *)
(* hash, it's a genuinely new sector".                                      *)
StoredOnce == \A h \in Hashes : copies[h] <= 1

(* "Each pending buffer is bound to a single sector_size (and therefore a   *)
(* single dedup B+Tree)".                                                   *)
BoundToOneSize ==
    \A h \in Hashes :
        /\ h \in pending.entries => pending.size = SizeOf[h]
        /\ h \in draining.entries => draining.size = SizeOf[h]
        /\ \A s \in Sizes : h \in tree[s] => s = SizeOf[h]

(* The drain thread works on the buffer it extracted: while it drains,      *)
(* nobody replaces the draining buffer under it.                            *)
DrainedBufferStays ==
    hk.pc \in {"batch", "finish"} => hk.extracted \subseteq draining.entries

(* A pending entry is eventually in the tree, unless unmount comes first.   *)
EventuallyDrained ==
    \A h \in Hashes :
        h \in pending.entries \cup draining.entries ~> h \in InTrees \/ mount # "mounted"

(* Unmount is not held up by the housekeeping or the warmup thread.         *)
CloseCompletes == Stopping ~> mount = "closed"
=============================================================================
