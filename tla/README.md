# obmafs3 in TLA+

This directory holds TLA+ models of obmafs3, a deduplicating file system for
preservation images (a C library under `src/src/lib`, a FUSE front end under
`src/src/mount`, and offline tools), the TLC configurations that check them on
small instances, and theorems about them that TLAPS checks for all instances.

Every definition is translated from the C source; `PROJECT.json` maps each one
to the lines it stands for. Data is abstracted to what the properties tell
apart (a sector is a model value, a checksum is the thing it was computed over);
the control (guards, early returns, error paths, and the order of effects) is
kept.

## 1. Inventory

### Components, their state and their operations

| component | state | operations | hard behaviour |
|---|---|---|---|
| Free-space bitmap (`bitmap.c`, `btree.c` 191-220) | bitmap, hint `next_free_lba`; on disk a header with a checksum and the bitmap blocks | find/alloc/free a run, read, write | word-wise search in two passes cut at the hint; in-place multi-block write; crash before the write |
| Compression pool (`block.c` 60-520) | batch (jobs, total, next, done), generation, async queue, worker threads | init, submit and wait for a batch, submit/wait/free an async job, destroy, re-init after fork | lock-free claiming, lost wake-ups, a job freed while in use, batches that follow each other |
| Deferred dedup inserts (`dedup_write.c`, `dedup_cache.c`, `dedup_housekeeping.c`, `dedup_persist.c`, close in `io.c`) | key set, pending buffer, draining buffer, housekeeping and warmup threads, persisted extents | write hit/miss, hand-off, drain in batches, trim, save at unmount, restore at mount | two threads move buffers through one slot; partial failures; shutdown in the middle of a drain or a scan |
| Dedup data blocks (`dedup_write.c` 65-500, 598-1465; block cache in `dedup_cache.c`) | per-handle block buffer, header position, background job, sector map entries | bootstrap, store, new block, write full block in the background, flush, release | a position shared between handles; no space between two blocks; ordering of data, header and map |
| Files (`block.c` 648-2986, `inode.c`, `catalog.c`, `refcount.c`, `mount/fuse_*.c`) | inodes and their extents, names, block reference counts, per-handle inode copies | create, link, unlink, rename, read, write (copy on write), truncate, clone | stale copies of an inode in handles; blocks shared by clones; frees before allocs |
| B+Trees (`btree.c` 223-442 and one tree per index: catalog, inodes, extents, refcounts, dedup, sector tags, media tags, CD trees, junk map, metadata, user indexes) | nodes on disk, header, free-node list | lookup, insert with splits, delete, node allocation in clumps | splits, empty nodes, separators after a deletion, free list written at unmount |
| Dedup trees and reads (`dedup_tree.c`, `dedup_read.c`) | tree per sector size, sector maps, node caches | lookup, upsert, sector map read and write | one node cache shared by readers and writers |
| Superblock, format, open, close (`superblock.c`, `io.c`) | two superblock copies, mount flags, counters | create, open, sync, close | crash between the copies |
| FUSE front end (`mount/`) | open handles, tree lock | FUSE callbacks, ioctls, xattrs | locks dropped between lookup and use |
| obmafsck (`obmafsck/`) | what the passes collect | check, repair, scrub, defragment | repair order |
| Metadata (`metadata.c`, `metadata_numeric.c`, `user_index.c`) | values per image, reverse index, numeric index, user indexes and their registry | set, delete, create and drop an index, query, aggregate | several trees changed by one call that may fail half way |
| Queries (`obmafs-query/main.c`, cursors in `mount/fuse_ioctl.c`) | table of cursors, offset of each client | ask, next page, count, stream | cursors evicted, images removed between pages |
| Defragmenter (`defrag/`) | block map, move list | analyse, compact, cancel | moves and the references to what moved |
| Importers, ciphers, checksums, ECC | none of their own, or none that outlives a call | straight-line drivers and byte transformations | not modelled |

### How they interact

FUSE callbacks call the library under `ctx->tree_lock`, a reader/writer lock
that serialises everything that changes trees, inodes and the bitmap
(`bitmap_lock` is nested inside it). Three kinds of thread run outside the
callback that holds it: pool workers, which compress and write data blocks; the
housekeeping thread, which takes `tree_lock` once per batch; and the warmup
thread, which fills the key set after mount and which housekeeping waits for. A
handle keeps private copies of shared state, an inode and a dedup block
position, and writes them back later. Unmount flushes handles, destroys the
pool, stops housekeeping, joins warmup, and only then persists buffers, key
set, bitmap and superblock.

### What makes each component correct

* Bitmap: no block has two owners, none is lost, the search returns what a
  bit-by-bit search would, a bitmap a mount accepts is one that was written
  whole, every request is answered.
* Pool: every job is compressed exactly once before the submitter returns, no
  freed job is used, nobody waits for ever.
* Deferred inserts: no recorded hash disappears before it is in a tree; a
  sector is stored once; a buffer belongs to one tree; buffers drain; unmount
  ends.
* Dedup blocks: what a map entry on disk points to is on disk; no two sectors
  share a slot; blocks are append-only.
* Files: no two live files share a block unless its reference count says so; no
  referenced block is free; a read returns what was written.
* B+Trees: a lookup finds exactly what was inserted and not deleted; scans and
  lookups agree; no node is in the tree and on the free list.
* Names: every name has an inode, no count is too low, tags belong to files that
  exist, a crash leaves something obmafsck can put right without loss.
* Metadata: every index holds what the values say, so that a query answers what
  a scan of the values would; a client gets its own answer, in order, and ends.
* Defragmenter: nothing a volume refers to is lost, shared or free afterwards,
  whatever was moved over what, and the run ends.

The hazards behind these properties, each at the line where it bites, are
listed in `PROJECT.json` under `hazards`.

## 2. Plan

Done, in the order of importance of what could be lost: the concurrent core and
the allocator (`CompressPool`, `DedupPending`, `BlockAllocator`, `DedupBlocks`),
file data (`FileExtents`), the trees (`BTree` and the modules built on it, with
the abstract map `KeyMap` they implement), names, handles and repair (`Names`),
metadata and its queries (`MetaStore`, `QueryPages`), the defragmenter (`Defrag`).

Left:

1. Theorems about the trees and `Defrag`, operation by operation, with the loops
   written as recursive functions as in `FileExtents`. A theorem that the tree of
   the reverse index acts as a set, under the restrictions of the `trees` run, would
   discharge the hypothesis of `MetaStoreProofs`; the aggregates of `MetaStore` would follow from one that its
   chain of leaves is in order (section 6).
2. `Volume`: the two superblock copies, format, and the crash of `BlockAllocator`
   composed with the trees and with the bitmap pass of obmafsck.
3. `NodeCache` (`dedup_cache.c` 132-660) and the read path of images.

## 3. The modules and the code

### `CompressPool` (`block.c` 60-520)

| state | code |
|---|---|
| `batch_data`, `batch_active`, `generation`, `async_queue`, `shutdown` | the fields of `struct compress_pool` |
| `pc`, `my_gen`, `idx`, `processed`, `job`, `aj` | program counter and locals of the workers and of the thread in `compress_pool_submit` |
| `runs`, `ajState`, `batchNo` | ghosts: how often each job was compressed, the life of each async job, batches so far |

`WorkerTop` is the section of `pool_worker_main` under the mutex; `ClaimJob`,
`TestClaim`, `CompressJob`, `CountDone` and `SignalDone` are the loop
`compress_worker_run`, cut at each access to `next`, `jobs`, `total` and `done`,
which happen outside the mutex; `SubmitFill` to `SubmitAwait` are
`compress_pool_submit`; `SubmitAsync`, `WorkerRunAsync`, `WorkerEndAsync` and
`WaitAsyncAndFree` are the life of an async job; `SpuriousWakeup` is what
POSIX allows a condition variable.

### `DedupPending` (`dedup_write.c`, `dedup_cache.c`, `dedup_housekeeping.c`, `dedup_persist.c`, close in `io.c`)

A hash is a natural number (drains go in hash order), `SizeOf` its sector size.
`pending` and `draining` are the two buffers of the context, `saved` and
`savedKeys` the two extents the superblock points to, `tree[s]` the dedup tree of
sector size `s`, `keyset` the key set, `hk` and `warm` the two threads.
`WriteHit`, `WriteGuardMiss`, `WriteMiss` and `WriteImmediate` are the ways a
sector takes through Phase 1 of `obmafs3_write_media_image_data`; the `Hk*`
actions are `housekeeping_thread_func`, one per section under a lock; `Warm*`
is `warmup_thread_func`; `BeginClose`, `FinishClose` and `Mount` are the parts of
`obmafs3_close` and `obmafs3_open` that matter here. `FaultKinds` names the
calls that may fail: the allocation of a fresh buffer ("create") or of a larger
one ("grow": `pending_insert` returns without having stored the entry, and the
write succeeds), a tree insert ("tree"), an insert whose path leads through a
corrupted node ("badmagic": the drain skips the entry and counts it as done), the
replacement buffer of a trim ("trim"), the array a drain sorts ("sorted"), and
saving the buffers or the key set at close. One step of a call fails at a time.
`dropped` is a ghost: the hashes given up at "grow" and "badmagic" and not
recorded again since; the I/O of the node cache is part of the insert.

### `BlockAllocator` (`bitmap.c`, `btree.c` 191-226)

`bitmap` and `hint` are the fields of the context, `search` the locals of
`obmafs3_bitmap_find_free`, which runs as a machine with one step per word and
one per free bit, `disk` the bitmap on disk with its checksum, written block by
block by `WriteHeader` and `WriteChunk` with a `Crash` possible between any two
steps. `held` and `base` are ghosts that say who owns what.

### `DedupBlocks` (`dedup_write.c` 65-500 and 597-1467, `dedup_cache.c` 1225-1319)

`cache[h]` is the `struct dedup_block_cache` of an open handle, `hdr` the
position in the header of the dedup tree, `call` the write call that holds
`tree_lock`, `job` the full block a pool worker is writing, `where` the location
recorded for each sector, `smes` and `mapped` the sector map entries in a
handle and on disk. `ColdSetup`, `BeginWrite`, `Store*`, `EndWrite` and
`FailWrite` are the phases of `obmafs3_write_media_image_data`; `Flush` and
`Release` the FUSE callbacks that write the partial block and the map.

### `FileExtents` (`block.c` 1150-2986, `refcount.c`, `inode.c` 573-755, `mount/fuse_write.c`, `mount/fuse_clone.c`)

`inode[f]` holds the size and the inline extents of a file, which carry no
logical start, as in the code; `vol` holds bitmap, hint, reference counts, the
overflow extents and the blocks on disk; `content` is a ghost, what the file
should read as. One action is one FUSE call under `tree_lock`. The functions
of `block.c` are operators from one volume to the next, with the early returns
of the code: a call that fails for want of space, or because a group it has to
rewrite cannot be read, leaves what it has freed and allocated so far and does
not write the extent list. Loops over groups and extents are recursive functions
on the position reached, which is the form the proofs reason about. `Risks`
switches on the uses of the volume whose effect is known to be wrong (section 7).

### `BTree` and the trees built on it (`btree.c`, `catalog.c`, `inode.c`, `refcount.c`, `sector_tag.c`, `media_tag.c`, `cd_btree.c`, `junk_map.c`, `metadata.c`, `metadata_numeric.c`, `dedup_tree.c`, overflow extents in `block.c`)

The library has one hand-written copy of the B+Tree code per index. `BTree`
holds the steps the copies share (node allocation from a clump and from the
chain of free nodes, descent, split of a leaf and of an index node, a new root,
removal and the unlinking of a leaf); `NameTrees`, `BlockTrees`, `TagTrees`,
`MetaTrees` and `DedupTree` put each tree's operations together from them with
the differences of that copy: who writes the header and when, who corrects the
left link of the neighbour, who frees leaves, who caches one. A node keeps the
entries beyond its count, because some code reads them.

`Trees` is the state machine: a tree value `tree` (header in memory, header on
disk, nodes, blocks handed out), the last call with its key and value `call` and
its answer `rc`, the cached leaf of the reference counts, the external blocks of
media tags, the key set beside the dedup tree. A behaviour chooses one kind of
tree and then puts, deletes, deletes all of an owner, remounts, and for the dedup
tree loses a block. `media_tag_put` frees the external blocks of the value it
replaces, then allocates new ones, then changes the tree, and may stop after each
of these steps; `halfway` remembers that it did.
`KeyMap` is what each of them promises, a partial function `map` with the same
`call` and `rc`: an action for a call says what it does to that key with that
value, for the answer given, and that it touches no other key. `ActsAsMap` is the
refinement: `map` is what a lookup of each key finds. A call that answers "ok"
and stores nothing, or changes another key, is no step of `KeyMap`. `call` and
`rc` only record the step just taken, so the runs identify states that differ
in them alone (`VIEW MCView`); every step is still checked.

### `MetaStore` (`metadata.c`, `metadata_numeric.c`, `user_index.c`)

`meta` are the values, `midx` the reverse index, a tree of `MetaTrees` with real
leaves, because user indexes are filled by walking it; `num` and `uidx` the
numeric entries, held as the sets `Trees` shows their trees to be. `metadata_put`
and `metadata_delete` make their tree writes one after the other, and a put may
fail at the value or at the reverse index; the pairs it leaves out of the indexes
are in `unindexed`. Queries are evaluated the way the code does, filter by filter
through whichever index applies, and compared with a reference definition over
`meta`. `TreeActsAsSet` states what all of this relies on in the tree: in every
state, taking out the entry of an old value and entering any new one changes the
keys of the tree as it would a set, a remount changes nothing, and the scan of a
key finds its entries.

### `QueryPages` (`mount/fuse_ioctl.c` 50-101 and 900-1000, `metadata.c` 1908-2057, `obmafs-query/main.c` 1423-1771)

`cursors` and `use_seq` are the table of the FUSE process with the counter behind
`last_use`, `client` what each `obmafs-query` knows: its cursor id, offset, total
and what it has printed. One action is one ioctl. Which inodes a query collects
is any of `Answers`; `InOrder` is the sorted array they are kept in, and `Resolved`
the loop that makes a page of it.

### `Names` (`mount/fuse_write.c`, `fuse_dir.c`, `fuse_read.c`, `fuse_attr.c`, `fuse_clone.c`, `fuse_xattr.c`, `fuse_ioctl.c`, `obmafsck/fsck_crosscheck.c`)

`disk` is the catalog, the inodes, media tags, junk map and `next_inode_id` on
disk, `nextId` the counter in memory, `handles` the open files with their copies
of the inode (and, in `at`, the place where a CD image's missing sidecar was
looked up, since the handle creates it later under that name), `want` a ghost,
the size each file should have. `Dirs` and `Above`, the directories below the
root and the ancestors of one, are least sets closed under a step. A handler is the
sequence of contents its tree writes leave on disk; it completes, or it fails
at one of them and rolls back as the code does, or the process dies after any of
them. `Fsck` is the cross-check of obmafsck with the three repairs, each of
which the user may decline. It includes the creation of lost+found with a
`next_inode_id` the crash left stale, which replaces an inode that exists; with
`Careful`, a volume this has happened to is left alone afterwards (`phase`
"ended"). The kernel truncates no directory and no symbolic link by path, the
handler itself makes no such check.

### `Defrag` (`defrag/defrag_analysis.c`, `defrag/defrag_compact.c`, keys of `defrag_tui.c`)

`disk` holds, per block, what the code can tell from its bytes: a tree header, a
node with its links and records, the list of dedup trees, a free node, or a
payload that may begin with a block header. All pointers are LBAs. `bits` is
the bitmap, `types` the block types of the analysis, which the phases edit as
they go; `trees`, `area`, `cursor`, `scan`, `range`, `todo`, `buf`, `work`, `room`
are the locals of the functions, `relocs` the three relocation lists. The phases
are those of `defrag_compact_run`: `PlanTrees` to `UpdateSuperblock` move the
trees to the end, `StartData` to `WriteOverflow` pack the file extents,
`DropFragment` to `DedupDone` the dedup blocks, and `update_dedup_tree_refs` and
`update_sme_refs` run once for each relocation list. `Layouts` are the volumes to
start from. The trees of the model are those whose records hold LBAs: inodes,
overflow extents, one dedup tree with its list. In the actions, a bound
variable ranges over a set of one element where the code has a local variable.

## 4. What TLC checks

| run | instance | shows |
|---|---|---|
| `pool` | 2 workers, 1 async job, 1 batch of 2 jobs | each job compressed exactly once before submit returns, no job claimed twice, no use of a freed job; submit and waits return, destroy joins the workers |
| `pending_faults` | 3 hashes, 2 sector sizes, batches of 2, 1 remount, 2 failures | a recorded hash is in a buffer, on its way or in the tree, unless the code gave it up ("grow", "badmagic"), nobody replaces the buffer being drained |
| `pending_one_size` | 3 hashes, 1 size, no failure | a sector is stored once, buffers drain, unmount completes |
| `alloc` | 6 blocks, words and disk blocks of 3, 2 clients, 1 crash | no double allocation, no leak, the lowest fit of each pass and no fit missed but across the hint, every search ends, a torn bitmap is refused |
| `blocks_one_writer` | 2 handles one after the other, 5 sectors, blocks of 2, 1 failed allocation | every map entry on disk leads to its sector, no slot is shared |
| `extents` | 2 files of up to 3 blocks, groups of 2, 1 inline extent, 5 blocks | files read back what was written, reference counts are exact, compressed extents are whole groups |
| `extents_delete_shared` | the same, deletion of a file that shares blocks | **violated**: the finding of section 7 |
| `trees` | 13 kinds of tree, 5 keys of 2 owners, leaves of 2, index nodes of 3, 7 blocks | every call does to its key what the abstract map does and to no other, scans and lookups agree, no block is in the tree and free, cached counts, external tags (until a put of one fails half way), junk regions and the key set agree with their tree |
| `metadata` | 3 images, 2 keys, 4 values, 4 changes, 1 failed write | every index holds exactly the values that were set without an error, the reverse index acts as a set; every query and aggregate answers as the values do, whichever index it is read from |
| `query_pages` | 2 clients, 2 cursors, pages of 1, 4 queries | pages come in order and from the right query, a cursor is lost only to more recent ones, every query ends |
| `names` | 4 workloads of up to 5 inode ids, 2 names, 2 handles, 1 crash or failed write | names resolve, counts cover names, no stray inode, tags have owners, sizes are kept, a repair reconnects everything and keeps every inode, with or without a name, but the one whose id it takes for lost+found |
| `defrag` | 1,473 small volumes, tree clumps of 1 | no file loses a block at any step, images and trees are whole at the end, every block referred to is allocated and has one owner, dedup blocks are packed, the run ends |

Where a component has several invariants about one piece of state, its run checks
their conjunction, defined at the end of the module: `JobsRunOnce` and
`SubmissionsComplete` (`CompressPool`), `TreeSound` and `BesideTree` (`Trees`),
`IndexesSound` and `AnswersRight` (`MetaStore`), `ClientsServed` (`QueryPages`),
`CatalogSound` (`Names`), `VolumeSound` (`Defrag`). The named parts carry the
explanations, and each part has a mutant of its own.

**Why the bounds are enough.** Each is the smallest at which the case that
matters happens. Two workers and the submitter give every race on a claim, and
a second batch (in the violation run) the race between batches. Three hashes
in two sizes fill both buffers and leave one more to arrive; a batch size of
one or two makes a drain take several critical sections that a failure, a
write or an unmount falls between. Words of three bits in a volume of six
blocks have runs inside a word, across words, across the hint and at the
end of the volume; disk blocks of three bits make the bitmap write two steps.
Blocks of two sectors with five sectors fill a block in the middle of a call,
at the end of a call, and leave a partial block for the next handle. Groups of
two blocks and files of three have a full and a partial group, and one inline
slot sends every second extent into the overflow tree.

Leaves of two records with five keys split leaves and index nodes, empty and
unlink leaves and reuse their blocks; seven blocks let a full volume happen in
any step of a split (`Room`, below, keeps the one case that is known to go
wrong out). Reverse-index leaves of two entries make the entries of one key
span leaves, the case in which a user index is filled from several; an index on
strings, which no put and no query looks at, is left to the theorem. Two
cursors and two clients with four queries evict every cursor a client may
still need. `Workloads` of `Names` divide the work: many names and a crash
without open files, two open files without a crash, one open CD image with a
crash. `Layouts` of `Defrag` are every order of files, dedup blocks and
free blocks on a volume without images (twice in a row), on one with dedup
blocks of one block and one of them where the trees go, on one with dedup blocks
of two blocks, and on two with a dedup block whose write failed, among the files
or where the trees go; further volumes whose block being filled is half written
and lies where it would be put, and a volume with a leaked block: moves overlap their source, dedup blocks are evicted for
trees and for files and moved again.

**Assumptions on the environment.** Some constants exclude uses that are known
to go wrong (section 7), so that the run shows what holds without them:
`Risks` (`FileExtents`); the guard `Room` and `MaxDeleteLevels`, `Remountable`,
`Chained` (`Trees`); `LargeBuilds` (`MetaStore`); `Exclusive`, `Alone`, `Careful` (`Names`);
the choice of `Layouts` (`Defrag`).

**Fairness.** `CompressPool`: every thread that can run is scheduled (the
operating system), the clients wait for the jobs they submit and unmount comes
once all handles are released; spurious wake-ups are possible and never relied
upon. `DedupPending`: the housekeeping thread (whose idle wait is timed), the
warmup thread and the closing thread run on; nothing is assumed of writers or
of the decision to unmount. `BlockAllocator`: the thread that holds
`bitmap_lock` runs on. `QueryPages`: a client that has begun a query asks for its
next page or gives up, since it is a loop in one process. `Defrag`: the compaction
thread runs until it returns. No run assumes strong fairness.

**Deadlock** is checked for the pool, where a lost wake-up would show as one, for
the trees, whose operations always answer, and for the defragmenter, whose
thread must always have a next step until it returns. The other models may
stop because a bound is used up, and do not check it.

## 5. What is proved

The TLAPS proofs hold for every value of the constants that satisfies the named
assumption of the module (`AllocatorAssumption`, `PoolAssumption`,
`PendingAssumption`, `BlocksAssumption`, `ExtentsAssumption`, `NamesAssumption`,
`QueryAssumption`, and `TreeAssumption`, `MetaAssumption` and `ValuesAssumption` for
the metadata): volumes, words, threads, batches, hashes, sectors, blocks, groups,
extents, names, inodes, handles, values, clients and cursors of any number and
size, and failures as often as the model allows them. Where a theorem has a
further hypothesis, it excludes a use that section 7 shows to go wrong; the one
exception, that the reverse index's tree acts as a set, is a property TLC checks.

`CompressPoolProofs`:

* `TypeCorrect` (`TypeOK`) and `AsyncJobsAlive` (`NoUseOfFreedJob`) hold for the pool
  as it is. For the second, `QueueSound` says that a queued job is in the queue once
  and `OwnersSound` that a running one is with one worker; so only that worker can
  set `done`, and the owner frees the job only after it.
* `QuietBatchesRunOnce` (`JobsRunOnce`) is about the behaviours in which no worker
  is still in the claim loop of the batch before when `compress_pool_submit` fills
  in the next one: the condition whose absence is the divergence of
  `block.c:379-382`. `OneBatchRunsOnce` is the same property of the unrestricted
  specification with at most one batch, which no straggler can meet.
* The argument: `BatchSound` is a ledger. Every job below `next` is with exactly one
  thread or has been compressed, each thread's claims are counted in its `processed`
  until it adds them to `done`, and so `done = total` leaves nothing outstanding.

`DedupPendingProofs`:

* `TypeCorrect` states `TypeOK`, whatever fails. `RecordedHashesSurvive` and
  `DrainKeepsItsBuffer` state `NothingLost` and `DrainedBufferStays`, under
  `Survivable`: the failures "sorted" and "savePending" are excluded. Both really
  lose entries (section 7); every other failure is allowed, any number of times.
  `NothingLost` says exactly which hashes a recorded one may be missing with: those
  in `dropped`, which enter it only where `pending_insert` or the drain gives an
  entry up.
* The argument: `NothingLost` alone is not inductive, because a buffer is
  dropped or replaced when the drain believes itself finished. `DrainSound`
  says that what the drain has extracted is in the draining buffer and what it
  counts as inserted is in the trees, `BuffersSound` that a buffer with entries
  exists and has a sector size, and `LifeSound` that the buffers in memory are
  used only while mounted and warmed up, so that until then the saved extent
  still holds everything.
* `SectorsStoredOnce` states `StoredOnce`, for one sector size, a key set with room
  for every hash, no failure to save it, and none of the failures that leave a
  stored sector without a key or an entry (`NoOrphans`). `KeysSound` follows the keys of stored
  hashes through a mount: in the saved key set until it is loaded, in memory from
  then on. A scan of the trees happens only when there is no saved key set, and
  then nothing is stored yet, so an interrupted scan does no harm.

`BlockAllocatorProofs`:

* `TypeCorrect`, `AllocationsDisjoint`, `BitmapIsExact`, `AcceptedWhole` state
  `TypeOK`, `NoDoubleAllocation`, `NothingLeaks` and `AcceptedBitmapIsWhole`.
* The argument: that an allocation gives out only free blocks depends on the
  search, so the inductive invariant `IndInv` says of a search in progress that
  the run it has collected and the free bits it has loaded lie inside the
  volume and outside the bitmap (`SearchSound`). To this it adds that the
  blocks allocated at mount stay allocated, and that an unmounted volume has no
  owners. `NothingLeaks` and the checksum fact (`disk.sum = written`) are
  inductive relative to it.
* `SearchIsFirstFit` states `FirstFit`. `FitInv` relates a search in progress to the
  set of runs that a bit-by-bit search would consider: the bits still to be looked
  at are the free ones ahead of the current run (`Ahead`), the current run is free
  and too short (`CurrentRun`), and no run that is long enough starts before it, nor
  in the first pass when the second has begun (`Excluded`). From this,
  `MissedSpansHint`: when both passes end empty-handed, a free run that is long
  enough can only start before the hint and end behind it. That there is none at
  all, as `bitmap.c:285-286` has it, is false.

`DedupBlocksProofs`:

* `TypeCorrect` states `TypeOK` for any number of writers. With `MaxWriters <= 1`,
  `SectorsReadable`, `SlotsDisjoint` and `BlocksAppendOnly` state
  `MappedSectorsReadable`, `NoSlotShared` and `AppendOnly`.
* The argument: a recorded location is good because the sector is on disk, or in
  the buffer of the background job, or in the dirty buffer of the handle
  (`DiskSound`, `JobSound`, `BufferSound`); each of the latter overwrites its block
  as a whole, so each must hold every sector located in that block, and a handle
  that resumes a partial block relies on the position in the header (`HeaderSound`).

`FileExtentsProofs`, under `Risks = {}`: no write that starts behind the end of a
file, no clone that cuts compression groups, no deletion of a file that shares
blocks, no allocation that fails. TLC has a counterexample for each of them
(section 7).

* `TypesAlwaysKept`, `FilesAlwaysReadBack`, `ReferencesAlwaysCounted` and
  `CompressedAlwaysGroups` state `TypeOK`, `ReadsBack`, `ReferencesCounted` and
  `CompressedAreGroups`; `SizesAlwaysCovered` states `SizeCovered`, and
  `InvariantHolds` is the inductive invariant behind them.
* The invariant: the list of extents that `collect_all_extents` reads for a file
  tiles 0 to its size with extents that are plain or exactly one compressed group;
  inline slots and overflow entries are those of the list, in order; every block
  of it reads as the file's content; and the count of a block is the sum, over
  all files, of the extents that hold it.
* The argument: a call works on one file, so the counts are split into those of
  that file and those of the others, and an operation has to leave the blocks that
  others hold as they were (`Outcome`). Half way through a call the list on its way
  tiles only part of the file; each loop (cut a range out, rewrite groups, append
  groups, truncate, copy a range, free) has an invariant of its own, proved by
  induction over the position reached, which says what the list tiles, on which
  blocks it already reads as it will at the end, and whose references are
  still counted. `write_extent_list` joins neighbours without changing what the
  list covers, reads as or holds, and `collect_all_extents` finds again what it
  stored, because inline extents have no logical start and lie end to end.
* That compressed extents are whole groups is needed for all the rest: it is what
  keeps the fallback of `block.c:2380-2383` from being taken.

`MetaStoreProofs`, under `~LargeBuilds` and `[]TreeActsAsSet`. The first excludes
the index builds of section 7. The second is a hypothesis about the tree and no
theorem here proves it: it is a conjunct of `IndexesSound`, which the `metadata`
run checks in every state. It cannot be had for all volumes, since a full volume
and deletions from trees of several index levels break trees (section 7); where
the tree is sound, nothing above it adds an error.

* `IndexesFollow` states `IndexesSound`. The invariant adds to it that a volume has
  no numbers before the mount that makes its numeric index, that a key has only
  values it takes, and the types of user indexes. The argument: the integer that
  stands for (key, value, inode) determines all three (`EntryDecode`), so no two
  pairs share an entry or a number, and taking out the old value's entry touches
  no other pair; a put that fails half way leaves the pair without entries, in
  `unindexed`; and what the numeric index is built from at mount, or a user index
  at its creation, is exactly the entries of the pairs indexed.
* `QueriesFollow` states `QueryAnswers`, for queries that satisfy `QuerySuited`: their
  numeric filters have ranges that end inside the 64-bit numbers, and take no line
  of a value that is not an integer as a whole. Those are the two cases in which an
  index and the scan it replaces disagree (section 7); the queries of the run
  satisfy it (`SuitedAssumption` in `MCMetaStore`). The argument: each of the three
  ways to answer a filter gives the images that satisfy it, hence so do negations,
  groups and their combination.

`NamesProofs`, under `Orderly` (`Exclusive`, `Alone`, `Careful`, no tags on CD images;
TLC has a counterexample without each of them). `Careful` does not keep obmafsck
from replacing an inode; it ends the use of such a volume, so the invariant proved
is `IndInv \/ Ended`, and `RepairAlwaysKeepsFiles` covers that repair too, with the
one inode it loses (`Overtaken`) excepted by name:

* `CatalogAlwaysSound`, `SizesAlwaysKept`, `RepairAlwaysReconnects` and
  `RepairAlwaysKeepsFiles` state `CatalogSound`, `SizesKept`, `RepairReconnects` and
  `RepairKeepsFiles`; `InvariantHolds` is the inductive invariant behind them.
* The argument: a crash or a failed write leaves the contents between two tree
  writes, so the core of the invariant, `Sound(D)`, is a predicate on contents that
  every single write keeps: `Resolving` (names lead to inodes of the right kind and
  are in directories), `Counted` (no count is below the names) and `Reached` (every
  directory is below the root or below an inode without a name, which obmafsck
  will link again). While nothing has failed it also says that counts are exact
  and tags have owners (`Exact`, `Owned`). Handles hold copies that a later flush
  writes back, so the copies must agree with the contents (`CopiesSound`,
  `HoldersSound`, `PlacesSound`); ids not handed out are unused (`Fresh`); `WantsSound`
  relates the copies to the sizes expected. That a rename makes no cycle is proved
  from the least-set definitions of `Dirs` and `Above`.

`QueryPagesProofs`:

* `EachClientServed` states `ClientsServed`.
* The argument: `TableSound` says that cursors in the table have distinct numbers
  and times of use, `OwnersSound` that the cursor of a client holds its answer and
  that every cursor used later is among those the client has seen go by; when the
  table is full and the oldest one is a client's, the other slots and the new cursor
  give `MaxCursors` different ones. `OffsetsSound` says that a client which has
  missed nothing asks where its last page ended.
* That the loop of `resolve_page` returns the ids asked for, when all of them have
  paths, and that a finite set of inode numbers can be put in order, are proved by
  induction over positions (`UpFrom`, from the well-foundedness of the naturals).

## 6. What is only model-checked

* Liveness (`SubmissionsComplete`, `DestroyJoinsWorkers`, `EventuallyDrained`,
  `CloseCompletes`, `SearchEnds`, `QueriesEnd`, `Terminates`): the prover does not
  do fairness.
* The trees, with their refinement of `KeyMap` (`TreeSound`, `BesideTree`,
  `ActsAsMap`, and `TreeActsAsSet` of the reverse index), and `Defrag` (`VolumeSound`,
  `FilesKept`, `ImagesReadable`, `Packed`). They compute with folds and recursive
  operators over sequences. The induction theorems of the library take an
  operator as a parameter, which the provers cannot instantiate; the set form of
  `QueryPagesProofs` and `FileExtentsProofs` gets round that for recursive functions
  written in a module, not for the operators of the library, nor for `RECURSIVE`
  ones.
* The aggregates of metadata (`AggregatesAgree`, the second half of `AnswersRight`):
  DISTINCT, GROUP BY and the statistics fold over the scan as a sequence, and count
  entries, so they need the order of the leaves and not only the set of keys.

## 7. Findings

`extents_delete_shared` (`inode.c:746`) is kept as a violation run: deleting a file
frees its inline extents although a clone still uses them. `PROJECT.json` quotes
the line of the repository that says otherwise.

### Known divergences with a configuration of their own

Each is found by TLC with the configuration named, which is not part of the
regular runs because it ends with a violation. A configuration named twice
checks two properties: run it with `-continue` to see both.

* `MCPoolSecondBatch.cfg`, `SubmitReturns` (`block.c:382`): `next` is reset before
  `done`, outside the mutex; a worker late from the previous batch that claims and
  counts a job between the two stores has its count overwritten, and the
  submitter waits for ever with `tree_lock` held.
* `MCPoolGrowingBatch.cfg`, `SubmitWaitsForCompletion` (`block.c:379`): a worker
  late from one batch claims a job of a longer one with its old index, and submit
  may return with a job not compressed. A batch that is not longer than the one
  before cannot go wrong in this way.
* `MCPendingTwoSizes.cfg`, `BoundToOneSize` (`dedup_persist.c:309`): close writes
  buffers of two sector sizes into one extent under one size.
* `MCBlocksTwoWriters.cfg`, `AppendOnly` (`dedup_write.c:242`): two handles append
  to the same partial dedup block at the same offset.
* `MCExtentsGap.cfg`, `SizeCovered` (`block.c:2198`): a write behind the end of a
  file leaves blocks that no extent covers, and the data is found in the wrong
  place.
* `MCTreesRemount.cfg`, `ActsAsMap` (`sector_tag.c:356`): a split of a sector tag
  tree whose parent has room returns without writing the header, so a node taken
  from the chain of free nodes is still in the chain on disk. After a clean
  unmount and mount it is handed out again and a leaf in use is overwritten.
* `MCMetadataLists.cfg`, `QueryAnswers` (`metadata.c:2700`): a numeric filter over
  a value that is a list of lines is answered by the index for whole values, and
  the lines after the first are never compared, as a scan would.
* `MCQueryRemoved.cfg`, `AllPathsOnce` (`obmafs-query/main.c:1461`): removing an
  image leaves its metadata; the page skips the inode, the client advances by
  the paths it received while the server counts inodes, and a path is printed
  twice.
* `MCAllocAcrossHint.cfg`, `NoSpaceMeansNone` (`bitmap.c:285`): each pass of the
  search starts a fresh run, so a free run that spans the hint is found by
  neither, and the volume is reported full ("OBMAFS3_ERR_NOSPC if no sufficiently
  large run exists").
* `MCTreesLosses.cfg`, `ExternalExact` (`media_tag.c:941-953`): a put of a long
  media tag that fails in the tree leaves the external blocks it has allocated
  without an owner; one that fails to allocate them has freed those of the old
  value, which the record in the tree still names.
* `MCTreesLosses.cfg`, `ActsAsMap` (`sector_tag.c:721-772`, `1138-1164`): a split of
  a sector tag tree does not correct the left link of the right neighbour, and
  the unlinking of a leaf goes through it and drops a live leaf from the chain.
  After that `obmafs3_sector_tag_delete_all`, which follows the chain, leaves tags
  behind and answers OK (nothing in the repository calls it yet). `Chained` keeps
  scans of that tree after a deletion out of the `trees` run.
* `MCNamesRepair.cfg`, `RepairKeepsAll` (`fsck_crosscheck.c:403`): after a crash
  `next_inode_id` on disk is stale, and obmafsck creates lost+found with it
  before it corrects it: the new directory takes the number of a file and
  overwrites its inode.
* `MCNamesRepair.cfg`, `OrphansDeleted`: `fsck_crosscheck.c:311-312` ("Fixed by
  deleting the inode") and `DESIGN.md:1764` ("offer to delete them") against the code,
  which asks "Re-link orphan inodes into lost+found?" and does that.
  `RepairKeepsFiles` states what the code does.
* `MCDefragLosses.cfg`, `AllocatedOnce` (`defrag_compact.c:1217-1232`): the block
  being filled keeps all its blocks allocated (`DESIGN.md:1336`), and the analysis
  types them all "so defrag moves them all together" (`defrag_analysis.c:757-761`).
  The move goes by the block header, so when the block moves, the blocks not yet
  written are taken for a fragment and freed; the next mount resumes the block
  and writes to them, whoever owns them by then. The comment at
  `defrag_compact.c:1210-1216` announces an extension of the run that the code
  does not make. In the `defrag` run the block being filled is full, or half
  written and in place.
* `MCDefragLosses.cfg`, `FilesKept` (`defrag_compact.c:1303`): a compressed
  file that does not fit into the hole before it stays; when a dedup block is
  then moved into that hole, the file's blocks are taken for a dedup block, moved
  away without the inode being told, freed and overwritten
  (`defrag_compact.c:354`: "BT_USED belongs to other inodes and must NOT be
  overwritten"). A file without a block header in the same place makes the loop
  stand still (`defrag_compact.c:1335`).

### Other known divergences

Of the dedup write path and the allocator:

* `DedupPending` with "sorted" among `FaultKinds`: when the array for sorting
  cannot be allocated the drain takes the buffer for empty and discards it
  (`dedup_housekeeping.c:369-370`).
* "grow" and "badmagic": both give an entry up while its sector is stored and
  mapped (`dedup_cache.c:972-975`, `dedup_housekeeping.c:244-254`). The comment that
  "the hash will be re-inserted when the sector is next written" holds only once
  the entry has left the draining buffer: until then a write of the sector finds
  it there and records nothing.
* An unmount with nothing pending leaves the extent of the previous mount in
  the superblock (`dedup_cache.c:1408`, `dedup_persist.c:331`), so the next mount
  restores entries that are already in a tree. They are inserted again, which
  changes nothing, so no property of the model is broken.
* When the key set could not be saved, the next warmup scans the trees; if
  shutdown interrupts the scan, the incomplete key set is persisted as if it were
  complete. A key set at its capacity evicts keys. In both cases a known sector
  may be stored a second time (`SectorsStoredOnce` excludes them).
* Neither allocation nor free writes the bitmap, although the comment at
  `btree.c:194-196` reads as if they did; `BlockAllocator` models the write as
  an action of its own.

Of file data:

* `FileExtents` with "cut" among `Risks`: a clone whose source and destination
  differ in their position within a group shares a compressed extent at a place
  where it is not a group. Rewriting one of the groups it crosses frees it as a
  whole (`block.c:2380-2383`, "shouldn't happen by design"), and the blocks of
  the other group are lost.
* `FileExtents` with "full" among `Risks`: a group's old blocks are freed before
  the new ones are allocated; when the allocation fails the extent list still
  names the freed blocks.

Of the trees:

* When the volume is full at the moment an index node must be split or a new
  root made, the leaf below has already been split and its upper half is out of
  reach. The guard `Room` keeps this out of the `trees` run.
* An index node below the root that loses its last leaf keeps its stale first
  entry, and a later lookup follows it to a freed leaf; a separator raised by a
  deletion can hide a key in a tree of three index levels. `MaxDeleteLevels` keeps
  deletions to lower trees.
* Deletion writes the header before it pushes the freed node, which is lost
  after a remount. A junk region stored again after all regions of
  the file were deleted can be hidden by stale separators.

Of metadata:

* With `LargeBuilds`, a user index for a key whose entries span leaves is built
  from the last leaf only, and `IndexesAgree` is violated (`user_index.c:305`).
* Numeric filters at INT64_MAX and INT64_MIN saturate; results of numeric index
  writes are ignored; dropping a user index leaks its nodes.

Of names and obmafsck:

* With `Exclusive` false, a handle's copy of an inode is written back over a link
  count changed by path, and a name may lose its inode (`fuse_write.c:290-296`);
  modes, times and sizes set by path, or through a second handle, are lost in the
  same way. The comment at `fuse_write.c:290` leaves wrong counts to fsck, which
  never repairs `ref_count`.
* With `Alone` false, the sidecar of a CD image is looked up and created without
  `tree_lock` (`fuse_ioctl.c:233`), and `catalog_insert` does not refuse a
  duplicate. The lookup adopts any file of that name.
* A rename whose insert fails has already deleted the old entry. Mounting after
  a crash without obmafsck reuses inode ids. Tags of CD images and metadata of
  any image are not removed with the file. The search for
  a directory's parent queues at most 256 directories.

Of the defragmenter (read in the code; the layouts of the `defrag` run leave them
out):

* A second run on a volume with a tree list finds the list in place and does not
  step over it (`defrag_compact.c:2966`): the first header is written onto it.
* After a fragment `find_free_range` returns the place behind it unchecked. An entry
  whose dedup block was never written keeps its LBA although the place is given
  up as a fragment; there is nothing to read there, but a later block may be put
  in it.
* When no room is left at the end of the disk, a dedup block in the way of a file
  is overwritten; data of files, and headers of empty trees, in the area of the
  trees are overwritten too ("handled by Phase 2").
* A cancelled run does not update sector maps (`update_sme_refs` returns at once),
  against "Always update dedup references ... even on early cancellation"
  (`defrag_compact.c:3285`); cancelling before phase 3 jumps over the
  initialisation of what phase 4 reads.
* A failure while a tree is relocated is reported as success and the superblock
  keeps the old headers. Numeric and user indexes, sector tag trees and the keys
  of the reference counts are not updated for what moved.
* Leaves, bitmap and superblock are rewritten in place, so the run is not safe
  against a crash, whatever the header comment says.

## 8. What is not modelled

Bit-level code (checksums, AES, SHA-1, ECC, the Nintendo and PS3 ciphers) has no
control state, and a model would be a transliteration. The importers are
straight-line drivers, and so are the parsing and printing of the query tool.
Vendored LZMA is third-party. Within the modelled parts: I/O errors of single
block reads and writes are left out except where a failure kind names them;
`FileExtents` gives each file one handle, and `Names` has the handles with their
inode copies but no blocks; the node cache of the dedup trees
(`dedup_cache.c` 132-660) is transparent in `DedupTree`, although its warmup
reads slots without the lock that guards them; the two superblock copies and
format; the passes of obmafsck over bitmap, trees and data; in `Defrag` the trees
without LBAs in their records, nodes of several blocks, CD subchannel trees, I/O
errors and cancellation before phase 3; the fork re-initialisation of the pool,
which only creates it anew.
