------------------------- MODULE DedupPendingProofs -------------------------
(***************************************************************************)
(* No hash a write has recorded is lost on its way to the dedup tree, for  *)
(* every set of hashes, batch size and number of mounts and faults, as     *)
(* long as the drain can allocate its sort array and unmount can save the  *)
(* pending buffers, and except for the entries the code gives up: those of *)
(* a buffer that cannot grow and of corrupted paths.  (TLC refutes the     *)
(* property without the first condition: the drain discards the buffer it  *)
(* could not sort.)                                                        *)
(*                                                                         *)
(* NothingLost alone is not inductive.  HkFinish throws the draining       *)
(* buffer away, so the invariant must say that what the drain extracted is *)
(* the whole of that buffer and that what it counts as inserted is in a    *)
(* tree or was given up; a warmup replaces the pending buffer, so there must not be one yet; and   *)
(* an entry can only be put into the tree of its buffer's sector size if   *)
(* that size is set.                                                       *)
(***************************************************************************)
EXTENDS DedupPending, FiniteSetTheorems, TLAPS

(* The faults that NothingLost survives. *)
Survivable == "sorted" \notin FaultKinds /\ "savePending" \notin FaultKinds

Sound(b) == b.entries # {} => b.live /\ b.size \in Sizes

BuffersSound == Sound(pending) /\ Sound(draining) /\ Sound(saved)

(* What the drain works on, and what it has done so far. *)
DrainSound ==
    /\ hk.pc \in {"extract", "batch", "finish"} => draining.live
    /\ hk.pc \in {"batch", "finish"} =>
          /\ draining.entries = hk.extracted
          /\ hk.inserted \subseteq hk.extracted \cap (InTrees \cup dropped)

(* Before the warmup is done and after unmount there are no buffers. *)
LifeSound ==
    /\ warm # "done" => pending = NoBuf /\ draining = NoBuf /\ hk.pc = "check"
    /\ mount = "closed" => pending = NoBuf /\ draining = NoBuf /\ hk.pc = "exited"

IndInv == TypeOK /\ BuffersSound /\ DrainSound /\ LifeSound /\ NothingLost

(* An insertion adds to the trees and takes nothing away. *)
LEMMA InsertGrows ==
  ASSUME TypeOK, NEW s \in Sizes, NEW S \in SUBSET Hashes, tree' = InsertInto(tree, s, S)
  PROVE  tree' \in [Sizes -> SUBSET Hashes] /\ InTrees \subseteq InTrees' /\ S \subseteq InTrees'
<1>1. \A t \in Sizes : tree'[t] = IF t = s THEN tree[t] \cup S ELSE tree[t]
  BY DEF TypeOK, InsertInto
<1>2. Sizes' = Sizes
  BY DEF Sizes
<1>3. tree' \in [Sizes -> SUBSET Hashes]
  BY DEF TypeOK, InsertInto
<1>4. \A t \in Sizes : tree[t] \subseteq tree'[t]
  BY <1>1
<1>5. S \subseteq tree'[s]
  BY <1>1
<1> QED
  BY <1>2, <1>3, <1>4, <1>5 DEF InTrees

(* Unchanged trees hold the same hashes. *)
LEMMA SameTrees ==
  ASSUME UNCHANGED tree
  PROVE  InTrees' = InTrees
BY DEF InTrees, Sizes

(* The hashes of a tree are among those in the trees. *)
LEMMA TreeInTrees ==
  ASSUME NEW h \in Hashes
  PROVE  SizeOf[h] \in Sizes /\ tree[SizeOf[h]] \subseteq InTrees
BY DEF Sizes, InTrees

(* The first mount has nothing to lose. *)
LEMMA InitIndInv == Init => IndInv
<1> SUFFICES ASSUME Init PROVE IndInv
  OBVIOUS
<1>1. NoBuf \in Buffers
  BY DEF NoBuf, Buffers
<1>2. TypeOK
  BY <1>1, PendingAssumption DEF Init, TypeOK, HkStart, HkStates
<1> QED
  BY <1>2 DEF Init, IndInv, BuffersSound, Sound, DrainSound, LifeSound, NothingLost, NoBuf, HkStart

(* A new entry binds an unbound buffer to its sector size. *)
LEMMA BufferedSound ==
  ASSUME NEW b \in Buffers, NEW h \in Hashes
  PROVE  /\ Buffered(b, h) \in Buffers
         /\ Buffered(b, h).live = b.live /\ Buffered(b, h).size \in Sizes
         /\ Buffered(b, h).entries = b.entries \cup {h}
<1>1. SizeOf[h] \in Sizes
  BY DEF Sizes
<1> QED
  BY <1>1 DEF Buffered, Buffers

(* A fresh buffer is empty. *)
LEMMA FreshBufSound ==
  ASSUME NEW s \in Sizes \cup {0}
  PROVE  FreshBuf(s) \in Buffers /\ FreshBuf(s).live /\ FreshBuf(s).entries = {}
BY DEF FreshBuf, Buffers

(* So is the buffer that is not there. *)
LEMMA NoBufSound == NoBuf \in Buffers /\ NoBuf.entries = {} /\ Sound(NoBuf)
BY DEF NoBuf, Buffers, Sound

(* A prefix of a sorted set is a part of it. *)
LEMMA SmallestSubset ==
  ASSUME NEW n, NEW S
  PROVE  Smallest(n, S) \subseteq S /\ \A P \in Prefixes(S) : P \subseteq S
BY DEF Smallest, Prefixes

(* A fault leaves a natural number of faults. *)
LEMMA FaultTyped ==
  ASSUME TypeOK, NEW kind, Fault(kind) \/ NoFault
  PROVE  faults' \in Nat
BY DEF TypeOK, Fault, NoFault

(* A write that finds its hash, or inserts it at once. *)
LEMMA WriteInPlaceKeeps ==
  ASSUME IndInv, NEW h \in Hashes, WriteHit(h) \/ WriteGuardMiss(h) \/ WriteImmediate(h)
  PROVE  IndInv'
<1> USE DEF IndInv
<1>0. /\ UNCHANGED <<pending, draining, saved, savedKeys, lifeVars, hk>> /\ Writable
      /\ UNCHANGED tree \/ tree' = InsertInto(tree, SizeOf[h], {h})
  BY DEF WriteHit, WriteGuardMiss, WriteImmediate, memVars, diskVars
<1>1. SizeOf[h] \in Sizes
  BY TreeInTrees
<1>2. tree' \in [Sizes -> SUBSET Hashes] /\ InTrees \subseteq InTrees'
  BY <1>0, <1>1, InsertGrows, SameTrees DEF TypeOK
<1>3. recorded' \subseteq recorded \cup {h} /\ dropped \ {h} \subseteq dropped' /\ dropped' \subseteq dropped
  BY DEF WriteHit, WriteGuardMiss, WriteImmediate
<1>4. \/ h \in pending.entries \cup draining.entries \cup InTrees'
      \/ UNCHANGED <<recorded, dropped>>
  <2>1. CASE WriteHit(h)
    BY <2>1, <1>2, TreeInTrees DEF WriteHit, Located
  <2>2. CASE WriteGuardMiss(h)
    BY <2>2, <1>1, InsertGrows DEF WriteGuardMiss
  <2>3. CASE WriteImmediate(h)
    <3>1. CASE h \in tree[SizeOf[h]]
      BY <3>1, <1>2, TreeInTrees
    <3>2. CASE h \notin tree[SizeOf[h]]
      BY <3>2, <2>3, <1>1, InsertGrows DEF WriteImmediate
    <3> QED
      BY <3>1, <3>2
  <2> QED
    BY <2>1, <2>2, <2>3
<1>5. TypeOK'
  <2>1. copies' \in [Hashes -> Nat]
    BY DEF WriteHit, WriteGuardMiss, WriteImmediate, StoreSector, TypeOK
  <2>2. keyset' \subseteq Hashes /\ faults' \in Nat
    BY DEF WriteHit, WriteGuardMiss, WriteImmediate, TypeOK, Fault, NoFault, memVars, KeysetInsert
  <2> QED
    BY <1>0, <1>2, <1>3, <2>1, <2>2 DEF TypeOK, lifeVars
<1>6. BuffersSound' /\ LifeSound'
  BY <1>0 DEF BuffersSound, Sound, LifeSound, lifeVars
<1>7. DrainSound'
  <2>1. h \in draining.entries => UNCHANGED dropped
    BY DEF WriteHit, WriteGuardMiss, WriteImmediate, Known
  <2> QED
    BY <1>0, <1>2, <1>3, <2>1 DEF DrainSound
<1>8. NothingLost'
  BY <1>0, <1>2, <1>3, <1>4 DEF NothingLost, Restorable, lifeVars
<1> QED
  BY <1>5, <1>6, <1>7, <1>8

(* A write that defers its insertion. *)
LEMMA WriteMissKeeps ==
  ASSUME IndInv, NEW h \in Hashes, WriteMiss(h)
  PROVE  IndInv'
<1> USE DEF IndInv
<1>0. /\ UNCHANGED <<saved, savedKeys, lifeVars, hk>> /\ Writable /\ pending.live
      /\ recorded' = recorded \cup {h} /\ keyset' \subseteq keyset \cup {h}
      /\ copies' = [copies EXCEPT ![h] = @ + 1]
      /\ dropped \ {h} \subseteq dropped' /\ dropped' \subseteq dropped \cup {h} /\ ~Known(h)
  BY DEF WriteMiss, StoreSector, KeysetInsert
<1>1. SizeChanged(h) => pending.size \in Sizes
  BY DEF SizeChanged, TypeOK, Buffers
<1>2. /\ FreshBuf(0) \in Buffers /\ FreshBuf(0).live /\ FreshBuf(0).entries = {}
  BY FreshBufSound
<1>3. pending \in Buffers /\ draining \in Buffers
  BY DEF TypeOK
<1>4. /\ pending' \in Buffers /\ pending'.live /\ pending'.size \in Sizes
      /\ h \in pending'.entries \cup dropped'
  <2>1. \/ pending' = Buffered(FreshBuf(0), h)
        \/ pending' = Buffered(pending, h)
        \/ pending' = pending /\ pending.entries # {} /\ h \in dropped'
    BY DEF WriteMiss, HandOff, FlushOldSize, InsertPending, DropPending
  <2> QED
    BY <1>0, <1>2, <1>3, <2>1, BufferedSound DEF BuffersSound, Sound
<1>5. /\ tree' \in [Sizes -> SUBSET Hashes] /\ InTrees \subseteq InTrees'
      /\ pending.entries \subseteq pending'.entries \cup draining'.entries \cup InTrees'
      /\ UNCHANGED draining \/ (draining' = pending /\ ~draining.live)
      /\ faults' \in Nat
  <2>1. CASE HandOff(h)
    BY <2>1, SameTrees DEF HandOff, TypeOK, NoFault
  <2>2. CASE FlushOldSize(h)
    <3>1. draining' = draining /\ faults' \in Nat
      BY <2>2 DEF FlushOldSize, TypeOK, Fault, NoFault
    <3>2. CASE tree' = InsertInto(tree, pending.size, pending.entries)
      BY <2>2, <1>1, <1>3, <3>1, <3>2, InsertGrows DEF FlushOldSize, Buffers
    <3>3. CASE /\ pending' = Buffered(pending, h)
               /\ \E P \in Prefixes(pending.entries) \ {pending.entries} :
                     tree' = InsertInto(tree, pending.size, P)
      <4>1. PICK P \in Prefixes(pending.entries) : tree' = InsertInto(tree, pending.size, P)
        BY <3>3
      <4>2. P \in SUBSET Hashes
        <5>1. \A Q \in Prefixes(pending.entries) : Q \subseteq pending.entries
          BY SmallestSubset
        <5>2. pending.entries \subseteq Hashes
          BY <1>3 DEF Buffers
        <5> QED
          BY <4>1, <5>1, <5>2
      <4>3. pending.size \in Sizes
        BY <2>2, <1>1 DEF FlushOldSize
      <4>4. tree' \in [Sizes -> SUBSET Hashes] /\ InTrees \subseteq InTrees'
        BY <4>1, <4>2, <4>3, InsertGrows
      <4> QED
        BY <3>1, <3>3, <4>4, <1>3, BufferedSound
    <3> QED
      BY <2>2, <3>2, <3>3 DEF FlushOldSize
  <2>3. CASE /\ pending' = Buffered(pending, h)
             /\ UNCHANGED <<draining, tree>> /\ NoFault
    BY <2>3, <1>3, SameTrees, BufferedSound DEF TypeOK, NoFault
  <2>4. CASE DropPending(h)
    BY <2>4, SameTrees DEF DropPending, TypeOK, Fault
  <2> QED
    BY <2>1, <2>2, <2>3, <2>4 DEF WriteMiss, InsertPending
<1>6. TypeOK'
  BY <1>0, <1>3, <1>4, <1>5 DEF TypeOK, lifeVars
<1>7. BuffersSound' /\ LifeSound'
  BY <1>0, <1>4, <1>5 DEF BuffersSound, Sound, LifeSound, lifeVars, Writable
<1>8. DrainSound'
  BY <1>0, <1>5 DEF DrainSound, Known
<1>9. draining.entries \subseteq draining'.entries
  BY <1>5 DEF BuffersSound, Sound
<1>10. NothingLost'
  BY <1>0, <1>4, <1>5, <1>9 DEF NothingLost, Restorable, lifeVars
<1> QED
  BY <1>6, <1>7, <1>8, <1>10

(* The swap: the active buffer moves to the free draining slot. *)
LEMMA HkCheckKeeps ==
  ASSUME IndInv, HkCheck
  PROVE  IndInv'
<1> USE DEF IndInv
<1>0. /\ UNCHANGED <<keyset, diskVars, lifeVars, ghosts>> /\ hk' = [hk EXCEPT !.pc = "extract"]
      /\ warm = "done" /\ ~Stopping /\ hk.pc = "check"
  BY DEF HkCheck
<1>1. InTrees' = InTrees
  BY <1>0, SameTrees DEF diskVars
<1>2. CASE /\ draining' = pending /\ ~draining.live /\ pending.live
           /\ pending' = FreshBuf(pending.size) \/ pending' = NoBuf
  <2>1. pending' \in Buffers /\ pending'.entries = {}
    <3>1. pending.size \in Sizes \cup {0}
      BY DEF TypeOK, Buffers
    <3> QED
      BY <1>2, <3>1, FreshBufSound, NoBufSound
  <2>2. TypeOK'
    <3>1. hk' \in HkStates
      BY <1>0 DEF TypeOK, HkStates
    <3>2. faults' \in Nat
      BY DEF HkCheck, Fault, NoFault, TypeOK
    <3> QED
      BY <1>0, <1>2, <2>1, <3>1, <3>2 DEF TypeOK, diskVars, lifeVars, ghosts
  <2>3. BuffersSound' /\ DrainSound'
    BY <1>0, <1>2, <2>1 DEF BuffersSound, Sound, DrainSound, TypeOK, HkStates, diskVars
  <2>4. mount # "closed"
    BY <1>2 DEF LifeSound, NoBuf
  <2>5. LifeSound' /\ NothingLost'
    BY <1>0, <1>1, <1>2, <2>1, <2>4 DEF LifeSound, NothingLost, Restorable, BuffersSound, Sound,
       diskVars, lifeVars, ghosts
  <2> QED
    BY <2>2, <2>3, <2>5
<1>3. CASE draining.live /\ UNCHANGED <<pending, draining, faults>>
  <2>1. TypeOK'
    <3>1. hk' \in HkStates
      BY <1>0 DEF TypeOK, HkStates
    <3> QED
      BY <1>0, <1>3, <3>1 DEF TypeOK, diskVars, lifeVars, ghosts
  <2>2. BuffersSound' /\ DrainSound'
    BY <1>0, <1>3 DEF BuffersSound, Sound, DrainSound, TypeOK, HkStates, diskVars
  <2>3. mount # "closed"
    BY <1>3 DEF LifeSound, NoBuf
  <2>4. LifeSound' /\ NothingLost'
    BY <1>0, <1>1, <1>3, <2>3 DEF LifeSound, NothingLost, Restorable, diskVars, lifeVars, ghosts
  <2> QED
    BY <2>1, <2>2, <2>4
<1> QED
  BY <1>2, <1>3 DEF HkCheck, DrainSlotFree

(* The steps of the drain that touch neither buffers nor trees.  Without    *)
(* the sort array the buffer would be taken for empty.                      *)
LEMMA HkMoveKeeps ==
  ASSUME IndInv, Survivable, HkExtract \/ HkBatchesDone \/ HkExit
  PROVE  IndInv'
<1> USE DEF IndInv
<1>0. UNCHANGED <<memVars, diskVars, lifeVars, ghosts>>
  BY DEF HkExtract, HkBatchesDone, HkExit
<1>1. InTrees' = InTrees
  BY <1>0, SameTrees DEF diskVars
<1>2. hk' \in HkStates /\ faults' \in Nat
  <2>1. hk \in HkStates /\ draining.entries \subseteq Hashes
    BY DEF TypeOK, Buffers
  <2>2. faults' \in Nat
    BY DEF HkExtract, HkBatchesDone, HkExit, TypeOK, Fault, NoFault
  <2>3. CASE HkExtract
    BY <2>1, <2>2, <2>3 DEF HkExtract, HkStates
  <2>4. CASE HkBatchesDone
    BY <2>1, <2>2, <2>4 DEF HkBatchesDone, HkStates
  <2>5. CASE HkExit
    BY <2>1, <2>2, <2>5 DEF HkExit, HkStates
  <2> QED
    BY <2>3, <2>4, <2>5
<1>3. TypeOK'
  BY <1>0, <1>2 DEF TypeOK, memVars, diskVars, lifeVars, ghosts
<1>4. BuffersSound' /\ NothingLost'
  BY <1>0, <1>1 DEF BuffersSound, Sound, NothingLost, Restorable, memVars, diskVars, lifeVars, ghosts
<1>5. warm = "done" /\ mount # "closed"
  BY DEF LifeSound, HkExtract, HkBatchesDone, HkExit, Stopping
<1>6. LifeSound'
  BY <1>0, <1>5 DEF LifeSound, lifeVars, memVars
<1>7. DrainSound'
  <2>1. CASE HkExtract
    <3>1. \/ hk' = [hk EXCEPT !.pc = "exited"]
          \/ hk' = [hk EXCEPT !.pc = "batch", !.inserted = {}, !.extracted = draining.entries]
      BY <2>1 DEF HkExtract, Survivable, Fault
    <3> QED
      BY <2>1, <3>1, <1>0 DEF HkExtract, DrainSound, TypeOK, HkStates, memVars
  <2>2. CASE HkBatchesDone
    BY <2>2, <1>0, <1>1 DEF HkBatchesDone, DrainSound, TypeOK, HkStates, memVars, ghosts
  <2>3. CASE HkExit
    BY <2>3, <1>0 DEF HkExit, DrainSound, TypeOK, HkStates, memVars
  <2> QED
    BY <2>1, <2>2, <2>3
<1> QED
  BY <1>3, <1>4, <1>6, <1>7

(* One batch. *)
LEMMA HkBatchKeeps ==
  ASSUME IndInv, HkBatch
  PROVE  IndInv'
<1> USE DEF IndInv
<1> DEFINE batch == Smallest(BatchSize, Remaining)
<1>0. /\ UNCHANGED <<memVars, saved, savedKeys, lifeVars, copies, recorded>> /\ hk.pc = "batch"
      /\ Remaining # {}
  BY DEF HkBatch
<1>1. batch \subseteq Remaining /\ \A P \in Prefixes(batch) : P \subseteq batch
  BY SmallestSubset
<1> HIDE DEF batch
<1>2. /\ hk.extracted \subseteq Hashes /\ draining.entries = hk.extracted
      /\ hk.inserted \subseteq hk.extracted \cap (InTrees \cup dropped)
  BY <1>0 DEF TypeOK, HkStates, DrainSound
<1>3. draining.size \in Sizes
  BY <1>0, <1>2 DEF BuffersSound, Sound, Remaining
<1>4. batch \in SUBSET Hashes
  BY <1>1, <1>2 DEF Remaining
<1>5. /\ tree' \in [Sizes -> SUBSET Hashes] /\ InTrees \subseteq InTrees'
      /\ \/ /\ hk' = [hk EXCEPT !.inserted = @ \cup batch]
            /\ batch \subseteq InTrees' \cup dropped'
         \/ hk' = [hk EXCEPT !.pc = "finish"]
      /\ dropped \subseteq dropped' \cup InTrees' /\ dropped' \subseteq dropped \cup batch
      /\ faults' \in Nat
  <2>1. ASSUME NEW skipped \in SUBSET batch,
               tree' = InsertInto(tree, draining.size, batch \ skipped),
               dropped' = (dropped \ batch) \cup skipped,
               hk' = [hk EXCEPT !.inserted = @ \cup batch],
               IF skipped = {} THEN NoFault ELSE Fault("badmagic")
        PROVE  <1>5!:
    <3>1. batch \ skipped \in SUBSET Hashes
      BY <1>4
    <3>2. /\ tree' \in [Sizes -> SUBSET Hashes] /\ InTrees \subseteq InTrees'
          /\ batch \ skipped \subseteq InTrees'
      BY <2>1, <3>1, <1>3, InsertGrows
    <3>3. faults' \in Nat
      BY <2>1 DEF TypeOK, NoFault, Fault
    <3> QED
      BY <2>1, <3>2, <3>3
  <2>2. CASE /\ \E P \in Prefixes(batch) \ {batch} : tree' = InsertInto(tree, draining.size, P)
             /\ hk' = [hk EXCEPT !.pc = "finish"] /\ UNCHANGED dropped /\ Fault("tree")
    <3>1. PICK P \in Prefixes(batch) : tree' = InsertInto(tree, draining.size, P)
      BY <2>2
    <3>2. P \in SUBSET Hashes
      BY <1>1, <1>4
    <3> QED
      BY <2>2, <3>1, <3>2, <1>3, InsertGrows DEF TypeOK, Fault
  <2> QED
    BY <2>1, <2>2 DEF HkBatch, batch
<1>6. TypeOK'
  <2>1. hk' \in HkStates
    BY <1>4, <1>5 DEF TypeOK, HkStates
  <2>2. dropped' \subseteq Hashes
    BY <1>4, <1>5 DEF TypeOK
  <2> QED
    BY <1>0, <1>5, <2>1, <2>2 DEF TypeOK, memVars, lifeVars
<1>7. DrainSound'
  <2>1. hk.inserted \cup batch \subseteq hk.extracted
    BY <1>1, <1>2 DEF Remaining
  <2> QED
    BY <1>0, <1>2, <1>5, <2>1 DEF DrainSound, TypeOK, HkStates, memVars
<1>8. BuffersSound' /\ LifeSound'
  BY <1>0, <1>5 DEF BuffersSound, Sound, LifeSound, memVars, lifeVars
<1>9. NothingLost'
  BY <1>0, <1>5 DEF NothingLost, Restorable, memVars, lifeVars
<1> QED
  BY <1>6, <1>7, <1>8, <1>9

(* The draining buffer goes only when a tree has all of it that was not     *)
(* given up.                                                                *)
LEMMA HkFinishKeeps ==
  ASSUME IndInv, HkFinish
  PROVE  IndInv'
<1> USE DEF IndInv
<1>0. /\ UNCHANGED <<pending, keyset, diskVars, lifeVars, ghosts>> /\ hk.pc = "finish"
      /\ hk' = [hk EXCEPT !.pc = "check", !.failed = ~DrainComplete]
  BY DEF HkFinish
<1>1. InTrees' = InTrees
  BY <1>0, SameTrees DEF diskVars
<1>2. /\ draining.entries = hk.extracted /\ hk.inserted \subseteq InTrees \cup dropped /\ draining.live
      /\ draining \in Buffers
  BY <1>0 DEF DrainSound, TypeOK
<1>3. /\ draining' \in Buffers /\ Sound(draining)'
      /\ draining.entries \subseteq draining'.entries \cup InTrees \cup dropped
      /\ faults' \in Nat
  <2>1. CASE DrainComplete
    <3>1. draining' = NoBuf /\ faults' = faults
      BY <2>1 DEF HkFinish, NoFault
    <3>2. draining.entries \subseteq InTrees \cup dropped
      BY <2>1, <1>2 DEF DrainComplete
    <3>3. draining' \in Buffers /\ Sound(draining)'
      BY <3>1, NoBufSound DEF Sound
    <3> QED
      BY <3>1, <3>2, <3>3 DEF TypeOK
  <2>2. CASE ~DrainComplete /\ draining' = Trimmed /\ NoFault
    <3>1. draining'.live = draining.live /\ draining'.size = draining.size
          /\ draining'.entries = hk.extracted \ hk.inserted /\ draining' \in Buffers
      BY <2>2, <1>2 DEF Trimmed, Remaining, Buffers
    <3> QED
      BY <3>1, <2>2, <1>2 DEF Sound, BuffersSound, NoFault, TypeOK
  <2>3. CASE ~DrainComplete /\ UNCHANGED draining /\ Fault("trim")
    BY <2>3, <1>2 DEF Sound, BuffersSound, Fault, TypeOK
  <2> QED
    BY <2>1, <2>2, <2>3 DEF HkFinish
<1>4. hk' \in HkStates
  <2>1. DrainComplete \in BOOLEAN
    BY DEF DrainComplete
  <2> QED
    BY <1>0, <2>1 DEF TypeOK, HkStates
<1>5. TypeOK'
  BY <1>0, <1>3, <1>4 DEF TypeOK, diskVars, lifeVars, ghosts
<1>6. DrainSound' /\ BuffersSound'
  BY <1>0, <1>3, <1>4 DEF DrainSound, BuffersSound, Sound, TypeOK, HkStates, diskVars
<1>7. warm = "done" /\ mount # "closed"
  BY <1>0 DEF LifeSound
<1>8. LifeSound' /\ NothingLost'
  BY <1>0, <1>1, <1>3, <1>7 DEF LifeSound, NothingLost, Restorable, diskVars, lifeVars, ghosts
<1> QED
  BY <1>5, <1>6, <1>8

(* Warmup fills buffers that are empty until then. *)
LEMMA WarmKeeps ==
  ASSUME IndInv, WarmStep
  PROVE  IndInv'
<1> USE DEF IndInv
<1>0. UNCHANGED <<draining, diskVars, mount, mounts, hk, ghosts, faults>> /\ warm # "done"
  BY DEF WarmStep, WarmLoad, WarmScan, WarmPending
<1>1. InTrees' = InTrees
  BY <1>0, SameTrees DEF diskVars
<1>2. pending = NoBuf /\ draining = NoBuf /\ hk.pc = "check" /\ mount # "closed"
  BY <1>0 DEF LifeSound
<1>3. CASE WarmLoad \/ WarmScan
  <2>1. UNCHANGED pending
    BY <1>3 DEF WarmLoad, WarmScan
  <2>2. keyset' \subseteq Hashes /\ toScan' \subseteq Sizes
    <3>1. CASE WarmLoad
      BY <3>1 DEF WarmLoad, TypeOK, Buffers
    <3>2. CASE WarmScan
      BY <3>2 DEF WarmScan, TypeOK, KeysetInsert
    <3> QED
      BY <1>3, <3>1, <3>2
  <2>3. warm' \in {"scan", "pendingLoaded", "pendingScanned"}
    BY <1>3 DEF WarmLoad, WarmScan
  <2>4. TypeOK'
    BY <1>0, <2>1, <2>2, <2>3 DEF TypeOK, diskVars, ghosts
  <2>5. BuffersSound' /\ LifeSound' /\ DrainSound'
    BY <1>0, <1>1, <1>2, <2>1, <2>3 DEF BuffersSound, Sound, LifeSound, DrainSound, diskVars
  <2>6. NothingLost'
    BY <1>0, <1>1, <1>2, <2>1, <2>3 DEF NothingLost, Restorable, diskVars, ghosts
  <2> QED
    BY <2>4, <2>5, <2>6
<1>4. CASE WarmPending
  <2>1. /\ pending' \in Buffers /\ pending'.entries = saved.entries /\ Sound(pending)'
    <3>1. CASE saved.live
      BY <1>4, <3>1 DEF WarmPending, TypeOK, BuffersSound, Sound
    <3>2. CASE ~saved.live
      BY <1>4, <3>2, FreshBufSound DEF WarmPending, BuffersSound, Sound
    <3> QED
      BY <3>1, <3>2
  <2>2. keyset' \subseteq Hashes /\ warm' = "done" /\ toScan' = toScan
    BY <1>4 DEF WarmPending, KeysetAfterLoad, KeysetInsert, TypeOK, Buffers
  <2>3. TypeOK'
    BY <1>0, <2>1, <2>2 DEF TypeOK, diskVars, ghosts
  <2>4. BuffersSound' /\ LifeSound' /\ DrainSound'
    BY <1>0, <1>2, <2>1, <2>2 DEF BuffersSound, Sound, LifeSound, DrainSound, diskVars
  <2>5. NothingLost'
    BY <1>0, <1>1, <1>2, <2>1, <2>2, NoBufSound DEF NothingLost, Restorable, ghosts
  <2> QED
    BY <2>3, <2>4, <2>5
<1> QED
  BY <1>3, <1>4 DEF WarmStep

(* Unmount saves what is pending; a later mount starts without buffers. *)
LEMMA MountKeeps ==
  ASSUME IndInv, Survivable, BeginClose \/ FinishClose \/ Mount
  PROVE  IndInv'
<1> USE DEF IndInv
<1>0. UNCHANGED <<tree, ghosts>>
  BY DEF BeginClose, FinishClose, Mount, diskVars
<1>1. InTrees' = InTrees
  BY <1>0, SameTrees
<1>2. CASE BeginClose
  <2>1. TypeOK'
    BY <1>2 DEF BeginClose, TypeOK, memVars, diskVars, ghosts
  <2>2. BuffersSound' /\ LifeSound' /\ DrainSound'
    BY <1>1, <1>2 DEF BeginClose, BuffersSound, Sound, LifeSound, DrainSound, memVars, diskVars, ghosts
  <2>3. NothingLost'
    BY <1>1, <1>2 DEF BeginClose, NothingLost, Restorable, memVars, diskVars, ghosts
  <2> QED
    BY <2>1, <2>2, <2>3
<1>3. CASE Mount
  <2>1. TypeOK'
    BY <1>3 DEF Mount, TypeOK, HkStart, HkStates, memVars, diskVars, ghosts
  <2>2. BuffersSound' /\ LifeSound' /\ DrainSound'
    BY <1>1, <1>3 DEF Mount, BuffersSound, Sound, LifeSound, DrainSound, HkStart, memVars, diskVars
  <2>3. NothingLost'
    BY <1>1, <1>3 DEF Mount, NothingLost, Restorable, memVars, diskVars, ghosts
  <2> QED
    BY <2>1, <2>2, <2>3
<1>4. CASE FinishClose
  <2>0. /\ pending' = NoBuf /\ draining' = NoBuf /\ keyset' = {} /\ mount' = "closed"
        /\ hk.pc = "exited" /\ warm = "done" /\ Stopping /\ UNCHANGED <<warm, toScan, mounts, hk>>
    BY <1>4 DEF FinishClose
  <2>1. /\ saved' = IF pending.entries \cup draining.entries = {} THEN saved ELSE SaveBuffers
        /\ savedKeys' \in {NoBuf, [live |-> TRUE, size |-> 0, entries |-> keyset]}
        /\ faults' \in Nat
    BY <1>4 DEF FinishClose, Survivable, TypeOK
  <2>2. /\ saved' \in Buffers /\ Sound(saved)'
        /\ pending.entries \cup draining.entries \subseteq saved'.entries
    <3>1. CASE pending.entries \cup draining.entries = {}
      BY <2>1, <3>1 DEF BuffersSound, Sound, TypeOK
    <3>2. CASE pending.entries \cup draining.entries # {}
      <4>1. pending.size \in Sizes \cup {0} /\ draining.size \in Sizes \cup {0}
            /\ pending.entries \subseteq Hashes /\ draining.entries \subseteq Hashes
        BY DEF TypeOK, Buffers
      <4>2. SaveBuffers \in Buffers
        BY <4>1 DEF SaveBuffers, Buffers
      <4>3. SaveBuffers.size \in Sizes
        BY <3>2, <4>1 DEF SaveBuffers, BuffersSound, Sound
      <4>4. SaveBuffers.live /\ SaveBuffers.entries = pending.entries \cup draining.entries
        BY DEF SaveBuffers
      <4> QED
        BY <2>1, <3>2, <4>2, <4>3, <4>4 DEF Sound
    <3> QED
      BY <3>1, <3>2
  <2>3. savedKeys' \in Buffers
    <3>1. [live |-> TRUE, size |-> 0, entries |-> keyset] \in Buffers
      BY DEF TypeOK, Buffers
    <3> QED
      BY <2>1, <3>1, NoBufSound
  <2>4. TypeOK'
    BY <1>0, <2>0, <2>1, <2>2, <2>3, NoBufSound DEF TypeOK, ghosts
  <2>5. BuffersSound'
    BY <2>0, <2>2, NoBufSound DEF BuffersSound, Sound
  <2>6. LifeSound' /\ DrainSound'
    BY <2>0 DEF LifeSound, DrainSound
  <2>7. NothingLost'
    BY <1>0, <1>1, <2>0, <2>2 DEF NothingLost, Restorable, ghosts, Stopping
  <2> QED
    BY <2>4, <2>5, <2>6, <2>7
<1> QED
  BY <1>2, <1>3, <1>4

(* Every step keeps the invariant. *)
LEMMA NextIndInv == Survivable /\ IndInv /\ [Next]_vars => IndInv'
<1> SUFFICES ASSUME Survivable, IndInv, [Next]_vars PROVE IndInv'
  OBVIOUS
<1>1. ASSUME NEW h \in Hashes, Write(h) PROVE IndInv'
  BY <1>1, WriteInPlaceKeeps, WriteMissKeeps DEF Write
<1>2. CASE HkStep
  BY <1>2, HkCheckKeeps, HkMoveKeeps, HkBatchKeeps, HkFinishKeeps DEF HkStep
<1>3. CASE WarmStep
  BY <1>3, WarmKeeps
<1>4. CASE BeginClose \/ FinishClose \/ Mount
  BY <1>4, MountKeeps
<1>5. CASE UNCHANGED vars
  <2>1. InTrees' = InTrees
    BY <1>5, SameTrees DEF vars, diskVars
  <2> QED
    BY <1>5, <2>1 DEF IndInv, TypeOK, BuffersSound, Sound, DrainSound, LifeSound, NothingLost,
       Restorable, vars, memVars, diskVars, lifeVars, ghosts
<1> QED
  BY <1>1, <1>2, <1>3, <1>4, <1>5 DEF Next

(* If the drain can allocate its sort array and unmount can save the        *)
(* pending buffers, then whatever else fails, every hash that               *)
(* obmafs3_write_media_image_data recorded is in a buffer, in a tree or in  *)
(* the extent that the next warmup loads, unless pending_insert could not   *)
(* grow its buffer for it or the drain skipped it as BADMAGIC and neither a *)
(* write nor a drain has inserted it since.                                 *)
THEOREM RecordedHashesSurvive ==
  ASSUME Survivable
  PROVE  Spec => []NothingLost
<1>1. IndInv => NothingLost
  BY DEF IndInv
<1>2. IndInv /\ [Next]_vars => IndInv'
  BY NextIndInv
<1> QED
  BY <1>1, <1>2, InitIndInv, PTL DEF Spec

(* Under the same condition the housekeeping thread is never left with      *)
(* another buffer than the one it extracted.                                *)
THEOREM DrainKeepsItsBuffer ==
  ASSUME Survivable
  PROVE  Spec => []DrainedBufferStays
<1>1. IndInv => DrainedBufferStays
  BY DEF IndInv, DrainSound, DrainedBufferStays
<1>2. IndInv /\ [Next]_vars => IndInv'
  BY NextIndInv
<1> QED
  BY <1>1, <1>2, InitIndInv, PTL DEF Spec
-----------------------------------------------------------------------------
(* Stored once.  A hash whose data is on disk must be known whenever a      *)
(* write asks, and a known hash must be found: the key set has room for all *)
(* hashes, unmount saves it, and one sector size means one tree.            *)
SingleSize == \A g, h \in Hashes : SizeOf[g] = SizeOf[h]
KeysFit == IsFiniteSet(Hashes) /\ Cardinality(Hashes) <= KeysetCapacity

(* Failures after which a sector is on disk and not in the index. *)
NoOrphans == {"grow", "badmagic", "tree"} \cap FaultKinds = {}

Stored == {h \in Hashes : copies[h] > 0}

(* Nothing is known, buffered or in a tree that was not recorded. *)
Provenance ==
    keyset \cup savedKeys.entries \cup pending.entries \cup draining.entries
        \cup saved.entries \cup InTrees \subseteq recorded

(* Where the keys of the stored hashes are in the life of a mount.  A scan  *)
(* of the trees only happens when nothing was ever stored: its result is    *)
(* saved even when unmount interrupts it.                                   *)
KeysSound ==
    /\ mount # "closed" /\ warm \in {"pendingLoaded", "done"} => Stored \subseteq keyset
    /\ mount = "closed" \/ warm = "load" => Stored \subseteq savedKeys.entries
    /\ mount # "closed" /\ warm \in {"scan", "pendingScanned"} => Stored = {}
    /\ savedKeys.entries # {} => savedKeys.live

OnceInv == StoredOnce /\ Provenance /\ KeysSound /\ dropped = {}

(* An insertion adds nothing but what is inserted, whatever the size. *)
LEMMA InsertBounded ==
  ASSUME tree \in [Sizes -> SUBSET Hashes], NEW s, NEW S \in SUBSET Hashes,
         tree' = InsertInto(tree, s, S)
  PROVE  tree' \in [Sizes -> SUBSET Hashes] /\ InTrees' \subseteq InTrees \cup S
<1>1. \A t \in Sizes : tree'[t] = IF t = s THEN tree[t] \cup S ELSE tree[t]
  BY DEF InsertInto
<1>2. Sizes' = Sizes
  BY DEF Sizes
<1>3. tree' \in [Sizes -> SUBSET Hashes]
  BY DEF InsertInto
<1>4. \A t \in Sizes : tree'[t] \subseteq tree[t] \cup S
  BY <1>1
<1> QED
  BY <1>2, <1>3, <1>4 DEF InTrees

(* With room for every hash the key set forgets nothing. *)
LEMMA KeysetRoom ==
  ASSUME KeysFit, TypeOK, NEW S \in SUBSET Hashes, NEW K \in KeysetInsert(S)
  PROVE  K = keyset \cup S
<1>1. keyset \cup S \in SUBSET Hashes
  BY DEF TypeOK
<1>2. IsFiniteSet(keyset \cup S) /\ Cardinality(keyset \cup S) <= Cardinality(Hashes)
  BY <1>1, FS_Subset DEF KeysFit
<1>3. Cardinality(keyset \cup S) \in Nat /\ Cardinality(Hashes) \in Nat
  BY <1>2, FS_CardinalityType DEF KeysFit
<1>4. KeysetCapacity \in Nat
  BY PendingAssumption
<1>5. Cardinality(keyset \cup S) <= KeysetCapacity
  BY <1>2, <1>3, <1>4 DEF KeysFit
<1> QED
  BY <1>5 DEF KeysetInsert

(* The first mount has stored nothing. *)
LEMMA InitOnce == Init => OnceInv
<1> SUFFICES ASSUME Init PROVE OnceInv
  OBVIOUS
<1>1. Stored = {} /\ InTrees = {}
  BY DEF Init, Stored, InTrees
<1>2. StoredOnce
  BY DEF Init, StoredOnce
<1> QED
  BY <1>1, <1>2 DEF Init, OnceInv, Provenance, KeysSound, NoBuf

(* Steps that store no sector and leave the key sets alone. *)
LEMMA OnceFrame ==
  ASSUME OnceInv, UNCHANGED <<keyset, savedKeys, saved, mount, warm, copies>>,
         recorded \subseteq recorded',
         pending'.entries \cup draining'.entries \cup InTrees' \subseteq recorded', dropped' = {}
  PROVE  OnceInv'
<1>1. Stored' = Stored /\ StoredOnce'
  BY DEF OnceInv, Stored, StoredOnce
<1>2. Provenance'
  BY DEF OnceInv, Provenance
<1>3. KeysSound'
  BY <1>1 DEF OnceInv, KeysSound
<1> QED
  BY <1>1, <1>2, <1>3 DEF OnceInv

(* A step that stores a sector whose hash was not in the key set. *)
LEMMA OnceStored ==
  ASSUME TypeOK, OnceInv, NEW h \in Hashes, h \notin keyset, Writable, StoreSector(h),
         keyset' = keyset \cup {h}, recorded' = recorded \cup {h},
         UNCHANGED <<savedKeys, saved, mount, warm>>,
         pending'.entries \cup draining'.entries \cup InTrees' \subseteq recorded', dropped' = {}
  PROVE  OnceInv'
<1>t. copies \in [Hashes -> Nat]
  BY DEF TypeOK
<1>1. mount = "mounted" /\ warm = "done" /\ Stored \subseteq keyset
  BY DEF Writable, OnceInv, KeysSound
<1>2. copies[h] = 0
  BY <1>1, <1>t DEF Stored
<1>3. \A g \in Hashes : copies'[g] = IF g = h THEN 1 ELSE copies[g]
  BY <1>2, <1>t DEF StoreSector
<1>4. StoredOnce'
  BY <1>3 DEF OnceInv, StoredOnce
<1>5. Stored' \subseteq Stored \cup {h}
  BY <1>3 DEF Stored
<1>6. Provenance'
  BY DEF OnceInv, Provenance
<1>7. KeysSound'
  BY <1>1, <1>5 DEF OnceInv, KeysSound
<1> QED
  BY <1>4, <1>6, <1>7 DEF OnceInv

(* With one sector size a known hash is always found, so the guard at the   *)
(* sector map entry never stores a second copy.                             *)
LEMMA KnownIsLocated ==
  ASSUME SingleSize, IndInv, OnceInv, Writable, NEW h \in Hashes, Known(h)
  PROVE  Located(h)
<1>1. h \in recorded
  BY DEF Known, OnceInv, Provenance
<1>2. Restorable = {}
  BY DEF Restorable, Writable
<1>3. h \in pending.entries \cup draining.entries \cup InTrees
  BY <1>1, <1>2 DEF IndInv, NothingLost, OnceInv
<1>4. InTrees = tree[SizeOf[h]]
  BY DEF InTrees, Sizes, SingleSize
<1> QED
  BY <1>3, <1>4 DEF Located

(* A write stores a sector only when its hash is new. *)
LEMMA WriteOnce ==
  ASSUME SingleSize, KeysFit, NoOrphans, IndInv, OnceInv, NEW h \in Hashes, Write(h)
  PROVE  OnceInv'
<1>d. ~Fault("tree") /\ ~Fault("grow") /\ dropped = {}
  BY DEF NoOrphans, Fault, OnceInv
<1>t. TypeOK /\ tree \in [Sizes -> SUBSET Hashes] /\ {h} \in SUBSET Hashes
  BY DEF IndInv, TypeOK
<1>b. pending \in Buffers /\ draining \in Buffers /\ pending.entries \in SUBSET Hashes
  BY <1>t DEF TypeOK, Buffers
<1>p. pending.entries \cup draining.entries \cup InTrees \subseteq recorded
  BY DEF OnceInv, Provenance
<1>f. FreshBuf(0) \in Buffers /\ FreshBuf(0).entries = {}
  BY FreshBufSound
<1>1. CASE WriteHit(h)
  <2>1. /\ UNCHANGED <<pending, draining, tree, keyset, savedKeys, saved, mount, warm, copies>>
        /\ recorded' = recorded \cup {h} /\ dropped' = {}
    BY <1>1, <1>d DEF WriteHit, memVars, diskVars, lifeVars
  <2>2. InTrees' = InTrees
    BY <2>1, SameTrees
  <2> QED
    BY <2>1, <2>2, <1>p, OnceFrame
<1>2. CASE WriteGuardMiss(h)
  BY <1>2, <1>d, KnownIsLocated DEF WriteGuardMiss, Located
<1>3. CASE WriteMiss(h)
  <2>1. /\ Writable /\ h \notin keyset /\ StoreSector(h) /\ recorded' = recorded \cup {h}
        /\ keyset' \in KeysetInsert({h}) /\ UNCHANGED <<savedKeys, saved, mount, warm>>
        /\ dropped' = {} /\ (HandOff(h) \/ FlushOldSize(h) \/ InsertPending(h))
    BY <1>3, <1>d DEF WriteMiss, Known, lifeVars, DropPending
  <2>2. keyset' = keyset \cup {h}
    BY <2>1, <1>t, KeysetRoom
  <2>3. pending' = Buffered(FreshBuf(0), h) \/ pending' = Buffered(pending, h)
    BY <2>1 DEF HandOff, FlushOldSize, InsertPending
  <2>4. pending'.entries \subseteq recorded'
    BY <2>1, <2>3, <1>b, <1>f, <1>p, BufferedSound
  <2>5. draining' = draining \/ draining' = pending
    BY <2>1 DEF HandOff, FlushOldSize, InsertPending
  <2>6. InTrees' \subseteq InTrees \cup pending.entries
    <3>1. CASE UNCHANGED tree
      BY <3>1, SameTrees
    <3>2. CASE \E P \in SUBSET pending.entries : tree' = InsertInto(tree, pending.size, P)
      <4>1. PICK P \in SUBSET pending.entries : tree' = InsertInto(tree, pending.size, P)
        BY <3>2
      <4>2. P \in SUBSET Hashes
        BY <1>b
      <4>3. InTrees' \subseteq InTrees \cup P
        BY <4>1, <4>2, <1>t, InsertBounded
      <4> QED
        BY <4>3
    <3>3. UNCHANGED tree \/ \E P \in SUBSET pending.entries : tree' = InsertInto(tree, pending.size, P)
      BY <2>1, SmallestSubset DEF HandOff, FlushOldSize, InsertPending
    <3> QED
      BY <3>1, <3>2, <3>3
  <2>7. draining'.entries \cup InTrees' \subseteq recorded'
    BY <2>1, <2>5, <2>6, <1>p
  <2> QED
    BY <2>1, <2>2, <2>4, <2>7, <1>t, OnceStored
<1>4. CASE WriteImmediate(h)
  <2>1. /\ Writable /\ h \notin keyset /\ recorded' = recorded \cup {h}
        /\ UNCHANGED <<pending, draining, savedKeys, saved, mount, warm>> /\ dropped' = {}
    BY <1>4, <1>d DEF WriteImmediate, Known, lifeVars
  <2>2. CASE h \in tree[SizeOf[h]]
    <3>1. UNCHANGED <<tree, keyset, copies>>
      BY <1>4, <2>2, <1>d DEF WriteImmediate
    <3>2. InTrees' = InTrees
      BY <3>1, SameTrees
    <3> QED
      BY <2>1, <3>1, <3>2, <1>p, OnceFrame
  <2>3. CASE h \notin tree[SizeOf[h]]
    <3>1. /\ StoreSector(h) /\ keyset' \in KeysetInsert({h})
          /\ tree' = InsertInto(tree, SizeOf[h], {h})
      BY <1>4, <2>3, <1>d DEF WriteImmediate
    <3>2. keyset' = keyset \cup {h}
      BY <3>1, <1>t, KeysetRoom
    <3>3. InTrees' \subseteq InTrees \cup {h}
      BY <3>1, <1>t, InsertBounded
    <3>4. pending'.entries \cup draining'.entries \cup InTrees' \subseteq recorded'
      BY <2>1, <3>3, <1>p
    <3> QED
      BY <2>1, <3>1, <3>2, <3>4, <1>t, OnceStored
  <2> QED
    BY <2>2, <2>3
<1> QED
  BY <1>1, <1>2, <1>3, <1>4 DEF Write

(* The drain moves recorded hashes and stores no sector. *)
LEMMA DrainOnce ==
  ASSUME NoOrphans, IndInv, OnceInv, HkStep
  PROVE  OnceInv'
<1>t. tree \in [Sizes -> SUBSET Hashes] /\ hk.extracted \in SUBSET Hashes
  BY DEF IndInv, TypeOK, HkStates
<1>p. pending.entries \cup draining.entries \cup InTrees \subseteq recorded
  BY DEF OnceInv, Provenance
<1>0. UNCHANGED <<keyset, savedKeys, saved, mount, warm, copies, recorded>> /\ dropped' = {}
  BY DEF HkStep, HkCheck, HkExtract, HkBatch, HkBatchesDone, HkFinish, HkExit,
     memVars, diskVars, lifeVars, ghosts, NoOrphans, Fault, OnceInv
<1>1. CASE HkCheck
  <2>1. pending' \in {pending, FreshBuf(pending.size), NoBuf} /\ draining' \in {draining, pending}
        /\ UNCHANGED tree
    BY <1>1 DEF HkCheck, diskVars
  <2>2. pending'.entries \subseteq pending.entries /\ draining'.entries \subseteq recorded
    BY <2>1, <1>p DEF FreshBuf, NoBuf
  <2>3. InTrees' = InTrees
    BY <2>1, SameTrees
  <2> QED
    BY <2>2, <2>3, <1>0, <1>p, OnceFrame
<1>2. CASE HkExtract \/ HkBatchesDone \/ HkExit
  <2>1. UNCHANGED <<pending, draining, tree>>
    BY <1>2 DEF HkExtract, HkBatchesDone, HkExit, memVars, diskVars
  <2>2. InTrees' = InTrees
    BY <2>1, SameTrees
  <2> QED
    BY <2>1, <2>2, <1>0, <1>p, OnceFrame
<1>3. CASE HkBatch
  <2>1. UNCHANGED <<pending, draining>> /\ draining.entries = hk.extracted
    BY <1>3 DEF HkBatch, memVars, IndInv, DrainSound
  <2>2. \E P \in SUBSET Remaining : tree' = InsertInto(tree, draining.size, P)
    <3> DEFINE batch == Smallest(BatchSize, Remaining)
    <3>1. batch \subseteq Remaining /\ \A P \in Prefixes(batch) : P \subseteq batch
      BY SmallestSubset
    <3>2. \/ \E P \in SUBSET batch : tree' = InsertInto(tree, draining.size, batch \ P)
          \/ \E P \in Prefixes(batch) : tree' = InsertInto(tree, draining.size, P)
      BY <1>3 DEF HkBatch
    <3> HIDE DEF batch
    <3> QED
      BY <3>1, <3>2
  <2>3. PICK P \in SUBSET Remaining : tree' = InsertInto(tree, draining.size, P)
    BY <2>2
  <2>4. P \in SUBSET Hashes /\ P \subseteq draining.entries
    BY <2>1, <1>t DEF Remaining
  <2>5. InTrees' \subseteq InTrees \cup P
    BY <2>3, <2>4, <1>t, InsertBounded
  <2> QED
    BY <2>1, <2>4, <2>5, <1>0, <1>p, OnceFrame
<1>4. CASE HkFinish
  <2>1. /\ UNCHANGED <<pending, tree>> /\ draining.entries = hk.extracted
        /\ draining' \in {NoBuf, Trimmed, draining} /\ draining \in Buffers
    BY <1>4 DEF HkFinish, diskVars, IndInv, DrainSound, TypeOK
  <2>2. draining'.entries \subseteq draining.entries
    BY <2>1 DEF NoBuf, Trimmed, Remaining, Buffers
  <2>3. InTrees' = InTrees
    BY <2>1, SameTrees
  <2> QED
    BY <2>1, <2>2, <2>3, <1>0, <1>p, OnceFrame
<1> QED
  BY <1>1, <1>2, <1>3, <1>4 DEF HkStep

(* Warmup knows again what was stored before. *)
LEMMA WarmOnce ==
  ASSUME KeysFit, IndInv, OnceInv, WarmStep
  PROVE  OnceInv'
<1>0. UNCHANGED <<draining, tree, saved, savedKeys, mount, copies, recorded>> /\ warm # "done"
      /\ dropped' = {}
  BY DEF WarmStep, WarmLoad, WarmScan, WarmPending, diskVars, ghosts, OnceInv
<1>1. InTrees' = InTrees /\ Stored' = Stored /\ StoredOnce' /\ dropped' = {}
  BY <1>0, SameTrees DEF Stored, OnceInv, StoredOnce
<1>2. mount # "closed" /\ TypeOK
  BY <1>0 DEF IndInv, LifeSound
<1>3. keyset \cup savedKeys.entries \cup pending.entries \cup draining.entries
        \cup saved.entries \cup InTrees \subseteq recorded
  BY DEF OnceInv, Provenance
<1>k. KeysSound
  BY DEF OnceInv
<1>4. CASE WarmLoad
  <2>1. warm = "load" /\ UNCHANGED pending
    BY <1>4 DEF WarmLoad
  <2>2. \/ savedKeys.live /\ keyset' = savedKeys.entries /\ warm' = "pendingLoaded"
        \/ ~savedKeys.live /\ keyset' = {} /\ warm' = "scan"
    BY <1>4 DEF WarmLoad
  <2>3. KeysSound'
    BY <1>0, <1>1, <1>2, <1>k, <2>1, <2>2 DEF KeysSound
  <2>4. Provenance'
    BY <1>0, <1>1, <1>3, <2>1, <2>2 DEF Provenance
  <2> QED
    BY <1>1, <2>3, <2>4 DEF OnceInv
<1>5. CASE WarmScan
  <2>1. warm = "scan" /\ UNCHANGED pending /\ warm' \in {"scan", "pendingScanned"}
    BY <1>5 DEF WarmScan
  <2>2. KeysSound'
    BY <1>0, <1>1, <1>2, <1>k, <2>1 DEF KeysSound
  <2>3. keyset' \subseteq keyset \cup InTrees
    <3>1. \A s \in Sizes : tree[s] \subseteq InTrees
      BY DEF InTrees
    <3>2. toScan \subseteq Sizes
      BY <1>2 DEF TypeOK
    <3> QED
      BY <1>5, <3>1, <3>2 DEF WarmScan, KeysetInsert
  <2>4. Provenance'
    BY <1>0, <1>1, <1>3, <2>1, <2>3 DEF Provenance
  <2> QED
    BY <1>1, <2>2, <2>4 DEF OnceInv
<1>6. CASE WarmPending
  <2>1. /\ warm \in {"pendingLoaded", "pendingScanned"} /\ warm' = "done"
        /\ pending' \in {saved, FreshBuf(0)} /\ keyset' \in KeysetAfterLoad
    BY <1>6 DEF WarmPending
  <2>2. /\ keyset' \subseteq keyset \cup saved.entries
        /\ warm = "pendingLoaded" => keyset' = keyset
    BY <2>1 DEF KeysetAfterLoad, KeysetInsert
  <2>3. KeysSound'
    BY <1>0, <1>1, <1>2, <1>k, <2>1, <2>2 DEF KeysSound
  <2>4. pending'.entries \subseteq saved.entries
    BY <2>1, FreshBufSound
  <2>5. Provenance'
    BY <1>0, <1>1, <1>3, <2>2, <2>4 DEF Provenance
  <2> QED
    BY <1>1, <2>3, <2>5 DEF OnceInv
<1> QED
  BY <1>4, <1>5, <1>6 DEF WarmStep

(* Unmount saves the key set that warmup loads. *)
LEMMA MountOnce ==
  ASSUME "saveKeyset" \notin FaultKinds, IndInv, OnceInv, BeginClose \/ FinishClose \/ Mount
  PROVE  OnceInv'
<1>0. UNCHANGED <<tree, copies, recorded>> /\ dropped' = {}
  BY DEF BeginClose, FinishClose, Mount, diskVars, ghosts, OnceInv
<1>1. InTrees' = InTrees /\ Stored' = Stored /\ StoredOnce' /\ dropped' = {}
  BY <1>0, SameTrees DEF Stored, OnceInv, StoredOnce
<1>2. keyset \cup savedKeys.entries \cup pending.entries \cup draining.entries
        \cup saved.entries \cup InTrees \subseteq recorded
  BY DEF OnceInv, Provenance
<1>k. KeysSound
  BY DEF OnceInv
<1>3. CASE BeginClose
  <2>1. /\ UNCHANGED <<pending, draining, keyset, saved, savedKeys, warm>>
        /\ mount = "mounted" /\ mount' = "stopping"
    BY <1>3 DEF BeginClose, memVars, diskVars
  <2>2. Provenance'
    BY <1>0, <1>1, <1>2, <2>1 DEF Provenance
  <2>3. KeysSound'
    BY <1>1, <1>k, <2>1 DEF KeysSound
  <2> QED
    BY <1>1, <2>2, <2>3 DEF OnceInv
<1>4. CASE Mount
  <2>1. /\ UNCHANGED <<pending, draining, keyset, saved, savedKeys>>
        /\ mount = "closed" /\ mount' = "mounted" /\ warm' = "load"
    BY <1>4 DEF Mount, memVars, diskVars
  <2>2. Provenance'
    BY <1>0, <1>1, <1>2, <2>1 DEF Provenance
  <2>3. KeysSound'
    BY <1>1, <1>k, <2>1 DEF KeysSound
  <2> QED
    BY <1>1, <2>2, <2>3 DEF OnceInv
<1>5. CASE FinishClose
  <2>1. /\ mount = "stopping" /\ warm = "done" /\ mount' = "closed" /\ warm' = warm
        /\ pending' = NoBuf /\ draining' = NoBuf /\ keyset' = {}
    BY <1>5 DEF FinishClose, Stopping
  <2>2. /\ saved' \in {saved, NoBuf, SaveBuffers}
        /\ savedKeys' = IF keyset = {} THEN NoBuf
                        ELSE [live |-> TRUE, size |-> 0, entries |-> keyset]
    BY <1>5 DEF FinishClose
  <2>3. savedKeys'.entries = keyset /\ (keyset # {} => savedKeys'.live)
    BY <2>2 DEF NoBuf
  <2>4. saved'.entries \subseteq saved.entries \cup pending.entries \cup draining.entries
    BY <2>2 DEF NoBuf, SaveBuffers
  <2>5. Provenance'
    BY <1>0, <1>1, <1>2, <2>1, <2>3, <2>4, NoBufSound DEF Provenance
  <2>6. KeysSound'
    BY <1>1, <1>k, <2>1, <2>3 DEF KeysSound
  <2> QED
    BY <1>1, <2>5, <2>6 DEF OnceInv
<1> QED
  BY <1>3, <1>4, <1>5

(* Every step keeps both invariants. *)
LEMMA NextOnce ==
  ASSUME SingleSize, KeysFit, NoOrphans, "saveKeyset" \notin FaultKinds, IndInv, OnceInv, [Next]_vars
  PROVE  OnceInv'
<1>1. ASSUME NEW h \in Hashes, Write(h) PROVE OnceInv'
  BY <1>1, WriteOnce
<1>2. CASE HkStep
  BY <1>2, DrainOnce
<1>3. CASE WarmStep
  BY <1>3, WarmOnce
<1>4. CASE BeginClose \/ FinishClose \/ Mount
  BY <1>4, MountOnce
<1>5. CASE UNCHANGED vars
  <2>1. /\ UNCHANGED <<pending, draining, keyset, saved, savedKeys, mount, warm, copies, recorded, tree>>
        /\ dropped' = {}
    BY <1>5 DEF vars, memVars, diskVars, lifeVars, ghosts, OnceInv
  <2>2. InTrees' = InTrees
    BY <2>1, SameTrees
  <2>3. pending.entries \cup draining.entries \cup InTrees \subseteq recorded
    BY DEF OnceInv, Provenance
  <2> QED
    BY <2>1, <2>2, <2>3, OnceFrame
<1> QED
  BY <1>1, <1>2, <1>3, <1>4, <1>5 DEF Next

(* With sectors of one size, a key set that has room for every hash and an  *)
(* unmount that can save it and the pending buffers, no interleaving of     *)
(* writes, drains, failed swaps and trims, and remounts makes               *)
(* obmafs3_write_media_image_data store a sector's data a second time.  A   *)
(* failed tree operation or a dropped entry does: the sector's next write   *)
(* stores it again.                                                         *)
THEOREM SectorsStoredOnce ==
  ASSUME SingleSize, KeysFit, Survivable, NoOrphans, "saveKeyset" \notin FaultKinds
  PROVE  Spec => []StoredOnce
<1> DEFINE Inv == IndInv /\ OnceInv
<1>1. Init => Inv
  BY InitIndInv, InitOnce
<1>2. Inv /\ [Next]_vars => Inv'
  BY NextIndInv, NextOnce
<1>3. Inv => StoredOnce
  BY DEF OnceInv
<1> QED
  BY <1>1, <1>2, <1>3, PTL DEF Spec
-----------------------------------------------------------------------------
(* The types hold whatever fails: an entry may go to no tree or to the tree *)
(* of another size, but every buffer and tree stays one.                    *)

(* A write keeps the types. *)
LEMMA WriteTyped ==
  ASSUME TypeOK, NEW h \in Hashes, Write(h)
  PROVE  TypeOK'
<1>b. pending \in Buffers /\ draining \in Buffers /\ pending.entries \in SUBSET Hashes
  BY DEF TypeOK, Buffers
<1>t. tree \in [Sizes -> SUBSET Hashes] /\ {h} \in SUBSET Hashes
  BY DEF TypeOK
<1>f. FreshBuf(0) \in Buffers
  BY FreshBufSound
<1>1. UNCHANGED <<saved, savedKeys, lifeVars, hk>>
  BY DEF Write, WriteHit, WriteGuardMiss, WriteMiss, WriteImmediate, diskVars
<1>2. recorded' \subseteq recorded \cup {h} /\ dropped' \subseteq dropped \cup {h}
  BY DEF Write, WriteHit, WriteGuardMiss, WriteMiss, WriteImmediate
<1>3. copies' \in [Hashes -> Nat]
  <2>1. copies' = copies \/ StoreSector(h)
    BY DEF Write, WriteHit, WriteGuardMiss, WriteMiss, WriteImmediate
  <2>2. copies \in [Hashes -> Nat]
    BY DEF TypeOK
  <2> QED
    BY <2>1, <2>2 DEF StoreSector
<1>4. keyset' \subseteq keyset \cup {h}
  BY DEF Write, WriteHit, WriteGuardMiss, WriteMiss, WriteImmediate, memVars, KeysetInsert
<1>5. faults' \in Nat
  <2>1. (\E kind \in {"create", "tree", "grow"} : Fault(kind)) \/ faults' = faults
    BY DEF Write, WriteHit, WriteGuardMiss, WriteMiss, WriteImmediate, HandOff, FlushOldSize,
       InsertPending, DropPending, NoFault
  <2> QED
    BY <2>1, FaultTyped DEF NoFault
<1>6. pending' \in Buffers
  <2>1. pending' \in {pending, Buffered(FreshBuf(0), h), Buffered(pending, h)}
    BY DEF Write, WriteHit, WriteGuardMiss, WriteMiss, WriteImmediate, HandOff, FlushOldSize,
       InsertPending, DropPending, memVars
  <2> QED
    BY <2>1, <1>b, <1>f, BufferedSound
<1>7. draining' \in {draining, pending}
  BY DEF Write, WriteHit, WriteGuardMiss, WriteMiss, WriteImmediate, HandOff, FlushOldSize,
       InsertPending, DropPending, memVars
<1>8. tree' \in [Sizes -> SUBSET Hashes]
  <2>1. \A s : \A S \in SUBSET Hashes : tree' = InsertInto(tree, s, S) => tree' \in [Sizes -> SUBSET Hashes]
    BY <1>t, InsertBounded
  <2>2. CASE WriteHit(h)
    BY <2>2, <1>t DEF WriteHit, diskVars
  <2>3. CASE WriteGuardMiss(h) \/ WriteImmediate(h)
    BY <2>1, <2>3, <1>t DEF WriteGuardMiss, WriteImmediate
  <2>4. CASE WriteMiss(h)
    <3>1. \A P \in Prefixes(pending.entries) : P \in SUBSET Hashes
      BY <1>b, SmallestSubset
    <3>2. \/ UNCHANGED tree
          \/ \E P \in Prefixes(pending.entries) \cup {pending.entries} :
                tree' = InsertInto(tree, pending.size, P)
      BY <2>4 DEF WriteMiss, HandOff, FlushOldSize, InsertPending, DropPending
    <3> QED
      BY <2>1, <3>1, <3>2, <1>b, <1>t
  <2> QED
    BY <2>2, <2>3, <2>4 DEF Write
<1> QED
  BY <1>1, <1>2, <1>3, <1>4, <1>5, <1>6, <1>7, <1>8, <1>b DEF TypeOK, lifeVars

(* So does the drain. *)
LEMMA DrainTyped ==
  ASSUME TypeOK, HkStep
  PROVE  TypeOK'
<1>b. /\ pending \in Buffers /\ draining \in Buffers /\ draining.entries \in SUBSET Hashes
      /\ pending.size \in Sizes \cup {0}
  BY DEF TypeOK, Buffers
<1>t. tree \in [Sizes -> SUBSET Hashes]
  BY DEF TypeOK
<1>h. hk \in HkStates /\ hk.extracted \in SUBSET Hashes
  BY DEF TypeOK, HkStates
<1>1. UNCHANGED <<keyset, savedKeys, saved, mount, warm, toScan, mounts, copies, recorded>>
  BY DEF HkStep, HkCheck, HkExtract, HkBatch, HkBatchesDone, HkFinish, HkExit,
     memVars, diskVars, lifeVars, ghosts
<1>2. faults' \in Nat
  <2>1. (\E kind \in {"create", "sorted", "tree", "badmagic", "trim"} : Fault(kind)) \/ faults' = faults
    BY DEF HkStep, HkCheck, HkExtract, HkBatch, HkBatchesDone, HkFinish, HkExit, NoFault
  <2> QED
    BY <2>1, FaultTyped DEF NoFault
<1>3. CASE HkCheck
  <2>d. UNCHANGED dropped
    BY <1>3 DEF HkCheck, ghosts
  <2>1. pending' \in {pending, FreshBuf(pending.size), NoBuf} /\ draining' \in {draining, pending}
        /\ UNCHANGED tree /\ hk' = [hk EXCEPT !.pc = "extract"]
    BY <1>3 DEF HkCheck, diskVars
  <2>2. hk' \in HkStates
    BY <1>h, <2>1 DEF HkStates
  <2>3. pending' \in Buffers /\ draining' \in Buffers
    BY <1>b, <2>1, FreshBufSound, NoBufSound
  <2> QED
    BY <2>d, <1>1, <1>2, <2>1, <2>2, <2>3 DEF TypeOK
<1>4. CASE HkExtract \/ HkBatchesDone \/ HkExit
  <2>d. UNCHANGED dropped
    BY <1>4 DEF HkExtract, HkBatchesDone, HkExit, ghosts
  <2>1. UNCHANGED <<pending, draining, tree>>
    BY <1>4 DEF HkExtract, HkBatchesDone, HkExit, memVars, diskVars
  <2>2. \/ \E pc \in {"exited", "finish"} : hk' = [hk EXCEPT !.pc = pc]
        \/ hk' = [hk EXCEPT !.pc = "batch", !.inserted = {}, !.extracted = draining.entries]
        \/ hk' = [hk EXCEPT !.pc = "finish", !.inserted = {}, !.extracted = {}]
    BY <1>4 DEF HkExtract, HkBatchesDone, HkExit
  <2>3. hk' \in HkStates
    BY <1>b, <1>h, <2>2 DEF HkStates
  <2> QED
    BY <2>d, <1>1, <1>2, <2>1, <2>3 DEF TypeOK
<1>5. CASE HkBatch
  <2> DEFINE batch == Smallest(BatchSize, Remaining)
  <2>1. batch \subseteq Remaining /\ \A P \in Prefixes(batch) : P \subseteq batch
    BY SmallestSubset
  <2>2. /\ UNCHANGED <<pending, draining>>
        /\ \E P \in SUBSET batch : tree' = InsertInto(tree, draining.size, P)
        /\ hk' = [hk EXCEPT !.inserted = @ \cup batch] \/ hk' = [hk EXCEPT !.pc = "finish"]
        /\ dropped' \subseteq dropped \cup batch
    BY <1>5, <2>1 DEF HkBatch, memVars
  <2> HIDE DEF batch
  <2>3. batch \in SUBSET Hashes
    BY <2>1, <1>h DEF Remaining
  <2>4. PICK P \in SUBSET batch : tree' = InsertInto(tree, draining.size, P)
    BY <2>2
  <2>5. P \in SUBSET Hashes
    BY <2>1, <2>3, <2>4
  <2>6. tree' \in [Sizes -> SUBSET Hashes]
    BY <2>4, <2>5, <1>t, InsertBounded
  <2>7. hk' \in HkStates
    BY <2>2, <2>3, <1>h DEF HkStates
  <2>8. dropped' \subseteq Hashes
    BY <2>2, <2>3 DEF TypeOK
  <2> QED
    BY <1>1, <1>2, <2>2, <2>6, <2>7, <2>8 DEF TypeOK
<1>6. CASE HkFinish
  <2>d. UNCHANGED dropped
    BY <1>6 DEF HkFinish, ghosts
  <2>1. /\ UNCHANGED <<pending, tree>> /\ draining' \in {NoBuf, Trimmed, draining}
        /\ hk' = [hk EXCEPT !.pc = "check", !.failed = ~DrainComplete]
    BY <1>6 DEF HkFinish, diskVars
  <2>2. DrainComplete \in BOOLEAN
    BY DEF DrainComplete
  <2>3. hk' \in HkStates
    BY <1>h, <2>1, <2>2 DEF HkStates
  <2>4. Trimmed \in Buffers
    BY <1>b, <1>h DEF Trimmed, Remaining, Buffers
  <2>5. draining' \in Buffers
    BY <1>b, <2>1, <2>4, NoBufSound
  <2> QED
    BY <2>d, <1>1, <1>2, <2>1, <2>3, <2>5 DEF TypeOK
<1> QED
  BY <1>3, <1>4, <1>5, <1>6 DEF HkStep

(* And warmup, unmount and mount. *)
LEMMA LifeTyped ==
  ASSUME TypeOK, WarmStep \/ BeginClose \/ FinishClose \/ Mount
  PROVE  TypeOK'
<1>b. /\ pending \in Buffers /\ draining \in Buffers /\ saved \in Buffers /\ savedKeys \in Buffers
      /\ pending.entries \subseteq Hashes /\ draining.entries \subseteq Hashes
      /\ saved.entries \subseteq Hashes /\ savedKeys.entries \subseteq Hashes
      /\ pending.size \in Sizes \cup {0} /\ draining.size \in Sizes \cup {0}
  BY DEF TypeOK, Buffers
<1>k. keyset \subseteq Hashes /\ toScan \subseteq Sizes /\ tree \in [Sizes -> SUBSET Hashes]
  BY DEF TypeOK
<1>1. UNCHANGED <<tree, copies, recorded, dropped>>
  BY DEF WarmStep, WarmLoad, WarmScan, WarmPending, BeginClose, FinishClose, Mount, diskVars, ghosts
<1>2. CASE WarmStep
  <2>1. UNCHANGED <<draining, saved, savedKeys, mount, mounts, hk, faults>>
    BY <1>2 DEF WarmStep, WarmLoad, WarmScan, WarmPending, diskVars
  <2>2. warm' \in {"load", "scan", "pendingLoaded", "pendingScanned", "done"}
    BY <1>2 DEF WarmStep, WarmLoad, WarmScan, WarmPending
  <2>3. pending' \in Buffers
    <3>1. pending' \in {pending, saved, FreshBuf(0)}
      BY <1>2 DEF WarmStep, WarmLoad, WarmScan, WarmPending
    <3> QED
      BY <3>1, <1>b, FreshBufSound
  <2>4. keyset' \subseteq Hashes /\ toScan' \subseteq Sizes
    <3>1. CASE WarmLoad
      BY <3>1, <1>b DEF WarmLoad
    <3>2. CASE WarmScan
      BY <3>2, <1>k DEF WarmScan, KeysetInsert
    <3>3. CASE WarmPending
      BY <3>3, <1>b, <1>k DEF WarmPending, KeysetAfterLoad, KeysetInsert
    <3> QED
      BY <1>2, <3>1, <3>2, <3>3 DEF WarmStep
  <2> QED
    BY <1>1, <2>1, <2>2, <2>3, <2>4 DEF TypeOK
<1>3. CASE BeginClose
  BY <1>3 DEF BeginClose, TypeOK, memVars, diskVars, ghosts
<1>4. CASE Mount
  BY <1>4 DEF Mount, TypeOK, HkStart, HkStates, memVars, diskVars, ghosts
<1>5. CASE FinishClose
  <2>1. /\ pending' = NoBuf /\ draining' = NoBuf /\ keyset' = {} /\ mount' = "closed"
        /\ UNCHANGED <<warm, toScan, mounts, hk>>
    BY <1>5 DEF FinishClose
  <2>2. /\ saved' \in {saved, NoBuf, SaveBuffers}
        /\ savedKeys' \in {NoBuf, [live |-> TRUE, size |-> 0, entries |-> keyset]}
        /\ faults' \in Nat
    BY <1>5 DEF FinishClose, TypeOK
  <2>3. SaveBuffers \in Buffers /\ [live |-> TRUE, size |-> 0, entries |-> keyset] \in Buffers
    BY <1>b, <1>k DEF SaveBuffers, Buffers
  <2>4. saved' \in Buffers /\ savedKeys' \in Buffers
    BY <2>2, <2>3, <1>b, NoBufSound
  <2> QED
    BY <1>1, <2>1, <2>2, <2>4, NoBufSound DEF TypeOK
<1> QED
  BY <1>2, <1>3, <1>4, <1>5

(* Buffers, trees, key sets and thread states keep their types, whatever    *)
(* steps of writers, housekeeping, warmup and unmount fail.                 *)
THEOREM TypeCorrect == Spec => []TypeOK
<1>1. Init => TypeOK
  BY InitIndInv DEF IndInv
<1>2. TypeOK /\ [Next]_vars => TypeOK'
  <2> SUFFICES ASSUME TypeOK, [Next]_vars PROVE TypeOK'
    OBVIOUS
  <2>1. CASE UNCHANGED vars
    BY <2>1 DEF TypeOK, vars, memVars, diskVars, lifeVars, ghosts
  <2> QED
    BY <2>1, WriteTyped, DrainTyped, LifeTyped DEF Next
<1> QED
  BY <1>1, <1>2, PTL DEF Spec
=============================================================================
