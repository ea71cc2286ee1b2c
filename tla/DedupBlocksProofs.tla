-------------------------- MODULE DedupBlocksProofs --------------------------
(***************************************************************************)
(* Where deduplicated sectors are, for every number of sectors, handles    *)
(* and blocks and every block size.  The types are right for any number of *)
(* handles; the safety properties are proved for one handle at a time      *)
(* (two handles write over each other, which TLC shows).                   *)
(*                                                                         *)
(* Neither property is inductive.  A recorded location is good because the *)
(* sector is on disk, or in the buffer of the job that will write it, or   *)
(* in the dirty buffer of the open handle; and each of these overwrites    *)
(* its block as a whole, so each must hold every sector located in it.  A  *)
(* handle that resumes a block relies on the position in the header.       *)
(***************************************************************************)
EXTENDS DedupBlocks, FiniteSetTheorems, TLAPS

Located(s) == where[s] # NoLoc

(* A location is a slot of an allocated block. *)
LocationsSound ==
    \A s \in Sectors : Located(s) => where[s].lba \in allocated /\ where[s].off \in Slots

(* One handle is open, and only a handle that is set up has a block. *)
HandlesSound ==
    /\ \A g, h \in Handles : cache[g].open /\ cache[h].open => g = h
    /\ \A h \in Handles : /\ cache[h].initialized => cache[h].open
                          /\ cache[h].lba # 0 => cache[h].initialized

(* A write call has a handle that is set up; a job runs within a call. *)
CallSound ==
    /\ call.handle # "none" => cache[call.handle].initialized
    /\ call.handle = "none" => job.lba = 0

(* The job holds every sector located in its block, which nobody fills. *)
JobSound ==
    job.lba # 0 =>
        /\ job.lba \in allocated
        /\ \A h \in Handles : cache[h].lba # job.lba
        /\ \A s \in Sectors : Located(s) /\ where[s].lba = job.lba => job.data[where[s].off] = s

(* So does the buffer of a handle, below its fill position. *)
BufferSound ==
    \A h \in Handles : cache[h].lba # 0 =>
        /\ cache[h].lba \in allocated
        /\ \A s \in Sectors : Located(s) /\ where[s].lba = cache[h].lba =>
              where[s].off < cache[h].off /\ cache[h].data[where[s].off] = s

(* The header tells the next handle where the last one stopped. *)
HeaderSound ==
    (\A h \in Handles : ~cache[h].initialized) /\ hdr.lba # 0 =>
        /\ hdr.lba \in allocated
        /\ \A s \in Sectors : Located(s) /\ where[s].lba = hdr.lba => where[s].off < hdr.off

(* What is neither with the job nor in a dirty buffer is on disk. *)
DiskSound ==
    \A s \in Sectors :
        /\ Located(s) /\ where[s].lba # job.lba
        /\ \A h \in Handles : cache[h].lba = where[s].lba => ~cache[h].dirty
        => disk[where[s].lba][where[s].off] = s

(* Map entries are made for located sectors only. *)
MapSound ==
    /\ \A s \in mapped \cup call.batch : Located(s)
    /\ \A h \in Handles : \A s \in smes[h] : Located(s)

IndInv ==
    /\ TypeOK /\ LocationsSound /\ HandlesSound /\ CallSound /\ JobSound /\ BufferSound
    /\ HeaderSound /\ DiskSound /\ MapSound /\ NoSlotShared /\ MappedSectorsReadable
-----------------------------------------------------------------------------
CacheStates ==
    [open : BOOLEAN, initialized : BOOLEAN, lba : Blocks \cup {0}, off : 0 .. Capacity,
     data : Images, hasData : BOOLEAN, dirty : BOOLEAN]

(* The building blocks of the state have their types. *)
LEMMA PartsTyped ==
  /\ Empty \in Images /\ NoLoc \in Locations /\ Closed \in CacheStates
  /\ NoJob \in [lba : Blocks \cup {0}, data : Images]
  /\ \A d \in Images, n \in 0 .. Capacity : Image(d, n) \in Images
BY BlocksAssumption DEF Empty, Images, NoLoc, Locations, Closed, CacheStates, NoJob, Image, Slots

(* Appending a sector to a block with room keeps the types. *)
LEMMA AppendTyped ==
  ASSUME TypeOK, NEW h \in Handles, NEW s \in Sectors, NEW db \in CacheStates,
         db.off < Capacity, Append(h, db, s)
  PROVE  /\ cache' \in [Handles -> CacheStates] /\ where' \in [Sectors -> Locations]
         /\ call' \in [handle : Handles \cup {"none"}, misses : BOOLEAN, failed : BOOLEAN,
                       batch : SUBSET Sectors]
<1>1. db.off \in Slots /\ db.off + 1 \in 0 .. Capacity /\ db.data \in Images
  BY BlocksAssumption DEF CacheStates, Slots
<1>2. [db.data EXCEPT ![db.off] = s] \in Images
  BY <1>1 DEF Images
<1>3. [db EXCEPT !.data[db.off] = s, !.off = db.off + 1, !.dirty = TRUE] \in CacheStates
  BY <1>1, <1>2 DEF CacheStates
<1>4. [lba |-> db.lba, off |-> db.off] \in Locations
  BY DEF CacheStates, Locations
<1>5. cache \in [Handles -> CacheStates]
  BY DEF TypeOK, CacheStates
<1> QED
  BY <1>3, <1>4, <1>5 DEF Append, TypeOK

(* Every step keeps the types. *)
LEMMA StepTyped == TypeOK /\ [Next]_vars => TypeOK'
<1> SUFFICES ASSUME TypeOK, [Next]_vars PROVE TypeOK'
  OBVIOUS
<1>c. cache \in [Handles -> CacheStates]
  BY DEF TypeOK, CacheStates
<1>q. ASSUME cache' \in [Handles -> CacheStates]
      PROVE  cache' \in [Handles -> [open : BOOLEAN, initialized : BOOLEAN,
                                     lba : Blocks \cup {0}, off : 0 .. Capacity, data : Images,
                                     hasData : BOOLEAN, dirty : BOOLEAN]]
  BY <1>q DEF CacheStates
<1>1. ASSUME NEW h \in Handles, Open(h) \/ ColdSetup(h) \/ BeginWrite(h)
      PROVE  TypeOK'
  <2>1. BlockInit \in CacheStates
    BY PartsTyped DEF BlockInit, TypeOK, Locations, CacheStates, Closed
  <2>2. [Closed EXCEPT !.open = TRUE] \in CacheStates
    BY PartsTyped DEF CacheStates
  <2>3. cache' \in [Handles -> CacheStates]
    BY <1>1, <1>c, <2>1, <2>2 DEF Open, ColdSetup, BeginWrite
  <2> QED
    BY <1>1, <1>q, <2>3 DEF Open, ColdSetup, BeginWrite, TypeOK, NoCall
<1>2. ASSUME NEW h \in Handles, NEW s \in Sectors, Store(h, s)
      PROVE  TypeOK'
  <2>1. CASE StoreHit(h, s)
    BY <2>1 DEF StoreHit, TypeOK
  <2>2. CASE StoreInBlock(h, s)
    <3>1. cache[h] \in CacheStates /\ cache[h].off < Capacity /\ Append(h, cache[h], s)
      BY <1>c, <2>2 DEF StoreInBlock, HasRoom
    <3> QED
      BY <1>q, <2>2, <3>1, AppendTyped DEF StoreInBlock, TypeOK
  <2>n. ASSUME NEW b \in NextFree
        PROVE  /\ b \in Blocks
               /\ [cache[h] EXCEPT !.lba = b, !.off = 0, !.data = Empty] \in CacheStates
               /\ [cache[h] EXCEPT !.lba = b, !.off = 0, !.data = Empty].off < Capacity
    <3>1. b \in Blocks /\ cache[h] \in CacheStates /\ 0 \in 0 .. Capacity /\ 0 < Capacity
      BY <1>c, BlocksAssumption DEF NextFree
    <3> QED
      BY <3>1, PartsTyped DEF CacheStates
  <2>s. ASSUME noSpace < MaxNoSpace, noSpace' = noSpace + 1, call' = [call EXCEPT !.failed = TRUE]
        PROVE  /\ noSpace' \in 0 .. MaxNoSpace
               /\ call' \in [handle : Handles \cup {"none"}, misses : BOOLEAN, failed : BOOLEAN,
                             batch : SUBSET Sectors]
    <3>1. noSpace' \in 0 .. MaxNoSpace
      BY <2>s, BlocksAssumption DEF TypeOK
    <3> QED
      BY <2>s, <3>1 DEF TypeOK
  <2>3. CASE StoreInFirstBlock(h, s)
    <3>1. ASSUME NEW b \in NextFree, allocated' = allocated \cup {b}, noSpace' = noSpace,
                 Append(h, [cache[h] EXCEPT !.lba = b, !.off = 0, !.data = Empty], s), UNCHANGED alive
          PROVE  TypeOK'
      <4>1. PICK db \in CacheStates : db.off < Capacity /\ Append(h, db, s)
        BY <2>n, <3>1
      <4>2. b \in Blocks
        BY <2>n
      <4> QED
        BY <1>q, <2>3, <3>1, <4>1, <4>2, AppendTyped DEF StoreInFirstBlock, TypeOK
    <3>2. ASSUME NEW b \in NextFree, allocated' = allocated \cup {b}, noSpace' = noSpace,
                 alive' = FALSE, UNCHANGED <<cache, where, call>>
          PROVE  TypeOK'
      BY <2>3, <2>n, <3>2 DEF StoreInFirstBlock, TypeOK
    <3>3. ASSUME noSpace < MaxNoSpace, noSpace' = noSpace + 1,
                 call' = [call EXCEPT !.failed = TRUE], UNCHANGED <<allocated, cache, where, alive>>
          PROVE  TypeOK'
      BY <2>3, <2>s, <3>3 DEF StoreInFirstBlock, TypeOK
    <3> QED
      BY <2>3, <3>1, <3>2, <3>3 DEF StoreInFirstBlock
  <2>4. CASE StoreInNextBlock(h, s)
    <3>0. job' \in [lba : Blocks \cup {0}, data : Images]
      BY <1>c, <2>4 DEF StoreInNextBlock, CacheStates
    <3>1. ASSUME NEW b \in NextFree, allocated' = allocated \cup {b}, noSpace' = noSpace,
                 Append(h, [cache[h] EXCEPT !.lba = b, !.off = 0, !.data = Empty], s)
          PROVE  TypeOK'
      <4>1. PICK db \in CacheStates : db.off < Capacity /\ Append(h, db, s)
        BY <2>n, <3>1
      <4>2. b \in Blocks
        BY <2>n
      <4> QED
        BY <1>q, <2>4, <3>0, <3>1, <4>1, <4>2, AppendTyped DEF StoreInNextBlock, TypeOK
    <3>2. ASSUME noSpace < MaxNoSpace, noSpace' = noSpace + 1,
                 call' = [call EXCEPT !.failed = TRUE],
                 cache' = [cache EXCEPT ![h].lba = 0, ![h].dirty = FALSE,
                                        ![h].data = Empty, ![h].hasData = FALSE],
                 UNCHANGED <<allocated, where>>
          PROVE  TypeOK'
      <4>0. cache[h] \in CacheStates
        BY <1>c
      <4>1. cache' \in [Handles -> CacheStates]
        <5>1. [cache[h] EXCEPT !.lba = 0, !.dirty = FALSE, !.data = Empty, !.hasData = FALSE]
                 \in CacheStates
          BY <4>0, PartsTyped DEF CacheStates
        <5>2. cache' = [cache EXCEPT ![h] = [cache[h] EXCEPT !.lba = 0, !.dirty = FALSE,
                                                        !.data = Empty, !.hasData = FALSE]]
          BY <1>c, <3>2, <4>0 DEF CacheStates
        <5> QED
          BY <1>c, <5>1, <5>2
      <4> QED
        BY <1>q, <2>4, <2>s, <3>0, <3>2, <4>1 DEF StoreInNextBlock, TypeOK
    <3> QED
      BY <2>4, <3>1, <3>2 DEF StoreInNextBlock
  <2> QED
    BY <1>2, <2>1, <2>2, <2>3, <2>4 DEF Store
<1>3. ASSUME RunJob PROVE TypeOK'
  <2>1. Image(job.data, Capacity) \in Images
    BY PartsTyped, BlocksAssumption DEF TypeOK
  <2> QED
    BY <1>3, <2>1, PartsTyped DEF RunJob, TypeOK
<1>4. ASSUME NEW h \in Handles, EndWrite(h) PROVE TypeOK'
  BY <1>4 DEF EndWrite, Position, TypeOK, NoCall, Locations
<1>f. ASSUME NEW h \in Handles
      PROVE  Flushed(h) \in [Blocks -> Images] /\ Position(h) \in Locations
  <2>1. cache[h] \in CacheStates
    BY <1>c
  <2>2. Image(cache[h].data, cache[h].off) \in Images
    BY <2>1, PartsTyped DEF CacheStates
  <2> QED
    BY <2>1, <2>2 DEF Flushed, Position, TypeOK, CacheStates, Locations
<1>d. ASSUME NEW h \in Handles, cache' = [cache EXCEPT ![h].dirty = @ /\ cache[h].lba = 0]
      PROVE  cache' \in [Handles -> CacheStates]
  BY <1>c, <1>d DEF CacheStates
<1>5. ASSUME NEW h \in Handles, FailWrite(h) PROVE TypeOK'
  BY <1>5, <1>f, <1>d, <1>q DEF FailWrite, TypeOK, NoCall
<1>6. ASSUME NEW h \in Handles, Flush(h) \/ Release(h) PROVE TypeOK'
  <2>1. cache' \in [Handles -> CacheStates]
    BY <1>6, <1>c, <1>d, PartsTyped DEF Flush, Release
  <2> QED
    BY <1>6, <1>f, <1>q, <2>1 DEF Flush, Release, FlushCache, TypeOK
<1>7. CASE UNCHANGED vars
  BY <1>7 DEF vars, TypeOK
<1> QED
  BY <1>1, <1>2, <1>3, <1>4, <1>5, <1>6, <1>7 DEF Next

(* The empty volume has its types. *)
LEMMA InitTyped == Init => TypeOK
BY PartsTyped, BlocksAssumption DEF Init, TypeOK, NoCall, CacheStates

(* Buffers, blocks, positions and calls keep their types, however many      *)
(* handles are open: no sector is stored past the end of a block            *)
(* (dedup_block_store).                                                     *)
THEOREM TypeCorrect == Spec => []TypeOK
BY InitTyped, StepTyped, PTL DEF Spec
-----------------------------------------------------------------------------
(* The same for the safety properties, when one handle is open at a time.   *)

(* Only the handle of the write call has a block. *)
LEMMA OtherHandles ==
  ASSUME TypeOK, HandlesSound, NEW h \in Handles, cache[h].open
  PROVE  \A g \in Handles : g # h => /\ ~cache[g].open /\ ~cache[g].initialized
                                     /\ cache[g].lba = 0
BY DEF HandlesSound, TypeOK

(* A located sector is in a block, at a slot of it. *)
LEMMA LocatedInBlock ==
  ASSUME TypeOK, LocationsSound, NEW s \in Sectors, Located(s)
  PROVE  /\ where[s].lba \in Blocks /\ where[s].lba # 0 /\ where[s].lba \in allocated
         /\ where[s].off \in Slots
BY BlocksAssumption DEF TypeOK, LocationsSound

(* Appending to a block that holds all that is located in it keeps the      *)
(* invariant, whether the block was the handle's or a new one.              *)
LEMMA AppendSound ==
  ASSUME IndInv, TypeOK', NEW h \in Handles, NEW s \in Sectors, NEW db \in CacheStates,
         Writing(h), ~Located(s), Append(h, db, s),
         db.open, db.initialized, db.off < Capacity, db.lba # 0, db.lba \in allocated',
         allocated \subseteq allocated', job'.lba # db.lba,
         \A t \in Sectors : Located(t) /\ where[t].lba = db.lba =>
             where[t].off < db.off /\ db.data[where[t].off] = t,
         \/ job' = job /\ cache[h].lba \in {0, db.lba}
         \/ job.lba = 0 /\ job' = [lba |-> cache[h].lba, data |-> cache[h].data],
         UNCHANGED <<disk, hdr, smes, mapped>>
  PROVE  IndInv'
<1>0. /\ cache[h].open /\ call.handle = h
      /\ \A g \in Handles : g # h => ~cache[g].open /\ ~cache[g].initialized /\ cache[g].lba = 0
  BY OtherHandles, BlocksAssumption DEF IndInv, CallSound, HandlesSound, Writing
<1>1. /\ cache'[h].open /\ cache'[h].initialized /\ cache'[h].lba = db.lba
      /\ cache'[h].off = db.off + 1 /\ cache'[h].dirty
      /\ cache'[h].data = [db.data EXCEPT ![db.off] = s]
      /\ \A g \in Handles : g # h => cache'[g] = cache[g]
  BY DEF Append, IndInv, TypeOK, CacheStates
<1>2. /\ where'[s].lba = db.lba /\ where'[s].off = db.off
      /\ \A t \in Sectors : t # s => where'[t] = where[t]
      /\ call'.handle = h /\ call'.batch = call.batch \cup {s}
  BY <1>0 DEF Append, IndInv, TypeOK
<1>3. db.off \in Slots /\ db.data \in Images /\ db.lba \in Blocks /\ db.off \in Nat
  BY BlocksAssumption DEF CacheStates, Slots
<1>4. Located(s)' /\ \A t \in Sectors : t # s => (Located(t)' <=> Located(t))
  BY <1>2, <1>3 DEF Located, NoLoc
<1>5. \A t \in Sectors : Located(t) => /\ where[t].lba \in Blocks /\ where[t].lba # 0
                                       /\ where[t].lba \in allocated /\ where[t].off \in Slots
  BY LocatedInBlock DEF IndInv
<1>6. LocationsSound'
  BY <1>2, <1>3, <1>4, <1>5 DEF LocationsSound
<1>7. HandlesSound'
  BY <1>0, <1>1 DEF HandlesSound
<1>8. CallSound'
  BY <1>1, <1>2, BlocksAssumption DEF CallSound
<1>9. BufferSound'
  <2> SUFFICES ASSUME NEW g \in Handles, cache'[g].lba # 0
               PROVE  /\ cache'[g].lba \in allocated'
                      /\ \A t \in Sectors : Located(t)' /\ where'[t].lba = cache'[g].lba =>
                            where'[t].off < cache'[g].off /\ cache'[g].data[where'[t].off] = t
    BY DEF BufferSound
  <2>1. g = h
    BY <1>0, <1>1
  <2> SUFFICES ASSUME NEW t \in Sectors, Located(t)', where'[t].lba = db.lba
               PROVE  where'[t].off < db.off + 1 /\ [db.data EXCEPT ![db.off] = s][where'[t].off] = t
    BY <1>1, <2>1
  <2>2. CASE t = s
    BY <1>2, <1>3, <2>2 DEF Images
  <2>3. CASE t # s
    <3>1. where'[t] = where[t] /\ where[t].off \in Slots /\ where[t].off < db.off
            /\ db.data[where[t].off] = t
      BY <1>2, <1>4, <1>5, <2>3
    <3>2. where[t].off # db.off /\ where[t].off < db.off + 1
      BY <3>1, <1>3 DEF Slots
    <3> QED
      BY <1>3, <3>1, <3>2 DEF Images
  <2> QED
    BY <2>2, <2>3
<1>10. JobSound'
  <2> SUFFICES ASSUME job'.lba # 0
               PROVE  /\ job'.lba \in allocated'
                      /\ \A g \in Handles : cache'[g].lba # job'.lba
                      /\ \A t \in Sectors : Located(t)' /\ where'[t].lba = job'.lba =>
                            job'.data[where'[t].off] = t
    BY DEF JobSound
  <2>1. \A g \in Handles : cache'[g].lba # job'.lba
    BY <1>0, <1>1
  <2>2. CASE job' = job
    BY <2>1, <2>2, <1>2, <1>4 DEF IndInv, JobSound
  <2>3. CASE job' = [lba |-> cache[h].lba, data |-> cache[h].data]
    BY <2>1, <2>3, <1>2, <1>4 DEF IndInv, BufferSound
  <2> QED
    BY <2>2, <2>3
<1>11. HeaderSound'
  BY <1>1 DEF HeaderSound
<1>12. DiskSound'
  <2> SUFFICES ASSUME NEW t \in Sectors, Located(t)', where'[t].lba # job'.lba,
                      \A g \in Handles : cache'[g].lba = where'[t].lba => ~cache'[g].dirty
               PROVE  disk'[where'[t].lba][where'[t].off] = t
    BY DEF DiskSound
  <2>1. t # s /\ where'[t] = where[t] /\ Located(t) /\ where[t].lba # db.lba
    BY <1>1, <1>2, <1>4
  <2>2. where[t].lba # 0
    BY <1>5, <2>1
  <2>3. where[t].lba # cache[h].lba
    BY <2>1, <2>2
  <2>4. where[t].lba # job.lba
    BY <2>1, <2>2
  <2>5. \A g \in Handles : cache[g].lba = where[t].lba => ~cache[g].dirty
    BY <1>0, <2>2, <2>3
  <2> QED
    BY <2>1, <2>4, <2>5 DEF IndInv, DiskSound
<1>m. mapped \subseteq Sectors /\ call.batch \subseteq Sectors /\ smes \in [Handles -> SUBSET Sectors]
  BY DEF IndInv, TypeOK
<1>13. MapSound'
  BY <1>2, <1>4, <1>m DEF MapSound, IndInv
<1>14. NoSlotShared'
  <2> SUFFICES ASSUME NEW t \in Sectors, NEW u \in Sectors, t # u, where'[t] # NoLoc
               PROVE  where'[t] # where'[u]
    BY DEF NoSlotShared
  <2>1. CASE t # s /\ u # s
    BY <1>2, <2>1 DEF IndInv, NoSlotShared
  <2>2. ASSUME NEW v \in Sectors, v # s, where'[v] = where'[s] PROVE FALSE
    <3>1. Located(v)
      BY <1>4, <2>2 DEF Located
    <3>2. where[v].lba = db.lba /\ where[v].off = db.off
      BY <1>2, <2>2
    <3> QED
      BY <1>3, <3>1, <3>2
  <2> QED
    BY <2>1, <2>2
<1>15. MappedSectorsReadable'
  BY <1>2, <1>m DEF IndInv, MappedSectorsReadable, Located
<1> QED
  BY <1>6, <1>7, <1>8, <1>9, <1>10, <1>11, <1>12, <1>13, <1>14, <1>15 DEF IndInv

(* What every action that leaves the locations alone keeps. *)
LEMMA SameLocations ==
  ASSUME IndInv, UNCHANGED where, allocated \subseteq allocated'
  PROVE  /\ LocationsSound' /\ NoSlotShared' /\ \A s \in Sectors : Located(s)' <=> Located(s)
         /\ \A s \in Sectors : Located(s) => /\ where[s].lba \in Blocks /\ where[s].lba # 0
                                             /\ where[s].lba \in allocated /\ where[s].off \in Slots
BY LocatedInBlock DEF IndInv, LocationsSound, NoSlotShared, Located

(* Opening and setting up a handle, starting a call and finding a sector.   *)
LEMMA SetupSound ==
  ASSUME MaxWriters <= 1, IndInv, TypeOK', NEW h \in Handles,
         Open(h) \/ ColdSetup(h) \/ BeginWrite(h) \/ \E s \in Sectors : StoreHit(h, s)
  PROVE  IndInv'
<1>s. /\ LocationsSound' /\ NoSlotShared' /\ \A s \in Sectors : Located(s)' <=> Located(s)
      /\ \A s \in Sectors : Located(s) => /\ where[s].lba \in Blocks /\ where[s].lba # 0
                                          /\ where[s].lba \in allocated /\ where[s].off \in Slots
  BY SameLocations DEF Open, ColdSetup, BeginWrite, StoreHit
<1>m. mapped \subseteq Sectors /\ call.batch \subseteq Sectors /\ smes \in [Handles -> SUBSET Sectors]
  BY DEF IndInv, TypeOK
<1>1. CASE Open(h)
  <2>1. OpenHandles = {}
    <3> SUFFICES ASSUME NEW g \in OpenHandles PROVE FALSE
      OBVIOUS
    <3>1. OpenHandles = {g}
      BY DEF OpenHandles, IndInv, HandlesSound
    <3>2. Cardinality(OpenHandles) = 1
      BY <3>1, FS_Singleton
    <3> QED
      BY <1>1, <3>2, BlocksAssumption DEF Open
  <2>2. \A g \in Handles : ~cache[g].open /\ ~cache[g].initialized /\ cache[g].lba = 0
    BY <2>1 DEF OpenHandles, IndInv, HandlesSound, TypeOK
  <2>3. /\ cache'[h] = [Closed EXCEPT !.open = TRUE]
        /\ \A g \in Handles : g # h => cache'[g] = cache[g]
    BY <1>1 DEF Open, IndInv, TypeOK
  <2>4. \A g \in Handles : ~cache'[g].initialized /\ cache'[g].lba = 0 /\ (cache'[g].open => g = h)
    BY <2>2, <2>3 DEF Closed
  <2>5. HandlesSound' /\ CallSound'
    BY <1>1, <2>2, <2>4, BlocksAssumption DEF HandlesSound, CallSound, Open, IndInv, TypeOK
  <2>6. JobSound' /\ BufferSound' /\ HeaderSound'
    BY <1>1, <1>s, <2>2, <2>4 DEF JobSound, BufferSound, HeaderSound, Open, IndInv, Located
  <2>7. DiskSound'
    BY <1>1, <1>s, <2>2 DEF DiskSound, Open, IndInv, Located
  <2>8. MapSound' /\ MappedSectorsReadable'
    BY <1>1, <1>s, <1>m DEF MapSound, MappedSectorsReadable, Open, IndInv
  <2> QED
    BY <1>s, <2>5, <2>6, <2>7, <2>8 DEF IndInv
<1>2. CASE ColdSetup(h)
  <2>1. job.lba = 0 /\ call.handle = "none"
    BY <1>2 DEF ColdSetup, IndInv, CallSound, NoCall
  <2>2. \A g \in Handles : /\ ~cache[g].initialized /\ cache[g].lba = 0
                           /\ (g # h => ~cache[g].open)
    BY <1>2, OtherHandles DEF ColdSetup, IndInv, HandlesSound
  <2>3. /\ cache'[h] = BlockInit
        /\ \A g \in Handles : g # h => cache'[g] = cache[g]
    BY <1>2 DEF ColdSetup, IndInv, TypeOK
  <2>4. /\ cache'[h].open /\ cache'[h].initialized /\ ~cache'[h].dirty
        /\ cache'[h].lba = hdr.lba /\ cache'[h].off = hdr.off
        /\ (hdr.lba # 0 => cache'[h].data = disk[hdr.lba])
    BY <2>3 DEF BlockInit, Closed
  <2>5. HandlesSound' /\ CallSound' /\ JobSound' /\ HeaderSound'
    BY <1>2, <2>1, <2>2, <2>3, <2>4 DEF HandlesSound, CallSound, JobSound, HeaderSound, ColdSetup
  <2>6. \A s \in Sectors : Located(s) => disk[where[s].lba][where[s].off] = s
    BY <1>s, <2>1, <2>2 DEF IndInv, DiskSound
  <2>7. BufferSound'
    <3> SUFFICES ASSUME NEW g \in Handles, cache'[g].lba # 0
                 PROVE  /\ cache'[g].lba \in allocated
                        /\ \A t \in Sectors : Located(t) /\ where[t].lba = cache'[g].lba =>
                              where[t].off < cache'[g].off /\ cache'[g].data[where[t].off] = t
      BY <1>2, <1>s DEF BufferSound, ColdSetup
    <3>1. g = h
      BY <2>2, <2>3
    <3> QED
      BY <2>2, <2>4, <2>6, <3>1 DEF IndInv, HeaderSound
  <2>8. DiskSound' /\ MapSound' /\ MappedSectorsReadable'
    BY <1>2, <1>s, <1>m, <2>6 DEF DiskSound, MapSound, MappedSectorsReadable, ColdSetup, IndInv
  <2> QED
    BY <1>s, <2>5, <2>7, <2>8 DEF IndInv
<1>3. CASE BeginWrite(h)
  <2>1. call'.handle = h /\ call'.batch = {} /\ job.lba = 0
    BY <1>3 DEF BeginWrite, NoCall, IndInv, CallSound
  <2>2. HandlesSound' /\ CallSound' /\ JobSound' /\ BufferSound' /\ HeaderSound' /\ DiskSound'
    BY <1>3, <1>s, <2>1, BlocksAssumption DEF BeginWrite, IndInv, HandlesSound, CallSound, JobSound, BufferSound, HeaderSound,
                        DiskSound, Located
  <2>3. MapSound' /\ MappedSectorsReadable'
    BY <1>3, <1>s, <1>m, <2>1 DEF MapSound, MappedSectorsReadable, BeginWrite, IndInv
  <2> QED
    BY <1>s, <2>2, <2>3 DEF IndInv
<1>4. ASSUME NEW s \in Sectors, StoreHit(h, s) PROVE IndInv'
  <2>1. call'.handle = call.handle /\ call'.batch = call.batch \cup {s}
    BY <1>4 DEF StoreHit, IndInv, TypeOK
  <2>2. HandlesSound' /\ CallSound' /\ JobSound' /\ BufferSound' /\ HeaderSound' /\ DiskSound'
    BY <1>4, <2>1 DEF StoreHit, IndInv, HandlesSound, CallSound, JobSound, BufferSound, HeaderSound,
                        DiskSound, Located
  <2>3. Located(s)
    BY <1>4 DEF StoreHit, Located
  <2>4. MapSound' /\ MappedSectorsReadable'
    BY <1>4, <1>s, <1>m, <2>1, <2>3 DEF MapSound, MappedSectorsReadable, StoreHit, IndInv
  <2> QED
    BY <1>s, <2>2, <2>4 DEF IndInv
<1> QED
  BY <1>1, <1>2, <1>3, <1>4

(* A new block is nobody's: no sector is located in it. *)
LEMMA FreshBlock ==
  ASSUME IndInv, NEW b \in NextFree
  PROVE  /\ b \in Blocks /\ b # 0 /\ b \notin allocated /\ b # job.lba
         /\ \A t \in Sectors : Located(t) => where[t].lba # b
BY BlocksAssumption DEF IndInv, NextFree, LocationsSound, JobSound, TypeOK

(* Storing a sector: in the current block, in a first block, in the block   *)
(* after a full one, or not at all for want of space.                       *)
LEMMA StoreSound ==
  ASSUME IndInv, TypeOK', NEW h \in Handles, NEW s \in Sectors,
         StoreInBlock(h, s) \/ StoreInFirstBlock(h, s) \/ StoreInNextBlock(h, s)
  PROVE  IndInv'
<1>0. Writing(h) /\ ~Located(s)
  BY DEF StoreInBlock, StoreInFirstBlock, StoreInNextBlock, Located
<1>1. /\ cache[h] \in CacheStates /\ cache[h].open /\ cache[h].initialized /\ call.handle = h
      /\ \A g \in Handles : g # h => ~cache[g].open /\ ~cache[g].initialized /\ cache[g].lba = 0
  <2>1. cache[h].initialized /\ cache[h].open /\ call.handle = h
    BY <1>0, BlocksAssumption DEF Writing, IndInv, CallSound, HandlesSound
  <2> QED
    BY <2>1, OtherHandles DEF IndInv, TypeOK, CacheStates
<1>m. mapped \subseteq Sectors /\ call.batch \subseteq Sectors /\ smes \in [Handles -> SUBSET Sectors]
  BY DEF IndInv, TypeOK
<1>2. CASE StoreInBlock(h, s)
  <2>1. cache[h].lba \in allocated /\ job.lba # cache[h].lba
    BY <1>2 DEF StoreInBlock, IndInv, BufferSound, JobSound
  <2>2. \A t \in Sectors : Located(t) /\ where[t].lba = cache[h].lba =>
             where[t].off < cache[h].off /\ cache[h].data[where[t].off] = t
    BY <1>2 DEF StoreInBlock, IndInv, BufferSound
  <2> QED
    BY <1>0, <1>1, <1>2, <2>1, <2>2, AppendSound DEF StoreInBlock, HasRoom
<1>3. ASSUME NEW b \in NextFree, allocated' = allocated \cup {b},
             Append(h, [cache[h] EXCEPT !.lba = b, !.off = 0, !.data = Empty], s),
             UNCHANGED <<disk, hdr, smes, mapped>>,
             \/ job' = job /\ cache[h].lba = 0
             \/ /\ job.lba = 0 /\ cache[h].lba # 0
                /\ job' = [lba |-> cache[h].lba, data |-> cache[h].data]
      PROVE  IndInv'
  <2>1. /\ b \in Blocks /\ b # 0 /\ b \notin allocated /\ b # job.lba
        /\ \A t \in Sectors : Located(t) => where[t].lba # b
    BY FreshBlock
  <2> DEFINE db == [cache[h] EXCEPT !.lba = b, !.off = 0, !.data = Empty]
  <2>2. db \in CacheStates /\ db.lba = b /\ db.off = 0 /\ db.open /\ db.initialized
    <3>1. Empty \in Images /\ 0 \in 0 .. Capacity /\ b \in Blocks \cup {0}
      BY <2>1, PartsTyped, BlocksAssumption
    <3> QED
      BY <1>1, <3>1 DEF CacheStates
  <2>3. job'.lba # b
    BY <1>3, <2>1 DEF IndInv, BufferSound
  <2>4. db.off < Capacity /\ db.lba \in allocated' /\ allocated \subseteq allocated'
    BY <1>3, <2>2, BlocksAssumption
  <2>5. \A t \in Sectors : Located(t) /\ where[t].lba = db.lba =>
             where[t].off < db.off /\ db.data[where[t].off] = t
    BY <2>1, <2>2
  <2>6. /\ Append(h, db, s) /\ job'.lba # db.lba
        /\ \/ job' = job /\ cache[h].lba \in {0, db.lba}
           \/ job.lba = 0 /\ job' = [lba |-> cache[h].lba, data |-> cache[h].data]
    BY <1>3, <2>2, <2>3
  <2> HIDE DEF db
  <2> QED
    BY <1>0, <1>3, <2>1, <2>2, <2>4, <2>5, <2>6, AppendSound
<1>4. CASE StoreInFirstBlock(h, s)
  <2>1. ASSUME NEW b \in NextFree, allocated' = allocated \cup {b},
               Append(h, [cache[h] EXCEPT !.lba = b, !.off = 0, !.data = Empty], s)
        PROVE  IndInv'
    BY <1>3, <1>4, <2>1 DEF StoreInFirstBlock
  <2>2. ASSUME allocated \subseteq allocated', UNCHANGED <<cache, where>>, 
               call' = call \/ call' = [call EXCEPT !.failed = TRUE]
        PROVE  IndInv'
    <3>1. call'.handle = call.handle /\ call'.batch = call.batch
      BY <2>2 DEF IndInv, TypeOK
    <3>2. LocationsSound' /\ NoSlotShared' /\ \A t \in Sectors : Located(t)' <=> Located(t)
      BY <2>2, SameLocations
    <3>0. UNCHANGED <<disk, hdr, job>>
      BY <1>4 DEF StoreInFirstBlock
    <3>3. HandlesSound' /\ CallSound' /\ JobSound' /\ BufferSound' /\ HeaderSound' /\ DiskSound'
      BY <2>2, <3>0, <3>1 DEF IndInv, HandlesSound, CallSound, JobSound,
                              BufferSound, HeaderSound, DiskSound, Located
    <3>4. MapSound' /\ MappedSectorsReadable'
      BY <1>4, <1>m, <2>2, <3>1, <3>2
      DEF MapSound, MappedSectorsReadable, StoreInFirstBlock, IndInv, Located
    <3> QED
      BY <3>2, <3>3, <3>4 DEF IndInv
  <2> QED
    BY <1>4, <2>1, <2>2 DEF StoreInFirstBlock
<1>5. CASE StoreInNextBlock(h, s)
  <2>1. /\ job.lba = 0 /\ cache[h].lba # 0 /\ UNCHANGED disk
        /\ job' = [lba |-> cache[h].lba, data |-> cache[h].data]
    BY <1>5 DEF StoreInNextBlock, NoJob
  <2>2. ASSUME NEW b \in NextFree, allocated' = allocated \cup {b},
               Append(h, [cache[h] EXCEPT !.lba = b, !.off = 0, !.data = Empty], s)
        PROVE  IndInv'
    BY <1>3, <1>5, <2>1, <2>2 DEF StoreInNextBlock
  <2>3. ASSUME call' = [call EXCEPT !.failed = TRUE], UNCHANGED <<allocated, where>>,
               cache' = [cache EXCEPT ![h].lba = 0, ![h].dirty = FALSE,
                                      ![h].data = Empty, ![h].hasData = FALSE]
        PROVE  IndInv'
    <3>1. call'.handle = call.handle /\ call'.batch = call.batch
      BY <2>3 DEF IndInv, TypeOK
    <3>2. /\ LocationsSound' /\ NoSlotShared' /\ \A t \in Sectors : Located(t)' <=> Located(t)
          /\ \A t \in Sectors : Located(t) => where[t].lba # 0
      BY <2>3, SameLocations
    <3>3. /\ cache'[h].lba = 0 /\ cache'[h].initialized /\ cache'[h].open
          /\ \A g \in Handles : g # h => cache'[g] = cache[g]
      BY <1>1, <2>3 DEF IndInv, TypeOK
    <3>4. /\ job'.lba = cache[h].lba /\ job'.data = cache[h].data /\ job'.lba # 0
          /\ \A g \in Handles : cache'[g].lba = 0
      BY <1>1, <2>1, <3>3
    <3>5. HandlesSound' /\ CallSound' /\ HeaderSound' /\ BufferSound'
      BY <1>1, <3>1, <3>3, <3>4, BlocksAssumption DEF HandlesSound, CallSound, HeaderSound, BufferSound
    <3>6. JobSound'
      <4>1. UNCHANGED <<allocated, where>>
        BY <2>3
      <4> QED
        BY <3>2, <3>4, <4>1 DEF JobSound, IndInv, BufferSound
    <3>7. DiskSound'
      <4> SUFFICES ASSUME NEW t \in Sectors, Located(t), where[t].lba # cache[h].lba
                   PROVE  disk[where[t].lba][where[t].off] = t
        BY <2>1, <2>3, <3>2, <3>4 DEF DiskSound
      <4>1. where[t].lba # job.lba /\ \A g \in Handles : cache[g].lba # where[t].lba
        BY <1>1, <2>1, <3>2
      <4> QED
        BY <4>1 DEF IndInv, DiskSound
    <3>8. MapSound' /\ MappedSectorsReadable'
      BY <1>5, <1>m, <2>3, <3>1, <3>2
      DEF MapSound, MappedSectorsReadable, StoreInNextBlock, IndInv, Located
    <3> QED
      BY <3>2, <3>5, <3>6, <3>7, <3>8 DEF IndInv
  <2> QED
    BY <1>5, <2>2, <2>3 DEF StoreInNextBlock
<1> QED
  BY <1>2, <1>4, <1>5

(* The job overwrites its block with everything that is located in it. *)
LEMMA JobRunSound ==
  ASSUME IndInv, TypeOK', RunJob
  PROVE  IndInv'
<1>s. /\ LocationsSound' /\ NoSlotShared' /\ \A s \in Sectors : Located(s)' <=> Located(s)
      /\ \A s \in Sectors : Located(s) => /\ where[s].lba \in Blocks /\ where[s].lba # 0
                                          /\ where[s].lba \in allocated /\ where[s].off \in Slots
  BY SameLocations DEF RunJob
<1>m. mapped \subseteq Sectors /\ call.batch \subseteq Sectors /\ smes \in [Handles -> SUBSET Sectors]
  BY DEF IndInv, TypeOK
<1>1. job'.lba = 0 /\ UNCHANGED <<allocated, hdr, cache, call, where, smes, mapped>>
  BY DEF RunJob, NoJob
<1>2. HandlesSound' /\ CallSound' /\ JobSound' /\ BufferSound' /\ HeaderSound'
  BY <1>1 DEF IndInv, HandlesSound, CallSound, JobSound, BufferSound, HeaderSound, Located
<1>3. \A t \in Sectors : Located(t) => IF where[t].lba = job.lba
                                        THEN disk'[where[t].lba][where[t].off] = t
                                        ELSE disk'[where[t].lba] = disk[where[t].lba]
  <2> TAKE t \in Sectors
  <2> HAVE Located(t)
  <2>1. CASE where[t].lba = job.lba
    <3>1. job.data[where[t].off] = t
      BY <1>s, <2>1 DEF IndInv, JobSound
    <3>2. disk'[job.lba] = Image(job.data, Capacity)
      BY <1>s, <2>1 DEF RunJob, IndInv, TypeOK
    <3>3. Image(job.data, Capacity)[where[t].off] = job.data[where[t].off]
      BY <1>s, BlocksAssumption DEF Image, Slots
    <3> QED
      BY <2>1, <3>1, <3>2, <3>3
  <2>2. CASE where[t].lba # job.lba
    BY <1>s, <2>2 DEF RunJob, IndInv, TypeOK
  <2> QED
    BY <2>1, <2>2
<1>4. DiskSound'
  <2> SUFFICES ASSUME NEW t \in Sectors, Located(t),
                      \A g \in Handles : cache[g].lba = where[t].lba => ~cache[g].dirty
               PROVE  disk'[where[t].lba][where[t].off] = t
    BY <1>s, <1>1 DEF DiskSound
  <2>1. CASE where[t].lba = job.lba
    BY <1>3, <2>1
  <2>2. CASE where[t].lba # job.lba
    BY <1>3, <2>2 DEF IndInv, DiskSound
  <2> QED
    BY <2>1, <2>2
<1>5. MapSound' /\ MappedSectorsReadable'
  <2>1. \A t \in mapped : disk'[where[t].lba][where[t].off] = t
    BY <1>3, <1>m DEF IndInv, MappedSectorsReadable, Located
  <2> QED
    BY <1>s, <1>m, <1>1, <2>1 DEF MapSound, MappedSectorsReadable, IndInv, Located
<1> QED
  BY <1>s, <1>2, <1>4, <1>5 DEF IndInv

(* A call that succeeds hands its map entries to the handle. *)
LEMMA EndSound ==
  ASSUME IndInv, TypeOK', NEW h \in Handles, EndWrite(h)
  PROVE  IndInv'
<1>s. LocationsSound' /\ NoSlotShared' /\ \A s \in Sectors : Located(s)' <=> Located(s)
  BY SameLocations DEF EndWrite
<1>m. mapped \subseteq Sectors /\ call.batch \subseteq Sectors /\ smes \in [Handles -> SUBSET Sectors]
  BY DEF IndInv, TypeOK
<1>1. /\ call'.handle = "none" /\ call'.batch = {} /\ job.lba = 0 /\ cache[h].initialized
      /\ UNCHANGED <<disk, allocated, cache, job, where, mapped>>
      /\ smes' = [smes EXCEPT ![h] = @ \cup call.batch]
  BY BlocksAssumption DEF EndWrite, Writing, NoCall, NoJob, IndInv, CallSound
<1>2. HandlesSound' /\ CallSound' /\ JobSound' /\ BufferSound' /\ HeaderSound' /\ DiskSound'
  BY <1>1 DEF IndInv, HandlesSound, CallSound, JobSound, BufferSound, HeaderSound, DiskSound, Located
<1>3. MapSound' /\ MappedSectorsReadable'
  BY <1>s, <1>m, <1>1 DEF MapSound, MappedSectorsReadable, IndInv
<1> QED
  BY <1>s, <1>2, <1>3 DEF IndInv

(* Writing out the dirty buffer loses nothing and brings its sectors to     *)
(* disk: afterwards every located sector is there, unless the job has it.   *)
LEMMA FlushedSound ==
  ASSUME IndInv, NEW h \in Handles, cache[h].open, NEW t \in Sectors, Located(t)
  PROVE  /\ where[t].lba # job.lba => Flushed(h)[where[t].lba][where[t].off] = t
         /\ disk[where[t].lba][where[t].off] = t => Flushed(h)[where[t].lba][where[t].off] = t
<1>1. where[t].lba \in Blocks /\ where[t].lba # 0 /\ where[t].off \in Slots
  BY LocatedInBlock DEF IndInv
<1>2. \A g \in Handles : g # h => cache[g].lba = 0
  BY OtherHandles DEF IndInv
<1>3. CASE cache[h].dirty /\ cache[h].lba # 0 /\ cache[h].lba = where[t].lba
  <2>1. Flushed(h)[where[t].lba] = Image(cache[h].data, cache[h].off)
    BY <1>1, <1>3 DEF Flushed, IndInv, TypeOK
  <2>2. where[t].off < cache[h].off /\ cache[h].data[where[t].off] = t
    BY <1>3 DEF IndInv, BufferSound
  <2> QED
    BY <1>1, <2>1, <2>2 DEF Image
<1>4. CASE ~(cache[h].dirty /\ cache[h].lba # 0 /\ cache[h].lba = where[t].lba)
  <2>1. Flushed(h)[where[t].lba] = disk[where[t].lba]
    BY <1>1, <1>4 DEF Flushed, IndInv, TypeOK
  <2>2. where[t].lba # job.lba => disk[where[t].lba][where[t].off] = t
    BY <1>1, <1>2, <1>4 DEF IndInv, DiskSound
  <2> QED
    BY <2>1, <2>2
<1> QED
  BY <1>3, <1>4

(* The error path, flush and release. *)
LEMMA FlushSound ==
  ASSUME IndInv, TypeOK', NEW h \in Handles, FailWrite(h) \/ Flush(h) \/ Release(h)
  PROVE  IndInv'
<1>s. /\ LocationsSound' /\ NoSlotShared' /\ \A s \in Sectors : Located(s)' <=> Located(s)
      /\ \A s \in Sectors : Located(s) => where[s].lba # 0
  BY SameLocations DEF FailWrite, Flush, Release, FlushCache
<1>m. mapped \subseteq Sectors /\ call.batch \subseteq Sectors /\ smes \in [Handles -> SUBSET Sectors]
  BY DEF IndInv, TypeOK
<1>1. /\ cache[h].open /\ job.lba = 0 /\ call'.handle = "none" /\ call'.batch \subseteq call.batch
      /\ disk' = Flushed(h) /\ UNCHANGED <<allocated, job, where>>
  BY BlocksAssumption
  DEF FailWrite, Flush, Release, FlushCache, NoCall, NoJob, IndInv, CallSound, HandlesSound
<1>2. /\ mapped' \subseteq mapped \cup smes[h] /\ smes'[h] \subseteq smes[h]
      /\ \A g \in Handles : g # h => smes'[g] = smes[g]
  BY <1>m DEF FailWrite, Flush, Release, FlushCache
<1>o. \A g \in Handles : g # h => ~cache[g].open /\ ~cache[g].initialized /\ cache[g].lba = 0
  BY <1>1, OtherHandles DEF IndInv
<1>3. /\ \A g \in Handles : g # h => cache'[g] = cache[g]
      /\ \/ /\ cache'[h].open = cache[h].open /\ cache'[h].initialized = cache[h].initialized
            /\ cache'[h].lba = cache[h].lba /\ cache'[h].off = cache[h].off
            /\ cache'[h].data = cache[h].data
         \/ /\ Release(h)
            /\ cache'[h].lba = 0 /\ ~cache'[h].open /\ ~cache'[h].initialized
  <2>1. CASE Release(h)
    BY <2>1 DEF Release, Closed, IndInv, TypeOK
  <2>2. CASE FailWrite(h) \/ Flush(h)
    BY <2>2 DEF FailWrite, Flush, IndInv, TypeOK
  <2> QED
    BY <2>1, <2>2
<1>4. HandlesSound' /\ CallSound' /\ JobSound'
  BY <1>1, <1>3, <1>o DEF IndInv, HandlesSound, CallSound, JobSound
<1>5. BufferSound'
  <2>1. \A g \in Handles : cache'[g].lba # 0 => /\ cache'[g].lba = cache[g].lba
                                                /\ cache'[g].off = cache[g].off
                                                /\ cache'[g].data = cache[g].data
    BY <1>3
  <2> QED
    BY <1>1, <1>s, <2>1 DEF BufferSound, IndInv
<1>6. HeaderSound'
  <2> SUFFICES ASSUME \A g \in Handles : ~cache'[g].initialized, hdr'.lba # 0
               PROVE  /\ hdr'.lba \in allocated
                      /\ \A t \in Sectors : Located(t) /\ where[t].lba = hdr'.lba => where[t].off < hdr'.off
    BY <1>s, <1>1 DEF HeaderSound
  <2>1. CASE cache[h].initialized
    <3>1. hdr' = Position(h)
      BY <2>1 DEF FailWrite, Flush, Release, FlushCache
    <3> QED
      BY <3>1 DEF Position, IndInv, BufferSound
  <2>2. CASE ~cache[h].initialized
    <3>1. hdr' = hdr
      BY <2>2, BlocksAssumption DEF FailWrite, Flush, Release, FlushCache, IndInv, CallSound
    <3> QED
      BY <2>2, <3>1, <1>o DEF IndInv, HeaderSound
  <2> QED
    BY <2>1, <2>2
<1>7. \A t \in Sectors : Located(t) => disk'[where[t].lba][where[t].off] = t
  BY <1>s, <1>1, FlushedSound
<1>8. DiskSound'
  BY <1>s, <1>1, <1>7 DEF DiskSound
<1>9. MapSound'
  BY <1>s, <1>m, <1>1, <1>2 DEF IndInv, MapSound
<1>10. MappedSectorsReadable'
  <2>1. \A t \in mapped' : t \in Sectors /\ Located(t)
    BY <1>2, <1>m DEF IndInv, MapSound
  <2> QED
    BY <2>1, <1>1, <1>7 DEF MappedSectorsReadable, Located
<1> QED
  BY <1>s, <1>4, <1>5, <1>6, <1>8, <1>9, <1>10 DEF IndInv

(* The invariant holds at the start. *)
LEMMA InitSound == Init => IndInv
<1> SUFFICES ASSUME Init PROVE IndInv
  OBVIOUS
<1>1. /\ \A s \in Sectors : ~Located(s)
      /\ \A h \in Handles : ~cache[h].open /\ ~cache[h].initialized /\ cache[h].lba = 0
      /\ job.lba = 0 /\ hdr.lba = 0 /\ call.handle = "none" /\ call.batch = {} /\ mapped = {}
      /\ \A h \in Handles : smes[h] = {}
  BY DEF Init, Located, Closed, NoJob, NoLoc, NoCall
<1>2. /\ LocationsSound /\ HandlesSound /\ CallSound /\ JobSound /\ BufferSound
      /\ HeaderSound /\ DiskSound /\ MapSound /\ MappedSectorsReadable
  BY <1>1 DEF LocationsSound, HandlesSound, CallSound, JobSound, BufferSound, HeaderSound,
              DiskSound, MapSound, MappedSectorsReadable
<1>3. NoSlotShared
  BY <1>1 DEF NoSlotShared, Located
<1> QED
  BY <1>2, <1>3, InitTyped DEF IndInv

(* Every step of a volume with one open handle at a time keeps it. *)
LEMMA StepSound ==
  ASSUME MaxWriters <= 1
  PROVE  IndInv /\ [Next]_vars => IndInv'
<1> SUFFICES ASSUME IndInv, [Next]_vars PROVE IndInv'
  OBVIOUS
<1>t. TypeOK'
  BY StepTyped DEF IndInv
<1>1. CASE UNCHANGED vars
  BY <1>1 DEF vars, IndInv, TypeOK, LocationsSound, HandlesSound, CallSound, JobSound, BufferSound,
      HeaderSound, DiskSound, MapSound, NoSlotShared, MappedSectorsReadable, Located
<1>2. CASE RunJob
  BY <1>t, <1>2, JobRunSound
<1>3. ASSUME NEW h \in Handles, Open(h) \/ ColdSetup(h) \/ BeginWrite(h) PROVE IndInv'
  BY <1>t, <1>3, SetupSound
<1>4. ASSUME NEW h \in Handles, NEW s \in Sectors, Store(h, s) PROVE IndInv'
  BY <1>t, <1>4, SetupSound, StoreSound DEF Store
<1>5. ASSUME NEW h \in Handles, EndWrite(h) PROVE IndInv'
  BY <1>t, <1>5, EndSound
<1>6. ASSUME NEW h \in Handles, FailWrite(h) \/ Flush(h) \/ Release(h) PROVE IndInv'
  BY <1>t, <1>6, FlushSound
<1> QED
  BY <1>1, <1>2, <1>3, <1>4, <1>5, <1>6 DEF Next

(* With one handle open at a time, what a sector map entry on disk points   *)
(* to is on disk at that address and offset, whatever blocks fill up, calls *)
(* fail for want of space, and handles come and go (dedup_block_store,      *)
(* obmafs3_flush_dedup_block_cache).                                        *)
THEOREM SectorsReadable ==
  ASSUME MaxWriters <= 1
  PROVE  Spec => []MappedSectorsReadable
<1>1. IndInv => MappedSectorsReadable
  BY DEF IndInv
<1> QED
  BY <1>1, InitSound, StepSound, PTL DEF Spec

(* With one handle open at a time, no two sectors are given one slot of a   *)
(* dedup block (dedup_block_store, dedup_block_init).                       *)
THEOREM SlotsDisjoint ==
  ASSUME MaxWriters <= 1
  PROVE  Spec => []NoSlotShared
<1>1. IndInv => NoSlotShared
  BY DEF IndInv
<1> QED
  BY <1>1, InitSound, StepSound, PTL DEF Spec
-----------------------------------------------------------------------------
(* Append-only.  What is in a slot on disk is also in the buffer that will  *)
(* overwrite the block, and a buffer is filled behind it.                   *)
Kept(b, data, off) ==
    \A i \in Slots : disk[b][i] # "hole" => i < off /\ data[i] = disk[b][i]

DiskKept ==
    /\ \A b \in Blocks \ allocated : disk[b] = Empty
    /\ job.lba # 0 => Kept(job.lba, job.data, Capacity)
    /\ \A h \in Handles : cache[h].lba # 0 => Kept(cache[h].lba, cache[h].data, cache[h].off)
    /\ (\A h \in Handles : ~cache[h].initialized) /\ hdr.lba # 0 =>
          Kept(hdr.lba, disk[hdr.lba], hdr.off)

NothingLost ==
    \A b \in Blocks, i \in Slots : disk[b][i] # "hole" => disk'[b][i] = disk[b][i]

(* Setting up, storing and ending a call leave the disk alone and fill the  *)
(* buffer behind what is on disk.                                           *)
LEMMA StoreKept ==
  ASSUME IndInv, TypeOK', DiskKept, NEW h \in Handles, NEW s \in Sectors,
         StoreInBlock(h, s) \/ StoreInFirstBlock(h, s) \/ StoreInNextBlock(h, s)
  PROVE  DiskKept' /\ disk' = disk
<1>0. disk' = disk /\ hdr' = hdr /\ Writing(h)
  BY DEF StoreInBlock, StoreInFirstBlock, StoreInNextBlock
<1>1. /\ cache[h] \in CacheStates /\ cache[h].open /\ cache[h].initialized
      /\ \A g \in Handles : g # h => ~cache[g].open /\ ~cache[g].initialized /\ cache[g].lba = 0
  <2>1. cache[h].initialized /\ cache[h].open
    BY <1>0, BlocksAssumption DEF Writing, IndInv, CallSound, HandlesSound
  <2> QED
    BY <2>1, OtherHandles DEF IndInv, TypeOK, CacheStates
<1>2. ASSUME NEW db \in CacheStates, Append(h, db, s), db.open, db.initialized, db.off < Capacity,
             db.lba # 0, allocated \subseteq allocated', Kept(db.lba, db.data, db.off),
             \/ job' = job
             \/ job' = [lba |-> cache[h].lba, data |-> cache[h].data]
      PROVE  DiskKept'
  <2>1. /\ cache'[h].initialized /\ cache'[h].lba = db.lba /\ cache'[h].off = db.off + 1
        /\ cache'[h].data = [db.data EXCEPT ![db.off] = s]
        /\ \A g \in Handles : g # h => cache'[g] = cache[g]
    BY <1>2 DEF Append, IndInv, TypeOK, CacheStates
  <2>2. db.off \in Slots /\ db.data \in Images
    BY BlocksAssumption, <1>2 DEF CacheStates, Slots
  <2>3. \A i \in Slots : disk[db.lba][i] # "hole" =>
           i < db.off + 1 /\ [db.data EXCEPT ![db.off] = s][i] = disk[db.lba][i]
    BY <1>2, <2>2 DEF Kept, Images, Slots
  <2>4. \A g \in Handles : cache'[g].lba # 0 => Kept(cache[g].lba, cache[g].data, cache[g].off)'
    <3> SUFFICES ASSUME NEW g \in Handles, cache'[g].lba # 0
                 PROVE  Kept(cache[g].lba, cache[g].data, cache[g].off)'
      OBVIOUS
    <3>1. g = h
      BY <1>1, <2>1
    <3> QED
      BY <1>0, <2>1, <2>3, <3>1 DEF Kept
  <2>5. job'.lba # 0 => Kept(job.lba, job.data, Capacity)'
    <3>1. CASE job' = job
      BY <1>0, <3>1 DEF DiskKept, Kept
    <3>2. CASE job' = [lba |-> cache[h].lba, data |-> cache[h].data]
      <4>1. cache[h].off \in 0 .. Capacity
        BY <1>1 DEF CacheStates
      <4> QED
        BY <1>0, <3>2, <4>1, BlocksAssumption DEF DiskKept, Kept, Slots
    <3> QED
      BY <1>2, <3>1, <3>2
  <2> QED
    BY <1>0, <1>2, <2>1, <2>4, <2>5 DEF DiskKept
<1>3. ASSUME NEW b \in NextFree, allocated' = allocated \cup {b},
             Append(h, [cache[h] EXCEPT !.lba = b, !.off = 0, !.data = Empty], s),
             \/ job' = job
             \/ job' = [lba |-> cache[h].lba, data |-> cache[h].data]
      PROVE  DiskKept'
  <2> DEFINE db == [cache[h] EXCEPT !.lba = b, !.off = 0, !.data = Empty]
  <2>1. b \in Blocks /\ b # 0 /\ b \notin allocated
    BY FreshBlock
  <2>2. /\ db \in CacheStates /\ db.lba = b /\ db.off = 0 /\ db.data = Empty
        /\ db.open /\ db.initialized
    <3>1. Empty \in Images /\ 0 \in 0 .. Capacity /\ b \in Blocks \cup {0}
      BY <2>1, PartsTyped, BlocksAssumption
    <3> QED
      BY <1>1, <3>1 DEF CacheStates
  <2>3. disk[b] = Empty
    BY <2>1 DEF DiskKept
  <2>4. Kept(db.lba, db.data, db.off) /\ db.off < Capacity /\ allocated \subseteq allocated'
    BY <1>3, <2>2, <2>3, BlocksAssumption DEF Kept, Empty
  <2>5. Append(h, db, s)
    BY <1>3
  <2> HIDE DEF db
  <2> QED
    BY <1>2, <1>3, <2>1, <2>2, <2>4, <2>5
<1>4. CASE StoreInBlock(h, s)
  <2>1. /\ cache[h].lba # 0 /\ cache[h].off < Capacity /\ Append(h, cache[h], s) /\ job' = job
        /\ allocated' = allocated /\ Kept(cache[h].lba, cache[h].data, cache[h].off)
    BY <1>4 DEF StoreInBlock, HasRoom, DiskKept
  <2> QED
    BY <1>0, <1>1, <1>2, <2>1
<1>5. CASE StoreInFirstBlock(h, s)
  <2>1. ASSUME NEW b \in NextFree, allocated' = allocated \cup {b},
               Append(h, [cache[h] EXCEPT !.lba = b, !.off = 0, !.data = Empty], s)
        PROVE  DiskKept'
    BY <1>3, <1>5, <2>1 DEF StoreInFirstBlock
  <2>2. ASSUME allocated \subseteq allocated', UNCHANGED cache
        PROVE  DiskKept'
    <3>1. job' = job
      BY <1>5 DEF StoreInFirstBlock
    <3> QED
      BY <1>0, <2>2, <3>1 DEF DiskKept, Kept
  <2> QED
    BY <1>0, <1>5, <2>1, <2>2 DEF StoreInFirstBlock
<1>6. CASE StoreInNextBlock(h, s)
  <2>1. cache[h].lba # 0 /\ job' = [lba |-> cache[h].lba, data |-> cache[h].data]
    BY <1>6 DEF StoreInNextBlock
  <2>2. ASSUME NEW b \in NextFree, allocated' = allocated \cup {b},
               Append(h, [cache[h] EXCEPT !.lba = b, !.off = 0, !.data = Empty], s)
        PROVE  DiskKept'
    BY <1>3, <2>1, <2>2
  <2>3. ASSUME UNCHANGED allocated,
               cache' = [cache EXCEPT ![h].lba = 0, ![h].dirty = FALSE,
                                      ![h].data = Empty, ![h].hasData = FALSE]
        PROVE  DiskKept'
    <3>1. /\ cache'[h].lba = 0 /\ cache'[h].initialized
          /\ \A g \in Handles : g # h => cache'[g] = cache[g]
      BY <1>1, <2>3 DEF IndInv, TypeOK
    <3>2. \A g \in Handles : cache'[g].lba = 0
      BY <1>1, <3>1
    <3>3. cache[h].off \in 0 .. Capacity
      BY <1>1 DEF CacheStates
    <3>4. Kept(job.lba, job.data, Capacity)'
      BY <1>0, <2>1, <3>3, BlocksAssumption DEF DiskKept, Kept, Slots
    <3> QED
      BY <1>0, <2>3, <3>1, <3>2, <3>4 DEF DiskKept
  <2> QED
    BY <1>0, <1>6, <2>2, <2>3 DEF StoreInNextBlock
<1> QED
  BY <1>0, <1>4, <1>5, <1>6

(* Opening and setting up a handle, starting and ending a call. *)
LEMMA CallKept ==
  ASSUME MaxWriters <= 1, IndInv, TypeOK', DiskKept, NEW h \in Handles,
         \/ Open(h) \/ ColdSetup(h) \/ BeginWrite(h) \/ EndWrite(h)
         \/ \E s \in Sectors : StoreHit(h, s)
  PROVE  DiskKept' /\ disk' = disk
<1>0. disk' = disk /\ job' = job /\ allocated' = allocated
  BY DEF Open, ColdSetup, BeginWrite, EndWrite, StoreHit
<1>1. CASE Open(h)
  <2>1. /\ cache'[h].lba = 0 /\ ~cache'[h].initialized /\ hdr' = hdr
        /\ \A g \in Handles : g # h => cache'[g] = cache[g]
    BY <1>1 DEF Open, IndInv, TypeOK, Closed
  <2>2. ~cache[h].initialized
    BY <1>1 DEF Open, IndInv, HandlesSound
  <2> QED
    BY <1>0, <2>1, <2>2 DEF DiskKept, Kept
<1>2. CASE ColdSetup(h)
  <2>1. \A g \in Handles : ~cache[g].initialized /\ cache[g].lba = 0
    BY <1>2, OtherHandles DEF ColdSetup, IndInv, HandlesSound
  <2>2. /\ cache'[h] = BlockInit
        /\ \A g \in Handles : g # h => cache'[g] = cache[g]
    BY <1>2 DEF ColdSetup, IndInv, TypeOK
  <2>3. /\ cache'[h].initialized /\ cache'[h].lba = hdr.lba /\ cache'[h].off = hdr.off
        /\ (hdr.lba # 0 => cache'[h].data = disk[hdr.lba])
    BY <2>2 DEF BlockInit, Closed
  <2>4. \A g \in Handles : cache'[g].lba # 0 => Kept(cache[g].lba, cache[g].data, cache[g].off)'
    <3> SUFFICES ASSUME NEW g \in Handles, cache'[g].lba # 0
                 PROVE  Kept(cache[g].lba, cache[g].data, cache[g].off)'
      OBVIOUS
    <3>1. g = h
      BY <2>1, <2>2
    <3> QED
      BY <1>0, <2>1, <2>3, <3>1 DEF DiskKept, Kept
  <2> QED
    BY <1>0, <2>3, <2>4 DEF DiskKept, Kept
<1>3. CASE BeginWrite(h) \/ \E s \in Sectors : StoreHit(h, s)
  BY <1>0, <1>3 DEF BeginWrite, StoreHit, DiskKept, Kept
<1>4. CASE EndWrite(h)
  <2>1. cache' = cache /\ cache[h].initialized
    BY <1>4, BlocksAssumption DEF EndWrite, Writing, IndInv, CallSound
  <2> QED
    BY <1>0, <2>1 DEF DiskKept, Kept
<1> QED
  BY <1>0, <1>1, <1>2, <1>3, <1>4

(* The job and a flush write every slot that was written before. *)
LEMMA FlushKept ==
  ASSUME IndInv, TypeOK', DiskKept,
         RunJob \/ \E h \in Handles : FailWrite(h) \/ Flush(h) \/ Release(h)
  PROVE  DiskKept' /\ NothingLost
<1>1. CASE RunJob
  <2>1. job'.lba = 0 /\ UNCHANGED <<allocated, hdr, cache>> /\ disk' = [disk EXCEPT ![job.lba] = Image(job.data, Capacity)]
    BY <1>1 DEF RunJob, NoJob
  <2>2. \A b \in Blocks : b # job.lba => disk'[b] = disk[b]
    BY <2>1 DEF IndInv, TypeOK
  <2>3. CASE job.lba = 0
    <3>1. disk' = disk
      BY <2>1, <2>3, BlocksAssumption DEF IndInv, TypeOK
    <3> QED
      BY <2>1, <3>1 DEF DiskKept, Kept, NothingLost
  <2>4. CASE job.lba # 0
    <3>1. job.lba \in Blocks /\ job.lba \in allocated /\ \A g \in Handles : cache[g].lba # job.lba
      BY <2>4 DEF IndInv, JobSound, TypeOK
    <3>2. disk'[job.lba] = Image(job.data, Capacity)
      BY <2>1, <3>1 DEF IndInv, TypeOK
    <3>3. NothingLost
      BY <2>2, <2>4, <3>2 DEF NothingLost, DiskKept, Kept, Image
    <3>4. \E h \in Handles : cache[h].initialized
      BY <2>4 DEF IndInv, CallSound, TypeOK
    <3>5. \A h \in Handles : cache[h].lba # 0 => cache[h].lba \in Blocks
      BY DEF IndInv, TypeOK
    <3>6. \A h \in Handles : cache[h].lba # 0 => disk'[cache[h].lba] = disk[cache[h].lba]
      BY <2>2, <3>1, <3>5
    <3>7. DiskKept'
      BY <2>1, <2>2, <3>1, <3>4, <3>6 DEF DiskKept, Kept
    <3> QED
      BY <3>3, <3>7
  <2> QED
    BY <2>3, <2>4
<1>2. ASSUME NEW h \in Handles, FailWrite(h) \/ Flush(h) \/ Release(h)
      PROVE  DiskKept' /\ NothingLost
  <2>1. /\ cache[h].open /\ job.lba = 0 /\ disk' = Flushed(h) /\ UNCHANGED <<allocated, job>>
    BY <1>2, BlocksAssumption
    DEF FailWrite, Flush, Release, FlushCache, NoCall, NoJob, IndInv, CallSound, HandlesSound
  <2>o. \A g \in Handles : g # h => ~cache[g].open /\ ~cache[g].initialized /\ cache[g].lba = 0
    BY <2>1, OtherHandles DEF IndInv
  <2>2. /\ \A g \in Handles : g # h => cache'[g] = cache[g]
        /\ \/ /\ cache'[h].initialized = cache[h].initialized
              /\ cache'[h].lba = cache[h].lba /\ cache'[h].off = cache[h].off
              /\ cache'[h].data = cache[h].data
           \/ cache'[h].lba = 0 /\ ~cache'[h].initialized
    <3>1. CASE Release(h)
      BY <3>1 DEF Release, Closed, IndInv, TypeOK
    <3>2. CASE FailWrite(h) \/ Flush(h)
      BY <3>2 DEF FailWrite, Flush, IndInv, TypeOK
    <3> QED
      BY <1>2, <3>1, <3>2
  <2>3. \A b \in Blocks, i \in Slots : disk'[b][i] = IF cache[h].dirty /\ b = cache[h].lba
                                        THEN Image(cache[h].data, cache[h].off)[i] ELSE disk[b][i]
    BY <2>1, BlocksAssumption DEF Flushed, IndInv, TypeOK
  <2>4. \A b \in Blocks : b # cache[h].lba => disk'[b] = disk[b]
    BY <2>1 DEF Flushed, IndInv, TypeOK
  <2>5. cache[h].lba # 0 => /\ cache[h].lba \in Blocks /\ cache[h].lba \in allocated
                            /\ Kept(cache[h].lba, cache[h].data, cache[h].off)
    BY DEF DiskKept, IndInv, BufferSound, TypeOK
  <2>6. cache[h].lba # 0 => \A i \in Slots : disk'[cache[h].lba][i] # "hole" =>
            i < cache[h].off /\ cache[h].data[i] = disk'[cache[h].lba][i]
    BY <2>3, <2>5 DEF Kept, Image
  <2>7. NothingLost
    <3> SUFFICES ASSUME NEW b \in Blocks, NEW i \in Slots, disk[b][i] # "hole"
                 PROVE  disk'[b][i] = disk[b][i]
      BY DEF NothingLost
    <3>1. b # 0
      BY BlocksAssumption
    <3> QED
      BY <2>3, <2>5, <3>1 DEF Kept, Image
  <2>8. \A b \in Blocks \ allocated' : disk'[b] = Empty
    <3> SUFFICES ASSUME NEW b \in Blocks \ allocated PROVE disk'[b] = Empty
      BY <2>1
    <3>1. b # cache[h].lba
      BY <2>5, BlocksAssumption
    <3> QED
      BY <2>4, <3>1 DEF DiskKept
  <2>9. \A g \in Handles : cache'[g].lba # 0 => Kept(cache[g].lba, cache[g].data, cache[g].off)'
    <3> SUFFICES ASSUME NEW g \in Handles, cache'[g].lba # 0
                 PROVE  Kept(cache[g].lba, cache[g].data, cache[g].off)'
      OBVIOUS
    <3>1. g = h
      BY <2>o, <2>2
    <3> QED
      BY <2>2, <2>6, <3>1 DEF Kept
  <2>10. (\A g \in Handles : ~cache'[g].initialized) /\ hdr'.lba # 0 =>
            \A i \in Slots : disk'[hdr'.lba][i] # "hole" => i < hdr'.off
    <3>1. CASE cache[h].initialized
      <4>1. hdr' = Position(h)
        BY <1>2, <3>1 DEF FailWrite, Flush, Release, FlushCache
      <4> QED
        BY <2>6, <4>1 DEF Position
    <3>2. CASE ~cache[h].initialized
      <4>1. hdr' = hdr /\ cache[h].lba = 0
        BY <1>2, <3>2, BlocksAssumption DEF FailWrite, Flush, Release, FlushCache, IndInv, CallSound, HandlesSound
      <4>2. disk' = disk
        BY <2>1, <4>1 DEF Flushed
      <4> QED
        BY <3>2, <4>1, <4>2, <2>o DEF DiskKept, Kept
    <3> QED
      BY <3>1, <3>2
  <2>11. DiskKept'
    BY <2>1, <2>8, <2>9, <2>10 DEF DiskKept, Kept
  <2> QED
    BY <2>7, <2>11
<1> QED
  BY <1>1, <1>2

(* With one handle open at a time dedup blocks are append-only, as          *)
(* docs/DESIGN.md says of them: no write of a block, by the pool or by a    *)
(* flush, changes a slot that was written before.                           *)
THEOREM BlocksAppendOnly ==
  ASSUME MaxWriters <= 1
  PROVE  Spec => AppendOnly
<1>1. Init => DiskKept
  BY DEF Init, DiskKept, Closed, NoJob, NoLoc
<1>2. IndInv /\ DiskKept /\ [Next]_vars => DiskKept' /\ [NothingLost]_vars
  <2> SUFFICES ASSUME IndInv, DiskKept, [Next]_vars PROVE DiskKept' /\ [NothingLost]_vars
    OBVIOUS
  <2>t. TypeOK'
    BY StepTyped DEF IndInv
  <2>1. CASE UNCHANGED vars
    BY <2>1 DEF vars, DiskKept, Kept
  <2>2. ASSUME NEW h \in Handles, Open(h) \/ ColdSetup(h) \/ BeginWrite(h) \/ EndWrite(h)
        PROVE  DiskKept' /\ NothingLost
    BY <2>2, <2>t, CallKept DEF NothingLost
  <2>3. ASSUME NEW h \in Handles, NEW s \in Sectors, Store(h, s)
        PROVE  DiskKept' /\ NothingLost
    BY <2>3, <2>t, CallKept, StoreKept DEF NothingLost, Store
  <2>4. ASSUME RunJob \/ \E h \in Handles : FailWrite(h) \/ Flush(h) \/ Release(h)
        PROVE  DiskKept' /\ NothingLost
    BY <2>4, <2>t, FlushKept
  <2> QED
    BY <2>1, <2>2, <2>3, <2>4 DEF Next
<1>3. [][NothingLost]_vars => AppendOnly
  BY PTL DEF NothingLost, AppendOnly
<1> QED
  BY <1>1, <1>2, <1>3, InitSound, StepSound, PTL DEF Spec
=============================================================================
