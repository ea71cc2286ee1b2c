------------------------ MODULE BlockAllocatorProofs ------------------------
(***************************************************************************)
(* Type correctness of the block allocator, the absence of double          *)
(* allocation and leaks, first fit and the bitmap on disk, for every       *)
(* volume size, word size and number of clients.                           *)
(*                                                                         *)
(* NoDoubleAllocation is not inductive: AllocFound hands out the run the   *)
(* search has put together, so the invariant must say that this run, and   *)
(* the part of the current word still to be looked at, are free.           *)
(***************************************************************************)
EXTENDS BlockAllocator, TLAPS

(* The run found so far and the bits to look at next lie in the volume and  *)
(* are free; the run is long enough when the search has succeeded.          *)
SearchSound ==
    /\ search.free \subseteq Blocks \ bitmap
    /\ Run(search.runStart, search.runLen) \subseteq Blocks \ bitmap
    /\ search.pc = "found" => search.count <= search.runLen
    /\ search.pc # "idle" => search.client \in Clients /\ search.from < TotalBlocks

BaseAllocated == base \subseteq bitmap

(* Without a mounted volume nobody holds a block and nothing is searched.   *)
UnmountedIsEmpty ==
    mounted # "yes" => search = Idle /\ \A c \in Clients : held[c] = {}

IndInv == TypeOK /\ NoDoubleAllocation /\ SearchSound /\ BaseAllocated /\ UnmountedIsEmpty

(* The arithmetic of word boundaries stays in the naturals. *)
LEMMA WordEndNat ==
  ASSUME NEW b \in Nat
  PROVE  WordEnd(b) \in Nat
<1>1. WordBits \in Nat /\ WordBits > 0
  BY AllocatorAssumption
<1>2. b \div WordBits \in Nat
  BY <1>1
<1>3. (b \div WordBits + 1) * WordBits \in Nat
  BY <1>1, <1>2
<1> QED
  BY <1>3 DEF WordIndex, WordEnd

(* What the masked word offers is free and inside the volume. *)
LEMMA FreeInWordSound ==
  ASSUME TypeOK, search.from < TotalBlocks
  PROVE  FreeInWord \subseteq Blocks \ bitmap
<1>1. search.bit \in Nat /\ search.from \in Nat
  BY DEF TypeOK, SearchStates
<1>2. PassEnd(search.pass) \in Nat /\ PassEnd(search.pass) <= TotalBlocks
  BY <1>1, AllocatorAssumption DEF PassEnd
<1>3. \A b \in FreeInWord : b \in Int /\ b >= search.bit /\ b < PassEnd(search.pass) /\ b \notin bitmap
  BY DEF FreeInWord, Run
<1> QED
  BY <1>1, <1>2, <1>3, AllocatorAssumption DEF Blocks

(* The formatted volume satisfies the invariant. *)
LEMMA InitIndInv == Init => IndInv
<1> SUFFICES ASSUME Init PROVE IndInv
  OBVIOUS
<1>1. bitmap \subseteq Blocks
  BY AllocatorAssumption DEF Init, Blocks
<1>2. TypeOK
  BY <1>1, AllocatorAssumption DEF Init, TypeOK, SearchStates, Idle
<1>3. SearchSound
  BY DEF Init, SearchSound, Idle, Run
<1> QED
  BY <1>2, <1>3 DEF Init, IndInv, NoDoubleAllocation, BaseAllocated, UnmountedIsEmpty

(* A step that leaves bitmap, held and base alone keeps NoDoubleAllocation  *)
(* and BaseAllocated.                                                       *)
LEMMA SameBlocks ==
  ASSUME IndInv, UNCHANGED <<bitmap, held, base>>
  PROVE  NoDoubleAllocation' /\ BaseAllocated'
BY DEF IndInv, NoDoubleAllocation, BaseAllocated

(* The search keeps to free blocks. *)
LEMMA ScanKeeps ==
  ASSUME IndInv, ScanWord \/ ScanBit \/ WordDone \/ PassDone
  PROVE  IndInv'
<1> USE DEF IndInv
<1>0. UNCHANGED <<bitmap, hint, held, base, diskVars, mounted, crashes>>
  BY DEF ScanWord, ScanBit, WordDone, PassDone
<1>t. /\ search.bit \in Nat /\ search.runStart \in Nat /\ search.runLen \in Nat
      /\ search.count \in Nat /\ search.pass \in 0 .. 2 /\ search \in SearchStates
  BY DEF TypeOK, SearchStates
<1>m. mounted = "yes" /\ UnmountedIsEmpty'
  <2>1. search.pc # "idle"
    BY DEF ScanWord, ScanBit, WordDone, PassDone
  <2>2. search # Idle
    BY <2>1 DEF Idle
  <2> QED
    BY <1>0, <2>2 DEF UnmountedIsEmpty
<1>1. CASE ScanWord
  <2>0. search.pc = "word" /\ search.from < TotalBlocks
    BY <1>1 DEF ScanWord, SearchSound
  <2>1. FreeInWord \subseteq Blocks \ bitmap
    BY <2>0, FreeInWordSound
  <2>2. WordEnd(search.bit) \in Nat
    BY <1>t, WordEndNat
  <2>3. search' \in SearchStates
    BY <1>1, <1>t, <2>1, <2>2 DEF ScanWord, SearchStates
  <2>4. TypeOK'
    BY <1>0, <2>3 DEF TypeOK, diskVars
  <2>5. SearchSound'
    <3>1. CASE FreeInWord = {}
      <4>1. search' = [search EXCEPT !.runLen = 0, !.bit = WordEnd(search.bit)]
        BY <1>1, <3>1 DEF ScanWord
      <4>2. Run(search'.runStart, search'.runLen) = {}
        BY <1>t, <4>1 DEF Run, SearchStates
      <4> QED
        BY <1>0, <2>0, <4>1, <4>2, <1>t DEF SearchSound, Blocks, SearchStates
    <3>2. CASE FreeInWord # {}
      <4>1. search' = [search EXCEPT !.pc = "bits", !.free = FreeInWord]
        BY <1>1, <3>2 DEF ScanWord
      <4> QED
        BY <1>0, <2>0, <2>1, <4>1, <1>t DEF SearchSound, Blocks, SearchStates
    <3> QED
      BY <3>1, <3>2
  <2> QED
    BY <2>4, <2>5, <1>0, <1>m, SameBlocks
<1>2. CASE ScanBit
  <2>1. PICK b \in search.free :
          LET start == IF ContinuesRun(b) THEN search.runStart ELSE b
              len   == IF ContinuesRun(b) THEN search.runLen + 1 ELSE 1
          IN search' = [search EXCEPT !.runStart = start, !.runLen = len, !.free = @ \ {b},
                                      !.pc = IF len >= search.count THEN "found" ELSE "bits"]
    BY <1>2 DEF ScanBit
  <2> DEFINE start == IF ContinuesRun(b) THEN search.runStart ELSE b
             len   == IF ContinuesRun(b) THEN search.runLen + 1 ELSE 1
  <2>2. b \in Nat /\ b \in Blocks \ bitmap
    BY <1>t, AllocatorAssumption DEF SearchSound, Blocks
  <2>3. start \in Nat /\ len \in Nat
    BY <1>t, <2>2
  <2>4. /\ search'.runStart = start /\ search'.runLen = len
        /\ search'.free = search.free \ {b}
        /\ search'.pc = IF len >= search.count THEN "found" ELSE "bits"
        /\ search'.client = search.client /\ search'.from = search.from
        /\ search'.count = search.count
    BY <2>1, <1>t DEF SearchStates
  <2>5. search' \in SearchStates
    BY <2>1, <2>3, <1>t DEF SearchStates
  <2>6. Run(start, len) \subseteq Blocks \ bitmap
    <3>1. CASE ContinuesRun(b)
      <4>1. Run(start, len) \subseteq Run(search.runStart, search.runLen) \cup {b}
        BY <1>t, <2>2, <3>1 DEF Run, ContinuesRun
      <4> QED
        BY <4>1, <2>2 DEF SearchSound
    <3>2. CASE ~ContinuesRun(b)
      <4>1. Run(start, len) = {b}
        BY <2>2, <3>2 DEF Run
      <4> QED
        BY <4>1, <2>2
    <3> QED
      BY <3>1, <3>2
  <2>7. TypeOK'
    BY <1>0, <2>5 DEF TypeOK, diskVars
  <2>8. search.pc # "idle"
    BY <1>2 DEF ScanBit
  <2>9. SearchSound'
    <3> HIDE DEF start, len
    <3>1. search'.pc = "found" => search'.count <= search'.runLen
      BY <2>3, <2>4, <1>t
    <3>2. Blocks' = Blocks
      BY DEF Blocks
    <3>3. Run(search'.runStart, search'.runLen) \subseteq Blocks \ bitmap'
      BY <2>4, <2>6, <1>0
    <3>4. search'.free \subseteq Blocks \ bitmap'
      BY <2>4, <1>0 DEF SearchSound
    <3> QED
      BY <2>4, <2>8, <3>1, <3>2, <3>3, <3>4, <1>0 DEF SearchSound
  <2> QED
    BY <2>7, <2>9, <1>0, <1>m, SameBlocks
<1>3. CASE WordDone
  <2>1. WordEnd(search.bit) \in Nat
    BY <1>t, WordEndNat
  <2>2. search' \in SearchStates
    BY <1>3, <1>t, <2>1 DEF WordDone, SearchStates
  <2>3. TypeOK'
    BY <1>0, <2>2 DEF TypeOK, diskVars
  <2>4. SearchSound'
    BY <1>0, <1>3, <1>t, <2>1 DEF WordDone, SearchSound, Blocks, SearchStates
  <2> QED
    BY <2>3, <2>4, <1>0, <1>m, SameBlocks
<1>4. CASE PassDone
  <2>1. search' \in SearchStates
    <3>1. NextPass \in SearchStates
      <4>1. 2 \in 0 .. 2 /\ 0 \in Nat
        OBVIOUS
      <4> QED
        BY <1>t, <4>1, Zenon DEF NextPass, SearchStates
    <3>2. [search EXCEPT !.pc = "nospace"] \in SearchStates
      BY <1>t DEF SearchStates
    <3> QED
      BY <1>4, <3>1, <3>2 DEF PassDone
  <2>2. TypeOK'
    BY <1>0, <2>1 DEF TypeOK, diskVars
  <2>3. Run(search'.runStart, search'.runLen) \subseteq Blocks \ bitmap
    <3>1. CASE search' = NextPass
      BY <3>1, <1>t DEF NextPass, SearchStates, Run
    <3>2. CASE search' = [search EXCEPT !.pc = "nospace"]
      BY <3>2, <1>t DEF SearchStates, SearchSound
    <3> QED
      BY <1>4, <3>1, <3>2 DEF PassDone
  <2>4. SearchSound'
    BY <1>0, <1>4, <1>t, <2>3 DEF PassDone, NextPass, SearchSound, Blocks, SearchStates
  <2> QED
    BY <2>2, <2>4, <1>0, <1>m, SameBlocks
<1> QED
  BY <1>1, <1>2, <1>3, <1>4

(* Starting a search. *)
LEMMA AllocKeeps ==
  ASSUME IndInv, NEW c \in Clients, NEW n \in 1 .. MaxCount, Alloc(c, n)
  PROVE  IndInv'
<1> DEFINE from == IF hint >= TotalBlocks THEN 0 ELSE hint
<1>0. UNCHANGED <<bitmap, hint, held, base, diskVars, mounted, crashes>>
  BY DEF Alloc
<1>1. search' = [Idle EXCEPT !.pc = "word", !.client = c, !.count = n, !.pass = 1,
                             !.from = from, !.bit = from]
  BY DEF Alloc
<1>2. from \in Nat /\ from < TotalBlocks
  BY AllocatorAssumption DEF IndInv, TypeOK
<1> HIDE DEF from
<1>3. search' = [pc |-> "word", client |-> c, count |-> n, pass |-> 1, from |-> from,
                 bit |-> from, free |-> {}, runStart |-> 0, runLen |-> 0]
  BY <1>1 DEF Idle
<1>4. search' \in SearchStates
  BY <1>2, <1>3, AllocatorAssumption DEF SearchStates
<1>5. TypeOK'
  BY <1>0, <1>4 DEF IndInv, TypeOK, diskVars
<1>6. SearchSound'
  BY <1>2, <1>3 DEF SearchSound, Run
<1>7. UnmountedIsEmpty'
  BY <1>0 DEF Alloc, Ready, UnmountedIsEmpty
<1> QED
  BY <1>0, <1>5, <1>6, <1>7, SameBlocks DEF IndInv

(* An idle search holds nothing. *)
LEMMA IdleSound ==
  ASSUME search' = Idle
  PROVE  SearchSound' /\ search' \in SearchStates
<1>1. search'.runStart = 0 /\ search'.runLen = 0 /\ search'.free = {} /\ search'.pc = "idle"
  BY DEF Idle
<1>2. Run(search'.runStart, search'.runLen) = {}
  BY <1>1 DEF Run
<1>3. search' \in SearchStates
  BY DEF Idle, SearchStates
<1> QED
  BY <1>1, <1>2, <1>3 DEF SearchSound

(* The run handed out was free, so nobody held it. *)
LEMMA FoundKeeps ==
  ASSUME IndInv, AllocFound
  PROVE  IndInv'
<1> DEFINE run == Run(search.runStart, search.count)
           c   == search.client
<1>1. c \in Clients /\ run \subseteq Blocks \ bitmap
  <2>1. search.count <= search.runLen /\ c \in Clients
    BY DEF AllocFound, IndInv, SearchSound
  <2>2. search.runStart \in Nat /\ search.runLen \in Nat /\ search.count \in Nat
    BY DEF IndInv, TypeOK, SearchStates
  <2>3. run \subseteq Run(search.runStart, search.runLen)
    BY <2>1, <2>2 DEF Run
  <2> QED
    BY <2>1, <2>3 DEF IndInv, SearchSound
<1>2. /\ bitmap' = bitmap \cup run
      /\ held' = [held EXCEPT ![c] = @ \cup run]
      /\ search' = Idle /\ UNCHANGED <<base, diskVars, mounted, crashes>>
  BY DEF AllocFound, Marked
<1>3. hint' \in Nat
  BY DEF AllocFound, IndInv, TypeOK, SearchStates
<1> HIDE DEF run, c
<1>4. \A d \in Clients : held'[d] = IF d = c THEN held[d] \cup run ELSE held[d]
  BY <1>1, <1>2 DEF IndInv, TypeOK
<1>5. TypeOK'
  BY <1>1, <1>2, <1>3, IdleSound DEF IndInv, TypeOK, diskVars
<1>6. NoDoubleAllocation'
  <2>1. \A d \in Clients : held'[d] \cap base' = {} /\ held'[d] \subseteq bitmap'
    BY <1>1, <1>2, <1>4 DEF IndInv, NoDoubleAllocation, BaseAllocated
  <2>2. \A d, e \in Clients : d # e => held'[d] \cap held'[e] = {}
    BY <1>1, <1>4 DEF IndInv, NoDoubleAllocation
  <2> QED
    BY <2>1, <2>2 DEF NoDoubleAllocation
<1>7. BaseAllocated'
  BY <1>2 DEF IndInv, BaseAllocated
<1>8. mounted = "yes"
  BY DEF AllocFound, IndInv, UnmountedIsEmpty, Idle
<1> QED
  BY <1>2, <1>5, <1>6, <1>7, <1>8, IdleSound DEF IndInv, UnmountedIsEmpty

(* What a client frees was its own. *)
LEMMA FreeKeeps ==
  ASSUME IndInv, NEW c \in Clients, NEW start \in Blocks, NEW n \in 1 .. MaxCount,
         Free(c, start, n)
  PROVE  IndInv'
<1> DEFINE run == Run(start, n)
<1>1. /\ run \subseteq held[c] /\ bitmap' = bitmap \ run
      /\ held' = [held EXCEPT ![c] = @ \ run]
      /\ UNCHANGED <<hint, search, base, diskVars, mounted, crashes>>
      /\ search.pc = "idle"
  BY DEF Free, Ready
<1> HIDE DEF run
<1>2. \A d \in Clients : held'[d] = IF d = c THEN held[d] \ run ELSE held[d]
  BY <1>1 DEF IndInv, TypeOK
<1>3. TypeOK'
  BY <1>1 DEF IndInv, TypeOK, diskVars
<1>4. NoDoubleAllocation'
  <2>1. \A d \in Clients : held'[d] \cap base' = {}
    BY <1>1, <1>2 DEF IndInv, NoDoubleAllocation
  <2>2. \A d \in Clients : held'[d] \subseteq bitmap'
    BY <1>1, <1>2 DEF IndInv, NoDoubleAllocation
  <2>3. \A d, e \in Clients : d # e => held'[d] \cap held'[e] = {}
    BY <1>1, <1>2 DEF IndInv, NoDoubleAllocation
  <2> QED
    BY <2>1, <2>2, <2>3 DEF NoDoubleAllocation
<1>5. BaseAllocated'
  BY <1>1 DEF IndInv, NoDoubleAllocation, BaseAllocated
<1>6. SearchSound'
  BY <1>1 DEF IndInv, SearchSound, Blocks
<1>7. UnmountedIsEmpty'
  BY DEF Free, Ready, UnmountedIsEmpty
<1> QED
  BY <1>3, <1>4, <1>5, <1>6, <1>7 DEF IndInv

(* Writing the bitmap changes the disk only. *)
LEMMA WriteKeeps ==
  ASSUME IndInv, WriteHeader \/ WriteChunk
  PROVE  IndInv'
<1>1. UNCHANGED <<bitmap, hint, search, held, base, mounted, crashes>>
  BY DEF WriteHeader, WriteChunk
<1>2. SearchSound'
  BY <1>1 DEF IndInv, SearchSound, Blocks
<1>3. TypeOK'
  <2>1. CASE WriteHeader
    BY <2>1, <1>1 DEF WriteHeader, ChunkOf, IndInv, TypeOK
  <2>2. CASE WriteChunk
    BY <2>2, <1>1 DEF WriteChunk, ChunkOf, IndInv, TypeOK
  <2> QED
    BY <2>1, <2>2
<1> QED
  BY <1>1, <1>2, <1>3, SameBlocks DEF IndInv, UnmountedIsEmpty

(* A crash forgets the memory; a mount starts from the disk. *)
LEMMA RestartKeeps ==
  ASSUME IndInv, Crash \/ Mount
  PROVE  IndInv'
<1>1. CASE Crash
  <2>1. TypeOK'
    BY <1>1, IdleSound DEF Crash, IndInv, TypeOK
  <2>2. NoDoubleAllocation' /\ BaseAllocated'
    BY <1>1 DEF Crash, NoDoubleAllocation, BaseAllocated
  <2>3. UnmountedIsEmpty'
    BY <1>1 DEF Crash, UnmountedIsEmpty
  <2> QED
    BY <1>1, <2>1, <2>2, <2>3, IdleSound DEF Crash, IndInv
<1>2. CASE Mount
  <2>1. TypeOK'
    BY <1>2 DEF Mount, IndInv, TypeOK, diskVars
  <2>2. search = Idle /\ \A c \in Clients : held[c] = {}
    BY <1>2 DEF Mount, IndInv, UnmountedIsEmpty
  <2>3. NoDoubleAllocation' /\ BaseAllocated' /\ UnmountedIsEmpty'
    BY <1>2, <2>2 DEF Mount, IndInv, NoDoubleAllocation, BaseAllocated, UnmountedIsEmpty
  <2>4. SearchSound'
    BY <1>2, <2>2, IdleSound DEF Mount
  <2> QED
    BY <2>1, <2>3, <2>4 DEF IndInv
<1> QED
  BY <1>1, <1>2

(* Every step keeps the invariant. *)
LEMMA NextIndInv == IndInv /\ [Next]_vars => IndInv'
<1> SUFFICES ASSUME IndInv, [Next]_vars PROVE IndInv'
  OBVIOUS
<1>1. ASSUME NEW c \in Clients, NEW n \in 1 .. MaxCount, Alloc(c, n) PROVE IndInv'
  BY <1>1, AllocKeeps
<1>2. CASE SearchStep
  <2>1. CASE ScanWord \/ ScanBit \/ WordDone \/ PassDone
    BY <2>1, ScanKeeps
  <2>2. CASE AllocFound
    BY <2>2, FoundKeeps
  <2>3. CASE AllocNoSpace
    <3>1. UNCHANGED <<bitmap, hint, held, base, diskVars, mounted, crashes>> /\ search' = Idle
      BY <2>3 DEF AllocNoSpace
    <3>2. TypeOK'
      BY <3>1, IdleSound DEF IndInv, TypeOK, diskVars
    <3>3. UnmountedIsEmpty'
      BY <3>1 DEF IndInv, UnmountedIsEmpty
    <3> QED
      BY <3>1, <3>2, <3>3, IdleSound, SameBlocks DEF IndInv
  <2> QED
    BY <1>2, <2>1, <2>2, <2>3 DEF SearchStep
<1>3. ASSUME NEW c \in Clients, NEW start \in Blocks, NEW n \in 1 .. MaxCount, Free(c, start, n)
      PROVE IndInv'
  BY <1>3, FreeKeeps
<1>4. CASE WriteHeader \/ WriteChunk
  BY <1>4, WriteKeeps
<1>5. CASE Crash \/ Mount
  BY <1>5, RestartKeeps
<1>6. CASE UNCHANGED vars
  BY <1>6 DEF vars, diskVars, IndInv, TypeOK, NoDoubleAllocation, SearchSound, BaseAllocated,
              UnmountedIsEmpty, Blocks
<1> QED
  BY <1>1, <1>2, <1>3, <1>4, <1>5, <1>6 DEF Next

(* Every state of obmafs3_alloc_blocks, obmafs3_free_blocks and the bitmap's *)
(* way to the disk and back is well typed.                                  *)
THEOREM TypeCorrect == Spec => []TypeOK
<1>1. IndInv => TypeOK
  BY DEF IndInv
<1> QED
  BY <1>1, InitIndInv, NextIndInv, PTL DEF Spec

(* obmafs3_alloc_blocks never gives out a block that somebody holds or that *)
(* was allocated when the volume was mounted, whatever was allocated, freed *)
(* and reloaded before.                                                     *)
THEOREM AllocationsDisjoint == Spec => []NoDoubleAllocation
<1>1. IndInv => NoDoubleAllocation
  BY DEF IndInv
<1> QED
  BY <1>1, InitIndInv, NextIndInv, PTL DEF Spec

(* The header on disk carries the checksum of the last bitmap written, so a *)
(* bitmap that obmafs3_bitmap_read accepts after a crash is that one, whole. *)
THEOREM AcceptedWhole == Spec => AcceptedBitmapIsWhole
<1> DEFINE SumIsLast == disk.sum = written
<1>1. Init => SumIsLast
  BY DEF Init
<1>2. TypeOK /\ SumIsLast /\ [Next]_vars => SumIsLast'
  <2> SUFFICES ASSUME TypeOK, SumIsLast, [Next]_vars PROVE SumIsLast'
    OBVIOUS
  <2>1. CASE WriteHeader
    BY <2>1 DEF WriteHeader
  <2>2. CASE WriteChunk
    BY <2>2 DEF WriteChunk, TypeOK
  <2>3. CASE UNCHANGED <<disk, written>>
    BY <2>3
  <2> QED
    BY <2>1, <2>2, <2>3 DEF Next, Alloc, SearchStep, ScanWord, ScanBit, WordDone, PassDone,
       AllocFound, AllocNoSpace, Free, Crash, Mount, vars, diskVars
<1>3. SumIsLast /\ [Next]_vars
        => [mounted = "no" /\ mounted' = "yes" => bitmap' = written]_vars
  <2> SUFFICES ASSUME SumIsLast, Next, mounted = "no", mounted' = "yes"
               PROVE  bitmap' = written
    OBVIOUS
  <2>1. Mount
    BY DEF Next, Alloc, SearchStep, ScanWord, ScanBit, WordDone, PassDone, AllocFound,
       AllocNoSpace, Free, WriteHeader, WriteChunk, Crash
  <2> QED
    BY <2>1 DEF Mount, ChecksumMatches
<1> QED
  BY <1>1, <1>2, <1>3, TypeCorrect, PTL DEF Spec, AcceptedBitmapIsWhole

(* While a volume is mounted, what obmafs3_alloc_blocks has marked and      *)
(* obmafs3_free_blocks has not cleared is exactly what the clients hold.    *)
THEOREM BitmapIsExact == Spec => []NothingLeaks
<1>1. Init => NothingLeaks
  BY DEF Init, NothingLeaks
<1>2. IndInv /\ NothingLeaks /\ [Next]_vars => NothingLeaks'
  <2> SUFFICES ASSUME IndInv, NothingLeaks, [Next]_vars PROVE NothingLeaks'
    OBVIOUS
  <2> USE DEF NothingLeaks
  <2>1. CASE AllocFound
    <3>1. search.client \in Clients /\ mounted = "yes"
      BY <2>1 DEF AllocFound, IndInv, SearchSound, UnmountedIsEmpty, Idle
    <3>2. \A d \in Clients : held'[d] = IF d = search.client THEN held[d] \cup Marked ELSE held[d]
      BY <2>1 DEF AllocFound, Marked, IndInv, TypeOK
    <3>3. bitmap' = bitmap \cup Marked /\ base' = base
      BY <2>1 DEF AllocFound
    <3>4. UNION {held'[c] : c \in Clients} = (UNION {held[c] : c \in Clients}) \cup Marked
      <4>1. \A d \in Clients : held[d] \subseteq held'[d] /\ held'[d] \subseteq held[d] \cup Marked
        BY <3>2
      <4>2. Marked \subseteq held'[search.client]
        BY <3>1, <3>2
      <4> HIDE DEF Marked
      <4>3. UNION {held'[c] : c \in Clients} \subseteq (UNION {held[c] : c \in Clients}) \cup Marked
        BY <4>1
      <4>4. (UNION {held[c] : c \in Clients}) \cup Marked \subseteq UNION {held'[c] : c \in Clients}
        BY <4>1, <4>2, <3>1
      <4> QED
        BY <4>3, <4>4
    <3> QED
      BY <3>1, <3>3, <3>4
  <2>2. ASSUME NEW c \in Clients, NEW start \in Blocks, NEW n \in 1 .. MaxCount, Free(c, start, n)
        PROVE NothingLeaks'
    <3> DEFINE run == Run(start, n)
    <3>1. /\ bitmap' = bitmap \ run /\ run \subseteq held[c] /\ base' = base /\ mounted = "yes"
          /\ held' = [held EXCEPT ![c] = @ \ run]
      BY <2>2 DEF Free, Ready
    <3> HIDE DEF run
    <3>2. \A d \in Clients : held'[d] = IF d = c THEN held[d] \ run ELSE held[d]
      BY <3>1 DEF IndInv, TypeOK
    <3>3. \A d \in Clients : held'[d] = held[d] \ run
      BY <3>1, <3>2 DEF IndInv, NoDoubleAllocation
    <3>4. UNION {held'[d] : d \in Clients} = (UNION {held[d] : d \in Clients}) \ run
      BY <3>3
    <3>5. base \cap run = {}
      BY <3>1 DEF IndInv, NoDoubleAllocation
    <3> QED
      BY <3>1, <3>4, <3>5
  <2>3. CASE Crash
    BY <2>3 DEF Crash
  <2>4. CASE Mount
    <3>1. UNION {held'[c] : c \in Clients} = {}
      BY <2>4 DEF Mount, IndInv, UnmountedIsEmpty
    <3> QED
      BY <2>4, <3>1 DEF Mount
  <2>5. CASE UNCHANGED <<bitmap, base, held, mounted>>
    BY <2>5
  <2> QED
    BY <2>1, <2>2, <2>3, <2>4, <2>5 DEF Next, Alloc, SearchStep, ScanWord, ScanBit, WordDone,
       PassDone, AllocNoSpace, WriteHeader, WriteChunk, vars
<1> QED
  BY <1>1, <1>2, InitIndInv, NextIndInv, PTL DEF Spec
-----------------------------------------------------------------------------
(* First fit.  What the word-level search has excluded so far: it works on  *)
(* the run RunFrom .. RunEnd - 1, which is empty after a word without a     *)
(* free bit, and has looked at the blocks of the pass below Limit except    *)
(* those in search.free.                                                    *)
RunFrom == IF search.runLen = 0 THEN search.bit ELSE search.runStart
RunEnd == IF search.runLen = 0 THEN search.bit ELSE search.runStart + search.runLen
Limit == IF search.pc = "word" THEN search.bit ELSE WordEnd(search.bit)
FreeInPass(p) == PassRange(p) \ bitmap

(* The free blocks that are still to be looked at, all of them behind the   *)
(* current run, and the current run itself.                                 *)
Ahead ==
    /\ search.pc = "word" => search.free = {}
    /\ search.free \subseteq FreeInPass(search.pass)
    /\ \A b \in FreeInPass(search.pass) : b \in search.free <=> RunEnd <= b /\ b < Limit
    /\ RunEnd <= Limit
CurrentRun ==
    /\ search.runLen < search.count
    /\ Run(search.runStart, search.runLen) \subseteq FreeInPass(search.pass)

(* No run that is long enough starts below the current one. *)
Excluded ==
    /\ \A s \in FreeRuns(search.pass) : RunFrom <= s
    /\ search.pass \in {1, 2} /\ search.bit >= PassStart(search.pass)
    /\ search.pass = 2 => FreeRuns(1) = {} /\ search.from > 0

Scanned == search.pc \in {"word", "bits"} => Ahead /\ CurrentRun /\ Excluded

FitInv == Scanned /\ LowestFit

(* A word's bits are those from its first one up to the next word. *)
LEMMA WordArithmetic ==
  ASSUME NEW b \in Nat
  PROVE  /\ WordIndex(b) * WordBits \in Nat /\ WordEnd(b) \in Nat
         /\ WordIndex(b) * WordBits <= b /\ b < WordEnd(b)
         /\ WordEnd(b) = WordIndex(b) * WordBits + WordBits
<1>1. WordBits \in Nat /\ WordBits > 0
  BY AllocatorAssumption
<1>2. b \div WordBits \in Nat /\ b % WordBits \in 0 .. WordBits - 1
  BY <1>1
<1>3. b = WordBits * (b \div WordBits) + (b % WordBits)
  BY <1>1
<1> DEFINE q == b \div WordBits
           r == b % WordBits
<1> HIDE DEF q, r
<1>4. q \in Nat /\ r \in Nat /\ r < WordBits /\ b = WordBits * q + r
  BY <1>1, <1>2, <1>3 DEF q, r
<1>5. WordBits * q = q * WordBits /\ (q + 1) * WordBits = q * WordBits + WordBits
      /\ q * WordBits \in Nat
  BY <1>1, <1>4
<1> DEFINE m == q * WordBits
<1> HIDE DEF m
<1>6. m \in Nat /\ b = m + r /\ (q + 1) * WordBits = m + WordBits
  BY <1>4, <1>5 DEF m
<1>7. m <= b /\ b < m + WordBits /\ m + WordBits \in Nat
  BY <1>1, <1>4, <1>6
<1> QED
  BY <1>6, <1>7 DEF WordIndex, WordEnd, q, m

(* The blocks of a pass are those from its start up to its end. *)
LEMMA PassBlocks ==
  ASSUME TypeOK, search.from < TotalBlocks, NEW p \in {1, 2}
  PROVE  /\ PassStart(p) \in Nat /\ PassEnd(p) \in Nat
         /\ \A b \in Int : b \in PassRange(p) <=> PassStart(p) <= b /\ b < PassEnd(p)
         /\ \A b \in PassRange(p) : b \in Nat
<1>1. search.from \in Nat /\ TotalBlocks \in Nat
  BY AllocatorAssumption DEF TypeOK, SearchStates
<1> QED
  BY <1>1 DEF PassStart, PassEnd, PassRange

(* A run of the length asked for starts with a free block. *)
LEMMA FreeRunHead ==
  ASSUME TypeOK, search.from < TotalBlocks, NEW p \in {1, 2}, 0 < search.count, NEW s \in FreeRuns(p)
  PROVE  s \in FreeInPass(p) /\ s \in Nat
<1>1. s \in PassRange(p) /\ Run(s, search.count) \subseteq FreeInPass(p)
  BY DEF FreeRuns, FreeInPass
<1>2. s \in Nat /\ search.count \in Nat
  BY <1>1, PassBlocks DEF TypeOK, SearchStates
<1>3. s \in Run(s, search.count)
  BY <1>2 DEF Run
<1> QED
  BY <1>1, <1>2, <1>3

(* The positions of the search are natural numbers. *)
LEMMA RunTyped ==
  ASSUME TypeOK
  PROVE  /\ search.bit \in Nat /\ search.runStart \in Nat /\ search.runLen \in Nat
         /\ search.count \in Nat /\ search.from \in Nat
         /\ RunFrom \in Nat /\ RunEnd \in Nat /\ Limit \in Nat
<1>1. /\ search.bit \in Nat /\ search.runStart \in Nat /\ search.runLen \in Nat
      /\ search.count \in Nat /\ search.from \in Nat
  BY DEF TypeOK, SearchStates
<1>2. WordEnd(search.bit) \in Nat
  BY <1>1, WordEndNat
<1> QED
  BY <1>1, <1>2 DEF RunFrom, RunEnd, Limit

(* A run that starts inside the current one and is long enough goes on      *)
(* behind it.                                                               *)
LEMMA FreeRunReaches ==
  ASSUME TypeOK, search.from < TotalBlocks, NEW p \in {1, 2}, search.runLen < search.count,
         NEW s \in FreeRuns(p), RunFrom <= s, s < RunEnd
  PROVE  RunEnd \in FreeInPass(p) /\ search.runLen # 0
<1>1. /\ search.bit \in Nat /\ search.runStart \in Nat /\ search.runLen \in Nat
      /\ search.count \in Nat
  BY RunTyped
<1>2. s \in Nat
  BY <1>1, FreeRunHead
<1>3. search.runLen # 0 /\ RunFrom = search.runStart /\ RunEnd = search.runStart + search.runLen
  BY <1>1, <1>2 DEF RunFrom, RunEnd
<1>4. RunEnd \in Run(s, search.count)
  BY <1>1, <1>2, <1>3 DEF Run
<1> QED
  BY <1>3, <1>4 DEF FreeRuns, FreeInPass

(* Passes and their runs depend on the bitmap and the request alone. *)
LEMMA SamePasses ==
  ASSUME bitmap' = bitmap, search'.from = search.from, search'.count = search.count
  PROVE  \A p : /\ PassRange(p)' = PassRange(p) /\ FreeInPass(p)' = FreeInPass(p)
                /\ FreeRuns(p)' = FreeRuns(p) /\ PassStart(p)' = PassStart(p)
BY DEF PassRange, FreeInPass, FreeRuns, PassStart, Run

(* At the start nothing is excluded. *)
LEMMA AllocFits ==
  ASSUME IndInv, IndInv', NEW c \in Clients, NEW n \in 1 .. MaxCount, Alloc(c, n)
  PROVE  FitInv'
<1>1. hint \in Nat /\ n \in Nat /\ 0 < n
  BY AllocatorAssumption DEF IndInv, TypeOK
<1>2. PICK from \in Nat :
        search' = [Idle EXCEPT !.pc = "word", !.client = c, !.count = n, !.pass = 1,
                               !.from = from, !.bit = from]
  BY <1>1 DEF Alloc
<1>3. /\ search'.pc = "word" /\ search'.count = n /\ search'.pass = 1 /\ search'.from = from
      /\ search'.bit = from /\ search'.free = {} /\ search'.runLen = 0 /\ search'.runStart = 0
  BY <1>2 DEF Idle
<1>4. RunFrom' = from /\ RunEnd' = from /\ Limit' = from
  BY <1>3 DEF RunFrom, RunEnd, Limit
<1>5. Ahead'
  BY <1>3, <1>4 DEF Ahead, FreeInPass, PassRange
<1>6. CurrentRun'
  <2>1. Run(0, 0) = {}
    BY DEF Run
  <2> QED
    BY <1>1, <1>3, <2>1 DEF CurrentRun
<1>7. Excluded'
  <2>1. \A s \in PassRange(1)' : from <= s
    BY <1>3 DEF PassRange
  <2>2. PassStart(1)' = from
    BY <1>3 DEF PassStart
  <2> QED
    BY <1>3, <1>4, <2>1, <2>2 DEF Excluded, FreeRuns
<1>8. LowestFit'
  BY <1>3 DEF LowestFit
<1> QED
  BY <1>5, <1>6, <1>7, <1>8 DEF FitInv, Scanned

(* A word with free bits leaves them to be looked at; one without excludes  *)
(* every run that starts before its end.                                    *)
LEMMA ScanWordFits ==
  ASSUME IndInv, FitInv, ScanWord
  PROVE  FitInv'
<1>0. /\ search.pc = "word" /\ search.bit < PassEnd(search.pass) /\ bitmap' = bitmap
      /\ search' = IF FreeInWord = {}
                   THEN [search EXCEPT !.runLen = 0, !.bit = WordEnd(search.bit)]
                   ELSE [search EXCEPT !.pc = "bits", !.free = FreeInWord]
  BY DEF ScanWord
<1>a. TypeOK /\ search.from < TotalBlocks
  BY <1>0 DEF IndInv, SearchSound
<1>i. Ahead /\ CurrentRun /\ Excluded
  BY <1>0 DEF FitInv, Scanned
<1>t. /\ search.bit \in Nat /\ search.runStart \in Nat /\ search.runLen \in Nat
      /\ search.count \in Nat /\ RunFrom \in Nat /\ RunEnd \in Nat /\ search \in SearchStates
  BY <1>a, RunTyped DEF TypeOK
<1> DEFINE W == WordEnd(search.bit)
<1>w. /\ WordIndex(search.bit) * WordBits \in Nat /\ W \in Nat
      /\ WordIndex(search.bit) * WordBits <= search.bit /\ search.bit < W
      /\ W = WordIndex(search.bit) * WordBits + WordBits /\ WordBits \in Nat
  BY <1>t, WordArithmetic, AllocatorAssumption
<1>p. search.pass \in {1, 2} /\ search.bit >= PassStart(search.pass)
  BY <1>i DEF Excluded
<1>r. /\ PassStart(search.pass) \in Nat /\ PassEnd(search.pass) \in Nat
      /\ \A b \in Int : b \in PassRange(search.pass)
                       <=> PassStart(search.pass) <= b /\ b < PassEnd(search.pass)
      /\ \A b \in PassRange(search.pass) : b \in Nat
  BY <1>a, <1>p, PassBlocks
<1>1. Limit = search.bit /\ search.free = {} /\ RunEnd <= search.bit
  BY <1>0, <1>i DEF Limit, Ahead
<1>2. \A b \in FreeInPass(search.pass) : b \in Nat /\ (b < RunEnd \/ search.bit <= b)
  BY <1>1, <1>i, <1>r, <1>t DEF Ahead, FreeInPass
<1>3. \A b \in FreeInPass(search.pass) : b \in FreeInWord <=> search.bit <= b /\ b < W
  <2> SUFFICES ASSUME NEW b \in FreeInPass(search.pass)
               PROVE  b \in FreeInWord <=> search.bit <= b /\ b < W
    OBVIOUS
  <2>1. b \in Nat /\ b \notin bitmap /\ b < PassEnd(search.pass)
    BY <1>r DEF FreeInPass
  <2>2. b \in Run(WordIndex(search.bit) * WordBits, WordBits)
           <=> WordIndex(search.bit) * WordBits <= b /\ b < W
    BY <1>w, <2>1 DEF Run
  <2> QED
    BY <1>w, <1>t, <2>1, <2>2 DEF FreeInWord
<1>4. FreeInWord \subseteq FreeInPass(search.pass)
  <2>1. \A b \in FreeInWord : b \in Int /\ b >= search.bit /\ b < PassEnd(search.pass) /\ b \notin bitmap
    BY DEF FreeInWord, Run
  <2> QED
    BY <2>1, <1>p, <1>r, <1>t DEF FreeInPass
<1> HIDE DEF W
<1>s. /\ search'.from = search.from /\ search'.count = search.count /\ search'.pass = search.pass
      /\ search'.runStart = search.runStart
  BY <1>0, <1>t DEF SearchStates
<1>5. \A p : /\ FreeInPass(p)' = FreeInPass(p) /\ FreeRuns(p)' = FreeRuns(p)
             /\ PassStart(p)' = PassStart(p)
  BY <1>0, <1>s, SamePasses
<1>6. CASE FreeInWord = {}
  <2>1. search'.pc = "word" /\ search'.free = {} /\ search'.runLen = 0 /\ search'.bit = W
    BY <1>0, <1>1, <1>6, <1>t DEF SearchStates, W
  <2>2. RunFrom' = W /\ RunEnd' = W /\ Limit' = W
    BY <2>1 DEF RunFrom, RunEnd, Limit
  <2>3. \A s \in FreeRuns(search.pass) : W <= s
    <3> SUFFICES ASSUME NEW s \in FreeRuns(search.pass) PROVE W <= s
      OBVIOUS
    <3>1. s \in FreeInPass(search.pass) /\ s \in Nat
      <4>1. 0 < search.count
        BY <1>i, <1>t DEF CurrentRun
      <4> QED
        BY <4>1, <1>a, <1>p, FreeRunHead
    <3>2. RunFrom <= s /\ search.runLen < search.count
      BY <1>i DEF Excluded, CurrentRun
    <3>3. RunEnd <= s
      <4>1. SUFFICES ASSUME s < RunEnd PROVE FALSE
        BY <3>1, <1>t
      <4>2. RunEnd \in FreeInPass(search.pass)
        BY <4>1, <3>2, <1>a, <1>p, FreeRunReaches
      <4>3. RunEnd = search.bit
        BY <4>2, <1>1, <1>2, <1>t
      <4> QED
        BY <4>2, <4>3, <1>3, <1>6, <1>t, <1>w DEF W
    <3>4. search.bit <= s
      BY <3>1, <3>3, <1>2, <1>t
    <3> QED
      BY <3>1, <3>4, <1>3, <1>6, <1>w DEF W
  <2>4. Ahead'
    <3>1. \A b \in FreeInPass(search.pass) : ~(W <= b /\ b < W)
      BY <1>2, <1>w DEF W
    <3> QED
      BY <1>5, <1>s, <1>w, <2>1, <2>2, <3>1 DEF Ahead, W
  <2>5. CurrentRun'
    <3>1. Run(search.runStart, 0) = {}
      BY <1>t DEF Run
    <3> QED
      BY <1>i, <1>s, <1>t, <2>1, <3>1 DEF CurrentRun
  <2>6. Excluded'
    <3>1. W >= PassStart(search.pass)
      BY <1>p, <1>r, <1>t, <1>w DEF W
    <3> QED
      BY <1>5, <1>i, <1>s, <2>1, <2>2, <2>3, <3>1 DEF Excluded
  <2>7. LowestFit'
    BY <2>1 DEF LowestFit
  <2> QED
    BY <2>4, <2>5, <2>6, <2>7 DEF FitInv, Scanned
<1>7. CASE FreeInWord # {}
  <2>1. /\ search'.pc = "bits" /\ search'.free = FreeInWord /\ search'.runLen = search.runLen
        /\ search'.bit = search.bit
    BY <1>0, <1>7, <1>t DEF SearchStates
  <2>2. RunFrom' = RunFrom /\ RunEnd' = RunEnd /\ Limit' = W
    BY <1>s, <2>1 DEF RunFrom, RunEnd, Limit, W
  <2>3. Ahead'
    <3>1. \A b \in FreeInPass(search.pass) : RunEnd <= b <=> search.bit <= b
      BY <1>1, <1>2, <1>t
    <3>2. RunEnd <= W
      BY <1>1, <1>t, <1>w DEF W
    <3>3. \A b \in FreeInPass(search.pass) : b \in FreeInWord <=> RunEnd <= b /\ b < W
      BY <3>1, <1>3 DEF W
    <3> QED
      BY <1>4, <1>5, <1>s, <2>1, <2>2, <3>2, <3>3 DEF Ahead
  <2>4. CurrentRun'
    BY <1>5, <1>i, <1>s, <2>1 DEF CurrentRun, Run
  <2>5. Excluded'
    BY <1>5, <1>i, <1>s, <2>1, <2>2 DEF Excluded
  <2>6. LowestFit'
    BY <2>1 DEF LowestFit
  <2> QED
    BY <2>3, <2>4, <2>5, <2>6 DEF FitInv, Scanned
<1> QED
  BY <1>6, <1>7

(* A free bit either extends the run or, when it starts a new one, shows    *)
(* that the old one could not grow.                                         *)
LEMMA ScanBitFits ==
  ASSUME IndInv, FitInv, ScanBit
  PROVE  FitInv'
<1>0. search.pc = "bits" /\ bitmap' = bitmap
  BY DEF ScanBit
<1>a. TypeOK /\ search.from < TotalBlocks
  BY <1>0 DEF IndInv, SearchSound
<1>i. Ahead /\ CurrentRun /\ Excluded
  BY <1>0 DEF FitInv, Scanned
<1>t. /\ search.bit \in Nat /\ search.runStart \in Nat /\ search.runLen \in Nat
      /\ search.count \in Nat /\ RunFrom \in Nat /\ RunEnd \in Nat /\ Limit \in Nat
      /\ search \in SearchStates
  BY <1>a, RunTyped DEF TypeOK
<1>p. search.pass \in {1, 2}
  BY <1>i DEF Excluded
<1>1. PICK b \in search.free :
        /\ \A other \in search.free : b <= other
        /\ LET start == IF ContinuesRun(b) THEN search.runStart ELSE b
               len   == IF ContinuesRun(b) THEN search.runLen + 1 ELSE 1
           IN search' = [search EXCEPT !.runStart = start, !.runLen = len, !.free = @ \ {b},
                                       !.pc = IF len >= search.count THEN "found" ELSE "bits"]
  BY DEF ScanBit
<1>2. PICK start, len :
        /\ start = IF ContinuesRun(b) THEN search.runStart ELSE b
        /\ len = IF ContinuesRun(b) THEN search.runLen + 1 ELSE 1
        /\ search' = [search EXCEPT !.runStart = start, !.runLen = len, !.free = @ \ {b},
                                    !.pc = IF len >= search.count THEN "found" ELSE "bits"]
  BY <1>1
<1>b. b \in FreeInPass(search.pass) /\ b \in Nat /\ RunEnd <= b /\ b < Limit
  <2>1. b \in FreeInPass(search.pass)
    BY <1>1, <1>i DEF Ahead
  <2>2. b \in Nat
    BY <2>1, <1>a, <1>p, PassBlocks DEF FreeInPass
  <2> QED
    BY <2>1, <2>2, <1>1, <1>i DEF Ahead
<1>3. /\ start \in Nat /\ len \in Nat /\ 0 < len /\ start + len = b + 1
      /\ len <= search.count
  <2>1. search.runLen < search.count
    BY <1>i DEF CurrentRun
  <2>2. CASE ContinuesRun(b)
    BY <2>1, <2>2, <1>2, <1>b, <1>t DEF ContinuesRun
  <2>3. CASE ~ContinuesRun(b)
    BY <2>1, <2>3, <1>2, <1>b, <1>t
  <2> QED
    BY <2>2, <2>3
<1>s. /\ search'.from = search.from /\ search'.count = search.count /\ search'.pass = search.pass
      /\ search'.bit = search.bit /\ search'.free = search.free \ {b}
      /\ search'.runStart = start /\ search'.runLen = len
      /\ search'.pc = IF len >= search.count THEN "found" ELSE "bits"
  BY <1>2, <1>t DEF SearchStates
<1>4. \A p : /\ FreeInPass(p)' = FreeInPass(p) /\ FreeRuns(p)' = FreeRuns(p)
             /\ PassStart(p)' = PassStart(p) /\ PassRange(p)' = PassRange(p)
  BY <1>0, <1>s, SamePasses
<1>5. \A s \in FreeRuns(search.pass) : start <= s
  <2> SUFFICES ASSUME NEW s \in FreeRuns(search.pass) PROVE start <= s
    OBVIOUS
  <2>1. s \in FreeInPass(search.pass) /\ s \in Nat
    <3>1. 0 < search.count
      BY <1>i, <1>t DEF CurrentRun
    <3> QED
      BY <3>1, <1>a, <1>p, FreeRunHead
  <2>2. RunFrom <= s /\ search.runLen < search.count
    BY <1>i DEF Excluded, CurrentRun
  <2>3. CASE ContinuesRun(b)
    BY <2>2, <2>3, <1>2 DEF ContinuesRun, RunFrom
  <2>4. CASE ~ContinuesRun(b)
    <3>1. RunEnd <= s
      <4>1. SUFFICES ASSUME s < RunEnd PROVE FALSE
        BY <2>1, <1>t
      <4>2. RunEnd \in FreeInPass(search.pass) /\ search.runLen # 0
        BY <4>1, <2>2, <1>a, <1>p, FreeRunReaches
      <4>3. RunEnd < Limit
        BY <1>b, <1>t
      <4>4. RunEnd \in search.free
        BY <4>2, <4>3, <1>i, <1>t DEF Ahead
      <4>5. b = RunEnd
        BY <4>4, <1>1, <1>b, <1>t
      <4> QED
        BY <2>4, <4>2, <4>5 DEF ContinuesRun, RunEnd
    <3>2. b <= s
      <4>1. SUFFICES ASSUME s < b PROVE FALSE
        BY <2>1, <1>b
      <4>2. s < Limit
        BY <4>1, <2>1, <1>b, <1>t
      <4>3. s \in search.free
        BY <4>2, <3>1, <2>1, <1>i DEF Ahead
      <4> QED
        BY <4>1, <4>3, <2>1, <1>1, <1>b
    <3> QED
      BY <3>2, <2>4, <1>2
  <2> QED
    BY <2>3, <2>4
<1>6. Run(start, len) \subseteq FreeInPass(search.pass)
  <2>1. CASE ContinuesRun(b)
    <3>1. start = search.runStart /\ len = search.runLen + 1 /\ b = search.runStart + search.runLen
      BY <2>1, <1>2 DEF ContinuesRun
    <3>2. Run(start, len) \subseteq Run(search.runStart, search.runLen) \cup {b}
      BY <3>1, <1>t DEF Run
    <3> QED
      BY <3>2, <1>b, <1>i DEF CurrentRun
  <2>2. CASE ~ContinuesRun(b)
    <3>1. Run(start, len) \subseteq {b}
      BY <2>2, <1>2, <1>b DEF Run
    <3> QED
      BY <3>1, <1>b
  <2> QED
    BY <2>1, <2>2
<1>7. CASE len >= search.count
  <2>1. search'.pc = "found" /\ len = search.count
    BY <1>7, <1>3, <1>s, <1>t
  <2>2. start \in Run(start, len)
    BY <1>3 DEF Run
  <2>3. start \in FreeRuns(search.pass)
    BY <2>1, <2>2, <1>6 DEF FreeRuns, FreeInPass
  <2>4. \A p \in 1 .. search.pass - 1 : FreeRuns(p) = {}
    <3>1. search.pass = 2 => FreeRuns(1) = {}
      BY <1>i DEF Excluded
    <3>2. \A p \in 1 .. search.pass - 1 : p = 1 /\ search.pass = 2
      BY <1>p
    <3> QED
      BY <3>1, <3>2
  <2>5. LowestFit'
    BY <2>1, <2>3, <2>4, <1>4, <1>5, <1>s DEF LowestFit
  <2> QED
    BY <2>1, <2>5 DEF FitInv, Scanned
<1>8. CASE ~(len >= search.count)
  <2>1. search'.pc = "bits" /\ len < search.count
    BY <1>8, <1>3, <1>s, <1>t
  <2>2. RunFrom' = start /\ RunEnd' = b + 1 /\ Limit' = Limit
    BY <2>1, <1>0, <1>3, <1>s DEF RunFrom, RunEnd, Limit
  <2>3. Ahead'
    <3>1. \A f \in FreeInPass(search.pass) : f \in Nat
      BY <1>a, <1>p, PassBlocks DEF FreeInPass
    <3>2. \A f \in FreeInPass(search.pass) :
             f \in search.free \ {b} <=> b + 1 <= f /\ f < Limit
      <4> SUFFICES ASSUME NEW f \in FreeInPass(search.pass)
                   PROVE  f \in search.free \ {b} <=> b + 1 <= f /\ f < Limit
        OBVIOUS
      <4>1. f \in search.free <=> RunEnd <= f /\ f < Limit
        BY <1>i DEF Ahead
      <4>2. f \in search.free => b <= f
        BY <1>1
      <4>3. f \in Nat /\ b \in Nat /\ RunEnd \in Nat /\ RunEnd <= b /\ b < Limit /\ Limit \in Nat
        BY <3>1, <1>b, <1>t
      <4>4. b + 1 <= f <=> b <= f /\ f # b
        BY <4>3
      <4>5. b <= f => RunEnd <= f
        BY <4>3
      <4> QED
        BY <4>1, <4>2, <4>4, <4>5
    <3>3. search.free \ {b} \subseteq FreeInPass(search.pass)
      BY <1>i DEF Ahead
    <3>4. b + 1 <= Limit
      BY <1>b, <1>t
    <3> QED
      BY <2>1, <2>2, <3>2, <3>3, <3>4, <1>4, <1>s DEF Ahead
  <2>4. CurrentRun'
    BY <2>1, <1>4, <1>6, <1>s DEF CurrentRun, Run
  <2>5. Excluded'
    BY <2>2, <1>4, <1>5, <1>i, <1>s DEF Excluded
  <2>6. LowestFit'
    BY <2>1 DEF LowestFit
  <2> QED
    BY <2>3, <2>4, <2>5, <2>6 DEF FitInv, Scanned
<1> QED
  BY <1>7, <1>8

(* The run may go on in the next word. *)
LEMMA WordDoneFits ==
  ASSUME IndInv, FitInv, WordDone
  PROVE  FitInv'
<1> DEFINE W == WordEnd(search.bit)
<1>0. /\ search.pc = "bits" /\ bitmap' = bitmap /\ search.free = {}
      /\ search' = [search EXCEPT !.pc = "word", !.bit = W]
  BY DEF WordDone
<1>a. TypeOK /\ search.from < TotalBlocks
  BY <1>0 DEF IndInv, SearchSound
<1>i. Ahead /\ CurrentRun /\ Excluded
  BY <1>0 DEF FitInv, Scanned
<1>t. /\ search.bit \in Nat /\ search.runStart \in Nat /\ search.runLen \in Nat
      /\ search.count \in Nat /\ RunFrom \in Nat /\ RunEnd \in Nat /\ search \in SearchStates
  BY <1>a, RunTyped DEF TypeOK
<1>w. W \in Nat /\ search.bit < W /\ Limit = W
  BY <1>0, <1>t, WordArithmetic DEF Limit
<1> HIDE DEF W
<1>p. search.pass \in {1, 2} /\ PassStart(search.pass) \in Nat
  BY <1>a, <1>i, PassBlocks DEF Excluded
<1>s. /\ search'.from = search.from /\ search'.count = search.count /\ search'.pass = search.pass
      /\ search'.bit = W /\ search'.free = {} /\ search'.pc = "word"
      /\ search'.runStart = search.runStart /\ search'.runLen = search.runLen
  BY <1>0, <1>t DEF SearchStates
<1>1. \A p : /\ FreeInPass(p)' = FreeInPass(p) /\ FreeRuns(p)' = FreeRuns(p)
             /\ PassStart(p)' = PassStart(p)
  BY <1>0, <1>s, SamePasses
<1>2. \A b \in FreeInPass(search.pass) : b \in Nat /\ (b < RunEnd \/ W <= b)
  <2>1. \A b \in FreeInPass(search.pass) : b \in Nat
    BY <1>a, <1>p, PassBlocks DEF FreeInPass
  <2> QED
    BY <2>1, <1>0, <1>i, <1>t, <1>w DEF Ahead
<1>3. /\ search.runLen = 0 => RunFrom = search.bit /\ RunEnd = search.bit /\ RunFrom' = W /\ RunEnd' = W
      /\ search.runLen # 0 => RunFrom' = RunFrom /\ RunEnd' = RunEnd
      /\ Limit' = W
  BY <1>s DEF RunFrom, RunEnd, Limit
<1>4. RunEnd' <= W /\ RunEnd' \in Nat /\ RunEnd <= RunEnd'
  BY <1>3, <1>i, <1>t, <1>w DEF Ahead
<1>5. Ahead'
  <2>1. \A b \in FreeInPass(search.pass) : ~(RunEnd' <= b /\ b < W)
    BY <1>2, <1>4, <1>t, <1>w
  <2> QED
    BY <2>1, <1>1, <1>3, <1>4, <1>s DEF Ahead
<1>6. CurrentRun'
  BY <1>1, <1>i, <1>s DEF CurrentRun, Run
<1>7. Excluded'
  <2>1. \A s \in FreeRuns(search.pass) : RunFrom' <= s
    <3> SUFFICES ASSUME NEW s \in FreeRuns(search.pass) PROVE RunFrom' <= s
      OBVIOUS
    <3>1. s \in FreeInPass(search.pass) /\ s \in Nat
      <4>1. 0 < search.count
        BY <1>i, <1>t DEF CurrentRun
      <4> QED
        BY <4>1, <1>a, <1>p, FreeRunHead
    <3>2. RunFrom <= s
      BY <1>i DEF Excluded
    <3> QED
      BY <3>1, <3>2, <1>2, <1>3, <1>t, <1>w
  <2>2. W >= PassStart(search.pass)
    <3>1. search.bit >= PassStart(search.pass)
      BY <1>i DEF Excluded
    <3> QED
      BY <3>1, <1>p, <1>t, <1>w
  <2> QED
    BY <2>1, <2>2, <1>1, <1>i, <1>s DEF Excluded
<1>8. LowestFit'
  BY <1>s DEF LowestFit
<1> QED
  BY <1>5, <1>6, <1>7, <1>8 DEF FitInv, Scanned

(* A pass that ends has no run that is long enough. *)
LEMMA PassDoneFits ==
  ASSUME IndInv, FitInv, PassDone
  PROVE  FitInv'
<1>0. /\ search.pc = "word" /\ bitmap' = bitmap /\ search.bit >= PassEnd(search.pass)
      /\ search' = IF search.pass < Passes THEN NextPass ELSE [search EXCEPT !.pc = "nospace"]
  BY DEF PassDone
<1>a. TypeOK /\ search.from < TotalBlocks
  BY <1>0 DEF IndInv, SearchSound
<1>i. Ahead /\ CurrentRun /\ Excluded
  BY <1>0 DEF FitInv, Scanned
<1>t. /\ search.bit \in Nat /\ search.runStart \in Nat /\ search.runLen \in Nat /\ search.from \in Nat
      /\ search.count \in Nat /\ RunFrom \in Nat /\ RunEnd \in Nat /\ search \in SearchStates
  BY <1>a, RunTyped DEF TypeOK
<1>p. search.pass \in {1, 2}
  BY <1>i DEF Excluded
<1>1. \A b \in FreeInPass(search.pass) : b < RunEnd
  <2> SUFFICES ASSUME NEW b \in FreeInPass(search.pass), ~(b < RunEnd) PROVE FALSE
    OBVIOUS
  <2>1. b \in Nat /\ b < PassEnd(search.pass) /\ PassEnd(search.pass) \in Nat
    <3>1. b \in PassRange(search.pass)
      BY DEF FreeInPass
    <3>2. b \in Nat
      BY <3>1, <1>a, <1>p, PassBlocks
    <3> QED
      BY <3>1, <3>2, <1>a, <1>p, PassBlocks
  <2>2. RunEnd <= b /\ b < Limit
    BY <2>1, <1>0, <1>t DEF Limit
  <2>3. b \in search.free
    BY <2>2, <1>i DEF Ahead
  <2> QED
    BY <2>3, <1>0, <1>i DEF Ahead
<1>2. FreeRuns(search.pass) = {}
  <2> SUFFICES ASSUME NEW s \in FreeRuns(search.pass) PROVE FALSE
    OBVIOUS
  <2>1. 0 < search.count /\ search.runLen < search.count /\ RunFrom <= s
    BY <1>i, <1>t DEF CurrentRun, Excluded
  <2>2. s \in FreeInPass(search.pass)
    BY <2>1, <1>a, <1>p, FreeRunHead
  <2>3. s < RunEnd
    BY <2>2, <1>1
  <2>4. RunEnd \in FreeInPass(search.pass)
    BY <2>1, <2>3, <1>a, <1>p, FreeRunReaches
  <2> QED
    BY <2>4, <1>1, <1>t
<1>3. CASE search.pass < Passes
  <2>1. search.pass = 1 /\ search.from > 0
    BY <1>3, <1>p, <1>t DEF Passes
  <2>2. /\ search'.pc = "word" /\ search'.pass = 2 /\ search'.bit = 0 /\ search'.runStart = 0
        /\ search'.runLen = 0 /\ search'.free = {} /\ search'.from = search.from
        /\ search'.count = search.count
    BY <1>0, <1>3, <1>i, <1>t DEF NextPass, SearchStates, Ahead
  <2>3. \A p : /\ FreeInPass(p)' = FreeInPass(p) /\ FreeRuns(p)' = FreeRuns(p)
               /\ PassStart(p)' = PassStart(p)
    BY <1>0, <2>2, SamePasses
  <2>4. RunFrom' = 0 /\ RunEnd' = 0 /\ Limit' = 0
    BY <2>2 DEF RunFrom, RunEnd, Limit
  <2>5. \A b \in FreeInPass(2) : b \in Nat
    BY <1>a, PassBlocks DEF FreeInPass
  <2>6. Ahead'
    <3>1. \A b \in FreeInPass(2) : ~(0 <= b /\ b < 0)
      BY <2>5
    <3> QED
      BY <2>2, <2>3, <2>4, <3>1 DEF Ahead
  <2>7. CurrentRun'
    <3>1. Run(0, 0) = {} /\ 0 < search.count
      BY <1>i, <1>t DEF Run, CurrentRun
    <3> QED
      BY <2>2, <3>1 DEF CurrentRun
  <2>8. Excluded'
    <3>1. \A s \in FreeRuns(2) : 0 <= s
      <4>1. \A s \in FreeRuns(2) : s \in PassRange(2)
        BY DEF FreeRuns
      <4> QED
        BY <4>1, <1>a, PassBlocks
    <3>2. PassStart(2) = 0
      BY DEF PassStart
    <3> QED
      BY <1>2, <2>1, <2>2, <2>3, <2>4, <3>1, <3>2 DEF Excluded
  <2>9. LowestFit'
    BY <2>2 DEF LowestFit
  <2> QED
    BY <2>6, <2>7, <2>8, <2>9 DEF FitInv, Scanned
<1>4. CASE ~(search.pass < Passes)
  <2>1. /\ search'.pc = "nospace" /\ search'.from = search.from /\ search'.count = search.count
    BY <1>0, <1>4, <1>t DEF SearchStates
  <2>2. \A p : FreeRuns(p)' = FreeRuns(p)
    BY <1>0, <2>1, SamePasses
  <2>3. Passes' = Passes
    BY <2>1 DEF Passes
  <2>4. \A p \in 1 .. Passes : FreeRuns(p) = {}
    <3>1. \/ search.pass = 1 /\ Passes = 1
          \/ search.pass = 2 /\ Passes \in {1, 2} /\ FreeRuns(1) = {}
      BY <1>4, <1>i, <1>p DEF Passes, Excluded
    <3>2. \A p \in 1 .. Passes : p = search.pass \/ (search.pass = 2 /\ p = 1)
      BY <3>1
    <3> QED
      BY <3>1, <3>2, <1>2
  <2>5. LowestFit'
    BY <2>1, <2>2, <2>3, <2>4 DEF LowestFit
  <2> QED
    BY <2>1, <2>5 DEF FitInv, Scanned
<1> QED
  BY <1>3, <1>4

(* A run of free blocks that is in neither pass has the hint inside it. *)
LEMMA MissedSpansHint ==
  ASSUME IndInv, FitInv
  PROVE  FirstFit
<1> SUFFICES ASSUME search.pc = "nospace", NEW s \in LongEnough
             PROVE  SpansHint(s)
  BY DEF FirstFit, FitInv
<1>1. /\ TotalBlocks \in Nat /\ s \in Nat /\ s < TotalBlocks
      /\ search.from \in Nat /\ search.count \in Nat
  BY AllocatorAssumption DEF LongEnough, Blocks, IndInv, TypeOK, SearchStates
<1>2. \A b \in Run(s, search.count) : b \in Blocks /\ b \notin bitmap
  BY DEF LongEnough
<1>3. FreeRuns(1) = {} /\ (search.from > 0 => FreeRuns(2) = {})
  BY <1>1 DEF FitInv, LowestFit, Passes
<1>4. s < search.from
  <2> SUFFICES ASSUME search.from <= s PROVE s \in FreeRuns(1)
    BY <1>1, <1>3
  <2>1. \A b \in Run(s, search.count) : b \in PassRange(1)
    BY <1>1, <1>2 DEF PassRange, Run, Blocks
  <2> QED
    BY <1>1, <1>2, <2>1 DEF FreeRuns, PassRange
<1>5. search.from < s + search.count
  <2> SUFFICES ASSUME s + search.count <= search.from PROVE s \in FreeRuns(2)
    BY <1>1, <1>3, <1>4
  <2>1. \A b \in Run(s, search.count) : b \in PassRange(2)
    BY <1>1 DEF PassRange, Run
  <2> QED
    BY <1>1, <1>2, <1>4, <2>1 DEF FreeRuns, PassRange
<1> QED
  BY <1>4, <1>5 DEF SpansHint

(* obmafs3_bitmap_find_free, for every word size and every bitmap, returns  *)
(* the lowest run of the first pass that has one, and reports a full volume *)
(* only when every free run that is long enough lies across the hint (which *)
(* is less than its comment promises).                                      *)
THEOREM SearchIsFirstFit == Spec => []FirstFit
<1> DEFINE Inv == IndInv /\ FitInv
<1>0. search.pc = "idle" => FitInv
  BY DEF FitInv, Scanned, LowestFit
<1>1. Init => Inv
  <2>1. Init => search.pc = "idle"
    BY DEF Init, Idle
  <2> QED
    BY <1>0, <2>1, InitIndInv
<1>2. Inv /\ [Next]_vars => Inv'
  <2> SUFFICES ASSUME Inv, [Next]_vars PROVE Inv'
    OBVIOUS
  <2>1. IndInv'
    BY NextIndInv
  <2>2. CASE search'.pc = "idle"
    BY <2>2, <2>1 DEF FitInv, Scanned, LowestFit
  <2>3. ASSUME NEW c \in Clients, NEW n \in 1 .. MaxCount, Alloc(c, n) PROVE FitInv'
    BY <2>1, <2>3, AllocFits
  <2>4. CASE ScanWord \/ ScanBit \/ WordDone \/ PassDone
    BY <2>1, <2>4, ScanWordFits, ScanBitFits, WordDoneFits, PassDoneFits
  <2>5. CASE AllocFound \/ AllocNoSpace \/ Crash
    BY <2>5, <2>2 DEF AllocFound, AllocNoSpace, Crash, Idle
  <2>6. CASE UNCHANGED <<bitmap, search>>
    <3>1. \A p : /\ FreeInPass(p)' = FreeInPass(p) /\ FreeRuns(p)' = FreeRuns(p)
                 /\ PassStart(p)' = PassStart(p)
      BY <2>6, SamePasses
    <3>2. RunFrom' = RunFrom /\ RunEnd' = RunEnd /\ Limit' = Limit /\ Passes' = Passes
      BY <2>6 DEF RunFrom, RunEnd, Limit, Passes, WordEnd, WordIndex
    <3>3. Scanned'
      BY <2>6, <3>1, <3>2 DEF FitInv, Scanned, Ahead, CurrentRun, Excluded, Run
    <3>4. LowestFit'
      BY <2>6, <3>1, <3>2 DEF FitInv, LowestFit
    <3> QED
      BY <2>1, <3>3, <3>4 DEF FitInv
  <2>7. ASSUME NEW c \in Clients, NEW start \in Blocks, NEW n \in 1 .. MaxCount, Free(c, start, n)
        PROVE  search'.pc = "idle"
    BY <2>7 DEF Free, Ready
  <2>8. CASE Mount
    <3>1. search = Idle /\ search' = search
      BY <2>8 DEF Mount, IndInv, UnmountedIsEmpty
    <3> QED
      BY <2>2, <3>1 DEF Idle
  <2>9. CASE WriteHeader \/ WriteChunk
    <3>1. UNCHANGED <<bitmap, search>>
      BY <2>9 DEF WriteHeader, WriteChunk
    <3> QED
      BY <2>1, <2>6, <3>1
  <2> QED
    BY <2>1, <2>2, <2>3, <2>4, <2>5, <2>6, <2>7, <2>8, <2>9 DEF Next, SearchStep, vars
<1>3. Inv => FirstFit
  BY MissedSpansHint
<1> QED
  BY <1>1, <1>2, <1>3, PTL DEF Spec
=============================================================================
