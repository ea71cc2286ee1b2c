---------------------------- MODULE NamesProofs ----------------------------
(***************************************************************************)
(* Names, inodes, handles and repair, for every number of names, inodes,   *)
(* handles and failures, as long as an open file is changed through its    *)
(* handle only, nothing runs beside the creation of a sidecar, a crash is  *)
(* followed by obmafsck, and CD images get no media tags (without each of  *)
(* these TLC finds a counterexample).                                      *)
(*                                                                         *)
(* A crash or a failed write leaves the contents between two tree writes,  *)
(* so the invariant is a predicate on contents that every single write     *)
(* keeps: names lead to inodes, counts cover names, and every directory is *)
(* below the root or below an inode without a name (what obmafsck will     *)
(* re-link).  The copies open handles hold must agree with it, or a flush  *)
(* would undo it.                                                          *)
(***************************************************************************)
EXTENDS Names, FiniteSetTheorems, WellFoundedInduction, TLAPS

-----------------------------------------------------------------------------
(* What single tree writes keep.                                            *)

Entries == [dir : Ids, name : Names, id : Ids, isdir : BOOLEAN]
InodeMaps == UNION {[S -> InodeRecord] : S \in SUBSET Ids}
Disks == [cat : SUBSET Entries, inodes : InodeMaps, tags : SUBSET Ids, junk : SUBSET Ids,
          next_inode_id : 3 .. MaxId + 1]

Known(D) == DOMAIN D.inodes
DirInodes(D) == {i \in Known(D) : D.inodes[i].type = "dir"}

(* Every name has an inode, of the kind the entry says, and is in a         *)
(* directory.  Only directories are called lost+found, no directory is      *)
(* called like a sidecar.                                                   *)
Resolving(D) ==
    /\ Root \in DirInodes(D)
    /\ \A e \in D.cat :
         /\ e.id \in Known(D) \ {Root} /\ e.isdir = (e.id \in DirInodes(D)) /\ e.dir \in DirInodes(D)
         /\ e.name = LostFound => e.isdir
         /\ e.name[1] = "sub" => ~e.isdir

(* Counts cover names; a directory has one name and no size. *)
Counted(D) ==
    /\ IsFiniteSet(D.cat)
    /\ \A i \in Known(D) \ {Root} : Cardinality(NamesOf(D, i)) <= D.inodes[i].ref
    /\ \A i \in DirInodes(D) : D.inodes[i].ref = 1 /\ D.inodes[i].size = 0

(* The directories below the root and below directories without a name. *)
Tops(D) == {Root} \cup (Orphans(D) \cap DirInodes(D))
Reach(D) == {d \in Ids : \A S \in SUBSET (Ids \ {d}) : Tops(D) \subseteq S => ~Closed(D, S)}
Reached(D) == DirInodes(D) \subseteq Reach(D)

Sound(D) == D \in Disks /\ Resolving(D) /\ Counted(D) /\ Reached(D)

(* Without failures the counts are exact, no directory has a name twice,    *)
(* and tags belong to images whose removal takes them along.                *)
Tallied(D) == \A i \in Known(D) \ {Root} : Cardinality(NamesOf(D, i)) = D.inodes[i].ref
Unambiguous(D) == \A a, b \in D.cat : a.dir = b.dir /\ a.name = b.name => a = b
Exact(D) == Tallied(D) /\ Unambiguous(D)
Owned(D) ==
    /\ \A i \in D.tags : i \in Known(D) /\ D.inodes[i].type \in {"media", "nintendo", "ps3"}
    /\ \A i \in D.junk : i \in Known(D) /\ D.inodes[i].type = "nintendo"

-----------------------------------------------------------------------------
(* Handles.                                                                 *)

HandleRecord ==
    [id : Ids, ino : InodeRecord, dirty : BOOLEAN,
     sub : Ids \cup {0, Missing}, at : [dir : Ids, name : Names],
     subino : InodeRecord, subdirty : BOOLEAN]

HandleMaps == UNION {[S -> HandleRecord] : S \in SUBSET load.handles}

(* A copy of an inode: only the size may be ahead of the tree. *)
Copy(D, i, ino, dirty) ==
    /\ i \in Known(D) \ DirInodes(D)
    /\ D.inodes[i].type = ino.type /\ D.inodes[i].ref = ino.ref
    /\ ~dirty => D.inodes[i].size = ino.size

CopiesOf(D, c) ==
    /\ Copy(D, c.id, c.ino, c.dirty)
    /\ c.sub \in Ids => Copy(D, c.sub, c.subino, c.subdirty)
    /\ c.subdirty => c.sub \in Ids

CopiesSound(D) == \A h \in DOMAIN handles : CopiesOf(D, handles[h])

(* No inode is held twice. *)
Holds(c) == {c.id, c.sub} \cap Ids
HoldersSound ==
    /\ \A g, h \in DOMAIN handles : g # h => Holds(handles[g]) \cap Holds(handles[h]) = {}
    /\ \A h \in DOMAIN handles : handles[h].id # handles[h].sub

(* Where the one sidecar is that is about to be created. *)
PlaceFree(D, c) ==
    c.sub = Missing =>
      /\ c.at.dir \in Dirs(D) /\ c.at.name[1] = "sub"
      /\ \A e \in D.cat : ~(e.dir = c.at.dir /\ e.name = c.at.name)
PlacesSound ==
    /\ \A h \in DOMAIN handles : PlaceFree(disk, handles[h])
    /\ \A g, h \in DOMAIN handles : handles[g].sub = Missing /\ handles[h].sub = Missing => g = h

HandlesSound ==
    /\ handles \in HandleMaps
    /\ CopiesSound(disk) /\ HoldersSound /\ PlacesSound
    /\ phase # "up" => handles = <<>>

(* Inode ids in use are below the next one once the volume is mounted. *)
Fresh == phase = "up" => \A i \in Known(disk) : i < nextId

(* The sizes users expect are those of the handles' copies, or else those   *)
(* in the tree.                                                             *)
SizesOf(w, c) == c.ino.size = w[c.id] /\ (c.sub \in Ids => c.subino.size = w[c.sub])
WantsSound ==
    /\ want \in [Ids -> {0, 1}]
    /\ \A i \in Ids \ Known(disk) : want[i] = 0
    /\ \A i \in Known(disk) : ~Held(i) => disk.inodes[i].size = want[i]
    /\ \A h \in DOMAIN handles : SizesOf(want, handles[h])

Bounds ==
    /\ load \in Workloads /\ failures \in 0 .. load.failures
    /\ nextId \in 3 .. MaxId + 1 /\ phase \in {"up", "down", "checked"}

IndInv ==
    /\ Bounds /\ Sound(disk) /\ HandlesSound /\ Fresh /\ WantsSound
    /\ failures = 0 => Exact(disk) /\ Owned(disk)
    /\ RepairReconnects

-----------------------------------------------------------------------------
(* What the tree operations do to the parts of the contents.                *)

(* The parts of the contents have their types. *)
LEMMA DiskParts ==
  ASSUME NEW D \in Disks
  PROVE  /\ D.cat \subseteq Entries /\ Known(D) \subseteq Ids /\ D.tags \subseteq Ids /\ D.junk \subseteq Ids
         /\ D.next_inode_id \in 3 .. MaxId + 1
         /\ \A i \in Known(D) : D.inodes[i] \in InodeRecord
         /\ D.inodes = [i \in Known(D) |-> D.inodes[i]]
BY DEF Disks, InodeMaps, Known

(* Putting an inode. *)
LEMMA PutParts ==
  ASSUME NEW D \in Disks, NEW i \in Ids, NEW ino \in InodeRecord
  PROVE  /\ Put(D, i, ino) \in Disks /\ Put(D, i, ino).cat = D.cat
         /\ Put(D, i, ino).tags = D.tags /\ Put(D, i, ino).junk = D.junk
         /\ Put(D, i, ino).next_inode_id = D.next_inode_id
         /\ Known(Put(D, i, ino)) = Known(D) \cup {i}
         /\ \A k \in Known(D) \cup {i} : Put(D, i, ino).inodes[k] = IF k = i THEN ino ELSE D.inodes[k]
<1> DEFINE f == Bind(D.inodes, i, ino)
<1>1. f \in InodeMaps /\ DOMAIN f = Known(D) \cup {i}
  <2>1. Known(D) \cup {i} \in SUBSET Ids
    BY DiskParts
  <2>2. f \in [Known(D) \cup {i} -> InodeRecord]
    BY DiskParts DEF Bind, Known
  <2> QED
    BY <2>1, <2>2 DEF InodeMaps
<1>2. \A k \in Known(D) \cup {i} : f[k] = IF k = i THEN ino ELSE D.inodes[k]
  BY DEF Bind, Known
<1> HIDE DEF f
<1>3. Put(D, i, ino) = [D EXCEPT !.inodes = f]
  BY DEF Put, f
<1> QED
  BY <1>1, <1>2, <1>3 DEF Disks, Known

(* Deleting an inode. *)
LEMMA DeleteInodeParts ==
  ASSUME NEW D \in Disks, NEW i
  PROVE  /\ DeleteInode(D, i) \in Disks /\ DeleteInode(D, i).cat = D.cat
         /\ DeleteInode(D, i).tags = D.tags /\ DeleteInode(D, i).junk = D.junk
         /\ DeleteInode(D, i).next_inode_id = D.next_inode_id
         /\ Known(DeleteInode(D, i)) = Known(D) \ {i}
         /\ \A k \in Known(D) \ {i} : DeleteInode(D, i).inodes[k] = D.inodes[k]
<1> DEFINE f == [k \in DOMAIN D.inodes \ {i} |-> D.inodes[k]]
<1>1. f \in InodeMaps /\ DOMAIN f = Known(D) \ {i}
  <2>1. Known(D) \ {i} \in SUBSET Ids
    BY DiskParts
  <2>2. f \in [Known(D) \ {i} -> InodeRecord]
    BY DiskParts DEF Known
  <2> QED
    BY <2>1, <2>2 DEF InodeMaps
<1>2. \A k \in Known(D) \ {i} : f[k] = D.inodes[k]
  BY DEF Known
<1> HIDE DEF f
<1>3. DeleteInode(D, i) = [D EXCEPT !.inodes = f]
  BY DEF DeleteInode, f
<1> QED
  BY <1>1, <1>2, <1>3 DEF Disks, Known

(* Changing the catalog. *)
LEMMA CatParts ==
  ASSUME NEW D \in Disks, NEW C \in SUBSET Entries
  PROVE  /\ [D EXCEPT !.cat = C] \in Disks /\ [D EXCEPT !.cat = C].cat = C
         /\ [D EXCEPT !.cat = C].inodes = D.inodes /\ Known([D EXCEPT !.cat = C]) = Known(D)
         /\ [D EXCEPT !.cat = C].tags = D.tags /\ [D EXCEPT !.cat = C].junk = D.junk
         /\ [D EXCEPT !.cat = C].next_inode_id = D.next_inode_id
BY DEF Disks, Known

LEMMA InsertParts ==
  ASSUME NEW D \in Disks, NEW e \in Entries
  PROVE  /\ Insert(D, e) \in Disks /\ Insert(D, e).cat = D.cat \cup {e}
         /\ Insert(D, e).inodes = D.inodes /\ Known(Insert(D, e)) = Known(D)
         /\ Insert(D, e).tags = D.tags /\ Insert(D, e).junk = D.junk
         /\ Insert(D, e).next_inode_id = D.next_inode_id
<1>1. D.cat \cup {e} \in SUBSET Entries
  BY DiskParts
<1> QED
  BY <1>1, CatParts DEF Insert

LEMMA DeleteEntryParts ==
  ASSUME NEW D \in Disks, NEW e
  PROVE  /\ DeleteEntry(D, e) \in Disks /\ DeleteEntry(D, e).cat = D.cat \ {e}
         /\ DeleteEntry(D, e).inodes = D.inodes /\ Known(DeleteEntry(D, e)) = Known(D)
         /\ DeleteEntry(D, e).tags = D.tags /\ DeleteEntry(D, e).junk = D.junk
         /\ DeleteEntry(D, e).next_inode_id = D.next_inode_id
<1>1. D.cat \ {e} \in SUBSET Entries
  BY DiskParts
<1> QED
  BY <1>1, CatParts DEF DeleteEntry

(* Changing the tags and the junk map. *)
LEMMA TagParts ==
  ASSUME NEW D \in Disks, NEW T \in SUBSET Ids
  PROVE  /\ [D EXCEPT !.tags = T] \in Disks /\ [D EXCEPT !.tags = T].cat = D.cat
         /\ [D EXCEPT !.tags = T].inodes = D.inodes /\ Known([D EXCEPT !.tags = T]) = Known(D)
         /\ [D EXCEPT !.tags = T].tags = T /\ [D EXCEPT !.tags = T].junk = D.junk
         /\ [D EXCEPT !.tags = T].next_inode_id = D.next_inode_id
         /\ [D EXCEPT !.junk = T] \in Disks /\ [D EXCEPT !.junk = T].cat = D.cat
         /\ [D EXCEPT !.junk = T].inodes = D.inodes /\ Known([D EXCEPT !.junk = T]) = Known(D)
         /\ [D EXCEPT !.junk = T].tags = D.tags /\ [D EXCEPT !.junk = T].junk = T
         /\ [D EXCEPT !.junk = T].next_inode_id = D.next_inode_id
BY DEF Disks, Known

(* Changing next_inode_id. *)
LEMMA NextIdParts ==
  ASSUME NEW D \in Disks, NEW n \in 3 .. MaxId + 1
  PROVE  /\ [D EXCEPT !.next_inode_id = n] \in Disks /\ [D EXCEPT !.next_inode_id = n].cat = D.cat
         /\ [D EXCEPT !.next_inode_id = n].inodes = D.inodes
         /\ Known([D EXCEPT !.next_inode_id = n]) = Known(D)
         /\ [D EXCEPT !.next_inode_id = n].tags = D.tags /\ [D EXCEPT !.next_inode_id = n].junk = D.junk
         /\ [D EXCEPT !.next_inode_id = n].next_inode_id = n
BY DEF Disks, Known

(* Changing one inode that is there: a put. *)
LEMMA ChangedInode ==
  ASSUME NEW D \in Disks, NEW i \in Known(D), NEW ino \in InodeRecord
  PROVE  [D EXCEPT !.inodes = [D.inodes EXCEPT ![i] = ino]] = Put(D, i, ino)
<1>1. [D.inodes EXCEPT ![i] = ino] = Bind(D.inodes, i, ino)
  BY DiskParts DEF Bind, Known
<1> QED
  BY <1>1 DEF Put

LEMMA CountIsPut ==
  ASSUME NEW D \in Disks, NEW i \in Known(D), NEW by \in Int
  PROVE  Count(D, i, by) = Put(D, i, [D.inodes[i] EXCEPT !.ref = @ + by])
<1>1. [D.inodes EXCEPT ![i].ref = D.inodes[i].ref + by] = Bind(D.inodes, i, [D.inodes[i] EXCEPT !.ref = @ + by])
  BY DiskParts DEF Bind, Known
<1> QED
  BY <1>1 DEF Put, Count

-----------------------------------------------------------------------------
(* Walks down the directories.                                              *)

LEMMA RootIsAnId ==
  ASSUME load \in Workloads
  PROVE  MaxId \in Nat /\ Root \in Ids /\ Ids \subseteq Nat
BY NamesAssumption DEF MaxId, Ids, Root

(* Dirs is the least set with the root that entries do not lead out of. *)
LEMMA DirsLeast ==
  ASSUME NEW D, NEW S \in SUBSET Ids, Root \in S, Closed(D, S)
  PROVE  Dirs(D) \subseteq S
<1> SUFFICES ASSUME NEW d \in Dirs(D), d \notin S PROVE FALSE
  OBVIOUS
<1>1. S \in SUBSET (Ids \ {d})
  OBVIOUS
<1> QED
  BY <1>1 DEF Dirs

LEMMA DirsClosed ==
  ASSUME NEW D, D.cat \subseteq Entries
  PROVE  Dirs(D) \subseteq Ids /\ Closed(D, Dirs(D))
<1>1. Dirs(D) \subseteq Ids
  BY DEF Dirs
<1>2. ASSUME NEW e \in D.cat, e.isdir, e.dir \in Dirs(D) PROVE e.id \in Dirs(D)
  <2>1. e.id \in Ids
    BY DEF Entries
  <2>2. ASSUME NEW S \in SUBSET (Ids \ {e.id}), Root \in S, Closed(D, S) PROVE FALSE
    <3>1. e.dir \notin S
      BY <1>2, <2>2 DEF Closed
    <3>2. S \in SUBSET (Ids \ {e.dir})
      BY <3>1
    <3> QED
      BY <1>2, <2>2, <3>2 DEF Dirs
  <2> QED
    BY <2>1, <2>2 DEF Dirs
<1> QED
  BY <1>1, <1>2 DEF Closed

LEMMA RootIsADir ==
  ASSUME load \in Workloads, NEW D
  PROVE  Root \in Dirs(D)
BY RootIsAnId DEF Dirs

(* More entries, more directories. *)
LEMMA DirsGrow ==
  ASSUME load \in Workloads, NEW D, NEW E, E.cat \subseteq Entries,
         \A e \in D.cat : e.isdir => e \in E.cat
  PROVE  Dirs(D) \subseteq Dirs(E)
<1>1. Closed(D, Dirs(E))
  BY DirsClosed DEF Closed
<1> QED
  BY <1>1, DirsClosed, DirsLeast, RootIsADir

(* The same for Reach, which starts from orphans, too. *)
LEMMA ReachLeast ==
  ASSUME NEW D, NEW S \in SUBSET Ids, Tops(D) \subseteq S, Closed(D, S)
  PROVE  Reach(D) \subseteq S
<1> SUFFICES ASSUME NEW d \in Reach(D), d \notin S PROVE FALSE
  OBVIOUS
<1>1. S \in SUBSET (Ids \ {d})
  OBVIOUS
<1> QED
  BY <1>1 DEF Reach

LEMMA ReachClosed ==
  ASSUME load \in Workloads, NEW D \in Disks
  PROVE  Reach(D) \subseteq Ids /\ Closed(D, Reach(D)) /\ Tops(D) \subseteq Reach(D)
<1>0. D.cat \subseteq Entries /\ Known(D) \subseteq Ids
  BY DiskParts
<1>1. Reach(D) \subseteq Ids
  BY DEF Reach
<1>2. ASSUME NEW e \in D.cat, e.isdir, e.dir \in Reach(D) PROVE e.id \in Reach(D)
  <2>1. e.id \in Ids
    BY <1>0 DEF Entries
  <2>2. ASSUME NEW S \in SUBSET (Ids \ {e.id}), Tops(D) \subseteq S, Closed(D, S) PROVE FALSE
    <3>1. e.dir \notin S
      BY <1>2, <2>2 DEF Closed
    <3>2. S \in SUBSET (Ids \ {e.dir})
      BY <3>1
    <3> QED
      BY <1>2, <2>2, <3>2 DEF Reach
  <2> QED
    BY <2>1, <2>2 DEF Reach
<1>3. Tops(D) \subseteq Ids
  BY <1>0, RootIsAnId DEF Tops, DirInodes
<1>4. Tops(D) \subseteq Reach(D)
  BY <1>3 DEF Reach
<1> QED
  BY <1>1, <1>2, <1>4 DEF Closed

LEMMA DirsReached ==
  ASSUME load \in Workloads, NEW D \in Disks
  PROVE  Dirs(D) \subseteq Reach(D)
BY ReachClosed, DirsLeast DEF Tops

(* A path ends in a directory. *)
LEMMA DirsKnown ==
  ASSUME NEW D, Sound(D)
  PROVE  Dirs(D) \subseteq DirInodes(D)
<1>1. DirInodes(D) \in SUBSET Ids
  BY DiskParts DEF Sound, DirInodes
<1>2. Root \in DirInodes(D) /\ Closed(D, DirInodes(D))
  BY DEF Sound, Resolving, Closed
<1> QED
  BY <1>1, <1>2, DirsLeast

-----------------------------------------------------------------------------
(* Counting names.                                                          *)

LEMMA NamesFinite ==
  ASSUME NEW D, IsFiniteSet(D.cat), NEW i
  PROVE  IsFiniteSet(NamesOf(D, i)) /\ Cardinality(NamesOf(D, i)) \in Nat
<1>1. NamesOf(D, i) \in SUBSET D.cat
  BY DEF NamesOf
<1> QED
  BY <1>1, FS_Subset, FS_CardinalityType

LEMMA NamesInserted ==
  ASSUME NEW D, IsFiniteSet(D.cat), NEW E, NEW e, E.cat = D.cat \cup {e}, NEW i
  PROVE  /\ i # e.id => NamesOf(E, i) = NamesOf(D, i)
         /\ i = e.id => NamesOf(E, i) = NamesOf(D, i) \cup {e}
         /\ i = e.id => Cardinality(NamesOf(E, i)) <= Cardinality(NamesOf(D, i)) + 1
         /\ (i = e.id /\ e \notin D.cat) => Cardinality(NamesOf(E, i)) = Cardinality(NamesOf(D, i)) + 1
<1>1. i # e.id => NamesOf(E, i) = NamesOf(D, i)
  BY DEF NamesOf
<1>2. i = e.id => NamesOf(E, i) = NamesOf(D, i) \cup {e}
  BY DEF NamesOf
<1>3. e \notin D.cat => e \notin NamesOf(D, i)
  BY DEF NamesOf
<1>4. Cardinality(NamesOf(D, i) \cup {e}) =
        IF e \in NamesOf(D, i) THEN Cardinality(NamesOf(D, i)) ELSE Cardinality(NamesOf(D, i)) + 1
  BY NamesFinite, FS_AddElement
<1> QED
  BY <1>1, <1>2, <1>3, <1>4, NamesFinite

LEMMA NamesDeleted ==
  ASSUME NEW D, IsFiniteSet(D.cat), NEW E, NEW e \in D.cat, E.cat = D.cat \ {e}, NEW i
  PROVE  /\ i # e.id => NamesOf(E, i) = NamesOf(D, i)
         /\ i = e.id => Cardinality(NamesOf(E, i)) = Cardinality(NamesOf(D, i)) - 1
         /\ Cardinality(NamesOf(E, i)) <= Cardinality(NamesOf(D, i))
<1>1. i # e.id => NamesOf(E, i) = NamesOf(D, i)
  BY DEF NamesOf
<1>2. i = e.id => NamesOf(E, i) = NamesOf(D, i) \ {e} /\ e \in NamesOf(D, i)
  BY DEF NamesOf
<1>3. Cardinality(NamesOf(D, i) \ {e}) =
        IF e \in NamesOf(D, i) THEN Cardinality(NamesOf(D, i)) - 1 ELSE Cardinality(NamesOf(D, i))
  BY NamesFinite, FS_RemoveElement
<1> QED
  BY <1>1, <1>2, <1>3, NamesFinite

(* A directory has one name. *)
LEMMA OneName ==
  ASSUME NEW D, Sound(D), NEW e \in D.cat, NEW f \in D.cat, e.isdir, f.id = e.id
  PROVE  f = e
<1>1. e.id \in DirInodes(D) /\ e.id \in Known(D) \ {Root}
  BY DEF Sound, Resolving, DirInodes
<1>2. IsFiniteSet(D.cat) /\ Cardinality(NamesOf(D, e.id)) <= 1
  BY <1>1 DEF Sound, Counted
<1>3. e \in NamesOf(D, e.id) /\ f \in NamesOf(D, e.id)
  BY DEF NamesOf
<1>4. IsFiniteSet(NamesOf(D, e.id)) /\ Cardinality(NamesOf(D, e.id)) \in Nat
  BY <1>2, NamesFinite
<1>5. Cardinality(NamesOf(D, e.id) \ {e}) = Cardinality(NamesOf(D, e.id)) - 1
  BY <1>3, <1>4, FS_RemoveElement
<1>6. IsFiniteSet(NamesOf(D, e.id) \ {e}) /\ Cardinality(NamesOf(D, e.id) \ {e}) \in Nat
  BY <1>4, FS_RemoveElement, FS_CardinalityType
<1>7. Cardinality(NamesOf(D, e.id) \ {e}) = 0
  BY <1>2, <1>4, <1>5, <1>6
<1>8. NamesOf(D, e.id) \ {e} = {}
  BY <1>6, <1>7, FS_EmptySet
<1> QED
  BY <1>3, <1>8

-----------------------------------------------------------------------------
(* Every tree write keeps the contents sound.                               *)

(* Contents that differ in tags, junk or next_inode_id only. *)
LEMMA SameTrees ==
  ASSUME NEW D, Sound(D), NEW E \in Disks, E.cat = D.cat, E.inodes = D.inodes
  PROVE  Sound(E)
<1>1. Known(E) = Known(D) /\ DirInodes(E) = DirInodes(D)
  BY DEF Known, DirInodes
<1>2. \A i : NamesOf(E, i) = NamesOf(D, i)
  BY DEF NamesOf
<1>3. Resolving(E)
  BY <1>1 DEF Sound, Resolving
<1>4. Counted(E)
  BY <1>1, <1>2 DEF Sound, Counted
<1>5. Orphans(E) = Orphans(D)
  BY <1>2 DEF Orphans
<1>6. Reach(E) = Reach(D)
  BY <1>1, <1>5 DEF Reach, Tops, Closed
<1> QED
  BY <1>1, <1>3, <1>4, <1>6 DEF Sound, Reached

(* A new inode, which has no name yet. *)
LEMMA PutFresh ==
  ASSUME load \in Workloads, NEW D, Sound(D), NEW i \in Ids, i \notin Known(D),
         NEW ino \in InodeRecord, ino.type = "dir" => ino.ref = 1 /\ ino.size = 0
  PROVE  /\ Sound(Put(D, i, ino)) /\ NamesOf(Put(D, i, ino), i) = {} /\ i # Root
         /\ DirInodes(D) \subseteq DirInodes(Put(D, i, ino))
<1> DEFINE E == Put(D, i, ino)
<1>0. D \in Disks /\ Resolving(D) /\ Counted(D) /\ Reached(D)
  BY DEF Sound
<1>1. /\ E \in Disks /\ E.cat = D.cat /\ Known(E) = Known(D) \cup {i}
      /\ \A k \in Known(D) \cup {i} : E.inodes[k] = IF k = i THEN ino ELSE D.inodes[k]
  BY <1>0, PutParts
<1> HIDE DEF E
<1>2. \A k : NamesOf(E, k) = NamesOf(D, k)
  BY <1>1 DEF NamesOf
<1>3. NamesOf(D, i) = {} /\ i # Root
  BY <1>0 DEF Resolving, NamesOf, DirInodes
<1>4. DirInodes(D) \subseteq DirInodes(E) /\ DirInodes(E) \subseteq DirInodes(D) \cup {i}
  BY <1>1 DEF DirInodes
<1>4a. \A k \in Known(D) : k \in DirInodes(E) <=> k \in DirInodes(D)
  BY <1>1 DEF DirInodes
<1>5. Resolving(E)
  BY <1>0, <1>1, <1>4, <1>4a DEF Resolving
<1>6. Counted(E)
  <2>1. \A k \in Known(E) \ {Root} : Cardinality(NamesOf(E, k)) <= E.inodes[k].ref
    <3>1. SUFFICES ASSUME NEW k \in Known(E) \ {Root} PROVE Cardinality(NamesOf(D, k)) <= E.inodes[k].ref
      BY <1>2
    <3>2. CASE k = i
      <4>1. Cardinality(NamesOf(D, k)) = 0
        BY <1>3, <3>2, FS_EmptySet
      <4>2. E.inodes[k].ref \in Nat
        BY <1>1, <3>2 DEF InodeRecord
      <4> QED
        BY <4>1, <4>2
    <3>3. CASE k # i
      BY <1>0, <1>1, <3>3 DEF Counted
    <3> QED
      BY <3>2, <3>3
  <2>2. \A k \in DirInodes(E) : E.inodes[k].ref = 1 /\ E.inodes[k].size = 0
    BY <1>0, <1>1, <1>4 DEF Counted, DirInodes
  <2> QED
    BY <1>0, <1>1, <2>1, <2>2 DEF Counted
<1>7. Tops(D) \subseteq Tops(E)
  BY <1>1, <1>2, <1>4 DEF Tops, Orphans, Known
<1>8. Tops(D) \subseteq Reach(E) /\ Closed(D, Reach(E)) /\ Reach(E) \in SUBSET Ids
  BY <1>1, <1>7, ReachClosed DEF Closed
<1>9. Reach(D) \subseteq Reach(E)
  BY <1>8, ReachLeast
<1>10. i \in DirInodes(E) => i \in Reach(E)
  BY <1>1, <1>2, <1>3, ReachClosed DEF Tops, Orphans, Known
<1>11. Reached(E)
  BY <1>0, <1>4, <1>9, <1>10 DEF Reached
<1> QED
  BY <1>1, <1>2, <1>3, <1>4, <1>5, <1>6, <1>11 DEF Sound, E

(* Another version of the inode of a file. *)
LEMMA PutSame ==
  ASSUME load \in Workloads, NEW D, Sound(D), NEW i \in Known(D), i \notin DirInodes(D),
         NEW ino \in InodeRecord, ino.type # "dir", Cardinality(NamesOf(D, i)) <= ino.ref
  PROVE  /\ Sound(Put(D, i, ino)) /\ DirInodes(Put(D, i, ino)) = DirInodes(D)
         /\ Dirs(Put(D, i, ino)) = Dirs(D)
<1> DEFINE E == Put(D, i, ino)
<1>0. D \in Disks /\ Resolving(D) /\ Counted(D) /\ Reached(D) /\ i \in Ids
  BY DiskParts DEF Sound
<1>1. /\ E \in Disks /\ E.cat = D.cat /\ Known(E) = Known(D)
      /\ \A k \in Known(D) : E.inodes[k] = IF k = i THEN ino ELSE D.inodes[k]
  <2>1. /\ E \in Disks /\ E.cat = D.cat /\ Known(E) = Known(D) \cup {i}
        /\ \A k \in Known(D) \cup {i} : E.inodes[k] = IF k = i THEN ino ELSE D.inodes[k]
    BY <1>0, PutParts
  <2> QED
    BY <2>1
<1> HIDE DEF E
<1>2. \A k : NamesOf(E, k) = NamesOf(D, k)
  BY <1>1 DEF NamesOf
<1>3. DirInodes(E) = DirInodes(D)
  BY <1>1 DEF DirInodes
<1>4. Resolving(E)
  BY <1>0, <1>1, <1>3 DEF Resolving
<1>5. Counted(E)
  <2>1. ASSUME NEW k \in Known(E) \ {Root} PROVE Cardinality(NamesOf(E, k)) <= E.inodes[k].ref
    BY <1>0, <1>1, <1>2 DEF Counted
  <2>2. \A k \in DirInodes(E) : E.inodes[k].ref = 1 /\ E.inodes[k].size = 0
    BY <1>0, <1>1, <1>3 DEF Counted, DirInodes
  <2> QED
    BY <1>0, <1>1, <2>1, <2>2 DEF Counted
<1>6. Orphans(E) = Orphans(D)
  BY <1>1, <1>2 DEF Orphans, Known
<1>7. Reach(E) = Reach(D) /\ Dirs(E) = Dirs(D)
  BY <1>1, <1>3, <1>6 DEF Reach, Tops, Closed, Dirs
<1> QED
  BY <1>0, <1>1, <1>3, <1>4, <1>5, <1>7 DEF Sound, Reached, E

(* A name for an inode whose count allows it, in a directory that a path    *)
(* leads to.                                                                *)
LEMMA InsertName ==
  ASSUME load \in Workloads, NEW D, Sound(D), NEW e \in Entries,
         e.id \in Known(D) \ {Root}, e.isdir = (e.id \in DirInodes(D)), e.dir \in Dirs(D),
         e.name = LostFound => e.isdir, e.name[1] = "sub" => ~e.isdir,
         Cardinality(NamesOf(D, e.id)) < D.inodes[e.id].ref
  PROVE  /\ Sound(Insert(D, e)) /\ Dirs(D) \subseteq Dirs(Insert(D, e))
         /\ DirInodes(Insert(D, e)) = DirInodes(D)
<1> DEFINE E == Insert(D, e)
<1>0. D \in Disks /\ Resolving(D) /\ Counted(D) /\ Reached(D)
  BY DEF Sound
<1>1. E \in Disks /\ E.cat = D.cat \cup {e} /\ Known(E) = Known(D) /\ E.inodes = D.inodes
  BY <1>0, InsertParts
<1> HIDE DEF E
<1>2. DirInodes(E) = DirInodes(D)
  BY <1>1 DEF DirInodes
<1>3. e.dir \in DirInodes(D)
  BY DirsKnown
<1>4. Resolving(E)
  BY <1>0, <1>1, <1>2, <1>3 DEF Resolving
<1>5. Counted(E)
  <2>1. IsFiniteSet(D.cat)
    BY <1>0 DEF Counted
  <2>2. IsFiniteSet(E.cat)
    BY <1>1, <2>1, FS_AddElement
  <2>3. ASSUME NEW i \in Known(D) \ {Root} PROVE Cardinality(NamesOf(E, i)) <= D.inodes[i].ref
    <3>1. /\ i # e.id => NamesOf(E, i) = NamesOf(D, i)
          /\ i = e.id => Cardinality(NamesOf(E, i)) <= Cardinality(NamesOf(D, i)) + 1
      BY <1>1, <2>1, NamesInserted
    <3>2. Cardinality(NamesOf(D, i)) <= D.inodes[i].ref
      BY <1>0 DEF Counted
    <3>3. Cardinality(NamesOf(D, i)) \in Nat /\ Cardinality(NamesOf(E, i)) \in Nat /\ D.inodes[i].ref \in Nat
      BY <1>0, <2>1, <2>2, NamesFinite, DiskParts DEF InodeRecord
    <3>4. CASE i = e.id
      BY <3>1, <3>3, <3>4
    <3>5. CASE i # e.id
      BY <3>1, <3>2, <3>5
    <3> QED
      BY <3>4, <3>5
  <2> QED
    BY <1>0, <1>1, <1>2, <2>2, <2>3 DEF Counted
<1>6. Dirs(D) \subseteq Dirs(E)
  <2>1. E.cat \subseteq Entries
    BY <1>1, DiskParts
  <2> QED
    BY <1>1, <2>1, DirsGrow
<1>7. Reach(E) \in SUBSET Ids /\ Closed(E, Reach(E)) /\ Tops(E) \subseteq Reach(E)
  BY <1>1, ReachClosed
<1>8. Closed(D, Reach(E))
  BY <1>1, <1>7 DEF Closed
<1>9. e.dir \in Reach(E)
  BY <1>1, <1>6, DirsReached
<1>10. e.isdir => e.id \in Reach(E)
  BY <1>1, <1>7, <1>9 DEF Closed
<1>11. \A i \in Orphans(D) : i # e.id => i \in Orphans(E)
  BY <1>1 DEF Orphans, Known, NamesOf
<1>12. Tops(D) \subseteq Reach(E)
  BY <1>2, <1>7, <1>10, <1>11 DEF Tops
<1>13. Reached(E)
  BY <1>0, <1>2, <1>7, <1>8, <1>12, ReachLeast DEF Reached
<1> QED
  BY <1>1, <1>2, <1>4, <1>5, <1>6, <1>13 DEF Sound, E

(* Taking a name away may leave an orphan. *)
LEMMA DeleteName ==
  ASSUME load \in Workloads, NEW D, Sound(D), NEW e \in D.cat
  PROVE  /\ Sound(DeleteEntry(D, e)) /\ DirInodes(DeleteEntry(D, e)) = DirInodes(D)
         /\ e.isdir => NamesOf(DeleteEntry(D, e), e.id) = {}
<1> DEFINE E == DeleteEntry(D, e)
<1>0. D \in Disks /\ Resolving(D) /\ Counted(D) /\ Reached(D)
  BY DEF Sound
<1>1. E \in Disks /\ E.cat = D.cat \ {e} /\ Known(E) = Known(D) /\ E.inodes = D.inodes
  BY <1>0, DeleteEntryParts
<1> HIDE DEF E
<1>2. DirInodes(E) = DirInodes(D)
  BY <1>1 DEF DirInodes
<1>3. Resolving(E)
  BY <1>0, <1>1, <1>2 DEF Resolving
<1>4. e.isdir => NamesOf(E, e.id) = {}
  BY <1>1, OneName DEF NamesOf
<1>5. Counted(E)
  <2>1. IsFiniteSet(D.cat)
    BY <1>0 DEF Counted
  <2>2. IsFiniteSet(E.cat)
    BY <1>1, <2>1, FS_RemoveElement
  <2>3. ASSUME NEW i \in Known(D) \ {Root} PROVE Cardinality(NamesOf(E, i)) <= D.inodes[i].ref
    <3>1. Cardinality(NamesOf(E, i)) <= Cardinality(NamesOf(D, i))
      BY <1>1, <2>1, NamesDeleted
    <3>2. Cardinality(NamesOf(D, i)) <= D.inodes[i].ref
      BY <1>0 DEF Counted
    <3>3. Cardinality(NamesOf(D, i)) \in Nat /\ Cardinality(NamesOf(E, i)) \in Nat /\ D.inodes[i].ref \in Nat
      BY <1>0, <2>1, <2>2, NamesFinite, DiskParts DEF InodeRecord
    <3> QED
      BY <3>1, <3>2, <3>3
  <2> QED
    BY <1>0, <1>1, <1>2, <2>2, <2>3 DEF Counted
<1>6. Reach(E) \in SUBSET Ids /\ Closed(E, Reach(E)) /\ Tops(E) \subseteq Reach(E)
  BY <1>1, ReachClosed
<1>7. Orphans(D) \subseteq Orphans(E)
  BY <1>1 DEF Orphans, Known, NamesOf
<1>8. Tops(D) \subseteq Reach(E)
  BY <1>2, <1>6, <1>7 DEF Tops
<1>9. e.isdir => e.id \in Tops(E)
  BY <1>0, <1>1, <1>2, <1>4 DEF Tops, Orphans, Known, Resolving
<1>10. Closed(D, Reach(E))
  BY <1>1, <1>6, <1>9 DEF Closed
<1>11. Reached(E)
  BY <1>0, <1>2, <1>6, <1>8, <1>10, ReachLeast DEF Reached
<1> QED
  BY <1>1, <1>2, <1>3, <1>4, <1>5, <1>11 DEF Sound, E

(* An inode without a name, and without entries, goes. *)
LEMMA RemoveInode ==
  ASSUME load \in Workloads, NEW D, Sound(D), NEW i \in Known(D) \ {Root},
         NamesOf(D, i) = {}, i \in DirInodes(D) => Empty(D, i)
  PROVE  Sound(DeleteInode(D, i)) /\ DirInodes(DeleteInode(D, i)) = DirInodes(D) \ {i}
<1> DEFINE E == DeleteInode(D, i)
<1>0. D \in Disks /\ Resolving(D) /\ Counted(D) /\ Reached(D)
  BY DEF Sound
<1>1. /\ E \in Disks /\ E.cat = D.cat /\ Known(E) = Known(D) \ {i}
      /\ \A k \in Known(D) \ {i} : E.inodes[k] = D.inodes[k]
  BY <1>0, DeleteInodeParts
<1> HIDE DEF E
<1>2. \A k : NamesOf(E, k) = NamesOf(D, k)
  BY <1>1 DEF NamesOf
<1>3. DirInodes(E) = DirInodes(D) \ {i}
  BY <1>1 DEF DirInodes
<1>4. \A e \in D.cat : e.id # i /\ e.dir # i
  BY <1>0 DEF NamesOf, Resolving, Empty
<1>5. Resolving(E)
  BY <1>0, <1>1, <1>3, <1>4 DEF Resolving
<1>6. Counted(E)
  BY <1>0, <1>1, <1>2, <1>3 DEF Counted, DirInodes
<1>7. Reach(E) \in SUBSET Ids /\ Closed(E, Reach(E)) /\ Tops(E) \subseteq Reach(E) /\ i \in Ids
  BY <1>0, <1>1, ReachClosed, DiskParts
<1>8. Tops(D) \subseteq Reach(E) \cup {i}
  BY <1>1, <1>2, <1>3, <1>7 DEF Tops, Orphans, Known
<1>9. Closed(D, Reach(E) \cup {i})
  BY <1>1, <1>4, <1>7 DEF Closed
<1>10. Reach(D) \subseteq Reach(E) \cup {i}
  BY <1>7, <1>8, <1>9, ReachLeast
<1>11. Reached(E)
  BY <1>0, <1>3, <1>10 DEF Reached
<1> QED
  BY <1>1, <1>3, <1>5, <1>6, <1>11 DEF Sound, E

-----------------------------------------------------------------------------
(* Moving directories.                                                      *)

(* A directory below the root is listed in one. *)
LEMMA ListedInDirs ==
  ASSUME NEW D, D.cat \subseteq Entries, NEW x \in Dirs(D) \ {Root}, Root \in Dirs(D)
  PROVE  \E e \in D.cat : e.isdir /\ e.id = x /\ e.dir \in Dirs(D)
<1> SUFFICES ASSUME \A e \in D.cat : e.isdir /\ e.dir \in Dirs(D) => e.id # x PROVE FALSE
  OBVIOUS
<1>1. Dirs(D) \ {x} \in SUBSET Ids /\ Root \in Dirs(D) \ {x}
  BY DirsClosed
<1>2. Closed(D, Dirs(D) \ {x})
  BY DirsClosed DEF Closed
<1> QED
  BY <1>1, <1>2, DirsLeast

(* Above(d) is the least set with d that parents do not lead out of. *)
LEMMA AboveLeast ==
  ASSUME NEW d, NEW S \in SUBSET Ids, d \in S, \A x \in S : FindParent(x) \subseteq S
  PROVE  Above(d) \subseteq S
<1> SUFFICES ASSUME NEW a \in Above(d), a \notin S PROVE FALSE
  OBVIOUS
<1>1. S \in SUBSET (Ids \ {a})
  OBVIOUS
<1> QED
  BY <1>1 DEF Above

LEMMA AboveClosed ==
  ASSUME NEW d \in Ids
  PROVE  d \in Above(d) /\ \A x \in Above(d) : FindParent(x) \subseteq Above(d)
<1>1. d \in Above(d)
  BY DEF Above
<1>2. ASSUME NEW x \in Above(d), NEW p \in FindParent(x) PROVE p \in Above(d)
  <2>1. p \in Ids
    BY DEF FindParent, Dirs
  <2>2. ASSUME NEW S \in SUBSET (Ids \ {p}), d \in S, \A y \in S : FindParent(y) \subseteq S PROVE FALSE
    <3>1. x \notin S
      BY <1>2, <2>2
    <3>2. S \in SUBSET (Ids \ {x})
      BY <3>1
    <3> QED
      BY <1>2, <2>2, <3>2 DEF Above
  <2> QED
    BY <2>1, <2>2 DEF Above
<1> QED
  BY <1>1, <1>2

(* Taking away entries of directories that d is not below, or that are in d *)
(* itself, leaves the path to d.                                            *)
LEMMA PathStays ==
  ASSUME load \in Workloads, Sound(disk), NEW d \in Dirs(disk), NEW E, E.cat \subseteq Entries,
         \A k \in disk.cat : k.isdir => k \in E.cat \/ k.dir = d \/ ~IsAncestor(k.id, d)
  PROVE  d \in Dirs(E)
<1>0. disk.cat \subseteq Entries /\ Root \in Dirs(disk) /\ Root \in Ids
  BY DiskParts, RootIsADir, RootIsAnId DEF Sound
<1>1. d \in Ids /\ Dirs(disk) \in SUBSET Ids
  BY DEF Dirs
<1>2. Above(d) \subseteq Dirs(disk)
  BY <1>1, AboveLeast DEF FindParent
<1>3. ASSUME NEW k \in disk.cat, k.isdir, k.id \in Above(d) PROVE k.dir \in Above(d)
  <2>1. k.id \in Dirs(disk) \ {Root}
    BY <1>2, <1>3 DEF Sound, Resolving
  <2>2. PICK e \in disk.cat : e.isdir /\ e.id = k.id /\ e.dir \in Dirs(disk)
    BY <1>0, <2>1, ListedInDirs
  <2>3. k = e
    BY <1>3, <2>2, OneName
  <2>4. k.dir \in FindParent(k.id)
    BY <1>3, <2>2, <2>3 DEF FindParent
  <2> QED
    BY <1>1, <1>3, <2>4, AboveClosed
<1>4. ASSUME NEW S \in SUBSET (Ids \ {d}), Root \in S, Closed(E, S) PROVE FALSE
  <2> DEFINE T == S \cup (Ids \ Above(d))
  <2>1. T \in SUBSET Ids /\ Root \in T
    BY <1>4
  <2>2. d \notin T
    BY <1>1, AboveClosed
  <2>3. ASSUME NEW k \in disk.cat, k.isdir, k.dir \in T PROVE k.id \in T
    <3>1. k.id \in Ids
      BY <1>0 DEF Entries
    <3>2. CASE k.id \in Above(d)
      <4>1. k.dir \in S
        BY <1>3, <2>3, <3>2
      <4>2. k \in E.cat
        BY <2>2, <2>3, <3>2 DEF IsAncestor
      <4> QED
        BY <1>4, <2>3, <4>1, <4>2 DEF Closed
    <3> QED
      BY <3>1, <3>2
  <2>4. Closed(disk, T)
    BY <2>3 DEF Closed
  <2> HIDE DEF T
  <2> QED
    BY <2>1, <2>2, <2>4, DirsLeast
<1> QED
  BY <1>1, <1>4 DEF Dirs

-----------------------------------------------------------------------------
(* From one state to the next.                                              *)

LEMMA SoundNow == \A D : disk' = D /\ load' = load /\ Sound(D) => Sound(disk)'
<1> SUFFICES ASSUME NEW D, disk' = D, load' = load, Sound(D) PROVE Sound(disk)'
  OBVIOUS
<1>0. Ids' = Ids /\ Names' = Names /\ MaxId' = MaxId
  BY DEF Ids, MaxId, Names, InodeName, Given
<1>1. (disk \in Disks)'
  BY <1>0 DEF Sound, Disks, Entries, InodeMaps
<1>2. Resolving(disk)'
  BY DEF Sound, Resolving, DirInodes, Known
<1>3. Counted(disk)'
  BY DEF Sound, Counted, DirInodes, Known, NamesOf
<1>4. Orphans(disk)' = Orphans(D) /\ DirInodes(disk)' = DirInodes(D)
  BY DEF Orphans, NamesOf, DirInodes, Known
<1>5. Tops(disk)' = Tops(D)
  BY <1>4 DEF Tops
<1>6. \A S : Closed(disk, S)' <=> Closed(D, S)
  BY DEF Closed
<1>7. Reach(disk)' = Reach(D)
  BY <1>0, <1>5, <1>6 DEF Reach
<1> QED
  BY <1>1, <1>2, <1>3, <1>4, <1>7 DEF Sound, Reached

LEMMA ExactNow == \A D : disk' = D => (Exact(D) => Exact(disk)') /\ (Owned(D) => Owned(disk)')
BY DEF Exact, Tallied, Unambiguous, Owned, NamesOf, Known

(* The handles after a step: those outside G are as they were, and so are   *)
(* the inodes they hold.                                                    *)
LEMMA HandlesStep ==
  ASSUME HandlesSound, NEW G, NEW H, NEW D, handles' = H, disk' = D, load' = load, phase' = "up",
         H \in HandleMaps,
         \A g \in DOMAIN H \ G :
           /\ g \in DOMAIN handles /\ H[g] = handles[g] /\ handles[g].sub # Missing
           /\ \A i \in Holds(handles[g]) : i \in Known(D) /\ D.inodes[i] = disk.inodes[i],
         \A h \in DOMAIN H \cap G :
           /\ CopiesOf(D, H[h]) /\ H[h].id # H[h].sub
           /\ \A g \in DOMAIN H : g # h => Holds(H[g]) \cap Holds(H[h]) = {}
           /\ PlaceFree(D, H[h]),
         \A g, h \in DOMAIN H \cap G : H[g].sub = Missing /\ H[h].sub = Missing => g = h
  PROVE  HandlesSound'
<1>0. Ids' = Ids /\ Names' = Names /\ Known(disk)' = Known(D) /\ DirInodes(disk)' = DirInodes(D)
  BY DEF Ids, MaxId, Names, InodeName, Given, Known, DirInodes
<1>1. (handles \in HandleMaps)'
  BY <1>0 DEF HandleRecord, HandleMaps
<1>2. \A c : Holds(c)' = Holds(c)
  BY <1>0 DEF Holds
<1>3. HoldersSound'
  <2>1. ASSUME NEW g \in DOMAIN H, NEW h \in DOMAIN H, g # h PROVE Holds(H[g]) \cap Holds(H[h]) = {}
    BY <2>1 DEF HandlesSound, HoldersSound
  <2>2. ASSUME NEW h \in DOMAIN H PROVE H[h].id # H[h].sub
    BY DEF HandlesSound, HoldersSound
  <2> QED
    BY <1>2, <2>1, <2>2 DEF HoldersSound
<1>4. Dirs(disk)' = Dirs(D)
  BY <1>0 DEF Dirs, Closed
<1>5. PlacesSound'
  BY <1>4 DEF PlacesSound, PlaceFree
<1>6. \A c : CopiesOf(disk, c)' <=> CopiesOf(D, c)
  BY <1>0 DEF CopiesOf, Copy
<1>7. ASSUME NEW h \in DOMAIN H PROVE CopiesOf(D, H[h])
  <2>1. CASE h \in G
    BY <2>1
  <2>2. CASE h \notin G
    <3>1. /\ H[h] = handles[h] /\ handles[h] \in HandleRecord /\ CopiesOf(disk, handles[h])
          /\ \A i \in Holds(handles[h]) : i \in Known(D) /\ D.inodes[i] = disk.inodes[i]
      BY <2>2 DEF HandlesSound, CopiesSound, HandleMaps
    <3>2. handles[h].id \in Holds(handles[h]) /\ (handles[h].sub \in Ids => handles[h].sub \in Holds(handles[h]))
      BY <3>1 DEF Holds, HandleRecord
    <3> QED
      BY <3>1, <3>2 DEF CopiesOf, Copy, DirInodes
  <2> QED
    BY <2>1, <2>2
<1>8. CopiesSound(disk)'
  BY <1>6, <1>7 DEF CopiesSound
<1> QED
  BY <1>1, <1>3, <1>5, <1>8 DEF HandlesSound

(* Who holds an inode. *)
LEMMA HeldIsHolds == \A i \in Ids : Held(i) <=> \E h \in DOMAIN handles : i \in Holds(handles[h])
BY DEF Held, Holds

LEMMA HandleTyped ==
  ASSUME HandlesSound
  PROVE  /\ \A h \in DOMAIN handles : handles[h] \in HandleRecord /\ h \in load.handles
         /\ DOMAIN handles \in SUBSET load.handles /\ handles \in [DOMAIN handles -> HandleRecord]
BY DEF HandlesSound, HandleMaps

(* Handles that no one touches. *)
LEMMA HandlesKept ==
  ASSUME HandlesSound, UNCHANGED <<handles, load>>, phase = "up", phase' = "up",
         \A h \in DOMAIN handles : handles[h].sub # Missing,
         NEW D, disk' = D,
         \A i \in Ids : Held(i) => i \in Known(D) /\ D.inodes[i] = disk.inodes[i]
  PROVE  HandlesSound'
<1>1. PICK H : H = handles
  OBVIOUS
<1>2. H \in HandleMaps /\ handles' = H
  BY <1>1 DEF HandlesSound
<1>3. \A g \in DOMAIN H : \A i \in Holds(handles[g]) : i \in Known(D) /\ D.inodes[i] = disk.inodes[i]
  BY <1>1, HeldIsHolds DEF Holds
<1>g. PICK G : G = {}
  OBVIOUS
<1>4. \A g \in DOMAIN H \ G :
        /\ g \in DOMAIN handles /\ H[g] = handles[g] /\ handles[g].sub # Missing
        /\ \A i \in Holds(handles[g]) : i \in Known(D) /\ D.inodes[i] = disk.inodes[i]
  BY <1>1, <1>3
<1>5. /\ \A h \in DOMAIN H \cap G :
           /\ CopiesOf(D, H[h]) /\ H[h].id # H[h].sub
           /\ \A g \in DOMAIN H : g # h => Holds(H[g]) \cap Holds(H[h]) = {}
           /\ PlaceFree(D, H[h])
      /\ \A g, h \in DOMAIN H \cap G : H[g].sub = Missing /\ H[h].sub = Missing => g = h
  BY <1>g
<1> QED
  BY <1>2, <1>4, <1>5, HandlesStep

LEMMA Numbers ==
  ASSUME Bounds
  PROVE  /\ load \in Workloads /\ MaxId \in Nat /\ Ids \subseteq Nat /\ Root \in Ids
         /\ nextId \in 3 .. MaxId + 1 /\ nextId \in Nat
         /\ failures \in Nat /\ load.failures \in Nat /\ failures <= load.failures
<1>1. load \in Workloads /\ failures \in 0 .. load.failures /\ nextId \in 3 .. MaxId + 1
  BY DEF Bounds
<1>2. load.failures \in Nat /\ MaxId \in Nat /\ Ids \subseteq Nat /\ Root \in Ids
  BY <1>1, NamesAssumption, RootIsAnId
<1> QED
  BY <1>1, <1>2

(* The sizes users expect, when inodes are only taken away. *)
LEMMA WantsKept ==
  ASSUME WantsSound, HandlesSound, UNCHANGED <<handles, load>>, NEW D, disk' = D,
         Known(D) \subseteq Known(disk), Known(disk) \subseteq Ids,
         \A i \in Known(D) : D.inodes[i].size = disk.inodes[i].size,
         \A i \in Ids : Held(i) => i \in Known(D), Forget
  PROVE  WantsSound'
<1>0. Ids' = Ids /\ Known(disk)' = Known(D) /\ (\A i : Held(i)' <=> Held(i))
  BY DEF Ids, MaxId, Known, Held
<1>1. want' = [i \in Ids |-> IF i \in Known(D) THEN want[i] ELSE 0]
  BY DEF Forget, Known
<1>2. (want \in [Ids -> {0, 1}])'
  BY <1>0, <1>1 DEF WantsSound
<1>3. (\A i \in Ids \ Known(disk) : want[i] = 0)'
  BY <1>0, <1>1
<1>4. (\A i \in Known(disk) : ~Held(i) => disk.inodes[i].size = want[i])'
  BY <1>0, <1>1 DEF WantsSound
<1>5. ASSUME NEW h \in DOMAIN handles
      PROVE  SizesOf(want', handles[h])
  <2>1. handles[h].id \in Ids /\ Held(handles[h].id) /\ Held(handles[h].sub)
    BY DEF HandlesSound, HandleRecord, Held, HandleMaps
  <2> QED
    BY <1>1, <2>1 DEF WantsSound, SizesOf
<1> QED
  BY <1>0, <1>2, <1>3, <1>4, <1>5 DEF WantsSound, SizesOf

-----------------------------------------------------------------------------
(* What the writes of a handler leave: sound contents, in which held inodes *)
(* are as they were, no inode is new and no size has changed.               *)

Kept(D) ==
    /\ D.next_inode_id = disk.next_inode_id /\ Known(D) \subseteq Known(disk)
    /\ \A i \in Known(D) : D.inodes[i].size = disk.inodes[i].size
    /\ \A i \in Ids : Held(i) => i \in Known(D) /\ D.inodes[i] = disk.inodes[i]

Writes(ws) == \A k \in 1 .. Len(ws) : Sound(ws[k]) /\ Kept(ws[k])

(* Nobody waits for a sidecar. *)
Settled == \A h \in DOMAIN handles : handles[h].sub # Missing

LEMMA HeldAreFiles ==
  ASSUME HandlesSound
  PROVE  \A i \in Ids : Held(i) => i \in Known(disk) /\ i \notin DirInodes(disk)
<1> SUFFICES ASSUME NEW i \in Ids, NEW h \in DOMAIN handles, i \in {handles[h].id, handles[h].sub}
             PROVE  i \in Known(disk) /\ i \notin DirInodes(disk)
  BY DEF Held
<1> QED
  BY DEF HandlesSound, CopiesSound, CopiesOf, Copy

LEMMA KeptDisk ==
  ASSUME HandlesSound
  PROVE  Kept(disk)
BY HeldAreFiles DEF Kept

LEMMA KeptSame ==
  ASSUME NEW D, Kept(D), NEW E, E.inodes = D.inodes, E.next_inode_id = D.next_inode_id
  PROVE  Kept(E)
BY DEF Kept, Known

(* A step of a handler that ends in such contents. *)
LEMMA TreeStep ==
  ASSUME IndInv, Settled, phase = "up", phase' = "up", UNCHANGED <<handles, load>>,
         nextId' \in 3 .. MaxId + 1, nextId' >= nextId, failures' \in 0 .. load.failures,
         NEW D, disk' = D, Sound(D), Kept(D), Forget,
         failures' = 0 => Exact(D) /\ Owned(D)
  PROVE  IndInv'
<1>0. /\ HandlesSound /\ WantsSound /\ Fresh /\ load \in Workloads /\ nextId \in 3 .. MaxId + 1
      /\ Known(disk) \subseteq Ids /\ MaxId \in Nat /\ Ids \subseteq Nat
  BY DiskParts, RootIsAnId DEF IndInv, Bounds, Sound
<1>1. Bounds'
  BY DEF IndInv, Bounds, MaxId
<1>2. Sound(disk)'
  BY SoundNow
<1>3. HandlesSound'
  BY <1>0, HandlesKept DEF Kept, Settled
<1>4. Fresh'
  <2> SUFFICES ASSUME NEW i \in Known(D) PROVE i < nextId'
    BY DEF Fresh, Known
  <2>1. i \in Known(disk) /\ i < nextId
    BY <1>0 DEF Kept, Fresh
  <2>2. i \in Ids /\ Ids \subseteq Nat /\ nextId \in Nat /\ MaxId \in Nat
    BY <1>0, <2>1, Numbers DEF IndInv
  <2>3. i \in Nat /\ nextId' \in Nat
    BY <2>2
  <2> QED
    BY <2>1, <2>2, <2>3
<1>5. WantsSound'
  BY <1>0, WantsKept DEF Kept
<1>6. (failures = 0 => Exact(disk) /\ Owned(disk))'
  BY ExactNow
<1>7. RepairReconnects'
  BY DEF RepairReconnects
<1> QED
  BY <1>1, <1>2, <1>3, <1>4, <1>5, <1>6, <1>7 DEF IndInv

(* The process dies. *)
LEMMA StopStep ==
  ASSUME IndInv, failures < load.failures, NEW D, Sound(D), Stop(D)
  PROVE  IndInv'
<1>a. D \in Disks /\ load' = load
  BY DEF Sound, Stop
<1>b. load \in Workloads /\ failures \in Nat /\ load.failures \in Nat
  BY Numbers DEF IndInv
<1>c. /\ Known(D) \subseteq Ids /\ D.next_inode_id \in 3 .. MaxId + 1
      /\ \A i \in Known(D) : D.inodes[i] \in InodeRecord
  BY <1>a, DiskParts
<1>0. /\ load' = load /\ load \in Workloads /\ failures \in Nat /\ load.failures \in Nat
      /\ D \in Disks /\ Known(D) \subseteq Ids /\ D.next_inode_id \in 3 .. MaxId + 1
      /\ \A i \in Known(D) : D.inodes[i].size \in {0, 1}
  BY <1>a, <1>b, <1>c DEF InodeRecord
<1>1. disk' = D /\ handles' = <<>> /\ phase' = "down" /\ nextId' = D.next_inode_id /\ failures' = failures + 1
  BY DEF Stop
<1>2. Bounds'
  BY <1>0, <1>1 DEF Bounds, MaxId
<1>3. Sound(disk)'
  BY <1>0, <1>1, SoundNow
<1>4. DOMAIN handles' = {}
  BY <1>1
<1>5. HandlesSound'
  <2>1. handles' \in [{} -> HandleRecord'] /\ {} \in SUBSET load'.handles
    BY <1>1
  <2>2. (handles \in HandleMaps)'
    BY <2>1 DEF HandleMaps
  <2>3. CopiesSound(disk)' /\ HoldersSound' /\ PlacesSound'
    BY <1>4 DEF CopiesSound, HoldersSound, PlacesSound
  <2> QED
    BY <1>1, <2>2, <2>3 DEF HandlesSound
<1>6. Fresh'
  BY <1>1 DEF Fresh
<1>7. WantsSound'
  <2>0. Ids' = Ids /\ Known(disk)' = Known(D)
    BY <1>0, <1>1 DEF Ids, MaxId, Known
  <2>1. want' = [i \in Ids |-> IF i \in Known(D) THEN D.inodes[i].size ELSE 0]
    BY DEF Stop, Known
  <2>2. want' \in [Ids -> {0, 1}]
    BY <1>0, <2>1
  <2> QED
    BY <1>0, <1>1, <1>4, <2>0, <2>1, <2>2 DEF WantsSound
<1>8. failures' # 0
  BY <1>0, <1>1
<1>9. RepairReconnects'
  BY <1>1 DEF RepairReconnects
<1> QED
  BY <1>2, <1>3, <1>5, <1>6, <1>7, <1>8, <1>9 DEF IndInv

LEMMA DiesStep ==
  ASSUME IndInv, NEW ws, \A k \in 1 .. Len(ws) : Sound(ws[k]), Len(ws) \in Nat, Dies(ws)
  PROVE  IndInv'
<1>1. PICK k \in 1 .. Len(ws) - 1 : Stop(ws[k])
  BY DEF Dies
<1>2. k \in 1 .. Len(ws)
  OBVIOUS
<1>3. PICK D : D = ws[k]
  OBVIOUS
<1>4. Sound(D) /\ Stop(D) /\ failures < load.failures
  BY <1>1, <1>2, <1>3 DEF Dies
<1> QED
  BY <1>4, StopStep

LEMMA FailsStep ==
  ASSUME IndInv, Settled, phase = "up", NEW ws, Writes(ws), Len(ws) \in Nat, FailsAfter(ws)
  PROVE  IndInv'
<1>1. PICK k \in 1 .. Len(ws) - 1 : disk' = ws[k]
  BY DEF FailsAfter
<1>2. k \in 1 .. Len(ws)
  OBVIOUS
<1>3. PICK D : D = ws[k]
  OBVIOUS
<1>4. Sound(D) /\ Kept(D) /\ disk' = D
  BY <1>1, <1>2, <1>3 DEF Writes
<1>5. /\ UNCHANGED <<nextId, handles, phase, load>> /\ Forget /\ failures' = failures + 1
      /\ failures < load.failures
  BY DEF FailsAfter
<1>6. failures' \in 0 .. load.failures /\ failures' # 0 /\ nextId' \in 3 .. MaxId + 1 /\ nextId' >= nextId
  BY <1>5, Numbers DEF IndInv
<1> QED
  BY <1>4, <1>5, <1>6, TreeStep

-----------------------------------------------------------------------------
(* The writes of each handler.                                              *)

LEMMA TwoWrites ==
  ASSUME NEW a, NEW b
  PROVE  /\ Len(<<a, b>>) = 2 /\ Last(<<a, b>>) = b /\ <<a, b>> # <<>>
         /\ \A k \in 1 .. 2 : <<a, b>>[k] = a \/ <<a, b>>[k] = b
BY DEF Last

LEMMA FourWrites ==
  ASSUME NEW a, NEW b, NEW c, NEW d
  PROVE  /\ Len(<<a, b, c, d>>) = 4 /\ Last(<<a, b, c, d>>) = d /\ <<a, b, c, d>> # <<>>
         /\ \A k \in 1 .. 4 : \/ <<a, b, c, d>>[k] = a \/ <<a, b, c, d>>[k] = b
                              \/ <<a, b, c, d>>[k] = c \/ <<a, b, c, d>>[k] = d
BY DEF Last

(* Making an entry. *)
LEMMA EntryTyped ==
  ASSUME NEW d \in Ids, NEW n \in Names, NEW i \in Ids, NEW b \in BOOLEAN
  PROVE  /\ Entry(d, n, i, b) \in Entries /\ Entry(d, n, i, b).dir = d /\ Entry(d, n, i, b).name = n
         /\ Entry(d, n, i, b).id = i /\ Entry(d, n, i, b).isdir = b
BY DEF Entry, Entries

(* A new inode and its name. *)
LEMMA MakeSound ==
  ASSUME IndInv, phase = "up", nextId <= MaxId, NEW d \in Dirs(disk), NEW n \in Names, Lookup(d, n) = {},
         NEW ino \in InodeRecord, ino.ref = 1, ino.type = "dir" => ino.size = 0,
         n # LostFound, n[1] = "sub" => ino.type # "dir",
         NEW P, P = Put(disk, nextId, ino),
         NEW E, E = Insert(P, Entry(d, n, nextId, ino.type = "dir"))
  PROVE  /\ nextId \in Ids \ Known(disk) /\ Sound(P) /\ Sound(E)
         /\ Known(P) = Known(disk) \cup {nextId} /\ NamesOf(P, nextId) = {} /\ P.cat = disk.cat
         /\ P.tags = disk.tags /\ P.junk = disk.junk /\ P.next_inode_id = disk.next_inode_id
         /\ E.inodes = P.inodes /\ P.inodes[nextId] = ino
         /\ \A i \in Known(disk) : P.inodes[i] = disk.inodes[i]
         /\ E.next_inode_id = disk.next_inode_id /\ Dirs(disk) \subseteq Dirs(E)
         /\ Exact(disk) => Exact(E)
         /\ Owned(disk) => Owned(E)
<1>0. /\ Bounds /\ Sound(disk) /\ Fresh /\ disk \in Disks /\ Known(disk) \subseteq Ids
  BY DiskParts DEF IndInv, Sound
<1>1. /\ load \in Workloads /\ MaxId \in Nat /\ nextId \in 3 .. MaxId + 1
  BY <1>0, Numbers
<1>2. nextId \in Ids
  BY <1>1 DEF Ids, Root
<1>3. nextId \notin Known(disk)
  BY <1>0, <1>1 DEF Fresh
<1>4. Sound(P) /\ NamesOf(P, nextId) = {} /\ nextId # Root /\ DirInodes(disk) \subseteq DirInodes(P)
  BY <1>0, <1>1, <1>2, <1>3, PutFresh
<1>5. /\ P \in Disks /\ P.cat = disk.cat /\ Known(P) = Known(disk) \cup {nextId}
      /\ P.tags = disk.tags /\ P.junk = disk.junk /\ P.next_inode_id = disk.next_inode_id
      /\ \A k \in Known(disk) \cup {nextId} : P.inodes[k] = IF k = nextId THEN ino ELSE disk.inodes[k]
  BY <1>0, <1>2, PutParts
<1>6. P.inodes[nextId] = ino /\ \A i \in Known(disk) : P.inodes[i] = disk.inodes[i]
  BY <1>3, <1>5
<1>7. PICK e : e = Entry(d, n, nextId, ino.type = "dir")
  OBVIOUS
<1>8. d \in Ids /\ d \in Dirs(P)
  BY <1>5 DEF Dirs, Closed
<1>9. /\ e \in Entries /\ e.dir = d /\ e.name = n /\ e.id = nextId /\ e.isdir = (ino.type = "dir")
  <2>1. PICK b \in BOOLEAN : b = (ino.type = "dir")
    OBVIOUS
  <2>2. e = Entry(d, n, nextId, b)
    BY <1>7, <2>1
  <2>3. e \in Entries /\ e.dir = d /\ e.name = n /\ e.id = nextId /\ e.isdir = b
    BY <1>2, <1>8, <2>2, EntryTyped
  <2> QED
    BY <2>1, <2>3
<1>10. e.isdir = (e.id \in DirInodes(P)) /\ e.id \in Known(P) \ {Root}
  BY <1>4, <1>5, <1>6, <1>9 DEF DirInodes
<1>11. Cardinality(NamesOf(P, e.id)) < P.inodes[e.id].ref
  <2>1. Cardinality(NamesOf(P, nextId)) = 0
    BY <1>4, FS_EmptySet
  <2> QED
    BY <1>6, <1>9, <2>1
<1>12. Sound(E) /\ Dirs(P) \subseteq Dirs(E)
  <2>1. E = Insert(P, e) /\ e \in Entries /\ e.dir \in Dirs(P)
    BY <1>7, <1>8, <1>9
  <2>2. (e.name = LostFound => e.isdir) /\ (e.name[1] = "sub" => ~e.isdir)
    BY <1>9
  <2> QED
    BY <1>1, <1>4, <1>10, <1>11, <2>1, <2>2, InsertName
<1>13. /\ E.cat = P.cat \cup {e} /\ Known(E) = Known(P) /\ E.inodes = P.inodes
       /\ E.tags = P.tags /\ E.junk = P.junk /\ E.next_inode_id = P.next_inode_id
  BY <1>5, <1>7, <1>9, InsertParts
<1>14. Dirs(P) = Dirs(disk)
  BY <1>5 DEF Dirs, Closed
<1>15. ASSUME Tallied(disk) PROVE Tallied(E)
  <2> SUFFICES ASSUME NEW i \in Known(P) \ {Root} PROVE Cardinality(NamesOf(E, i)) = P.inodes[i].ref
    BY <1>13 DEF Tallied
  <2>1. IsFiniteSet(P.cat) /\ e \notin P.cat
    BY <1>4, <1>9 DEF Sound, Counted, NamesOf
  <2>2. /\ i # e.id => NamesOf(E, i) = NamesOf(P, i)
        /\ i = e.id => Cardinality(NamesOf(E, i)) = Cardinality(NamesOf(P, i)) + 1
    BY <1>13, <2>1, NamesInserted
  <2>3. CASE i = nextId
    <3>1. Cardinality(NamesOf(P, i)) = 0
      BY <1>4, <2>3, FS_EmptySet
    <3> QED
      BY <1>6, <1>9, <2>2, <2>3, <3>1
  <2>4. CASE i # nextId
    <3>1. NamesOf(P, i) = NamesOf(disk, i)
      BY <1>5 DEF NamesOf
    <3> QED
      BY <1>5, <1>6, <1>9, <1>15, <2>2, <2>4, <3>1 DEF Tallied
  <2> QED
    BY <2>3, <2>4
<1>u. Unambiguous(disk) => Unambiguous(E)
  BY <1>5, <1>9, <1>13 DEF Unambiguous, Lookup
<1>16. Owned(disk) => Owned(E)
  BY <1>5, <1>6, <1>13 DEF Owned
<1> QED
  BY <1>u, <1>2, <1>3, <1>4, <1>5, <1>6, <1>12, <1>13, <1>14, <1>15, <1>16 DEF Exact

(* Changing the count of an inode. *)
LEMMA RefChanged ==
  ASSUME NEW old \in InodeRecord, NEW m \in Nat \ {0}
  PROVE  /\ [old EXCEPT !.ref = m] \in InodeRecord /\ [old EXCEPT !.ref = m].ref = m
         /\ [old EXCEPT !.ref = m].type = old.type /\ [old EXCEPT !.ref = m].size = old.size
         /\ [[old EXCEPT !.ref = m] EXCEPT !.ref = old.ref] = old
BY DEF InodeRecord

(* The names users give. *)
LEMMA GivenNames == \A n \in Given : n \in Names /\ n # LostFound /\ n[1] # "sub"
BY DEF Names, Given, User, LostFound

(* A second name: the count first. *)
LEMMA LinkSound ==
  ASSUME IndInv, NEW e \in disk.cat, ~e.isdir, ~Held(e.id),
         NEW f \in Entries, Lookup(f.dir, f.name) = {}, f.id = e.id, ~f.isdir, f.dir \in Dirs(disk), f.name \in Given,
         NEW C, C = Count(disk, e.id, 1), NEW E, E = Insert(C, f),
         NEW R, R = Count(C, e.id, -1)
  PROVE  /\ Sound(C) /\ Sound(E) /\ Sound(R) /\ Kept(E) /\ Kept(R) /\ Known(E) = Known(disk)
         /\ Known(R) = Known(disk) /\ (Exact(disk) => Exact(E)) /\ (Owned(disk) => Owned(E))
<1>0. /\ Bounds /\ Sound(disk) /\ HandlesSound /\ disk \in Disks /\ Counted(disk) /\ Resolving(disk)
  BY DEF IndInv, Sound
<1>1. load \in Workloads
  BY <1>0, Numbers
<1>2. e.id \in Known(disk) \ {Root} /\ e.id \notin DirInodes(disk) /\ e.id \in Ids
  BY <1>0, DiskParts DEF Resolving
<1>3. PICK old : old = disk.inodes[e.id]
  OBVIOUS
<1>4. old \in InodeRecord /\ old.type # "dir"
  BY <1>0, <1>2, <1>3, DiskParts DEF DirInodes
<1>5. PICK new : new = [old EXCEPT !.ref = @ + 1]
  OBVIOUS
<1>6. /\ new \in InodeRecord /\ new.type = old.type /\ new.size = old.size /\ new.ref = old.ref + 1
      /\ [new EXCEPT !.ref = @ + -1] = old
  <2>1. old.ref \in Nat \ {0}
    BY <1>4 DEF InodeRecord
  <2>2. PICK m \in Nat \ {0} : m = old.ref + 1
    BY <2>1
  <2>3. new = [old EXCEPT !.ref = m]
    BY <1>5, <2>2
  <2>4. /\ new \in InodeRecord /\ new.type = old.type /\ new.size = old.size /\ new.ref = m
        /\ [new EXCEPT !.ref = old.ref] = old
    BY <1>4, <2>3, RefChanged
  <2>5. new.ref + -1 = old.ref
    BY <2>1, <2>2, <2>4
  <2> QED
    BY <2>2, <2>4, <2>5
<1>7. C = Put(disk, e.id, new)
  BY <1>0, <1>2, <1>3, <1>5, CountIsPut
<1>8. IsFiniteSet(disk.cat) /\ Cardinality(NamesOf(disk, e.id)) <= old.ref /\ old.ref \in Nat
  BY <1>0, <1>2, <1>3, <1>4 DEF Counted, InodeRecord
<1>9. Cardinality(NamesOf(disk, e.id)) \in Nat /\ Cardinality(NamesOf(disk, e.id)) < new.ref
  BY <1>6, <1>8, NamesFinite
<1>10. Sound(C) /\ DirInodes(C) = DirInodes(disk) /\ Dirs(C) = Dirs(disk)
  <2>1. new.type # "dir" /\ Cardinality(NamesOf(disk, e.id)) <= new.ref /\ e.id \in Known(disk)
    BY <1>2, <1>4, <1>6, <1>8, <1>9
  <2> QED
    BY <1>0, <1>1, <1>2, <1>6, <1>7, <2>1, PutSame
<1>11. /\ C \in Disks /\ C.cat = disk.cat /\ Known(C) = Known(disk) \cup {e.id}
       /\ C.tags = disk.tags /\ C.junk = disk.junk /\ C.next_inode_id = disk.next_inode_id
       /\ \A k \in Known(disk) \cup {e.id} : C.inodes[k] = IF k = e.id THEN new ELSE disk.inodes[k]
  BY <1>0, <1>2, <1>6, <1>7, PutParts
<1>12. Known(C) = Known(disk) /\ C.inodes[e.id] = new /\ \A k \in Known(disk) : k # e.id => C.inodes[k] = disk.inodes[k]
  BY <1>2, <1>11
<1>13. \A i : NamesOf(C, i) = NamesOf(disk, i)
  BY <1>11 DEF NamesOf
<1>14. Kept(C)
  BY <1>0, <1>3, <1>6, <1>11, <1>12, HeldAreFiles DEF Kept
<1>19. Sound(E)
  <2>1. f.id \in Known(C) \ {Root} /\ f.isdir = (f.id \in DirInodes(C)) /\ f.dir \in Dirs(C)
    BY <1>2, <1>10, <1>12 DEF Entries
  <2>2. Cardinality(NamesOf(C, f.id)) < C.inodes[f.id].ref
    BY <1>9, <1>12, <1>13
  <2>3. f.name # LostFound /\ f.name[1] # "sub"
    BY GivenNames
  <2> QED
    BY <1>1, <1>10, <2>1, <2>2, <2>3, InsertName
<1>20. /\ E.cat = C.cat \cup {f} /\ Known(E) = Known(C) /\ E.inodes = C.inodes
       /\ E.tags = C.tags /\ E.junk = C.junk /\ E.next_inode_id = C.next_inode_id
  BY <1>11, InsertParts
<1>21. Kept(E)
  BY <1>14, <1>20, KeptSame
<1>22. ASSUME Tallied(disk) PROVE Tallied(E)
  <2> SUFFICES ASSUME NEW i \in Known(disk) \ {Root} PROVE Cardinality(NamesOf(E, i)) = C.inodes[i].ref
    BY <1>12, <1>20 DEF Tallied
  <2>0. E.cat = C.cat \cup {f} /\ IsFiniteSet(C.cat) /\ f \notin C.cat
    BY <1>8, <1>11, <1>20 DEF Lookup
  <2>1. /\ i # f.id => NamesOf(E, i) = NamesOf(C, i)
        /\ i = f.id => Cardinality(NamesOf(E, i)) = Cardinality(NamesOf(C, i)) + 1
    BY <2>0, NamesInserted
  <2>2. Cardinality(NamesOf(disk, i)) = disk.inodes[i].ref
    BY <1>22 DEF Tallied
  <2>3. CASE i = e.id
    BY <1>3, <1>6, <1>12, <1>13, <2>1, <2>2, <2>3
  <2>4. CASE i # e.id
    BY <1>12, <1>13, <2>1, <2>2, <2>4
  <2> QED
    BY <2>3, <2>4
<1>u. Unambiguous(disk) => Unambiguous(E)
  BY <1>11, <1>20 DEF Unambiguous, Lookup
<1>23. ASSUME Owned(disk) PROVE Owned(E)
  <2>1. E.tags = disk.tags /\ E.junk = disk.junk /\ Known(E) = Known(disk)
    BY <1>11, <1>12, <1>20
  <2>2. \A i \in Known(disk) : E.inodes[i].type = disk.inodes[i].type
    BY <1>3, <1>6, <1>12, <1>20
  <2> QED
    BY <1>23, <2>1, <2>2 DEF Owned
<1>24. R = Put(C, e.id, old)
  <2>1. e.id \in Known(C) /\ -1 \in Int
    BY <1>2, <1>12
  <2>2. R = Put(C, e.id, [C.inodes[e.id] EXCEPT !.ref = @ + -1])
    BY <1>11, <2>1, CountIsPut
  <2> QED
    BY <1>6, <1>12, <2>2
<1>25. Sound(R)
  BY <1>1, <1>2, <1>4, <1>8, <1>10, <1>12, <1>13, <1>24, PutSame
<1>26. /\ Known(R) = Known(C) \cup {e.id} /\ R.next_inode_id = C.next_inode_id
       /\ \A k \in Known(C) \cup {e.id} : R.inodes[k] = IF k = e.id THEN old ELSE C.inodes[k]
  BY <1>2, <1>4, <1>11, <1>24, PutParts
<1>27. Known(R) = Known(disk) /\ \A k \in Known(disk) : R.inodes[k] = disk.inodes[k]
  BY <1>2, <1>3, <1>12, <1>26
<1>28. Kept(R)
  BY <1>0, <1>11, <1>26, <1>27, HeldAreFiles DEF Kept
<1> QED
  BY <1>u, <1>10, <1>12, <1>19, <1>20, <1>21, <1>22, <1>23, <1>25, <1>27, <1>28 DEF Exact

(* The last name takes the tags and the junk map along. *)
LEMMA TagsGoParts ==
  ASSUME NEW D \in Disks, NEW i \in Known(D), NEW T, T = TagsGo(D, i), NEW J, J = JunkGoes(T, i)
  PROVE  /\ T \in Disks /\ T.cat = D.cat /\ T.inodes = D.inodes /\ T.next_inode_id = D.next_inode_id
         /\ J \in Disks /\ J.cat = D.cat /\ J.inodes = D.inodes /\ J.next_inode_id = D.next_inode_id
         /\ J.tags \subseteq D.tags /\ J.junk \subseteq D.junk
         /\ D.inodes[i].type \in {"media", "nintendo", "ps3"} => i \notin J.tags
         /\ D.inodes[i].type = "nintendo" => i \notin J.junk
<1>1. D.tags \ {i} \in SUBSET Ids /\ D.junk \ {i} \in SUBSET Ids
  BY DiskParts
<1>2. /\ T \in Disks /\ T.cat = D.cat /\ T.inodes = D.inodes /\ T.next_inode_id = D.next_inode_id
      /\ T.tags \subseteq D.tags /\ T.junk = D.junk
      /\ D.inodes[i].type \in {"media", "nintendo", "ps3"} => i \notin T.tags
  <2>1. CASE D.inodes[i].type \in {"media", "nintendo", "ps3"}
    <3>1. T = [D EXCEPT !.tags = D.tags \ {i}]
      BY <2>1 DEF TagsGo
    <3>2. PICK U \in SUBSET Ids : U = D.tags \ {i}
      BY <1>1
    <3>3. /\ T \in Disks /\ T.cat = D.cat /\ T.inodes = D.inodes /\ T.next_inode_id = D.next_inode_id
          /\ T.tags = U /\ T.junk = D.junk
      BY <3>1, <3>2 DEF Disks
    <3> QED
      BY <3>2, <3>3
  <2>2. CASE ~(D.inodes[i].type \in {"media", "nintendo", "ps3"})
    BY <2>2 DEF TagsGo
  <2> QED
    BY <2>1, <2>2
<1>3. CASE D.inodes[i].type = "nintendo"
  <2>1. J = [T EXCEPT !.junk = D.junk \ {i}]
    BY <1>2, <1>3 DEF JunkGoes
  <2>2. /\ J \in Disks /\ J.cat = T.cat /\ J.inodes = T.inodes /\ J.tags = T.tags /\ J.junk = D.junk \ {i}
        /\ J.next_inode_id = T.next_inode_id
    <3>1. PICK U \in SUBSET Ids : U = D.junk \ {i}
      BY <1>1
    <3> QED
      BY <1>2, <2>1, <3>1 DEF Disks
  <2> QED
    BY <1>2, <2>2
<1>4. CASE D.inodes[i].type # "nintendo"
  BY <1>2, <1>4 DEF JunkGoes
<1> QED
  BY <1>3, <1>4

(* The name goes, and one from the count. *)
LEMMA UnlinkCounts ==
  ASSUME IndInv, NEW e \in disk.cat, ~e.isdir, ~Held(e.id), disk.inodes[e.id].ref > 1,
         NEW D, D = DeleteEntry(disk, e), NEW C, C = Count(D, e.id, -1)
  PROVE  /\ Sound(C) /\ Kept(C) /\ C.cat = disk.cat \ {e}
         /\ (Exact(disk) => Exact(C)) /\ (Owned(disk) => Owned(C))
<1>0. Bounds /\ Sound(disk) /\ HandlesSound /\ disk \in Disks /\ Counted(disk) /\ Resolving(disk)
  BY DEF IndInv, Sound
<1>1. load \in Workloads
  BY <1>0, Numbers
<1>2. e.id \in Known(disk) \ {Root} /\ e.id \notin DirInodes(disk) /\ e.id \in Ids
  BY <1>0, DiskParts DEF Resolving
<1>3. PICK old : old = disk.inodes[e.id]
  OBVIOUS
<1>4. old \in InodeRecord /\ old.type # "dir" /\ old.ref \in Nat /\ old.ref > 1
  BY <1>0, <1>2, <1>3, DiskParts DEF DirInodes, InodeRecord
<1>5. PICK m \in Nat \ {0} : m = old.ref - 1
  BY <1>4
<1>6. PICK new : new = [old EXCEPT !.ref = m]
  OBVIOUS
<1>7. new \in InodeRecord /\ new.type = old.type /\ new.size = old.size /\ new.ref = m
  BY <1>4, <1>6, RefChanged
<1>8. /\ D \in Disks /\ D.cat = disk.cat \ {e} /\ D.inodes = disk.inodes /\ Known(D) = Known(disk)
      /\ D.tags = disk.tags /\ D.junk = disk.junk /\ D.next_inode_id = disk.next_inode_id
  BY <1>0, DeleteEntryParts
<1>9. Sound(D) /\ DirInodes(D) = DirInodes(disk)
  BY <1>0, <1>1, DeleteName
<1>10. C = Put(D, e.id, new)
  <2>1. C = Put(D, e.id, [D.inodes[e.id] EXCEPT !.ref = @ + -1])
    BY <1>2, <1>8, CountIsPut
  <2>2. D.inodes[e.id] = old /\ old.ref + -1 = m
    BY <1>3, <1>4, <1>5, <1>8
  <2> QED
    BY <1>6, <2>1, <2>2
<1>11. IsFiniteSet(disk.cat) /\ Cardinality(NamesOf(disk, e.id)) <= old.ref
  BY <1>0, <1>2, <1>3 DEF Counted
<1>12. /\ Cardinality(NamesOf(D, e.id)) = Cardinality(NamesOf(disk, e.id)) - 1
       /\ \A i : i # e.id => NamesOf(D, i) = NamesOf(disk, i)
  <2>1. \A i : /\ i # e.id => NamesOf(D, i) = NamesOf(disk, i)
               /\ i = e.id => Cardinality(NamesOf(D, i)) = Cardinality(NamesOf(disk, i)) - 1
    BY <1>8, <1>11, NamesDeleted
  <2> QED
    BY <2>1
<1>13. Cardinality(NamesOf(disk, e.id)) \in Nat
  BY <1>11, NamesFinite
<1>14. Cardinality(NamesOf(D, e.id)) <= new.ref
  BY <1>4, <1>5, <1>7, <1>11, <1>12, <1>13
<1>15. e.id \in Known(D) /\ e.id \notin DirInodes(D) /\ new.type # "dir"
  BY <1>2, <1>4, <1>7, <1>8, <1>9
<1>16. Sound(C)
  BY <1>1, <1>7, <1>9, <1>10, <1>14, <1>15, PutSame
<1>17. /\ C.cat = D.cat /\ C.tags = D.tags /\ C.junk = D.junk /\ C.next_inode_id = D.next_inode_id
       /\ Known(C) = Known(D) \cup {e.id}
       /\ \A k \in Known(D) \cup {e.id} : C.inodes[k] = IF k = e.id THEN new ELSE D.inodes[k]
  BY <1>2, <1>7, <1>8, <1>10, PutParts
<1>18. /\ Known(C) = Known(disk) /\ C.inodes[e.id] = new
       /\ \A k \in Known(disk) : k # e.id => C.inodes[k] = disk.inodes[k]
  BY <1>2, <1>8, <1>17
<1>19. \A i : NamesOf(C, i) = NamesOf(D, i)
  BY <1>17 DEF NamesOf
<1>20. Kept(C)
  BY <1>0, <1>3, <1>7, <1>8, <1>17, <1>18, HeldAreFiles DEF Kept
<1>21. ASSUME Tallied(disk) PROVE Tallied(C)
  <2> SUFFICES ASSUME NEW i \in Known(disk) \ {Root} PROVE Cardinality(NamesOf(C, i)) = C.inodes[i].ref
    BY <1>18 DEF Tallied
  <2>1. Cardinality(NamesOf(disk, i)) = disk.inodes[i].ref
    BY <1>21 DEF Tallied
  <2>2. CASE i = e.id
    BY <1>3, <1>5, <1>7, <1>12, <1>18, <1>19, <2>1, <2>2
  <2>3. CASE i # e.id
    BY <1>12, <1>18, <1>19, <2>1, <2>3
  <2> QED
    BY <2>2, <2>3
<1>u. Unambiguous(disk) => Unambiguous(C)
  BY <1>8, <1>17 DEF Unambiguous
<1>22. ASSUME Owned(disk) PROVE Owned(C)
  <2>1. C.tags = disk.tags /\ C.junk = disk.junk
    BY <1>8, <1>17
  <2>2. \A i \in Known(disk) : C.inodes[i].type = disk.inodes[i].type
    BY <1>3, <1>7, <1>18
  <2> QED
    BY <1>18, <1>22, <2>1, <2>2 DEF Owned
<1> QED
  BY <1>u, <1>8, <1>16, <1>17, <1>20, <1>21, <1>22 DEF Exact

(* The last name goes, then tags, junk map and inode. *)
LEMMA UnlinkRemoves ==
  ASSUME IndInv, NEW e \in disk.cat, ~e.isdir, ~Held(e.id), ~(disk.inodes[e.id].ref > 1),
         NEW D, D = DeleteEntry(disk, e), NEW T, T = TagsGo(D, e.id), NEW J, J = JunkGoes(T, e.id),
         NEW R, R = DeleteInode(J, e.id)
  PROVE  /\ Sound(T) /\ Kept(T) /\ Sound(J) /\ Kept(J) /\ Sound(R) /\ Kept(R) /\ R.cat = disk.cat \ {e}
         /\ (Exact(disk) => Exact(R)) /\ (Owned(disk) => Owned(R))
<1>0. Bounds /\ Sound(disk) /\ HandlesSound /\ disk \in Disks /\ Counted(disk) /\ Resolving(disk)
  BY DEF IndInv, Sound
<1>1. load \in Workloads
  BY <1>0, Numbers
<1>2. e.id \in Known(disk) \ {Root} /\ e.id \notin DirInodes(disk) /\ e.id \in Ids
  BY <1>0, DiskParts DEF Resolving
<1>3. /\ D \in Disks /\ D.cat = disk.cat \ {e} /\ D.inodes = disk.inodes /\ Known(D) = Known(disk)
      /\ D.tags = disk.tags /\ D.junk = disk.junk /\ D.next_inode_id = disk.next_inode_id
  BY <1>0, DeleteEntryParts
<1>4. Sound(D) /\ DirInodes(D) = DirInodes(disk)
  BY <1>0, <1>1, DeleteName
<1>5. IsFiniteSet(disk.cat) /\ Cardinality(NamesOf(disk, e.id)) <= disk.inodes[e.id].ref
      /\ disk.inodes[e.id].ref \in Nat
  BY <1>0, <1>2, DiskParts DEF Counted, InodeRecord
<1>6. NamesOf(D, e.id) = {}
  <2>1. \A i : i = e.id => Cardinality(NamesOf(D, i)) = Cardinality(NamesOf(disk, i)) - 1
    BY <1>3, <1>5, NamesDeleted
  <2>2. IsFiniteSet(D.cat)
    BY <1>4 DEF Sound, Counted
  <2>3. IsFiniteSet(NamesOf(D, e.id)) /\ Cardinality(NamesOf(D, e.id)) \in Nat
    BY <2>2, NamesFinite
  <2>4. Cardinality(NamesOf(disk, e.id)) \in Nat
    BY <1>5, NamesFinite
  <2>5. Cardinality(NamesOf(D, e.id)) = 0
    BY <1>5, <2>1, <2>3, <2>4
  <2> QED
    BY <2>3, <2>5, FS_EmptySet
<1>7. /\ T \in Disks /\ T.cat = D.cat /\ T.inodes = D.inodes /\ T.next_inode_id = D.next_inode_id
      /\ J \in Disks /\ J.cat = D.cat /\ J.inodes = D.inodes /\ J.next_inode_id = D.next_inode_id
      /\ J.tags \subseteq D.tags /\ J.junk \subseteq D.junk
      /\ D.inodes[e.id].type \in {"media", "nintendo", "ps3"} => e.id \notin J.tags
      /\ D.inodes[e.id].type = "nintendo" => e.id \notin J.junk
  BY <1>2, <1>3, TagsGoParts
<1>8. Sound(T) /\ Sound(J)
  BY <1>4, <1>7, SameTrees
<1>9. Kept(D) /\ Kept(T) /\ Kept(J)
  <2>1. Kept(D)
    BY <1>0, <1>3, KeptDisk, KeptSame
  <2> QED
    BY <1>7, <2>1, KeptSame
<1>10. NamesOf(J, e.id) = {} /\ Known(J) = Known(disk) /\ DirInodes(J) = DirInodes(disk)
  BY <1>3, <1>6, <1>7 DEF NamesOf, Known, DirInodes
<1>11. Sound(R)
  BY <1>1, <1>2, <1>8, <1>10, RemoveInode
<1>12. /\ R.cat = J.cat /\ Known(R) = Known(J) \ {e.id} /\ R.tags = J.tags /\ R.junk = J.junk
       /\ R.next_inode_id = J.next_inode_id
       /\ \A k \in Known(J) \ {e.id} : R.inodes[k] = J.inodes[k]
  BY <1>7, DeleteInodeParts
<1>13. Kept(R)
  BY <1>9, <1>12 DEF Kept
<1>14. ASSUME Tallied(disk) PROVE Tallied(R)
  <2> SUFFICES ASSUME NEW i \in Known(disk) \ {Root}, i # e.id PROVE Cardinality(NamesOf(R, i)) = R.inodes[i].ref
    BY <1>10, <1>12 DEF Tallied
  <2>1. NamesOf(R, i) = NamesOf(disk, i)
    BY <1>3, <1>7, <1>12 DEF NamesOf
  <2>2. R.inodes[i] = disk.inodes[i]
    BY <1>3, <1>7, <1>10, <1>12
  <2> QED
    BY <1>14, <2>1, <2>2 DEF Tallied
<1>u. Unambiguous(disk) => Unambiguous(R)
  BY <1>3, <1>7, <1>12 DEF Unambiguous
<1>15. ASSUME Owned(disk) PROVE Owned(R)
  <2>1. e.id \notin R.tags /\ e.id \notin R.junk
    BY <1>3, <1>7, <1>12, <1>15 DEF Owned
  <2>2. R.tags \subseteq disk.tags /\ R.junk \subseteq disk.junk
    BY <1>3, <1>7, <1>12
  <2>3. \A i \in Known(disk) : i # e.id => i \in Known(R) /\ R.inodes[i] = disk.inodes[i]
    BY <1>3, <1>7, <1>10, <1>12
  <2> QED
    BY <1>15, <2>1, <2>2, <2>3 DEF Owned
<1> QED
  BY <1>u, <1>3, <1>7, <1>8, <1>9, <1>11, <1>12, <1>13, <1>14, <1>15 DEF Exact

(* What a handler's writes come to. *)
Done(ws, C) ==
    /\ ws \in Seq(Disks) /\ ws # <<>> /\ Writes(ws)
    /\ Last(ws).cat = C
    /\ (Exact(disk) => Exact(Last(ws))) /\ (Owned(disk) => Owned(Last(ws)))

LEMMA UnlinkDone ==
  ASSUME IndInv, NEW e \in disk.cat, ~e.isdir, ~Held(e.id)
  PROVE  Done(UnlinkWrites(e), disk.cat \ {e})
<1>1. PICK D : D = DeleteEntry(disk, e)
  OBVIOUS
<1>2. Sound(disk) /\ HandlesSound /\ disk \in Disks /\ load \in Workloads
  BY Numbers DEF IndInv, Sound
<1>3. Sound(D) /\ D.inodes = disk.inodes /\ D.next_inode_id = disk.next_inode_id /\ D \in Disks
  BY <1>1, <1>2, DeleteName, DeleteEntryParts
<1>4. Kept(D)
  BY <1>2, <1>3, KeptDisk, KeptSame
<1>5. e.id \in DOMAIN D.inodes
  BY <1>2, <1>3 DEF Sound, Resolving, Known
<1>6. CASE disk.inodes[e.id].ref > 1
  <2>1. PICK C : C = Count(D, e.id, -1)
    OBVIOUS
  <2>2. /\ Sound(C) /\ Kept(C) /\ C.cat = disk.cat \ {e}
        /\ (Exact(disk) => Exact(C)) /\ (Owned(disk) => Owned(C))
    BY <1>1, <1>6, <2>1, UnlinkCounts
  <2>3. UnlinkWrites(e) = <<D, C>>
    BY <1>1, <1>3, <1>5, <1>6, <2>1 DEF UnlinkWrites
  <2>4. C \in Disks
    BY <2>2 DEF Sound
  <2>5. <<D, C>> \in Seq(Disks)
    BY <1>3, <2>4
  <2>6. Writes(<<D, C>>)
    BY <1>3, <1>4, <2>2, TwoWrites DEF Writes
  <2> QED
    BY <2>2, <2>3, <2>5, <2>6, TwoWrites DEF Done
<1>7. CASE ~(disk.inodes[e.id].ref > 1)
  <2>1. PICK T : T = TagsGo(D, e.id)
    OBVIOUS
  <2>2. PICK J : J = JunkGoes(T, e.id)
    OBVIOUS
  <2>3. PICK R : R = DeleteInode(J, e.id)
    OBVIOUS
  <2>4. /\ Sound(T) /\ Kept(T) /\ Sound(J) /\ Kept(J) /\ Sound(R) /\ Kept(R) /\ R.cat = disk.cat \ {e}
        /\ (Exact(disk) => Exact(R)) /\ (Owned(disk) => Owned(R))
    BY <1>1, <1>7, <2>1, <2>2, <2>3, UnlinkRemoves
  <2>5. UnlinkWrites(e) = <<D, T, J, R>>
    BY <1>1, <1>3, <1>5, <1>7, <2>1, <2>2, <2>3 DEF UnlinkWrites
  <2>6. T \in Disks /\ J \in Disks /\ R \in Disks
    BY <2>4 DEF Sound
  <2>7. <<D, T, J, R>> \in Seq(Disks)
    BY <1>3, <2>6
  <2>8. Writes(<<D, T, J, R>>)
    BY <1>3, <1>4, <2>4, FourWrites DEF Writes
  <2> QED
    BY <2>4, <2>5, <2>7, <2>8, FourWrites DEF Done
<1> QED
  BY <1>6, <1>7

(* A directory without entries goes. *)
LEMMA RmdirDone ==
  ASSUME IndInv, NEW e \in disk.cat, e.isdir, Empty(disk, e.id)
  PROVE  Done(RmdirWrites(e), disk.cat \ {e}) /\ \A i \in Known(disk) : i # e.id => i \in Known(Last(RmdirWrites(e)))
<1>1. PICK D : D = DeleteEntry(disk, e)
  OBVIOUS
<1>2. PICK R : R = DeleteInode(D, e.id)
  OBVIOUS
<1>3. Sound(disk) /\ HandlesSound /\ disk \in Disks /\ load \in Workloads /\ Resolving(disk)
  BY Numbers DEF IndInv, Sound
<1>4. e.id \in Known(disk) \ {Root} /\ e.id \in DirInodes(disk)
  BY <1>3 DEF Resolving
<1>5. Sound(D) /\ DirInodes(D) = DirInodes(disk) /\ NamesOf(D, e.id) = {}
  BY <1>1, <1>3, DeleteName
<1>6. /\ D \in Disks /\ D.cat = disk.cat \ {e} /\ D.inodes = disk.inodes /\ Known(D) = Known(disk)
      /\ D.tags = disk.tags /\ D.junk = disk.junk /\ D.next_inode_id = disk.next_inode_id
  BY <1>1, <1>3, DeleteEntryParts
<1>7. Kept(D)
  BY <1>3, <1>6, KeptDisk, KeptSame
<1>8. Empty(D, e.id)
  BY <1>6 DEF Empty
<1>9. Sound(R)
  BY <1>2, <1>3, <1>4, <1>5, <1>6, <1>8, RemoveInode
<1>10. /\ R \in Disks /\ R.cat = D.cat /\ Known(R) = Known(D) \ {e.id} /\ R.tags = D.tags /\ R.junk = D.junk
       /\ R.next_inode_id = D.next_inode_id /\ \A k \in Known(D) \ {e.id} : R.inodes[k] = D.inodes[k]
  BY <1>2, <1>6, DeleteInodeParts
<1>11. Kept(R)
  <2>1. \A i \in Ids : Held(i) => i # e.id
    BY <1>3, <1>4, HeldAreFiles
  <2> QED
    BY <1>7, <1>10, <2>1 DEF Kept
<1>12. ASSUME Tallied(disk) PROVE Tallied(R)
  <2> SUFFICES ASSUME NEW i \in Known(disk) \ {Root}, i # e.id PROVE Cardinality(NamesOf(R, i)) = R.inodes[i].ref
    BY <1>6, <1>10 DEF Tallied
  <2>1. NamesOf(R, i) = NamesOf(disk, i)
    BY <1>6, <1>10 DEF NamesOf
  <2>2. R.inodes[i] = disk.inodes[i]
    BY <1>6, <1>10
  <2> QED
    BY <1>12, <2>1, <2>2 DEF Tallied
<1>u. Unambiguous(disk) => Unambiguous(R)
  BY <1>6, <1>10 DEF Unambiguous
<1>13. ASSUME Owned(disk) PROVE Owned(R)
  <2>1. e.id \notin disk.tags /\ e.id \notin disk.junk
    BY <1>4, <1>13 DEF Owned, DirInodes
  <2>2. \A i \in Known(disk) : i # e.id => i \in Known(R) /\ R.inodes[i] = disk.inodes[i]
    BY <1>6, <1>10
  <2>3. R.tags = disk.tags /\ R.junk = disk.junk
    BY <1>6, <1>10
  <2> QED
    BY <1>13, <2>1, <2>2, <2>3 DEF Owned
<1>14. RmdirWrites(e) = <<D, R>>
  BY <1>1, <1>2 DEF RmdirWrites
<1>15. <<D, R>> \in Seq(Disks)
  BY <1>6, <1>10
<1>16. Writes(<<D, R>>)
  BY <1>5, <1>7, <1>9, <1>11, TwoWrites DEF Writes
<1>17. R.cat = disk.cat \ {e} /\ \A i \in Known(disk) : i # e.id => i \in Known(R)
  BY <1>6, <1>10
<1> QED
  BY <1>u, <1>12, <1>13, <1>14, <1>15, <1>16, <1>17, TwoWrites DEF Done, Exact

(* A name is replaced by another. *)
LEMMA RenameEntry ==
  ASSUME IndInv, NEW D, Sound(D), Kept(D), NEW e \in D.cat,
         NEW f \in Entries, f.id = e.id, f.isdir = e.isdir, f.name \in Given,
         \A k \in D.cat : k.dir = f.dir /\ k.name = f.name => k = e,
         NEW A, A = DeleteEntry(D, e), f.dir \in Dirs(A), NEW E, E = Insert(A, f)
  PROVE  /\ Sound(A) /\ Kept(A) /\ Sound(E) /\ Kept(E) /\ E.cat = (D.cat \ {e}) \cup {f}
         /\ (Exact(D) => Exact(E)) /\ (Owned(D) => Owned(E))
<1>0. D \in Disks /\ Resolving(D) /\ Counted(D) /\ load \in Workloads
  BY Numbers DEF IndInv, Sound
<1>1. e.id \in Known(D) \ {Root} /\ e.isdir = (e.id \in DirInodes(D))
  BY <1>0 DEF Resolving
<1>2. Sound(A) /\ DirInodes(A) = DirInodes(D)
  BY <1>0, DeleteName
<1>3. /\ A \in Disks /\ A.cat = D.cat \ {e} /\ A.inodes = D.inodes /\ Known(A) = Known(D)
      /\ A.tags = D.tags /\ A.junk = D.junk /\ A.next_inode_id = D.next_inode_id
  BY <1>0, DeleteEntryParts
<1>4. Kept(A)
  BY <1>3, KeptSame
<1>5. /\ IsFiniteSet(D.cat) /\ IsFiniteSet(A.cat) /\ Cardinality(NamesOf(D, e.id)) <= D.inodes[e.id].ref
      /\ D.inodes[e.id].ref \in Nat
  BY <1>0, <1>1, <1>2, DiskParts DEF Sound, Counted, InodeRecord
<1>6. \A i : /\ i # e.id => NamesOf(A, i) = NamesOf(D, i)
             /\ i = e.id => Cardinality(NamesOf(A, i)) = Cardinality(NamesOf(D, i)) - 1
  BY <1>3, <1>5, NamesDeleted
<1>7. Cardinality(NamesOf(D, e.id)) \in Nat /\ Cardinality(NamesOf(A, e.id)) \in Nat
  BY <1>5, NamesFinite
<1>8. Cardinality(NamesOf(A, f.id)) < A.inodes[f.id].ref
  BY <1>3, <1>5, <1>6, <1>7
<1>9. f.id \in Known(A) \ {Root} /\ f.isdir = (f.id \in DirInodes(A))
  BY <1>1, <1>2, <1>3
<1>10. f.name # LostFound /\ f.name[1] # "sub"
  BY GivenNames
<1>11. Sound(E)
  BY <1>0, <1>2, <1>8, <1>9, <1>10, InsertName
<1>12. /\ E.cat = A.cat \cup {f} /\ E.inodes = A.inodes /\ Known(E) = Known(A)
       /\ E.tags = A.tags /\ E.junk = A.junk /\ E.next_inode_id = A.next_inode_id
  BY <1>3, InsertParts
<1>13. Kept(E)
  BY <1>4, <1>12, KeptSame
<1>14. ASSUME Tallied(D) PROVE Tallied(E)
  <2> SUFFICES ASSUME NEW i \in Known(D) \ {Root} PROVE Cardinality(NamesOf(E, i)) = D.inodes[i].ref
    BY <1>3, <1>12 DEF Tallied
  <2>0. f \notin A.cat
    BY <1>3
  <2>1. /\ i # f.id => NamesOf(E, i) = NamesOf(A, i)
        /\ i = f.id => Cardinality(NamesOf(E, i)) = Cardinality(NamesOf(A, i)) + 1
    BY <1>5, <1>12, <2>0, NamesInserted
  <2>2. Cardinality(NamesOf(D, i)) = D.inodes[i].ref
    BY <1>14 DEF Tallied
  <2>3. CASE i = e.id
    BY <1>6, <1>7, <2>1, <2>2, <2>3
  <2>4. CASE i # e.id
    BY <1>6, <2>1, <2>2, <2>4
  <2> QED
    BY <2>3, <2>4
<1>u. Unambiguous(D) => Unambiguous(E)
  BY <1>3, <1>12 DEF Unambiguous
<1>15. ASSUME Owned(D) PROVE Owned(E)
  BY <1>3, <1>12, <1>15 DEF Owned
<1> QED
  BY <1>u, <1>2, <1>3, <1>4, <1>11, <1>12, <1>13, <1>14, <1>15 DEF Exact

(* The writes that make room, and two more. *)
LEMMA AppendWrites ==
  ASSUME NEW rw \in Seq(Disks), NEW a \in Disks, NEW b \in Disks, Writes(rw),
         Sound(a), Kept(a), Sound(b), Kept(b)
  PROVE  /\ rw \o <<a, b>> \in Seq(Disks) /\ rw \o <<a, b>> # <<>>
         /\ Writes(rw \o <<a, b>>) /\ Last(rw \o <<a, b>>) = b
<1>1. <<a, b>> \in Seq(Disks)
  OBVIOUS
<1>2. PICK ws : ws = rw \o <<a, b>>
  OBVIOUS
<1>3. ws \in Seq(Disks) /\ Len(ws) = Len(rw) + 2 /\ Len(rw) \in Nat
  BY <1>1, <1>2
<1>4. \A k \in 1 .. Len(ws) : ws[k] = IF k <= Len(rw) THEN rw[k] ELSE <<a, b>>[k - Len(rw)]
  BY <1>1, <1>2
<1>5. Last(ws) = b
  BY <1>3, <1>4 DEF Last
<1>6. ASSUME NEW k \in 1 .. Len(ws) PROVE Sound(ws[k]) /\ Kept(ws[k])
  <2>1. CASE k <= Len(rw)
    <3>1. k \in 1 .. Len(rw) /\ ws[k] = rw[k]
      BY <1>3, <1>4, <2>1
    <3> QED
      BY <3>1 DEF Writes
  <2>2. CASE ~(k <= Len(rw))
    <3>1. k - Len(rw) \in 1 .. 2 /\ ws[k] = <<a, b>>[k - Len(rw)]
      BY <1>3, <1>4, <2>2
    <3>2. ws[k] = a \/ ws[k] = b
      BY <3>1, TwoWrites
    <3> QED
      BY <3>2
  <2> QED
    BY <2>1, <2>2
<1>7. ws # <<>>
  BY <1>3
<1> QED
  BY <1>2, <1>3, <1>5, <1>6, <1>7 DEF Writes

(* Making room for a new name. *)
LEMMA RoomMade ==
  ASSUME IndInv, NEW dst \in SUBSET disk.cat, Cardinality(dst) < 2,
         \A x \in dst : IF x.isdir THEN Empty(disk, x.id) ELSE ~Held(x.id),
         NEW rw, rw = ReplaceDest(dst), NEW D, D = (IF rw = <<>> THEN disk ELSE Last(rw))
  PROVE  /\ rw \in Seq(Disks) /\ Writes(rw) /\ Sound(D) /\ Kept(D) /\ D.cat = disk.cat \ dst
         /\ (Exact(disk) => Exact(D)) /\ (Owned(disk) => Owned(D))
<1>0. Sound(disk) /\ Kept(disk) /\ IsFiniteSet(disk.cat)
  BY KeptDisk DEF IndInv, Sound, Counted
<1>1. CASE dst = {}
  <2>1. rw = <<>> /\ D = disk
    BY <1>1 DEF ReplaceDest
  <2>2. rw \in Seq(Disks) /\ Len(rw) = 0
    BY <2>1
  <2>3. Writes(rw)
    BY <2>2 DEF Writes
  <2> QED
    BY <1>0, <1>1, <2>1, <2>2, <2>3
<1>2. CASE dst # {}
  <2>1. PICK x : x = CHOOSE y \in dst : TRUE
    OBVIOUS
  <2>2. x \in dst /\ x \in disk.cat
    BY <1>2, <2>1
  <2>3. dst = {x}
    <3>1. IsFiniteSet(dst)
      BY <1>0, FS_Subset
    <3>2. IsFiniteSet({x}) /\ Cardinality({x}) = 1 /\ {x} \subseteq dst
      BY <2>2, FS_Singleton
    <3>3. Cardinality(dst) \in Nat /\ Cardinality({x}) <= Cardinality(dst)
      BY <3>1, <3>2, FS_CardinalityType, FS_Subset
    <3>4. Cardinality({x}) = Cardinality(dst)
      BY <3>2, <3>3
    <3> QED
      BY <3>1, <3>2, <3>4, FS_Subset
  <2>4. rw = IF x.isdir THEN RmdirWrites(x) ELSE UnlinkWrites(x)
    BY <1>2, <2>1 DEF ReplaceDest
  <2>5. Done(rw, disk.cat \ {x})
    <3>1. CASE x.isdir
      BY <2>2, <2>4, <3>1, RmdirDone
    <3>2. CASE ~x.isdir
      BY <2>2, <2>4, <3>2, UnlinkDone
    <3> QED
      BY <3>1, <3>2
  <2>6. D = Last(rw) /\ rw \in Seq(Disks) /\ rw # <<>> /\ Writes(rw)
    BY <2>5 DEF Done
  <2>7. Len(rw) \in 1 .. Len(rw) /\ D = rw[Len(rw)]
    BY <2>6 DEF Last
  <2>8. Sound(D) /\ Kept(D)
    BY <2>6, <2>7 DEF Writes
  <2> QED
    BY <2>3, <2>5, <2>6, <2>8 DEF Done
<1> QED
  BY <1>1, <1>2

(* rename. *)
LEMMA MoveDone ==
  ASSUME IndInv, NEW e \in disk.cat, NEW d \in Dirs(disk), NEW n \in Given,
         NEW dst, dst = Lookup(d, n), e \notin dst, Cardinality(dst) < 2, MayMove(e, dst, d),
         \A x \in dst : x.isdir \/ ~Held(x.id), NEW ws, ws = MoveWrites(e, dst, d, n)
  PROVE  Done(ws, Last(ws).cat)
<1>0. /\ Sound(disk) /\ HandlesSound /\ disk \in Disks /\ load \in Workloads /\ Resolving(disk)
      /\ disk.cat \subseteq Entries
  BY Numbers, DiskParts DEF IndInv, Sound
<1>1. PICK rw : rw = ReplaceDest(dst)
  OBVIOUS
<1>2. PICK D : D = IF rw = <<>> THEN disk ELSE Last(rw)
  OBVIOUS
<1>3. PICK b \in BOOLEAN : b = e.isdir
  BY <1>0 DEF Entries
<1>4. PICK f : f = Entry(d, n, e.id, b)
  OBVIOUS
<1>5. PICK A : A = DeleteEntry(D, e)
  OBVIOUS
<1>6. PICK E : E = Insert(A, f)
  OBVIOUS
<1>7. ws = rw \o <<A, E>>
  BY <1>1, <1>2, <1>3, <1>4, <1>5, <1>6 DEF MoveWrites
<1>8. dst \subseteq disk.cat /\ \A x \in dst : x.dir = d
  BY DEF Lookup
<1>9. \A x \in dst : IF x.isdir THEN Empty(disk, x.id) ELSE ~Held(x.id)
  BY DEF MayMove
<1>10. /\ rw \in Seq(Disks) /\ Writes(rw) /\ Sound(D) /\ Kept(D) /\ D.cat = disk.cat \ dst
       /\ (Exact(disk) => Exact(D)) /\ (Owned(disk) => Owned(D))
  BY <1>1, <1>2, <1>8, <1>9, RoomMade
<1>11. d \in Ids /\ e.id \in Ids /\ n \in Names
  BY <1>0, GivenNames, DirsClosed DEF Entries
<1>12. f \in Entries /\ f.id = e.id /\ f.isdir = e.isdir /\ f.name = n /\ f.dir = d
  BY <1>3, <1>4, <1>11, EntryTyped
<1>13. e \in D.cat /\ f \notin D.cat
  BY <1>10, <1>12 DEF Lookup
<1>14. A.cat = D.cat \ {e} /\ A \in Disks /\ A.cat \subseteq Entries
  BY <1>5, <1>10, DeleteEntryParts, DiskParts DEF Sound
<1>15. d \in Dirs(A)
  <2>1. ASSUME NEW k \in disk.cat, k.isdir PROVE k \in A.cat \/ k.dir = d \/ ~IsAncestor(k.id, d)
    <3>1. CASE k \in dst
      BY <1>8, <3>1
    <3>2. CASE k = e
      BY <2>1, <3>2 DEF MayMove
    <3>3. CASE k \notin dst /\ k # e
      BY <1>10, <1>14, <3>3
    <3> QED
      BY <3>1, <3>2, <3>3
  <2> QED
    BY <1>0, <1>14, <2>1, PathStays
<1>16. /\ Sound(A) /\ Kept(A) /\ Sound(E) /\ Kept(E)
       /\ (Exact(D) => Exact(E)) /\ (Owned(D) => Owned(E))
  <2>1. f.name \in Given /\ f.dir \in Dirs(A) /\ \A k \in D.cat : k.dir = f.dir /\ k.name = f.name => k = e
    BY <1>10, <1>12, <1>15 DEF Lookup
  <2> QED
    BY <1>5, <1>6, <1>10, <1>12, <1>13, <2>1, RenameEntry
<1>17. A \in Disks /\ E \in Disks
  BY <1>16 DEF Sound
<1>18. ws \in Seq(Disks) /\ ws # <<>> /\ Writes(ws) /\ Last(ws) = E
  BY <1>7, <1>10, <1>16, <1>17, AppendWrites
<1> QED
  BY <1>10, <1>16, <1>18 DEF Done

(* How many names an inode has while two entries are swapped. *)
Without(D, e, E) == IsFiniteSet(D.cat) /\ e \in D.cat /\ E.cat = D.cat \ {e}
With(D, e, E) == IsFiniteSet(D.cat) /\ E.cat = D.cat \cup {e}

LEMMA CountWithout ==
  ASSUME NEW D, NEW e, NEW E, Without(D, e, E)
  PROVE  \A i : /\ i # e.id => Cardinality(NamesOf(E, i)) = Cardinality(NamesOf(D, i))
                /\ i = e.id => Cardinality(NamesOf(E, i)) = Cardinality(NamesOf(D, i)) - 1
                /\ Cardinality(NamesOf(D, i)) \in Nat
<1>1. IsFiniteSet(D.cat) /\ e \in D.cat /\ E.cat = D.cat \ {e}
  BY DEF Without
<1> QED
  BY <1>1, NamesDeleted, NamesFinite

LEMMA CountWith ==
  ASSUME NEW D, NEW e, NEW E, With(D, e, E)
  PROVE  \A i : /\ i # e.id => Cardinality(NamesOf(E, i)) = Cardinality(NamesOf(D, i))
                /\ i = e.id => Cardinality(NamesOf(E, i)) <= Cardinality(NamesOf(D, i)) + 1
                /\ (i = e.id /\ e \notin D.cat) => Cardinality(NamesOf(E, i)) = Cardinality(NamesOf(D, i)) + 1
                /\ Cardinality(NamesOf(D, i)) \in Nat /\ Cardinality(NamesOf(E, i)) \in Nat
<1>1. IsFiniteSet(D.cat) /\ E.cat = D.cat \cup {e}
  BY DEF With
<1>2. IsFiniteSet(D.cat \cup {e})
  BY <1>1, FS_AddElement
<1>3. IsFiniteSet(E.cat)
  BY <1>1, <1>2
<1>4. \A i : /\ i # e.id => NamesOf(E, i) = NamesOf(D, i)
             /\ i = e.id => Cardinality(NamesOf(E, i)) <= Cardinality(NamesOf(D, i)) + 1
             /\ (i = e.id /\ e \notin D.cat) => Cardinality(NamesOf(E, i)) = Cardinality(NamesOf(D, i)) + 1
  BY <1>1, NamesInserted
<1>5. \A i : Cardinality(NamesOf(D, i)) \in Nat /\ Cardinality(NamesOf(E, i)) \in Nat
  BY <1>1, <1>3, NamesFinite
<1> QED
  BY <1>4, <1>5

LEMMA SwapCounts ==
  ASSUME NEW e, NEW f, NEW g, NEW h, NEW A, NEW B, NEW C, NEW E, g.id = f.id, h.id = e.id,
         Without(disk, e, A), Without(A, f, B), With(B, g, C), With(C, h, E)
  PROVE  /\ Cardinality(NamesOf(B, f.id)) < Cardinality(NamesOf(disk, f.id))
         /\ Cardinality(NamesOf(C, e.id)) < Cardinality(NamesOf(disk, e.id))
         /\ (g \notin B.cat /\ h \notin C.cat) => \A i : Cardinality(NamesOf(E, i)) = Cardinality(NamesOf(disk, i))
<1>3. \A i : /\ i # e.id => Cardinality(NamesOf(A, i)) = Cardinality(NamesOf(disk, i))
             /\ i = e.id => Cardinality(NamesOf(A, i)) = Cardinality(NamesOf(disk, i)) - 1
             /\ Cardinality(NamesOf(disk, i)) \in Nat
  BY CountWithout
<1>4. \A i : /\ i # f.id => Cardinality(NamesOf(B, i)) = Cardinality(NamesOf(A, i))
             /\ i = f.id => Cardinality(NamesOf(B, i)) = Cardinality(NamesOf(A, i)) - 1
             /\ Cardinality(NamesOf(A, i)) \in Nat
  BY CountWithout
<1>5. \A i : /\ i # g.id => Cardinality(NamesOf(C, i)) = Cardinality(NamesOf(B, i))
             /\ i = g.id => Cardinality(NamesOf(C, i)) <= Cardinality(NamesOf(B, i)) + 1
             /\ (i = g.id /\ g \notin B.cat) => Cardinality(NamesOf(C, i)) = Cardinality(NamesOf(B, i)) + 1
             /\ Cardinality(NamesOf(B, i)) \in Nat /\ Cardinality(NamesOf(C, i)) \in Nat
  BY CountWith
<1>6. \A i : /\ i # h.id => Cardinality(NamesOf(E, i)) = Cardinality(NamesOf(C, i))
             /\ (i = h.id /\ h \notin C.cat) => Cardinality(NamesOf(E, i)) = Cardinality(NamesOf(C, i)) + 1
  BY CountWith
<1>7. Cardinality(NamesOf(B, f.id)) < Cardinality(NamesOf(disk, f.id))
  BY <1>3, <1>4
<1>8. Cardinality(NamesOf(C, e.id)) < Cardinality(NamesOf(disk, e.id))
  BY <1>3, <1>4, <1>5
<1>9. ASSUME g \notin B.cat, h \notin C.cat, NEW i
      PROVE  Cardinality(NamesOf(E, i)) = Cardinality(NamesOf(disk, i))
  BY <1>3, <1>4, <1>5, <1>6, <1>9
<1> QED
  BY <1>7, <1>8, <1>9

(* RENAME_EXCHANGE. *)
LEMMA ExchangeDone ==
  ASSUME IndInv, NEW e \in disk.cat, NEW f \in disk.cat, e.dir \in Dirs(disk), f.dir \in Dirs(disk),
         e # f, e.isdir = f.isdir, e.isdir => ~IsAncestor(e.id, f.dir) /\ ~IsAncestor(f.id, e.dir),
         NEW ws, ws = ExchangeWrites(e, f)
  PROVE  Done(ws, Last(ws).cat) /\ Known(Last(ws)) = Known(disk)
<1>0. /\ Sound(disk) /\ HandlesSound /\ disk \in Disks /\ load \in Workloads /\ Resolving(disk)
      /\ disk.cat \subseteq Entries /\ Counted(disk)
  BY Numbers, DiskParts DEF IndInv, Sound
<1>1. PICK A : A = DeleteEntry(disk, e)
  OBVIOUS
<1>2. PICK B : B = DeleteEntry(A, f)
  OBVIOUS
<1>3. PICK b \in BOOLEAN : b = e.isdir /\ b = f.isdir
  BY <1>0 DEF Entries
<1>4. PICK g : g = Entry(e.dir, e.name, f.id, b)
  OBVIOUS
<1>5. PICK C : C = Insert(B, g)
  OBVIOUS
<1>6. PICK h : h = Entry(f.dir, f.name, e.id, b)
  OBVIOUS
<1>7. PICK E : E = Insert(C, h)
  OBVIOUS
<1>8. ws = <<A, B, C, E>>
  BY <1>1, <1>2, <1>3, <1>4, <1>5, <1>6, <1>7 DEF ExchangeWrites
<1>9. /\ g \in Entries /\ g.dir = e.dir /\ g.name = e.name /\ g.id = f.id /\ g.isdir = b
      /\ h \in Entries /\ h.dir = f.dir /\ h.name = f.name /\ h.id = e.id /\ h.isdir = b
  <2>1. /\ e.dir \in Ids /\ e.name \in Names /\ e.id \in Ids
        /\ f.dir \in Ids /\ f.name \in Names /\ f.id \in Ids
    BY <1>0 DEF Entries
  <2> QED
    BY <1>4, <1>6, <2>1, EntryTyped
<1>10. /\ A \in Disks /\ A.cat = disk.cat \ {e} /\ A.inodes = disk.inodes /\ Known(A) = Known(disk)
       /\ A.tags = disk.tags /\ A.junk = disk.junk /\ A.next_inode_id = disk.next_inode_id
       /\ Sound(A) /\ DirInodes(A) = DirInodes(disk)
  BY <1>0, <1>1, DeleteEntryParts, DeleteName
<1>11. /\ B \in Disks /\ B.cat = A.cat \ {f} /\ B.inodes = A.inodes /\ Known(B) = Known(A)
       /\ B.tags = A.tags /\ B.junk = A.junk /\ B.next_inode_id = A.next_inode_id
       /\ Sound(B) /\ DirInodes(B) = DirInodes(A)
  <2>1. f \in A.cat
    BY <1>10
  <2> QED
    BY <1>0, <1>2, <1>10, <2>1, DeleteEntryParts, DeleteName
<1>12. /\ C \in Disks /\ C.cat = B.cat \cup {g} /\ C.inodes = B.inodes /\ Known(C) = Known(B)
       /\ C.tags = B.tags /\ C.junk = B.junk /\ C.next_inode_id = B.next_inode_id
  BY <1>5, <1>9, <1>11, InsertParts
<1>13. /\ E \in Disks /\ E.cat = C.cat \cup {h} /\ E.inodes = C.inodes /\ Known(E) = Known(C)
       /\ E.tags = C.tags /\ E.junk = C.junk /\ E.next_inode_id = C.next_inode_id
  BY <1>7, <1>9, <1>12, InsertParts
<1>14. IsFiniteSet(disk.cat)
  BY <1>0 DEF Counted
<1>15. /\ Cardinality(NamesOf(B, f.id)) < Cardinality(NamesOf(disk, f.id))
       /\ Cardinality(NamesOf(C, e.id)) < Cardinality(NamesOf(disk, e.id))
       /\ (g \notin B.cat /\ h \notin C.cat) => \A i : Cardinality(NamesOf(E, i)) = Cardinality(NamesOf(disk, i))
  <2>1. IsFiniteSet(A.cat) /\ IsFiniteSet(B.cat) /\ f \in A.cat
    BY <1>10, <1>11 DEF Sound, Counted
  <2>2. IsFiniteSet(B.cat \cup {g})
    BY <2>1, FS_AddElement
  <2>3. Without(disk, e, A) /\ Without(A, f, B) /\ With(B, g, C) /\ With(C, h, E)
    BY <1>10, <1>11, <1>12, <1>13, <1>14, <2>1, <2>2 DEF Without, With
  <2>4. g.id = f.id /\ h.id = e.id
    BY <1>9
  <2> QED
    BY <2>3, <2>4, SwapCounts
<1>16. /\ e.id \in Known(disk) \ {Root} /\ e.isdir = (e.id \in DirInodes(disk))
       /\ f.id \in Known(disk) \ {Root} /\ f.isdir = (f.id \in DirInodes(disk))
       /\ e.name = LostFound => e.isdir
       /\ e.name[1] = "sub" => ~e.isdir
       /\ f.name = LostFound => f.isdir
       /\ f.name[1] = "sub" => ~f.isdir
  BY <1>0 DEF Resolving
<1>17. /\ Cardinality(NamesOf(disk, e.id)) <= disk.inodes[e.id].ref /\ disk.inodes[e.id].ref \in Nat
       /\ Cardinality(NamesOf(disk, f.id)) <= disk.inodes[f.id].ref /\ disk.inodes[f.id].ref \in Nat
  BY <1>0, <1>16, DiskParts DEF Counted, InodeRecord
<1>18. e.dir \in Dirs(B) /\ f.dir \in Dirs(B)
  <2>0. B.cat \subseteq Entries /\ B.cat = disk.cat \ {e, f}
    BY <1>0, <1>10, <1>11
  <2>1. PICK d : d = e.dir
    OBVIOUS
  <2>2. d \in Dirs(disk) /\ \A k \in disk.cat : k.isdir => k \in B.cat \/ k.dir = d \/ ~IsAncestor(k.id, d)
    BY <2>0, <2>1
  <2>3. d \in Dirs(B)
    BY <1>0, <2>0, <2>2, PathStays
  <2>4. PICK c : c = f.dir
    OBVIOUS
  <2>5. c \in Dirs(disk) /\ \A k \in disk.cat : k.isdir => k \in B.cat \/ k.dir = c \/ ~IsAncestor(k.id, c)
    BY <2>0, <2>4
  <2>6. c \in Dirs(B)
    BY <1>0, <2>0, <2>5, PathStays
  <2> QED
    BY <2>1, <2>3, <2>4, <2>6
<1>19. Sound(C) /\ Dirs(B) \subseteq Dirs(C) /\ DirInodes(C) = DirInodes(B)
  <2>1. g.id \in Known(B) \ {Root} /\ g.isdir = (g.id \in DirInodes(B)) /\ g.dir \in Dirs(B)
    BY <1>3, <1>9, <1>10, <1>11, <1>16, <1>18
  <2>2. (g.name = LostFound => g.isdir) /\ (g.name[1] = "sub" => ~g.isdir)
    BY <1>3, <1>9, <1>16
  <2>3. Cardinality(NamesOf(B, f.id)) \in Nat /\ Cardinality(NamesOf(disk, f.id)) \in Nat
    BY <1>11, <1>14, NamesFinite DEF Sound, Counted
  <2>4. Cardinality(NamesOf(B, g.id)) < B.inodes[g.id].ref
    BY <1>9, <1>10, <1>11, <1>15, <1>17, <2>3
  <2> QED
    BY <1>0, <1>5, <1>9, <1>11, <2>1, <2>2, <2>4, InsertName
<1>20. Sound(E)
  <2>1. h.id \in Known(C) \ {Root} /\ h.isdir = (h.id \in DirInodes(C)) /\ h.dir \in Dirs(C)
    BY <1>3, <1>9, <1>10, <1>11, <1>12, <1>16, <1>18, <1>19
  <2>2. (h.name = LostFound => h.isdir) /\ (h.name[1] = "sub" => ~h.isdir)
    BY <1>3, <1>9, <1>16
  <2>3. Cardinality(NamesOf(C, e.id)) \in Nat /\ Cardinality(NamesOf(disk, e.id)) \in Nat
    BY <1>14, <1>19, NamesFinite DEF Sound, Counted
  <2>4. Cardinality(NamesOf(C, h.id)) < C.inodes[h.id].ref
    BY <1>9, <1>10, <1>11, <1>12, <1>15, <1>17, <2>3
  <2> QED
    BY <1>0, <1>7, <1>9, <1>19, <2>1, <2>2, <2>4, InsertName
<1>21. Kept(A) /\ Kept(B) /\ Kept(C) /\ Kept(E)
  <2>1. Kept(A)
    BY <1>0, <1>10, KeptDisk, KeptSame
  <2>2. Kept(B)
    BY <1>11, <2>1, KeptSame
  <2>3. Kept(C)
    BY <1>12, <2>2, KeptSame
  <2> QED
    BY <1>13, <2>1, <2>2, <2>3, KeptSame
<1>22. E.inodes = disk.inodes /\ Known(E) = Known(disk) /\ E.tags = disk.tags /\ E.junk = disk.junk
       /\ B.cat = disk.cat \ {e, f} /\ C.cat = B.cat \cup {g} /\ E.cat = C.cat \cup {h}
  BY <1>10, <1>11, <1>12, <1>13
<1>23. ASSUME Unambiguous(disk) PROVE g \notin B.cat /\ h \notin C.cat /\ Unambiguous(E)
  <2>1. \A k \in B.cat : ~(k.dir = e.dir /\ k.name = e.name) /\ ~(k.dir = f.dir /\ k.name = f.name)
    BY <1>22, <1>23 DEF Unambiguous
  <2>2. ~(e.dir = f.dir /\ e.name = f.name)
    BY <1>23 DEF Unambiguous
  <2>3. g \notin B.cat /\ h \notin B.cat /\ h # g
    BY <1>9, <2>1, <2>2
  <2>4. Unambiguous(B)
    BY <1>22, <1>23 DEF Unambiguous
  <2> QED
    BY <1>9, <1>22, <2>1, <2>2, <2>3, <2>4 DEF Unambiguous
<1>24. ASSUME Exact(disk) PROVE Exact(E)
  <2>1. Unambiguous(E) /\ \A i : Cardinality(NamesOf(E, i)) = Cardinality(NamesOf(disk, i))
    BY <1>15, <1>23, <1>24 DEF Exact
  <2> QED
    BY <1>22, <1>24, <2>1 DEF Exact, Tallied
<1>25. Owned(disk) => Owned(E)
  BY <1>22 DEF Owned
<1>26. Writes(<<A, B, C, E>>)
  BY <1>10, <1>11, <1>19, <1>20, <1>21, FourWrites DEF Writes
<1>27. <<A, B, C, E>> \in Seq(Disks)
  BY <1>10, <1>11, <1>12, <1>13
<1>28. Last(<<A, B, C, E>>) = E /\ <<A, B, C, E>> # <<>>
  BY FourWrites
<1>29. ws \in Seq(Disks) /\ ws # <<>> /\ Writes(ws) /\ Last(ws) = E
  BY <1>8, <1>26, <1>27, <1>28
<1> QED
  BY <1>22, <1>24, <1>25, <1>29 DEF Done

-----------------------------------------------------------------------------
(* The steps of handlers that remove, move and add names.                   *)

(* How the volume is used. *)
Orderly == Exclusive /\ Alone /\ Careful /\ "cd" \notin TaggedKinds

LEMMA UpSettled == Orderly /\ Up => phase = "up" /\ Settled
BY DEF Orderly, Up, Settled

(* Nothing is expected of inodes that are gone. *)
LEMMA WantForgets ==
  ASSUME WantsSound, UNCHANGED want, NEW D, disk' = D, \A i \in Ids \ Known(D) : want[i] = 0
  PROVE  Forget
<1>1. want = [i \in Ids |-> want[i]]
  BY DEF WantsSound
<1> QED
  BY <1>1 DEF Forget, Known

LEMMA DoneStep ==
  ASSUME IndInv, Settled, phase = "up", NEW ws, Done(ws, Last(ws).cat),
         (Ends(ws, handles, nextId) /\ Forget) \/ Dies(ws) \/ FailsAfter(ws)
  PROVE  IndInv'
<1>1. ws \in Seq(Disks) /\ ws # <<>> /\ Writes(ws) /\ Len(ws) \in Nat /\ \A k \in 1 .. Len(ws) : Sound(ws[k])
  BY DEF Done, Writes
<1>2. CASE Dies(ws)
  BY <1>1, <1>2, DiesStep
<1>3. CASE FailsAfter(ws)
  BY <1>1, <1>3, FailsStep
<1>4. CASE Ends(ws, handles, nextId) /\ Forget
  <2>1. PICK D : D = Last(ws)
    OBVIOUS
  <2>2. Len(ws) \in 1 .. Len(ws) /\ D = ws[Len(ws)]
    BY <1>1, <2>1 DEF Last
  <2>3. Sound(D) /\ Kept(D)
    BY <1>1, <2>2 DEF Writes
  <2>4. disk' = D /\ UNCHANGED <<handles, load, nextId, phase, failures>> /\ Forget
    BY <1>4, <2>1 DEF Ends
  <2>5. failures' = 0 => Exact(D) /\ Owned(D)
    BY <2>1, <2>4 DEF Done, IndInv
  <2>6. nextId' \in 3 .. MaxId + 1 /\ nextId' >= nextId /\ failures' \in 0 .. load.failures
    BY <2>4, Numbers DEF IndInv
  <2> QED
    BY <2>3, <2>4, <2>5, <2>6, TreeStep
<1> QED
  BY <1>2, <1>3, <1>4

LEMMA UnlinkStep ==
  ASSUME IndInv, Orderly, NEW e \in disk.cat, Unlink(e)
  PROVE  IndInv'
<1>1. phase = "up" /\ Settled /\ ~e.isdir /\ ~Held(e.id)
  BY UpSettled DEF Unlink, Usable, Orderly
<1>2. PICK ws : ws = UnlinkWrites(e)
  OBVIOUS
<1>3. Done(ws, disk.cat \ {e})
  BY <1>1, <1>2, UnlinkDone
<1>4. Done(ws, Last(ws).cat)
  BY <1>3 DEF Done
<1>5. (Ends(ws, handles, nextId) /\ Forget) \/ Dies(ws) \/ FailsAfter(ws)
  BY <1>2 DEF Unlink
<1> QED
  BY <1>1, <1>4, <1>5, DoneStep

LEMMA RmdirStep ==
  ASSUME IndInv, Orderly, NEW e \in disk.cat, Rmdir(e)
  PROVE  IndInv'
<1>1. phase = "up" /\ Settled /\ e.isdir /\ Empty(disk, e.id)
  BY UpSettled DEF Rmdir
<1>2. PICK ws : ws = RmdirWrites(e)
  OBVIOUS
<1>3. Done(ws, disk.cat \ {e}) /\ \A i \in Known(disk) : i # e.id => i \in Known(Last(ws))
  BY <1>1, <1>2, RmdirDone
<1>4. Done(ws, Last(ws).cat)
  BY <1>3 DEF Done
<1>5. (Ends(ws, handles, nextId) /\ UNCHANGED want) \/ Dies(ws) \/ FailsAfter(ws)
  BY <1>2 DEF Rmdir
<1>6. CASE Ends(ws, handles, nextId) /\ UNCHANGED want
  <2>1. PICK D : D = Last(ws)
    OBVIOUS
  <2>2. disk' = D
    BY <1>6, <2>1 DEF Ends
  <2>3. WantsSound /\ HandlesSound /\ Sound(disk) /\ disk \in Disks /\ Resolving(disk) /\ Counted(disk)
    BY DEF IndInv, Sound
  <2>4. e.id \in DirInodes(disk) /\ e.id \in Ids /\ e.id \in Known(disk)
    BY <1>1, <2>3, DiskParts DEF Resolving
  <2>5. ~Held(e.id)
    BY <2>3, <2>4, HeldAreFiles
  <2>6. want[e.id] = 0
    BY <2>3, <2>4, <2>5 DEF WantsSound, Counted
  <2>7. \A i \in Ids \ Known(D) : want[i] = 0
    BY <1>3, <2>1, <2>3, <2>6 DEF WantsSound
  <2>8. Forget
    BY <1>6, <2>2, <2>3, <2>7, WantForgets
  <2> QED
    BY <1>1, <1>4, <1>6, <2>8, DoneStep
<1> QED
  BY <1>1, <1>4, <1>5, <1>6, DoneStep

LEMMA RenameStep ==
  ASSUME IndInv, Orderly, NEW e \in disk.cat, NEW d \in Ids, NEW n \in Given, Rename(e, d, n)
  PROVE  IndInv'
<1>1. PICK dst : dst = Lookup(d, n)
  OBVIOUS
<1>2. phase = "up" /\ Settled
  BY UpSettled DEF Rename
<1>3. /\ d \in Dirs(disk) /\ e \notin dst /\ Cardinality(dst) < 2 /\ MayMove(e, dst, d)
      /\ \A x \in dst : x.isdir \/ ~Held(x.id)
  BY <1>1 DEF Rename, Usable, Orderly
<1>4. PICK ws : ws = MoveWrites(e, dst, d, n)
  OBVIOUS
<1>5. Done(ws, Last(ws).cat)
  BY <1>1, <1>3, <1>4, MoveDone
<1>6. (Ends(ws, handles, nextId) /\ Forget) \/ Dies(ws) \/ FailsAfter(ws)
  BY <1>1, <1>4 DEF Rename
<1> QED
  BY <1>2, <1>5, <1>6, DoneStep

LEMMA ExchangeStep ==
  ASSUME IndInv, Orderly, NEW e \in disk.cat, NEW f \in disk.cat, Exchange(e, f)
  PROVE  IndInv'
<1>1. phase = "up" /\ Settled
  BY UpSettled DEF Exchange
<1>2. /\ e.dir \in Dirs(disk) /\ f.dir \in Dirs(disk) /\ e # f /\ e.isdir = f.isdir
      /\ e.isdir => ~IsAncestor(e.id, f.dir) /\ ~IsAncestor(f.id, e.dir)
  BY DEF Exchange
<1>3. PICK ws : ws = ExchangeWrites(e, f)
  OBVIOUS
<1>4. Done(ws, Last(ws).cat) /\ Known(Last(ws)) = Known(disk)
  BY <1>2, <1>3, ExchangeDone
<1>5. (Ends(ws, handles, nextId) /\ UNCHANGED want) \/ Dies(ws) \/ FailsAfter(ws)
  BY <1>3 DEF Exchange
<1>6. CASE Ends(ws, handles, nextId) /\ UNCHANGED want
  <2>1. PICK D : D = Last(ws)
    OBVIOUS
  <2>2. disk' = D
    BY <1>6, <2>1 DEF Ends
  <2>3. WantsSound
    BY DEF IndInv
  <2>4. \A i \in Ids \ Known(D) : want[i] = 0
    BY <1>4, <2>1, <2>3 DEF WantsSound
  <2>5. Forget
    BY <1>6, <2>2, <2>3, <2>4, WantForgets
  <2> QED
    BY <1>1, <1>4, <1>6, <2>5, DoneStep
<1> QED
  BY <1>1, <1>4, <1>5, <1>6, DoneStep

LEMMA LinkStep ==
  ASSUME IndInv, Orderly, NEW e \in disk.cat, NEW d \in Ids, NEW n \in Given, Link(e, d, n)
  PROVE  IndInv'
<1>1. phase = "up" /\ Settled /\ ~e.isdir /\ ~Held(e.id) /\ d \in Dirs(disk) /\ Lookup(d, n) = {}
  BY UpSettled DEF Link, Usable, Orderly
<1>2. PICK b \in BOOLEAN : b = FALSE
  OBVIOUS
<1>3. PICK f : f = Entry(d, n, e.id, b)
  OBVIOUS
<1>4. PICK C : C = Count(disk, e.id, 1)
  OBVIOUS
<1>5. PICK E : E = Insert(C, f)
  OBVIOUS
<1>6. PICK R : R = Count(C, e.id, -1)
  OBVIOUS
<1>7. e.id \in Ids /\ n \in Names
  BY DiskParts, GivenNames DEF IndInv, Sound, Entries
<1>8. f \in Entries /\ f.dir = d /\ f.name = n /\ f.id = e.id /\ ~f.isdir
  BY <1>2, <1>3, <1>7, EntryTyped
<1>9. Lookup(f.dir, f.name) = {} /\ f.dir \in Dirs(disk) /\ f.name \in Given
  BY <1>1, <1>8
<1>10. /\ Sound(C) /\ Sound(E) /\ Sound(R) /\ Kept(E) /\ Kept(R) /\ Known(E) = Known(disk)
       /\ Known(R) = Known(disk) /\ (Exact(disk) => Exact(E)) /\ (Owned(disk) => Owned(E))
  BY <1>1, <1>4, <1>5, <1>6, <1>8, <1>9, LinkSound
<1>11. LinkWrites(e, d, n) = <<C, E>> /\ LinkRollback(e, d, n) = R
  BY <1>2, <1>3, <1>4, <1>5, <1>6 DEF LinkWrites, LinkRollback
<1>12. WantsSound /\ nextId \in 3 .. MaxId + 1 /\ nextId \in Nat /\ failures \in Nat /\ load.failures \in Nat
       /\ failures <= load.failures
  BY Numbers DEF IndInv
<1>13. CASE Ends(<<C, E>>, handles, nextId) /\ UNCHANGED want
  <2>1. disk' = E /\ UNCHANGED <<handles, nextId, phase, failures, load>>
    BY <1>13, TwoWrites DEF Ends
  <2>2. Forget
    BY <1>10, <1>12, <1>13, <2>1, WantForgets DEF WantsSound
  <2>3. failures' = 0 => Exact(E) /\ Owned(E)
    BY <1>10, <2>1 DEF IndInv
  <2>4. nextId' \in 3 .. MaxId + 1 /\ nextId' >= nextId /\ failures' \in 0 .. load.failures
    BY <1>12, <2>1
  <2> QED
    BY <1>1, <1>10, <2>1, <2>2, <2>3, <2>4, TreeStep
<1>14. CASE Dies(<<C, E>>)
  BY <1>10, <1>14, TwoWrites, DiesStep
<1>15. CASE /\ failures < load.failures /\ failures' = failures + 1
            /\ disk' = R /\ UNCHANGED <<nextId, handles, phase, want, load>>
  <2>1. disk' = R /\ UNCHANGED <<handles, nextId, phase, load>> /\ UNCHANGED want
    BY <1>15
  <2>2. Forget
    BY <1>10, <1>12, <2>1, WantForgets DEF WantsSound
  <2>3. nextId' \in 3 .. MaxId + 1 /\ nextId' >= nextId /\ failures' \in 0 .. load.failures /\ failures' # 0
    BY <1>12, <1>15
  <2> QED
    BY <1>1, <1>10, <2>1, <2>2, <2>3, TreeStep
<1> QED
  BY <1>11, <1>13, <1>14, <1>15 DEF Link

-----------------------------------------------------------------------------
(* The steps of handlers that change handles and inodes.                    *)

(* What a handle needs to be right about the inodes it holds. *)
HandleGood(H, D, w, h) ==
    /\ CopiesOf(D, H[h]) /\ H[h].id # H[h].sub /\ PlaceFree(D, H[h]) /\ SizesOf(w, H[h])
    /\ \A g \in DOMAIN H : g # h => Holds(H[g]) \cap Holds(H[h]) = {}
    /\ \A g \in DOMAIN H : g # h /\ H[h].sub = Missing => H[g].sub # Missing

(* What it needs when nothing touches it. *)
HandleSame(H, D, w, g) ==
    /\ g \in DOMAIN handles /\ H[g] = handles[g] /\ handles[g].sub # Missing
    /\ \A i \in Holds(handles[g]) : i \in Known(D) /\ D.inodes[i] = disk.inodes[i] /\ w[i] = want[i]

LEMMA CallStep ==
  ASSUME IndInv, phase = "up", UNCHANGED <<phase, load>>, failures' \in 0 .. load.failures,
         NEW H, H \in HandleMaps, handles' = H,
         NEW D, disk' = D, Sound(D), failures' = 0 => Exact(D) /\ Owned(D),
         nextId' \in 3 .. MaxId + 1, \A i \in Known(D) : i < nextId',
         NEW w \in [Ids -> {0, 1}], want' = w, \A i \in Ids \ Known(D) : w[i] = 0,
         \A i \in Known(D) : (\A h \in DOMAIN H : i \notin Holds(H[h])) => D.inodes[i].size = w[i],
         \A h \in DOMAIN H : HandleGood(H, D, w, h) \/ HandleSame(H, D, w, h)
  PROVE  IndInv'
<1>0. HandlesSound /\ WantsSound /\ load \in Workloads /\ phase' = "up" /\ load' = load
  BY Numbers DEF IndInv
<1>1. Bounds'
  BY <1>0 DEF Bounds, MaxId
<1>2. Sound(disk)'
  BY <1>0, SoundNow
<1>3. PICK G : G = {h \in DOMAIN H : HandleGood(H, D, w, h)}
  OBVIOUS
<1>4. \A g \in DOMAIN H \ G : HandleSame(H, D, w, g)
  BY <1>3
<1>5. \A h \in DOMAIN H \cap G : HandleGood(H, D, w, h)
  BY <1>3
<1>6. HandlesSound'
  <2>1. \A g \in DOMAIN H \ G :
           /\ g \in DOMAIN handles /\ H[g] = handles[g] /\ handles[g].sub # Missing
           /\ \A i \in Holds(handles[g]) : i \in Known(D) /\ D.inodes[i] = disk.inodes[i]
    BY <1>4 DEF HandleSame
  <2>2. \A h \in DOMAIN H \cap G :
           /\ CopiesOf(D, H[h]) /\ H[h].id # H[h].sub
           /\ \A g \in DOMAIN H : g # h => Holds(H[g]) \cap Holds(H[h]) = {}
           /\ PlaceFree(D, H[h])
    BY <1>5 DEF HandleGood
  <2>3. \A g, h \in DOMAIN H \cap G : H[g].sub = Missing /\ H[h].sub = Missing => g = h
    BY <1>5 DEF HandleGood
  <2> QED
    BY <1>0, <2>1, <2>2, <2>3, HandlesStep
<1>7. Fresh'
  BY DEF Fresh, Known
<1>8. WantsSound'
  <2>0. Ids' = Ids /\ Known(disk)' = Known(D)
    BY <1>0 DEF Ids, MaxId, Known
  <2>1. (want \in [Ids -> {0, 1}])' /\ (\A i \in Ids \ Known(disk) : want[i] = 0)'
    BY <2>0
  <2>2. ASSUME NEW h \in DOMAIN H PROVE SizesOf(w, H[h])
    <3>1. CASE HandleGood(H, D, w, h)
      BY <3>1 DEF HandleGood
    <3>2. CASE HandleSame(H, D, w, h)
      <4>1. /\ h \in DOMAIN handles /\ H[h] = handles[h]
            /\ \A i \in Holds(handles[h]) : w[i] = want[i]
        BY <3>2 DEF HandleSame
      <4>2. handles[h] \in HandleRecord /\ SizesOf(want, handles[h])
        BY <1>0, <4>1, HandleTyped DEF WantsSound
      <4>3. handles[h].id \in Holds(handles[h]) /\ (handles[h].sub \in Ids => handles[h].sub \in Holds(handles[h]))
        BY <4>2 DEF Holds, HandleRecord
      <4> QED
        BY <4>1, <4>2, <4>3 DEF SizesOf
    <3> QED
      BY <3>1, <3>2
  <2>3. (\A h \in DOMAIN handles : SizesOf(want, handles[h]))'
    BY <2>0, <2>2 DEF SizesOf
  <2>4. ASSUME NEW i \in Known(D), ~Held(i)' PROVE D.inodes[i].size = w[i]
    <3>1. \A h \in DOMAIN H : i \notin Holds(H[h])
      BY <2>4 DEF Held, Holds
    <3> QED
      BY <3>1
  <2>5. (\A i \in Known(disk) : ~Held(i) => disk.inodes[i].size = want[i])'
    BY <2>0, <2>4
  <2> QED
    BY <2>1, <2>3, <2>5 DEF WantsSound
<1>9. (failures = 0 => Exact(disk) /\ Owned(disk))'
  BY ExactNow
<1>10. RepairReconnects'
  BY <1>0 DEF RepairReconnects
<1> QED
  BY <1>1, <1>2, <1>6, <1>7, <1>8, <1>9, <1>10 DEF IndInv

(* A file's inode is put with the count it has. *)
LEMMA PutCopy ==
  ASSUME load \in Workloads, NEW D, Sound(D), NEW i \in Known(D), i \notin DirInodes(D),
         NEW ino \in InodeRecord, ino.type # "dir", ino.ref = D.inodes[i].ref, NEW P, P = Put(D, i, ino)
  PROVE  /\ Sound(P) /\ Known(P) = Known(D) /\ DirInodes(P) = DirInodes(D) /\ Dirs(P) = Dirs(D)
         /\ P.inodes[i] = ino /\ \A k \in Known(D) : k # i => P.inodes[k] = D.inodes[k]
         /\ P.cat = D.cat /\ P.tags = D.tags /\ P.junk = D.junk /\ P.next_inode_id = D.next_inode_id
         /\ Exact(D) => Exact(P)
         /\ (ino.type = D.inodes[i].type \/ i \notin D.tags \cup D.junk) => (Owned(D) => Owned(P))
<1>0. D \in Disks /\ Counted(D) /\ Resolving(D) /\ Known(D) \subseteq Ids
  BY DiskParts DEF Sound
<1>1. i # Root /\ i \in Ids
  BY <1>0 DEF Resolving
<1>2. Cardinality(NamesOf(D, i)) <= ino.ref
  BY <1>0, <1>1 DEF Counted
<1>3. Sound(P) /\ DirInodes(P) = DirInodes(D) /\ Dirs(P) = Dirs(D)
  BY <1>2, PutSame
<1>4. /\ P.cat = D.cat /\ P.tags = D.tags /\ P.junk = D.junk /\ P.next_inode_id = D.next_inode_id
      /\ Known(P) = Known(D) \cup {i}
      /\ \A k \in Known(D) \cup {i} : P.inodes[k] = IF k = i THEN ino ELSE D.inodes[k]
  BY <1>0, <1>1, PutParts
<1>5. Known(P) = Known(D) /\ P.inodes[i] = ino /\ \A k \in Known(D) : k # i => P.inodes[k] = D.inodes[k]
  BY <1>4
<1>6. ASSUME Exact(D) PROVE Exact(P)
  <2>1. \A k : NamesOf(P, k) = NamesOf(D, k)
    BY <1>4 DEF NamesOf
  <2>2. \A k \in Known(D) : P.inodes[k].ref = D.inodes[k].ref
    BY <1>5
  <2>3. Tallied(P)
    BY <1>5, <1>6, <2>1, <2>2 DEF Exact, Tallied
  <2> QED
    BY <1>4, <1>6, <2>3 DEF Exact, Unambiguous
<1>7. ASSUME ino.type = D.inodes[i].type \/ i \notin D.tags \cup D.junk, Owned(D) PROVE Owned(P)
  <2>1. \A k \in D.tags \cup D.junk : k \in Known(P) /\ P.inodes[k].type = D.inodes[k].type
    BY <1>5, <1>7 DEF Owned
  <2> QED
    BY <1>4, <1>7, <2>1 DEF Owned
<1> QED
  BY <1>3, <1>4, <1>5, <1>6, <1>7

(* One handle changes, and with it no inode but those it holds. *)
LEMMA OneHandleStep ==
  ASSUME IndInv, phase = "up", Settled, UNCHANGED <<nextId, phase, failures, load>>,
         NEW h \in DOMAIN handles, NEW c \in HandleRecord, handles' = [handles EXCEPT ![h] = c],
         c.id = handles[h].id, handles[h].sub \in {0, c.sub},
         \A g \in DOMAIN handles : g # h => c.sub \notin Holds(handles[g]),
         NEW D, disk' = D, Sound(D), Known(D) = Known(disk), failures = 0 => Exact(D) /\ Owned(D),
         CopiesOf(D, c), c.id # c.sub, PlaceFree(D, c),
         \A i \in Known(disk) : i \notin Holds(c) => D.inodes[i] = disk.inodes[i],
         NEW w \in [Ids -> {0, 1}], want' = w, SizesOf(w, c),
         \A i \in Ids : i \notin Holds(c) => w[i] = want[i]
  PROVE  IndInv'
<1>0. HandlesSound /\ WantsSound /\ Fresh /\ Known(disk) \subseteq Ids
  BY DiskParts DEF IndInv, Sound
<1>1. PICK H : H = [handles EXCEPT ![h] = c]
  OBVIOUS
<1>2. DOMAIN H = DOMAIN handles /\ H[h] = c /\ \A g \in DOMAIN handles : g # h => H[g] = handles[g]
  BY <1>1
<1>3. H \in HandleMaps
  BY <1>0, <1>1, HandleTyped DEF HandleMaps
<1>4. \A g \in DOMAIN H : handles[g] \in HandleRecord
  BY <1>0, <1>2, HandleTyped
<1>5. 0 \notin Ids /\ Missing \notin Ids
  BY Numbers DEF IndInv, Ids, Root, Missing
<1>6. \A g \in DOMAIN handles : g # h => Holds(handles[g]) \cap Holds(c) = {}
  <2>1. \A g \in DOMAIN handles : g # h => Holds(handles[g]) \cap Holds(handles[h]) = {}
    BY <1>0 DEF HandlesSound, HoldersSound
  <2> QED
    BY <2>1 DEF Holds
<1>7. HandleGood(H, D, w, h)
  <2>1. \A g \in DOMAIN H : g # h => Holds(H[g]) \cap Holds(H[h]) = {}
    BY <1>2, <1>6
  <2>2. \A g \in DOMAIN H : g # h /\ H[h].sub = Missing => H[g].sub # Missing
    BY <1>2 DEF Settled
  <2> QED
    BY <1>2, <2>1, <2>2 DEF HandleGood
<1>8. ASSUME NEW g \in DOMAIN H, g # h PROVE HandleSame(H, D, w, g)
  <2>1. g \in DOMAIN handles /\ H[g] = handles[g] /\ handles[g].sub # Missing
    BY <1>2, <1>8 DEF Settled
  <2>2. ASSUME NEW i \in Holds(handles[g])
        PROVE  i \in Known(D) /\ D.inodes[i] = disk.inodes[i] /\ w[i] = want[i]
    <3>1. i \in Ids /\ i \notin Holds(c) /\ Held(i)
      BY <1>6, <1>8, <2>1 DEF Holds, Held
    <3>2. i \in Known(disk)
      BY <1>0, <3>1, HeldAreFiles
    <3> QED
      BY <3>1, <3>2
  <2> QED
    BY <2>1, <2>2 DEF HandleSame
<1>9. \A g \in DOMAIN H : HandleGood(H, D, w, g) \/ HandleSame(H, D, w, g)
  BY <1>7, <1>8
<1>10. \A i \in Ids \ Known(D) : w[i] = 0
  <2>1. \A i \in Holds(c) : i \in Known(D)
    BY DEF CopiesOf, Copy, Holds
  <2> QED
    BY <1>0, <2>1 DEF WantsSound
<1>11. ASSUME NEW i \in Known(D), \A g \in DOMAIN H : i \notin Holds(H[g]) PROVE D.inodes[i].size = w[i]
  <2>1. i \in Ids /\ i \notin Holds(c) /\ i \in Known(disk)
    BY <1>0, <1>2, <1>11
  <2>2. \A g \in DOMAIN handles : i \notin Holds(handles[g])
    <3>1. Holds(handles[h]) \subseteq Holds(c)
      BY <1>5 DEF Holds
    <3> QED
      BY <1>2, <1>11, <3>1
  <2>3. ~Held(i)
    BY <2>1, <2>2, HeldIsHolds
  <2> QED
    BY <1>0, <2>1, <2>3 DEF WantsSound
<1>12. nextId' \in 3 .. MaxId + 1 /\ failures' \in 0 .. load.failures /\ \A i \in Known(D) : i < nextId'
  <2>1. \A i \in Known(disk) : i < nextId
    BY <1>0 DEF Fresh
  <2> QED
    BY <2>1, Numbers DEF IndInv
<1>13. (failures' = 0 => Exact(D) /\ Owned(D)) /\ UNCHANGED <<phase, load>> /\ handles' = H
  BY <1>1
<1>14. \A i \in Known(D) : (\A g \in DOMAIN H : i \notin Holds(H[g])) => D.inodes[i].size = w[i]
  BY <1>11
<1> QED
  BY <1>3, <1>9, <1>10, <1>12, <1>13, <1>14, CallStep

(* One handle changes and the trees do not. *)
LEMMA HandleOnlyStep ==
  ASSUME IndInv, phase = "up", Settled, UNCHANGED <<disk, nextId, phase, failures, load>>,
         NEW h \in DOMAIN handles, NEW c \in HandleRecord, handles' = [handles EXCEPT ![h] = c],
         c.id = handles[h].id, handles[h].sub \in {0, c.sub},
         \A g \in DOMAIN handles : g # h => c.sub \notin Holds(handles[g]),
         CopiesOf(disk, c), c.id # c.sub, PlaceFree(disk, c),
         NEW w \in [Ids -> {0, 1}], want' = w, SizesOf(w, c),
         \A i \in Ids : i \notin Holds(c) => w[i] = want[i]
  PROVE  IndInv'
<1>1. PICK D : D = disk
  OBVIOUS
<1>2. /\ disk' = D /\ Sound(D) /\ Known(D) = Known(disk) /\ CopiesOf(D, c) /\ PlaceFree(D, c)
      /\ failures = 0 => Exact(D) /\ Owned(D)
      /\ \A i \in Known(disk) : i \notin Holds(c) => D.inodes[i] = disk.inodes[i]
  BY <1>1 DEF IndInv
<1>3. UNCHANGED <<nextId, phase, failures, load>>
  OBVIOUS
<1> QED
  BY <1>2, <1>3, OneHandleStep

(* A handle whose copy of the inode is given a size. *)
Sized(c, s, b) == [c EXCEPT !.ino.size = s, !.dirty = b]

LEMMA Resized ==
  ASSUME NEW c \in HandleRecord, NEW s \in {0, 1}, NEW b \in BOOLEAN
  PROVE  /\ Sized(c, s, b) \in HandleRecord /\ Sized(c, s, b).id = c.id /\ Sized(c, s, b).sub = c.sub
         /\ Sized(c, s, b).at = c.at /\ Sized(c, s, b).dirty = b
         /\ Sized(c, s, b).subino = c.subino /\ Sized(c, s, b).subdirty = c.subdirty
         /\ Sized(c, s, b).ino \in InodeRecord /\ Sized(c, s, b).ino.size = s
         /\ Sized(c, s, b).ino.type = c.ino.type /\ Sized(c, s, b).ino.ref = c.ino.ref
<1>1. PICK j : j = [c.ino EXCEPT !.size = s]
  OBVIOUS
<1>2. j \in InodeRecord /\ j.size = s /\ j.type = c.ino.type /\ j.ref = c.ino.ref
  BY <1>1 DEF HandleRecord, InodeRecord
<1>3. Sized(c, s, b) = [c EXCEPT !.ino = j, !.dirty = b]
  BY <1>1 DEF Sized
<1> QED
  BY <1>2, <1>3 DEF HandleRecord

(* What is known of the handle a call is made on. *)
LEMMA HandleFacts ==
  ASSUME IndInv, Settled, NEW h \in DOMAIN handles, NEW c, c = handles[h]
  PROVE  /\ c \in HandleRecord /\ CopiesOf(disk, c) /\ SizesOf(want, c) /\ c.id # c.sub /\ c.sub # Missing
         /\ c.id \in Known(disk) /\ c.id \notin DirInodes(disk) /\ c.id \in Ids /\ c.id \in Holds(c)
         /\ c.ino.type = disk.inodes[c.id].type /\ c.ino.ref = disk.inodes[c.id].ref /\ c.ino.type # "dir"
         /\ c.ino \in InodeRecord /\ c.subino \in InodeRecord
         /\ c.sub \in Ids => /\ c.sub \in Known(disk) /\ c.sub \notin DirInodes(disk) /\ c.sub \in Holds(c)
                             /\ c.subino.type = disk.inodes[c.sub].type /\ c.subino.ref = disk.inodes[c.sub].ref
                             /\ c.subino.type # "dir"
         /\ \A g \in DOMAIN handles : g # h => c.sub \notin Holds(handles[g]) /\ c.id \notin Holds(handles[g])
         /\ c.sub \in Ids \cup {0}
<1>1. HandlesSound /\ WantsSound
  BY DEF IndInv
<1>2. c \in HandleRecord /\ CopiesOf(disk, c) /\ SizesOf(want, c) /\ c.id # c.sub /\ c.sub # Missing
  BY <1>1, HandleTyped DEF HandlesSound, HoldersSound, CopiesSound, WantsSound, Settled
<1>3. c.id \in Ids /\ c.ino \in InodeRecord /\ c.subino \in InodeRecord /\ c.sub \in Ids \cup {0, Missing}
  BY <1>2 DEF HandleRecord
<1>4. /\ c.id \in Known(disk) /\ c.id \notin DirInodes(disk)
      /\ c.ino.type = disk.inodes[c.id].type /\ c.ino.ref = disk.inodes[c.id].ref
  BY <1>2 DEF CopiesOf, Copy
<1>5. ASSUME c.sub \in Ids
      PROVE  /\ c.sub \in Known(disk) /\ c.sub \notin DirInodes(disk)
             /\ c.subino.type = disk.inodes[c.sub].type /\ c.subino.ref = disk.inodes[c.sub].ref
  BY <1>2, <1>5 DEF CopiesOf, Copy
<1>6. c.ino.type # "dir" /\ (c.sub \in Ids => c.subino.type # "dir")
  BY <1>4, <1>5 DEF DirInodes
<1>7. c.id \in Holds(c) /\ (c.sub \in Ids => c.sub \in Holds(c))
  BY <1>3 DEF Holds
<1>8. \A g \in DOMAIN handles : g # h => Holds(handles[g]) \cap Holds(c) = {}
  BY <1>1 DEF HandlesSound, HoldersSound
<1>9. \A g \in DOMAIN handles : g # h => c.sub \notin Holds(handles[g]) /\ c.id \notin Holds(handles[g])
  BY <1>3, <1>7, <1>8 DEF Holds
<1> QED
  BY <1>2, <1>3, <1>4, <1>5, <1>6, <1>7, <1>9

LEMMA WriteStep ==
  ASSUME IndInv, Orderly, NEW h \in DOMAIN handles, Write(h)
  PROVE  IndInv'
<1>0. phase = "up" /\ Settled /\ Sound(disk) /\ WantsSound
  BY UpSettled DEF Write, IndInv
<1>1. PICK c : c = handles[h]
  OBVIOUS
<1>2. /\ c \in HandleRecord /\ CopiesOf(disk, c) /\ SizesOf(want, c) /\ c.id # c.sub /\ c.sub # Missing
      /\ c.id \in Ids /\ c.id \in Holds(c)
      /\ \A g \in DOMAIN handles : g # h => c.sub \notin Holds(handles[g])
  BY <1>0, <1>1, HandleFacts
<1>3. PICK x : x = [c EXCEPT !.ino.size = 1, !.dirty = TRUE]
  OBVIOUS
<1>4. PICK b \in BOOLEAN : b = TRUE
  OBVIOUS
<1>5. PICK s \in {0, 1} : s = 1
  OBVIOUS
<1>6. x = Sized(c, s, b)
  BY <1>3, <1>4, <1>5 DEF Sized
<1>7. /\ x \in HandleRecord /\ x.id = c.id /\ x.sub = c.sub /\ x.at = c.at /\ x.dirty = b
      /\ x.subino = c.subino /\ x.subdirty = c.subdirty
      /\ x.ino.size = s /\ x.ino.type = c.ino.type /\ x.ino.ref = c.ino.ref
  BY <1>2, <1>6, Resized
<1>8. Holds(x) = Holds(c)
  BY <1>7 DEF Holds
<1>9. CopiesOf(disk, x) /\ PlaceFree(disk, x)
  <2>1. Copy(disk, x.id, x.ino, x.dirty)
    BY <1>2, <1>4, <1>7 DEF CopiesOf, Copy
  <2>2. /\ x.sub \in Ids => Copy(disk, x.sub, x.subino, x.subdirty)
        /\ x.subdirty => x.sub \in Ids
    BY <1>2, <1>7 DEF CopiesOf
  <2> QED
    BY <1>2, <1>7, <2>1, <2>2 DEF CopiesOf, PlaceFree
<1>10. PICK w : w = [want EXCEPT ![c.id] = 1]
  OBVIOUS
<1>11. w \in [Ids -> {0, 1}] /\ SizesOf(w, x) /\ \A i \in Ids : i \notin Holds(x) => w[i] = want[i]
  <2>1. want \in [Ids -> {0, 1}]
    BY <1>0 DEF WantsSound
  <2> QED
    BY <1>2, <1>5, <1>7, <1>8, <1>10, <2>1 DEF SizesOf
<1>12. /\ handles' = [handles EXCEPT ![h] = x] /\ want' = w
       /\ UNCHANGED <<disk, nextId, phase, failures, load>>
  BY <1>1, <1>3, <1>10 DEF Write, Change
<1>13. x.id = handles[h].id /\ handles[h].sub \in {0, x.sub} /\ x.id # x.sub
       /\ \A g \in DOMAIN handles : g # h => x.sub \notin Holds(handles[g])
  BY <1>1, <1>2, <1>7
<1> QED
  BY <1>0, <1>7, <1>9, <1>11, <1>12, <1>13, HandleOnlyStep

(* A copy is right about the inode that was just put from it, and about     *)
(* another that was left alone.                                             *)
LEMMA CopiesPut ==
  ASSUME NEW D, NEW P, NEW c, CopiesOf(D, c), c.id # c.sub, Known(P) = Known(D), DirInodes(P) = DirInodes(D),
         NEW x, x.id = c.id, x.sub = c.sub, x.subino = c.subino, x.subdirty = c.subdirty,
         P.inodes[c.id] = x.ino, \A k \in Known(D) : k # c.id => P.inodes[k] = D.inodes[k]
  PROVE  CopiesOf(P, x)
<1>1. Copy(P, x.id, x.ino, x.dirty)
  BY DEF CopiesOf, Copy
<1>2. x.sub \in Ids => Copy(P, x.sub, x.subino, x.subdirty)
  BY DEF CopiesOf, Copy
<1> QED
  BY <1>1, <1>2 DEF CopiesOf

LEMMA TruncateStep ==
  ASSUME IndInv, Orderly, NEW h \in DOMAIN handles, NEW s \in {0, 1}, Truncate(h, s)
  PROVE  IndInv'
<1>0. phase = "up" /\ Settled /\ Sound(disk) /\ WantsSound /\ load \in Workloads
  BY UpSettled, Numbers DEF Truncate, IndInv
<1>1. PICK c : c = handles[h]
  OBVIOUS
<1>2. /\ c \in HandleRecord /\ CopiesOf(disk, c) /\ SizesOf(want, c) /\ c.id # c.sub /\ c.sub # Missing
      /\ c.id \in Known(disk) /\ c.id \notin DirInodes(disk) /\ c.id \in Ids /\ c.id \in Holds(c)
      /\ c.ino.type = disk.inodes[c.id].type /\ c.ino.ref = disk.inodes[c.id].ref /\ c.ino.type # "dir"
      /\ \A g \in DOMAIN handles : g # h => c.sub \notin Holds(handles[g])
  BY <1>0, <1>1, HandleFacts
<1>3. PICK b \in BOOLEAN : b = FALSE
  OBVIOUS
<1>4. PICK x : x = Sized(c, s, b)
  OBVIOUS
<1>5. /\ x \in HandleRecord /\ x.id = c.id /\ x.sub = c.sub /\ x.at = c.at /\ x.dirty = b
      /\ x.subino = c.subino /\ x.subdirty = c.subdirty
      /\ x.ino \in InodeRecord /\ x.ino.size = s /\ x.ino.type = c.ino.type /\ x.ino.ref = c.ino.ref
  BY <1>2, <1>4, Resized
<1>6. Holds(x) = Holds(c)
  BY <1>5 DEF Holds
<1>7. PICK D : D = Put(disk, x.id, x.ino)
  OBVIOUS
<1>8. PICK w : w = [want EXCEPT ![x.id] = s]
  OBVIOUS
<1>9. /\ handles' = [handles EXCEPT ![h] = x] /\ want' = w /\ disk' = D
      /\ UNCHANGED <<nextId, phase, failures, load>>
  BY <1>1, <1>3, <1>4, <1>7, <1>8 DEF Truncate, Change, Sized
<1>10. w \in [Ids -> {0, 1}] /\ SizesOf(w, x) /\ \A i \in Ids : i \notin Holds(x) => w[i] = want[i]
  <2>1. want \in [Ids -> {0, 1}]
    BY <1>0 DEF WantsSound
  <2> QED
    BY <1>2, <1>5, <1>6, <1>8, <2>1 DEF SizesOf
<1>11. /\ Sound(D) /\ Known(D) = Known(disk) /\ DirInodes(D) = DirInodes(disk)
       /\ D.inodes[c.id] = x.ino /\ \A k \in Known(disk) : k # c.id => D.inodes[k] = disk.inodes[k]
       /\ Exact(disk) => Exact(D)
       /\ Owned(disk) => Owned(D)
  <2>1. x.ino.type # "dir" /\ x.ino.ref = disk.inodes[c.id].ref /\ x.ino.type = disk.inodes[c.id].type
        /\ D = Put(disk, c.id, x.ino)
    BY <1>2, <1>5, <1>7
  <2> QED
    BY <1>0, <1>2, <1>5, <2>1, PutCopy
<1>12. CopiesOf(D, x)
  BY <1>2, <1>5, <1>11, CopiesPut
<1>13. PlaceFree(D, x) /\ x.id # x.sub /\ x.id = handles[h].id /\ handles[h].sub \in {0, x.sub}
       /\ \A g \in DOMAIN handles : g # h => x.sub \notin Holds(handles[g])
  BY <1>1, <1>2, <1>5 DEF PlaceFree
<1>14. /\ \A i \in Known(disk) : i \notin Holds(x) => D.inodes[i] = disk.inodes[i]
       /\ failures = 0 => Exact(D) /\ Owned(D)
  BY <1>2, <1>6, <1>11 DEF IndInv
<1> QED
  BY <1>0, <1>5, <1>9, <1>10, <1>11, <1>12, <1>13, <1>14, OneHandleStep

(* flush and release write the copies back. *)
LEMMA WrittenBack ==
  ASSUME IndInv, Settled, NEW h \in DOMAIN handles, NEW c, c = handles[h], NEW D, D = WriteBack(c)
  PROVE  /\ Sound(D) /\ Known(D) = Known(disk) /\ DirInodes(D) = DirInodes(disk)
         /\ \A k \in Known(disk) : k \notin Holds(c) => D.inodes[k] = disk.inodes[k]
         /\ D.inodes[c.id].type = c.ino.type /\ D.inodes[c.id].ref = c.ino.ref /\ D.inodes[c.id].size = c.ino.size
         /\ c.sub \in Ids => /\ D.inodes[c.sub].type = c.subino.type /\ D.inodes[c.sub].ref = c.subino.ref
                             /\ D.inodes[c.sub].size = c.subino.size
         /\ Exact(disk) => Exact(D)
         /\ Owned(disk) => Owned(D)
<1>0. Sound(disk) /\ load \in Workloads
  BY Numbers DEF IndInv
<1>1. /\ c \in HandleRecord /\ CopiesOf(disk, c) /\ c.id # c.sub
      /\ c.id \in Known(disk) /\ c.id \notin DirInodes(disk) /\ c.id \in Ids /\ c.id \in Holds(c)
      /\ c.ino.type = disk.inodes[c.id].type /\ c.ino.ref = disk.inodes[c.id].ref /\ c.ino.type # "dir"
      /\ c.ino \in InodeRecord /\ c.subino \in InodeRecord
      /\ c.sub \in Ids => /\ c.sub \in Known(disk) /\ c.sub \notin DirInodes(disk) /\ c.sub \in Holds(c)
                          /\ c.subino.type = disk.inodes[c.sub].type /\ c.subino.ref = disk.inodes[c.sub].ref
                          /\ c.subino.type # "dir"
  BY HandleFacts
<1>2. PICK A : A = IF c.dirty THEN Put(disk, c.id, c.ino) ELSE disk
  OBVIOUS
<1>3. D = IF c.subdirty THEN Put(A, c.sub, c.subino) ELSE A
  BY <1>2 DEF WriteBack
<1>4. /\ Sound(A) /\ Known(A) = Known(disk) /\ DirInodes(A) = DirInodes(disk)
      /\ \A k \in Known(disk) : k # c.id => A.inodes[k] = disk.inodes[k]
      /\ A.inodes[c.id].type = c.ino.type /\ A.inodes[c.id].ref = c.ino.ref /\ A.inodes[c.id].size = c.ino.size
      /\ Exact(disk) => Exact(A)
      /\ Owned(disk) => Owned(A)
  <2>1. CASE c.dirty
    <3>1. A = Put(disk, c.id, c.ino)
      BY <1>2, <2>1
    <3>2. /\ Sound(A) /\ Known(A) = Known(disk) /\ DirInodes(A) = DirInodes(disk)
          /\ A.inodes[c.id] = c.ino /\ \A k \in Known(disk) : k # c.id => A.inodes[k] = disk.inodes[k]
          /\ Exact(disk) => Exact(A)
          /\ Owned(disk) => Owned(A)
      BY <1>0, <1>1, <3>1, PutCopy
    <3> QED
      BY <3>2
  <2>2. CASE ~c.dirty
    <3>1. A = disk
      BY <1>2, <2>2
    <3>2. disk.inodes[c.id].size = c.ino.size
      BY <1>1, <2>2 DEF CopiesOf, Copy
    <3> QED
      BY <1>0, <1>1, <3>1, <3>2
  <2> QED
    BY <2>1, <2>2
<1>5. CASE c.subdirty
  <2>1. c.sub \in Ids
    BY <1>1, <1>5 DEF CopiesOf
  <2>2. /\ D = Put(A, c.sub, c.subino) /\ c.sub \in Known(A) /\ c.sub \notin DirInodes(A)
        /\ c.subino.type # "dir" /\ c.subino.ref = A.inodes[c.sub].ref /\ c.subino.type = A.inodes[c.sub].type
    BY <1>1, <1>3, <1>4, <1>5, <2>1
  <2>3. /\ Sound(D) /\ Known(D) = Known(A) /\ DirInodes(D) = DirInodes(A)
        /\ D.inodes[c.sub] = c.subino /\ \A k \in Known(A) : k # c.sub => D.inodes[k] = A.inodes[k]
        /\ Exact(A) => Exact(D)
        /\ Owned(A) => Owned(D)
    BY <1>0, <1>1, <1>4, <2>2, PutCopy
  <2>4. \A k \in Known(disk) : k \notin Holds(c) => D.inodes[k] = disk.inodes[k]
    BY <1>1, <1>4, <2>1, <2>3
  <2>5. D.inodes[c.id] = A.inodes[c.id]
    BY <1>1, <1>4, <2>3
  <2> QED
    BY <1>4, <2>3, <2>4, <2>5
<1>6. CASE ~c.subdirty
  <2>1. D = A
    BY <1>3, <1>6
  <2>2. c.sub \in Ids => disk.inodes[c.sub].size = c.subino.size
    BY <1>1, <1>6 DEF CopiesOf, Copy
  <2>3. c.sub \in Ids => A.inodes[c.sub] = disk.inodes[c.sub]
    BY <1>1, <1>4
  <2>4. \A k \in Known(disk) : k \notin Holds(c) => A.inodes[k] = disk.inodes[k]
    BY <1>1, <1>4
  <2> QED
    BY <1>1, <1>4, <2>1, <2>2, <2>3, <2>4
<1> QED
  BY <1>5, <1>6

LEMMA FlushStep ==
  ASSUME IndInv, Orderly, NEW h \in DOMAIN handles, Flush(h)
  PROVE  IndInv'
<1>0. phase = "up" /\ Settled /\ WantsSound
  BY UpSettled DEF Flush, IndInv
<1>1. PICK c : c = handles[h]
  OBVIOUS
<1>2. PICK D : D = WriteBack(c)
  OBVIOUS
<1>3. /\ c \in HandleRecord /\ CopiesOf(disk, c) /\ SizesOf(want, c) /\ c.id # c.sub /\ c.sub # Missing
      /\ c.id \in Known(disk) /\ c.id \notin DirInodes(disk)
      /\ c.sub \in Ids => c.sub \in Known(disk) /\ c.sub \notin DirInodes(disk)
      /\ \A g \in DOMAIN handles : g # h => c.sub \notin Holds(handles[g])
  BY <1>0, <1>1, HandleFacts
<1>4. /\ Sound(D) /\ Known(D) = Known(disk) /\ DirInodes(D) = DirInodes(disk)
      /\ \A k \in Known(disk) : k \notin Holds(c) => D.inodes[k] = disk.inodes[k]
      /\ D.inodes[c.id].type = c.ino.type /\ D.inodes[c.id].ref = c.ino.ref /\ D.inodes[c.id].size = c.ino.size
      /\ c.sub \in Ids => /\ D.inodes[c.sub].type = c.subino.type /\ D.inodes[c.sub].ref = c.subino.ref
                          /\ D.inodes[c.sub].size = c.subino.size
      /\ Exact(disk) => Exact(D)
      /\ Owned(disk) => Owned(D)
  BY <1>0, <1>1, <1>2, WrittenBack
<1>5. PICK x : x = [c EXCEPT !.dirty = FALSE, !.subdirty = FALSE]
  OBVIOUS
<1>6. /\ x \in HandleRecord /\ x.id = c.id /\ x.sub = c.sub /\ x.ino = c.ino /\ x.subino = c.subino
      /\ ~x.subdirty
  BY <1>3, <1>5 DEF HandleRecord
<1>7. CopiesOf(D, x)
  BY <1>3, <1>4, <1>6 DEF CopiesOf, Copy
<1>8. Holds(x) = Holds(c)
  BY <1>6 DEF Holds
<1>9. SizesOf(want, x) /\ want \in [Ids -> {0, 1}]
  BY <1>0, <1>3, <1>6 DEF SizesOf, WantsSound
<1>10. /\ handles' = [handles EXCEPT ![h] = x] /\ disk' = D /\ UNCHANGED <<nextId, phase, failures, load>>
  BY <1>1, <1>2, <1>5 DEF Flush, Change
<1>11. PICK w : w = want
  OBVIOUS
<1>12. want' = w /\ w \in [Ids -> {0, 1}] /\ SizesOf(w, x) /\ \A i \in Ids : i \notin Holds(x) => w[i] = want[i]
  BY <1>9, <1>11 DEF Flush
<1>13. PlaceFree(D, x) /\ x.id # x.sub /\ x.id = handles[h].id /\ handles[h].sub \in {0, x.sub}
       /\ \A g \in DOMAIN handles : g # h => x.sub \notin Holds(handles[g])
  BY <1>1, <1>3, <1>6 DEF PlaceFree
<1>14. /\ \A i \in Known(disk) : i \notin Holds(x) => D.inodes[i] = disk.inodes[i]
       /\ failures = 0 => Exact(D) /\ Owned(D)
  BY <1>4, <1>8 DEF IndInv
<1> QED
  BY <1>0, <1>4, <1>6, <1>7, <1>10, <1>12, <1>13, <1>14, OneHandleStep

LEMMA ReleaseStep ==
  ASSUME IndInv, Orderly, NEW h \in DOMAIN handles, Release(h)
  PROVE  IndInv'
<1>0. phase = "up" /\ Settled /\ WantsSound /\ HandlesSound /\ Fresh /\ disk \in Disks
  BY UpSettled DEF Release, IndInv, Sound
<1>1. PICK c : c = handles[h]
  OBVIOUS
<1>2. PICK D : D = WriteBack(c)
  OBVIOUS
<1>3. /\ c \in HandleRecord /\ SizesOf(want, c)
      /\ \A g \in DOMAIN handles : g # h => c.sub \notin Holds(handles[g]) /\ c.id \notin Holds(handles[g])
  BY <1>0, <1>1, HandleFacts
<1>4. /\ Sound(D) /\ Known(D) = Known(disk)
      /\ \A k \in Known(disk) : k \notin Holds(c) => D.inodes[k] = disk.inodes[k]
      /\ D.inodes[c.id].size = c.ino.size /\ (c.sub \in Ids => D.inodes[c.sub].size = c.subino.size)
      /\ Exact(disk) => Exact(D)
      /\ Owned(disk) => Owned(D)
  BY <1>0, <1>1, <1>2, WrittenBack
<1>5. PICK H : H = [g \in DOMAIN handles \ {h} |-> handles[g]]
  OBVIOUS
<1>6. DOMAIN H = DOMAIN handles \ {h} /\ \A g \in DOMAIN H : g \in DOMAIN handles /\ g # h /\ H[g] = handles[g]
  BY <1>5
<1>7. H \in HandleMaps
  <2>1. DOMAIN H \in SUBSET load.handles /\ H \in [DOMAIN H -> HandleRecord]
    BY <1>0, <1>5, HandleTyped
  <2> QED
    BY <2>1 DEF HandleMaps
<1>8. PICK w : w = want
  OBVIOUS
<1>9. /\ handles' = H /\ disk' = D /\ want' = w /\ nextId' = nextId /\ failures' = failures
      /\ UNCHANGED <<phase, load>>
  BY <1>1, <1>2, <1>5, <1>8 DEF Release
<1>10. w \in [Ids -> {0, 1}] /\ \A i \in Ids \ Known(D) : w[i] = 0
  BY <1>0, <1>4, <1>8 DEF WantsSound
<1>11. ASSUME NEW g \in DOMAIN H PROVE HandleSame(H, D, w, g)
  <2>1. g \in DOMAIN handles /\ H[g] = handles[g] /\ handles[g].sub # Missing /\ g # h
    BY <1>0, <1>6 DEF Settled
  <2>2. ASSUME NEW i \in Holds(handles[g])
        PROVE  i \in Known(D) /\ D.inodes[i] = disk.inodes[i] /\ w[i] = want[i]
    <3>1. i \in Ids /\ i \notin Holds(c) /\ Held(i)
      BY <1>3, <2>1 DEF Holds, Held
    <3>2. i \in Known(disk)
      BY <1>0, <3>1, HeldAreFiles
    <3> QED
      BY <1>4, <1>8, <3>1, <3>2
  <2> QED
    BY <2>1, <2>2 DEF HandleSame
<1>12. ASSUME NEW i \in Known(D), \A g \in DOMAIN H : i \notin Holds(H[g]) PROVE D.inodes[i].size = w[i]
  <2>0. i \in Known(disk) /\ i \in Ids
    BY <1>0, <1>4, DiskParts
  <2>1. CASE i \in Holds(c)
    BY <1>3, <1>4, <1>8, <2>1 DEF Holds, SizesOf
  <2>2. CASE i \notin Holds(c)
    <3>1. \A g \in DOMAIN handles : i \notin Holds(handles[g])
      BY <1>1, <1>6, <1>12, <2>2
    <3>2. ~Held(i)
      BY <2>0, <3>1, HeldIsHolds
    <3> QED
      BY <1>0, <1>4, <1>8, <2>0, <2>2, <3>2 DEF WantsSound
  <2> QED
    BY <2>1, <2>2
<1>13. nextId' \in 3 .. MaxId + 1 /\ failures' \in 0 .. load.failures /\ \A i \in Known(D) : i < nextId'
  <2>1. \A i \in Known(D) : i < nextId
    BY <1>0, <1>4 DEF Fresh
  <2> QED
    BY <1>9, <2>1, Numbers DEF IndInv
<1>14. failures' = 0 => Exact(D) /\ Owned(D)
  BY <1>4, <1>9 DEF IndInv
<1>15. \A i \in Known(D) : (\A g \in DOMAIN H : i \notin Holds(H[g])) => D.inodes[i].size = w[i]
  BY <1>12
<1>16. \A g \in DOMAIN H : HandleGood(H, D, w, g) \/ HandleSame(H, D, w, g)
  BY <1>11
<1> QED
  BY <1>0, <1>4, <1>7, <1>9, <1>10, <1>13, <1>14, <1>15, <1>16, CallStep

LEMMA CdWriteStep ==
  ASSUME IndInv, Orderly, NEW h \in DOMAIN handles, CdWrite(h)
  PROVE  IndInv'
<1>0. phase = "up" /\ Settled /\ WantsSound
  BY UpSettled DEF CdWrite, IndInv
<1>1. PICK c : c = handles[h]
  OBVIOUS
<1>2. /\ c \in HandleRecord /\ CopiesOf(disk, c) /\ SizesOf(want, c) /\ c.id # c.sub /\ c.sub # Missing
      /\ c.id \in Ids /\ c.id \in Holds(c) /\ c.ino \in InodeRecord /\ c.subino \in InodeRecord
      /\ \A g \in DOMAIN handles : g # h => c.sub \notin Holds(handles[g])
      /\ c.sub \in Ids \cup {0}
  BY <1>0, <1>1, HandleFacts
<1>3. PICK x : x = Written(c)
  OBVIOUS
<1>4. (c.sub > Missing) = (c.sub \in Ids) /\ 0 \notin Ids
  BY <1>2, Numbers DEF Missing, Ids, Root, IndInv
<1>5. PICK j : j = [c.ino EXCEPT !.size = 1]
  OBVIOUS
<1>6. PICK k : k = [c.subino EXCEPT !.size = IF c.sub > Missing THEN 1 ELSE @]
  OBVIOUS
<1>7. j \in InodeRecord /\ j.type = c.ino.type /\ j.ref = c.ino.ref /\ j.size = 1
  BY <1>2, <1>5 DEF InodeRecord
<1>8. k \in InodeRecord /\ k.type = c.subino.type /\ k.ref = c.subino.ref /\ (c.sub \in Ids => k.size = 1)
  BY <1>2, <1>4, <1>6 DEF InodeRecord
<1>9. PICK b \in BOOLEAN : b = (c.subdirty \/ c.sub > Missing)
  OBVIOUS
<1>10. x = [c EXCEPT !.ino = j, !.dirty = TRUE, !.subino = k, !.subdirty = b]
  BY <1>2, <1>3, <1>5, <1>6, <1>9 DEF Written, HandleRecord
<1>11. /\ x \in HandleRecord /\ x.id = c.id /\ x.sub = c.sub /\ x.at = c.at /\ x.dirty
       /\ x.ino = j /\ x.subino = k /\ x.subdirty = b
  BY <1>2, <1>7, <1>8, <1>10 DEF HandleRecord
<1>12. x.subdirty => c.sub \in Ids
  BY <1>2, <1>4, <1>9, <1>11 DEF CopiesOf
<1>13. c.sub \in Ids => x.subdirty
  BY <1>4, <1>9, <1>11
<1>14. CopiesOf(disk, x)
  <2>1. Copy(disk, x.id, x.ino, x.dirty)
    BY <1>2, <1>7, <1>11 DEF CopiesOf, Copy
  <2>2. x.sub \in Ids => Copy(disk, x.sub, x.subino, x.subdirty)
    BY <1>2, <1>8, <1>11, <1>13 DEF CopiesOf, Copy
  <2> QED
    BY <1>11, <1>12, <2>1, <2>2 DEF CopiesOf
<1>15. Holds(x) = Holds(c)
  BY <1>11 DEF Holds
<1>16. PICK w : w = [id \in Ids |-> IF id \in {c.id, c.sub} THEN 1 ELSE want[id]]
  OBVIOUS
<1>17. w \in [Ids -> {0, 1}] /\ SizesOf(w, x) /\ \A i \in Ids : i \notin Holds(x) => w[i] = want[i]
  <2>1. want \in [Ids -> {0, 1}]
    BY <1>0 DEF WantsSound
  <2>2. SizesOf(w, x)
    BY <1>2, <1>7, <1>8, <1>11, <1>16 DEF SizesOf
  <2>3. \A i \in Ids : i \notin Holds(x) => w[i] = want[i]
    BY <1>15, <1>16 DEF Holds
  <2> QED
    BY <1>16, <2>1, <2>2, <2>3
<1>18. /\ handles' = [handles EXCEPT ![h] = x] /\ want' = w
       /\ UNCHANGED <<disk, nextId, phase, failures, load>>
  BY <1>1, <1>3, <1>16 DEF CdWrite, Change
<1>19. PlaceFree(disk, x) /\ x.id # x.sub /\ x.id = handles[h].id /\ handles[h].sub \in {0, x.sub}
       /\ \A g \in DOMAIN handles : g # h => x.sub \notin Holds(handles[g])
  BY <1>1, <1>2, <1>11 DEF PlaceFree
<1> QED
  BY <1>0, <1>11, <1>14, <1>17, <1>18, <1>19, HandleOnlyStep

LEMMA ConvertStep ==
  ASSUME IndInv, Orderly, NEW h \in DOMAIN handles, NEW kind \in load.kinds, Convert(h, kind)
  PROVE  IndInv'
<1>0. phase = "up" /\ Settled /\ Sound(disk) /\ WantsSound /\ load \in Workloads /\ nextId \in 3 .. MaxId + 1
  BY UpSettled, Numbers DEF Convert, IndInv
<1>1. PICK c : c = handles[h]
  OBVIOUS
<1>2. /\ c \in HandleRecord /\ CopiesOf(disk, c) /\ SizesOf(want, c) /\ c.id # c.sub /\ c.sub # Missing
      /\ c.id \in Known(disk) /\ c.id \notin DirInodes(disk) /\ c.id \in Ids /\ c.id \in Holds(c)
      /\ c.ino.ref = disk.inodes[c.id].ref /\ c.ino \in InodeRecord
      /\ \A g \in DOMAIN handles : g # h => c.sub \notin Holds(handles[g])
  BY <1>0, <1>1, HandleFacts
<1>3. PICK x : x = [c EXCEPT !.ino.type = kind]
  OBVIOUS
<1>4. PICK j : j = [c.ino EXCEPT !.type = kind]
  OBVIOUS
<1>5. kind \in Types /\ kind # "dir"
  BY <1>0, NamesAssumption DEF Types
<1>6. j \in InodeRecord /\ j.type = kind /\ j.ref = c.ino.ref /\ j.size = c.ino.size
  BY <1>2, <1>4, <1>5 DEF InodeRecord
<1>7. x = [c EXCEPT !.ino = j]
  BY <1>3, <1>4
<1>8. /\ x \in HandleRecord /\ x.id = c.id /\ x.sub = c.sub /\ x.at = c.at /\ x.ino = j
      /\ x.subino = c.subino /\ x.subdirty = c.subdirty
  BY <1>2, <1>6, <1>7 DEF HandleRecord
<1>9. PICK P : P = Put(disk, c.id, j)
  OBVIOUS
<1>10. /\ Sound(P) /\ Known(P) = Known(disk) /\ DirInodes(P) = DirInodes(disk)
       /\ P.inodes[c.id] = j /\ \A k \in Known(disk) : k # c.id => P.inodes[k] = disk.inodes[k]
       /\ P.next_inode_id = disk.next_inode_id
       /\ Exact(disk) => Exact(P)
       /\ Owned(disk) => Owned(P)
  <2>1. c.id \notin disk.tags \cup disk.junk
    BY <1>1, <1>3, <1>8 DEF Convert
  <2>2. j.type # "dir" /\ j.ref = disk.inodes[c.id].ref
    BY <1>2, <1>5, <1>6
  <2> QED
    BY <1>0, <1>2, <1>6, <1>9, <2>1, <2>2, PutCopy
<1>11. PICK n : /\ n \in {disk.next_inode_id} \cup (IF kind \in {"nintendo", "ps3"} THEN {nextId} ELSE {})
                /\ disk' = [P EXCEPT !.next_inode_id = n]
  <2>1. \E n \in {disk.next_inode_id} \cup (IF kind \in {"nintendo", "ps3"} THEN {nextId} ELSE {}) :
          disk' = [Put(disk, x.id, x.ino) EXCEPT !.next_inode_id = n]
    BY <1>1, <1>3 DEF Convert
  <2>2. P = Put(disk, x.id, x.ino)
    BY <1>8, <1>9
  <2> QED
    BY <2>1, <2>2
<1>12. n \in 3 .. MaxId + 1 /\ P \in Disks
  BY <1>0, <1>10, <1>11, DiskParts DEF Sound
<1>13. PICK D : D = [P EXCEPT !.next_inode_id = n]
  OBVIOUS
<1>14. D \in Disks /\ D.cat = P.cat /\ D.inodes = P.inodes /\ D.tags = P.tags /\ D.junk = P.junk
  BY <1>12, <1>13, NextIdParts
<1>15. /\ Sound(D) /\ Known(D) = Known(disk) /\ DirInodes(D) = DirInodes(disk)
       /\ Exact(disk) => Exact(D)
       /\ Owned(disk) => Owned(D)
  <2>1. Sound(D)
    BY <1>10, <1>14, SameTrees
  <2>2. Known(D) = Known(P) /\ DirInodes(D) = DirInodes(P)
    BY <1>14 DEF Known, DirInodes
  <2>3. (Exact(P) => Exact(D)) /\ (Owned(P) => Owned(D))
    BY <1>14, <2>2 DEF Exact, Tallied, Unambiguous, Owned, NamesOf
  <2> QED
    BY <1>10, <2>1, <2>2, <2>3
<1>16. D.inodes[c.id] = x.ino /\ \A k \in Known(disk) : k # c.id => D.inodes[k] = disk.inodes[k]
  BY <1>8, <1>10, <1>14
<1>17. CopiesOf(D, x)
  BY <1>2, <1>8, <1>15, <1>16, CopiesPut
<1>18. Holds(x) = Holds(c)
  BY <1>8 DEF Holds
<1>19. PlaceFree(D, x) /\ x.id # x.sub /\ x.id = handles[h].id /\ handles[h].sub \in {0, x.sub}
       /\ \A g \in DOMAIN handles : g # h => x.sub \notin Holds(handles[g])
  BY <1>1, <1>2, <1>8 DEF PlaceFree
<1>20. /\ \A i \in Known(disk) : i \notin Holds(x) => D.inodes[i] = disk.inodes[i]
       /\ failures = 0 => Exact(D) /\ Owned(D)
  BY <1>2, <1>15, <1>16, <1>18 DEF IndInv
<1>21. PICK w : w = want
  OBVIOUS
<1>22. want' = w /\ w \in [Ids -> {0, 1}] /\ SizesOf(w, x) /\ \A i \in Ids : i \notin Holds(x) => w[i] = want[i]
  BY <1>0, <1>2, <1>6, <1>8, <1>21 DEF Convert, SizesOf, WantsSound
<1>23. /\ handles' = [handles EXCEPT ![h] = x] /\ disk' = D /\ UNCHANGED <<nextId, phase, failures, load>>
  BY <1>1, <1>3, <1>11, <1>13 DEF Convert, Change
<1> QED
  BY <1>0, <1>8, <1>15, <1>17, <1>19, <1>20, <1>22, <1>23, OneHandleStep

(* What names that programs derive look like. *)
LEMMA SubNames == \A n \in Given : SubName(n) \in Names /\ SubName(n)[1] = "sub" /\ SubName(n) # LostFound
BY DEF Names, SubName, LostFound

LEMMA SidecarLookupStep ==
  ASSUME IndInv, Orderly, NEW h \in DOMAIN handles, NEW e \in disk.cat, SidecarLookup(h, e)
  PROVE  IndInv'
<1>0. /\ phase = "up" /\ Settled /\ Sound(disk) /\ WantsSound /\ HandlesSound /\ Resolving(disk)
      /\ disk \in Disks
  BY UpSettled DEF SidecarLookup, IndInv, Sound
<1>1. PICK c : c = handles[h]
  OBVIOUS
<1>2. /\ c \in HandleRecord /\ CopiesOf(disk, c) /\ SizesOf(want, c)
      /\ c.id \in Ids /\ c.id \in Holds(c) /\ c.subino \in InodeRecord
  BY <1>0, <1>1, HandleFacts
<1>3. c.sub = 0 /\ e.dir \in Dirs(disk) /\ e.name \in Given
  BY <1>1 DEF SidecarLookup
<1>4. PICK n : n = SubName(e.name)
  OBVIOUS
<1>5. n \in Names /\ n[1] = "sub"
  BY <1>3, <1>4, SubNames
<1>6. e.dir \in Ids
  BY <1>0, DiskParts DEF Entries
<1>7. 0 \notin Ids /\ Missing \notin Ids /\ Missing # 0
  BY Numbers DEF IndInv, Ids, Root, Missing
<1>8. ~c.subdirty
  BY <1>2, <1>3, <1>7 DEF CopiesOf
<1>9. PICK w : w = want
  OBVIOUS
<1>10. want' = w /\ w \in [Ids -> {0, 1}] /\ UNCHANGED <<disk, nextId, phase, failures, load>>
  BY <1>0, <1>9 DEF SidecarLookup, WantsSound
<1>11. CASE /\ Lookup(e.dir, n) = {}
            /\ Change(h, [handles[h] EXCEPT !.sub = Missing, !.at = Place(e.dir, SubName(e.name))])
  <2>1. PICK p : p = Place(e.dir, n)
    OBVIOUS
  <2>2. p \in [dir : Ids, name : Names] /\ p.dir = e.dir /\ p.name = n
    BY <1>5, <1>6, <2>1 DEF Place
  <2>3. PICK x : x = [c EXCEPT !.sub = Missing, !.at = p]
    OBVIOUS
  <2>4. /\ x \in HandleRecord /\ x.id = c.id /\ x.sub = Missing /\ x.at = p /\ x.ino = c.ino /\ x.dirty = c.dirty
        /\ x.subino = c.subino /\ x.subdirty = c.subdirty
    BY <1>2, <2>2, <2>3 DEF HandleRecord
  <2>5. CopiesOf(disk, x)
    BY <1>2, <1>7, <1>8, <2>4 DEF CopiesOf
  <2>6. PlaceFree(disk, x)
    BY <1>3, <1>5, <1>11, <2>2, <2>4 DEF PlaceFree, Lookup
  <2>7. handles' = [handles EXCEPT ![h] = x]
    BY <1>1, <1>4, <1>11, <2>1, <2>3 DEF Change
  <2>8. SizesOf(w, x) /\ \A i \in Ids : i \notin Holds(x) => w[i] = want[i]
    BY <1>2, <1>7, <1>9, <2>4 DEF SizesOf
  <2>9. x.id # x.sub /\ x.id = handles[h].id /\ handles[h].sub \in {0, x.sub}
        /\ \A g \in DOMAIN handles : g # h => x.sub \notin Holds(handles[g])
    BY <1>1, <1>2, <1>3, <1>7, <2>4 DEF Holds
  <2> QED
    BY <1>0, <1>10, <2>4, <2>5, <2>6, <2>7, <2>8, <2>9, HandleOnlyStep
<1>12. ASSUME NEW f \in Lookup(e.dir, n), f.id \in DOMAIN disk.inodes,
              Change(h, [handles[h] EXCEPT !.sub = f.id, !.subino = disk.inodes[f.id]])
       PROVE  IndInv'
  <2>1. f \in disk.cat /\ f.name = n /\ ~Held(f.id)
    BY <1>4 DEF SidecarLookup, Lookup, Usable, Orderly
  <2>2. f.id \in Known(disk) /\ f.id \notin DirInodes(disk) /\ f.id \in Ids /\ disk.inodes[f.id] \in InodeRecord
    BY <1>0, <1>5, <2>1, DiskParts DEF Resolving
  <2>3. PICK j \in InodeRecord : j = disk.inodes[f.id]
    BY <2>2
  <2>4. PICK x : x = [c EXCEPT !.sub = f.id, !.subino = j]
    OBVIOUS
  <2>5. /\ x \in HandleRecord /\ x.id = c.id /\ x.sub = f.id /\ x.ino = c.ino /\ x.dirty = c.dirty
        /\ x.subino = j /\ x.subdirty = c.subdirty
    BY <1>2, <2>2, <2>4 DEF HandleRecord
  <2>6. CopiesOf(disk, x)
    <3>1. Copy(disk, x.sub, x.subino, x.subdirty)
      BY <2>2, <2>3, <2>5 DEF Copy
    <3> QED
      BY <1>2, <1>8, <2>5, <3>1 DEF CopiesOf
  <2>7. PlaceFree(disk, x)
    BY <1>7, <2>2, <2>5 DEF PlaceFree
  <2>8. handles' = [handles EXCEPT ![h] = x]
    BY <1>1, <1>12, <2>3, <2>4 DEF Change
  <2>9. SizesOf(w, x) /\ \A i \in Ids : i \notin Holds(x) => w[i] = want[i]
    BY <1>0, <1>2, <1>9, <2>1, <2>2, <2>3, <2>5 DEF SizesOf, WantsSound
  <2>10. /\ x.id # x.sub /\ x.id = handles[h].id /\ handles[h].sub \in {0, x.sub}
         /\ \A g \in DOMAIN handles : g # h => x.sub \notin Holds(handles[g])
    <3>1. \A g \in DOMAIN handles : f.id \notin Holds(handles[g])
      BY <2>1, <2>2, HeldIsHolds
    <3> QED
      BY <1>1, <1>2, <1>3, <2>5, <3>1
  <2> QED
    BY <1>0, <1>10, <2>5, <2>6, <2>7, <2>8, <2>9, <2>10, HandleOnlyStep
<1> QED
  BY <1>4, <1>11, <1>12 DEF SidecarLookup

(* A new handle. *)
LEMMA HandleNew ==
  ASSUME load \in Workloads, NEW i \in Ids, NEW ino \in InodeRecord, NEW c, c = Handle(i, ino)
  PROVE  c \in HandleRecord /\ c.id = i /\ c.ino = ino /\ c.sub = 0 /\ ~c.subdirty
<1>1. NoPlace \in [dir : Ids, name : Names]
  BY RootIsAnId DEF NoPlace, Place, Names
<1>2. NoInode \in InodeRecord
  BY DEF NoInode, Inode, InodeRecord, Types
<1> QED
  BY <1>1, <1>2 DEF Handle, HandleRecord

LEMMA HandleBound ==
  ASSUME HandlesSound, NEW h \in load.handles, h \notin DOMAIN handles, NEW c \in HandleRecord,
         NEW H, H = Bind(handles, h, c)
  PROVE  /\ H \in HandleMaps
         /\ DOMAIN H = DOMAIN handles \cup {h} /\ H[h] = c
         /\ \A g \in DOMAIN handles : g # h /\ H[g] = handles[g]
<1>1. DOMAIN H = DOMAIN handles \cup {h} /\ H[h] = c /\ \A g \in DOMAIN handles : g # h /\ H[g] = handles[g]
  BY DEF Bind
<1>2. DOMAIN handles \in SUBSET load.handles /\ handles \in [DOMAIN handles -> HandleRecord]
  BY HandleTyped
<1>3. H \in [DOMAIN handles \cup {h} -> HandleRecord] /\ DOMAIN handles \cup {h} \in SUBSET load.handles
  BY <1>2 DEF Bind
<1> QED
  BY <1>1, <1>3 DEF HandleMaps

(* A new handle on a file nobody holds. *)
LEMMA NewHandleGood ==
  ASSUME IndInv, Settled, NEW h \in load.handles, h \notin DOMAIN handles, NEW i \in Ids, ~Held(i),
         NEW D, i \in Known(D), i \notin DirInodes(D), NEW ino \in InodeRecord, D.inodes[i] = ino,
         NEW c, c = Handle(i, ino), NEW H, H = Bind(handles, h, c), NEW w, w[i] = ino.size
  PROVE  /\ HandleGood(H, D, w, h) /\ H \in HandleMaps
         /\ DOMAIN H = DOMAIN handles \cup {h} /\ i \in Holds(H[h])
         /\ \A g \in DOMAIN handles : H[g] = handles[g]
<1>0. HandlesSound /\ load \in Workloads
  BY Numbers DEF IndInv
<1>1. c \in HandleRecord /\ c.id = i /\ c.ino = ino /\ c.sub = 0 /\ ~c.subdirty
  BY <1>0, HandleNew
<1>2. /\ H \in HandleMaps
      /\ DOMAIN H = DOMAIN handles \cup {h} /\ H[h] = c
      /\ \A g \in DOMAIN handles : g # h /\ H[g] = handles[g]
  BY <1>0, <1>1, HandleBound
<1>3. 0 \notin Ids /\ Missing # 0
  BY Numbers DEF IndInv, Ids, Root, Missing
<1>4. CopiesOf(D, c)
  BY <1>1, <1>3 DEF CopiesOf, Copy
<1>5. c.id # c.sub /\ PlaceFree(D, c) /\ c.sub # Missing /\ SizesOf(w, c)
  BY <1>1, <1>3 DEF PlaceFree, SizesOf
<1>6. Holds(c) = {i}
  BY <1>1, <1>3 DEF Holds
<1>7. \A g \in DOMAIN handles : i \notin Holds(handles[g])
  BY HeldIsHolds
<1>8. HandleGood(H, D, w, h)
  <2>1. \A g \in DOMAIN H : g # h => Holds(H[g]) \cap Holds(H[h]) = {}
    BY <1>2, <1>6, <1>7
  <2>2. H[h].sub # Missing
    BY <1>2, <1>5
  <2>3. CopiesOf(D, H[h]) /\ H[h].id # H[h].sub /\ PlaceFree(D, H[h]) /\ SizesOf(w, H[h])
    BY <1>2, <1>4, <1>5
  <2> QED
    BY <2>1, <2>2, <2>3 DEF HandleGood
<1> QED
  BY <1>2, <1>6, <1>8

LEMMA OpenStep ==
  ASSUME IndInv, Orderly, NEW e \in disk.cat, NEW h \in load.handles, Open(e, h)
  PROVE  IndInv'
<1>0. /\ phase = "up" /\ Settled /\ Sound(disk) /\ WantsSound /\ HandlesSound /\ Resolving(disk) /\ Fresh
      /\ disk \in Disks
  BY UpSettled DEF Open, IndInv, Sound
<1>1. h \notin DOMAIN handles /\ ~e.isdir /\ ~Held(e.id)
  BY DEF Open, Usable, Orderly
<1>2. e.id \in Known(disk) /\ e.id \notin DirInodes(disk) /\ e.id \in Ids /\ disk.inodes[e.id] \in InodeRecord
  BY <1>0, <1>1, DiskParts DEF Resolving
<1>3. PICK ino \in InodeRecord : ino = disk.inodes[e.id]
  BY <1>2
<1>4. PICK H : H = Bind(handles, h, Handle(e.id, ino))
  OBVIOUS
<1>5. PICK D : D = disk
  OBVIOUS
<1>6. PICK w : w = want
  OBVIOUS
<1>7. /\ handles' = H /\ disk' = D /\ want' = w /\ nextId' = nextId /\ failures' = failures
      /\ UNCHANGED <<phase, load>>
  BY <1>3, <1>4, <1>5, <1>6 DEF Open
<1>8. /\ HandleGood(H, D, w, h) /\ H \in HandleMaps
      /\ DOMAIN H = DOMAIN handles \cup {h} /\ e.id \in Holds(H[h])
      /\ \A g \in DOMAIN handles : H[g] = handles[g]
  <2>1. e.id \in Known(D) /\ e.id \notin DirInodes(D) /\ D.inodes[e.id] = ino /\ w[e.id] = ino.size
    BY <1>0, <1>1, <1>2, <1>3, <1>5, <1>6 DEF WantsSound
  <2>2. PICK c : c = Handle(e.id, ino) /\ H = Bind(handles, h, c)
    BY <1>4
  <2> QED
    BY <1>0, <1>1, <1>2, <1>4, <2>1, <2>2, NewHandleGood
<1>9. ASSUME NEW g \in DOMAIN handles PROVE HandleSame(H, D, w, g)
  <2>1. \A i \in Holds(handles[g]) : i \in Ids /\ Held(i)
    BY DEF Holds, Held
  <2>2. \A i \in Holds(handles[g]) : i \in Known(D)
    BY <1>0, <1>5, <2>1, HeldAreFiles
  <2> QED
    BY <1>0, <1>5, <1>6, <1>8, <2>2 DEF HandleSame, Settled
<1>10. \A g \in DOMAIN H : HandleGood(H, D, w, g) \/ HandleSame(H, D, w, g)
  BY <1>8, <1>9
<1>11. ASSUME NEW i \in Known(D), \A g \in DOMAIN H : i \notin Holds(H[g]) PROVE D.inodes[i].size = w[i]
  <2>1. i \in Ids /\ i \in Known(disk)
    BY <1>0, <1>5, DiskParts
  <2>2. ~Held(i)
    BY <1>8, <1>11, <2>1, HeldIsHolds
  <2> QED
    BY <1>0, <1>5, <1>6, <2>1, <2>2 DEF WantsSound
<1>12. \A i \in Known(D) : (\A g \in DOMAIN H : i \notin Holds(H[g])) => D.inodes[i].size = w[i]
  BY <1>11
<1>13. nextId' \in 3 .. MaxId + 1 /\ failures' \in 0 .. load.failures /\ \A i \in Known(D) : i < nextId'
  <2>1. \A i \in Known(D) : i < nextId
    BY <1>0, <1>5 DEF Fresh
  <2> QED
    BY <1>7, <2>1, Numbers DEF IndInv
<1>14. Sound(D) /\ (failures' = 0 => Exact(D) /\ Owned(D))
  BY <1>5, <1>7 DEF IndInv
<1>15. w \in [Ids -> {0, 1}] /\ \A i \in Ids \ Known(D) : w[i] = 0
  BY <1>0, <1>5, <1>6 DEF WantsSound
<1> QED
  BY <1>0, <1>7, <1>8, <1>10, <1>12, <1>13, <1>14, <1>15, CallStep

(* The inode of a file nobody holds is put. *)
LEMMA PathStep ==
  ASSUME IndInv, Settled, phase = "up", NEW e \in disk.cat, ~Held(e.id), e.id \notin DirInodes(disk),
         NEW ino \in InodeRecord, ino.type = disk.inodes[e.id].type, ino.ref = disk.inodes[e.id].ref,
         disk' = Put(disk, e.id, ino), NEW w, want' = w, w = [want EXCEPT ![e.id] = ino.size],
         UNCHANGED <<nextId, handles, phase, failures, load>>
  PROVE  IndInv'
<1>0. /\ Sound(disk) /\ WantsSound /\ HandlesSound /\ Resolving(disk) /\ Fresh /\ disk \in Disks
      /\ load \in Workloads
  BY Numbers DEF IndInv, Sound
<1>1. e.id \in Known(disk) /\ e.id \in Ids /\ ino.type # "dir"
  BY <1>0, DiskParts DEF Resolving, DirInodes
<1>2. PICK D : D = Put(disk, e.id, ino)
  OBVIOUS
<1>3. PICK H : H = handles
  OBVIOUS
<1>4. /\ Sound(D) /\ Known(D) = Known(disk)
      /\ D.inodes[e.id] = ino /\ \A k \in Known(disk) : k # e.id => D.inodes[k] = disk.inodes[k]
      /\ Exact(disk) => Exact(D)
      /\ Owned(disk) => Owned(D)
  BY <1>0, <1>1, <1>2, PutCopy
<1>5. /\ handles' = H /\ disk' = D /\ nextId' = nextId /\ failures' = failures /\ UNCHANGED <<phase, load>>
  BY <1>2, <1>3
<1>6. H \in HandleMaps
  BY <1>0, <1>3 DEF HandlesSound
<1>7. want \in [Ids -> {0, 1}] /\ ino.size \in {0, 1}
  BY <1>0 DEF WantsSound, InodeRecord
<1>8. w \in [Ids -> {0, 1}] /\ w[e.id] = ino.size /\ \A i \in Ids : i # e.id => w[i] = want[i]
  BY <1>1, <1>7
<1>9. ASSUME NEW g \in DOMAIN H PROVE HandleSame(H, D, w, g)
  <2>1. \A i \in Holds(handles[g]) : i \in Ids /\ Held(i) /\ i # e.id
    BY <1>3 DEF Holds, Held
  <2>2. \A i \in Holds(handles[g]) : i \in Known(disk)
    BY <1>0, <2>1, HeldAreFiles
  <2> QED
    BY <1>3, <1>4, <1>8, <2>1, <2>2 DEF HandleSame, Settled
<1>10. ASSUME NEW i \in Known(D), \A g \in DOMAIN H : i \notin Holds(H[g]) PROVE D.inodes[i].size = w[i]
  <2>1. i \in Ids /\ i \in Known(disk)
    BY <1>0, <1>4, DiskParts
  <2>2. ~Held(i)
    BY <1>3, <1>10, <2>1, HeldIsHolds
  <2>3. i # e.id => disk.inodes[i].size = want[i]
    BY <1>0, <2>1, <2>2 DEF WantsSound
  <2> QED
    BY <1>4, <1>8, <2>1, <2>3
<1>11. \A i \in Known(D) : (\A g \in DOMAIN H : i \notin Holds(H[g])) => D.inodes[i].size = w[i]
  BY <1>10
<1>12. nextId' \in 3 .. MaxId + 1 /\ failures' \in 0 .. load.failures /\ \A i \in Known(D) : i < nextId'
  <2>1. \A i \in Known(D) : i < nextId
    BY <1>0, <1>4 DEF Fresh
  <2> QED
    BY <1>5, <2>1, Numbers DEF IndInv
<1>13. failures' = 0 => Exact(D) /\ Owned(D)
  BY <1>4, <1>5 DEF IndInv
<1>14. \A i \in Ids \ Known(D) : w[i] = 0
  BY <1>0, <1>1, <1>4, <1>8 DEF WantsSound
<1>15. \A g \in DOMAIN H : HandleGood(H, D, w, g) \/ HandleSame(H, D, w, g)
  BY <1>9
<1> QED
  BY <1>4, <1>5, <1>6, <1>8, <1>11, <1>12, <1>13, <1>14, <1>15, CallStep

LEMMA TruncatePathStep ==
  ASSUME IndInv, Orderly, NEW e \in disk.cat, NEW s \in {0, 1}, TruncatePath(e, s)
  PROVE  IndInv'
<1>0. phase = "up" /\ Settled /\ disk \in Disks /\ ~Held(e.id)
  BY UpSettled DEF TruncatePath, IndInv, Sound, Usable, Orderly
<1>1. e.id \in Known(disk) /\ disk.inodes[e.id].type # "dir"
  BY DEF TruncatePath, Known
<1>2. PICK old \in InodeRecord : old = disk.inodes[e.id]
  BY <1>0, <1>1, DiskParts
<1>3. PICK ino : ino = [old EXCEPT !.size = s]
  OBVIOUS
<1>4. ino \in InodeRecord /\ ino.type = old.type /\ ino.ref = old.ref /\ ino.size = s
  BY <1>3 DEF InodeRecord
<1>5. disk' = [disk EXCEPT !.inodes = [disk.inodes EXCEPT ![e.id] = ino]]
  BY <1>2, <1>3 DEF TruncatePath
<1>6. disk' = Put(disk, e.id, ino)
  BY <1>0, <1>1, <1>4, <1>5, ChangedInode
<1>7. e.id \notin DirInodes(disk)
  BY <1>1 DEF DirInodes
<1>8. PICK w : w = [want EXCEPT ![e.id] = ino.size]
  OBVIOUS
<1>9. want' = w /\ UNCHANGED <<nextId, handles, phase, failures, load>>
  BY <1>4, <1>8 DEF TruncatePath
<1> QED
  BY <1>0, <1>2, <1>4, <1>6, <1>7, <1>8, <1>9, PathStep

LEMMA SetAttrStep ==
  ASSUME IndInv, Orderly, NEW e \in disk.cat, NEW m \in {0, 1}, SetAttr(e, m)
  PROVE  IndInv'
<1>0. phase = "up" /\ Settled /\ disk \in Disks /\ ~Held(e.id) /\ WantsSound
  BY UpSettled DEF SetAttr, IndInv, Sound, Usable, Orderly
<1>1. e.id \in Known(disk) /\ disk.inodes[e.id].type = "reg"
  BY DEF SetAttr, Known
<1>2. PICK old \in InodeRecord : old = disk.inodes[e.id]
  BY <1>0, <1>1, DiskParts
<1>3. PICK ino : ino = [old EXCEPT !.mode = m]
  OBVIOUS
<1>4. ino \in InodeRecord /\ ino.type = old.type /\ ino.ref = old.ref /\ ino.size = old.size
  BY <1>3 DEF InodeRecord
<1>5. disk' = [disk EXCEPT !.inodes = [disk.inodes EXCEPT ![e.id] = ino]]
  BY <1>2, <1>3 DEF SetAttr
<1>6. disk' = Put(disk, e.id, ino)
  BY <1>0, <1>1, <1>4, <1>5, ChangedInode
<1>7. e.id \notin DirInodes(disk)
  BY <1>1 DEF DirInodes
<1>8. PICK w : w = want
  OBVIOUS
<1>9. want' = w /\ UNCHANGED <<nextId, handles, phase, failures, load>>
  BY <1>8 DEF SetAttr
<1>10. w = [want EXCEPT ![e.id] = ino.size]
  <2>1. want[e.id] = ino.size /\ want \in [Ids -> {0, 1}]
    BY <1>0, <1>1, <1>2, <1>4 DEF WantsSound
  <2> QED
    BY <1>8, <2>1
<1> QED
  BY <1>0, <1>2, <1>4, <1>6, <1>7, <1>9, <1>10, PathStep

(* Only tags or the junk map change. *)
LEMMA TagStep ==
  ASSUME IndInv, Settled, phase = "up", NEW D \in Disks, disk' = D, D.cat = disk.cat, D.inodes = disk.inodes,
         D.next_inode_id = disk.next_inode_id, Owned(disk) => Owned(D),
         UNCHANGED <<nextId, handles, phase, want, failures, load>>
  PROVE  IndInv'
<1>0. Sound(disk) /\ HandlesSound /\ WantsSound
  BY DEF IndInv
<1>1. Sound(D) /\ Kept(D)
  BY <1>0, SameTrees, KeptDisk, KeptSame
<1>2. Forget
  BY <1>0, WantForgets DEF WantsSound, Known
<1>3. Exact(disk) => Exact(D)
  BY DEF Exact, Tallied, Unambiguous, NamesOf, Known
<1>4. failures' = 0 => Exact(D) /\ Owned(D)
  BY <1>3 DEF IndInv
<1>5. nextId' \in 3 .. MaxId + 1 /\ nextId' >= nextId /\ failures' \in 0 .. load.failures
  BY Numbers DEF IndInv
<1> QED
  BY <1>1, <1>2, <1>4, <1>5, TreeStep

LEMMA SetTagStep ==
  ASSUME IndInv, Orderly, NEW i \in Known(disk), NEW type, type = disk.inodes[i].type, SetTag(i, type)
  PROVE  IndInv'
<1>0. phase = "up" /\ Settled /\ disk \in Disks
  BY UpSettled DEF SetTag, IndInv, Sound
<1>1. type \in {"media", "nintendo", "ps3"}
  BY DEF SetTag, IsImage, Images, Orderly
<1>2. PICK T \in SUBSET Ids : T = disk.tags \cup {i}
  BY <1>0, DiskParts
<1>3. PICK D : D = [disk EXCEPT !.tags = T]
  OBVIOUS
<1>4. /\ D \in Disks /\ D.cat = disk.cat /\ D.inodes = disk.inodes /\ Known(D) = Known(disk)
      /\ D.tags = T /\ D.junk = disk.junk /\ D.next_inode_id = disk.next_inode_id
  BY <1>0, <1>3, TagParts
<1>5. Owned(disk) => Owned(D)
  BY <1>1, <1>2, <1>4 DEF Owned
<1>6. disk' = D /\ UNCHANGED <<nextId, handles, phase, want, failures, load>>
  BY <1>2, <1>3 DEF SetTag
<1> QED
  BY <1>0, <1>4, <1>5, <1>6, TagStep

LEMMA IoctlTagStep ==
  ASSUME IndInv, Orderly, NEW h \in DOMAIN handles, IoctlTag(h)
  PROVE  IndInv'
<1>1. PICK c : c = handles[h]
  OBVIOUS
<1>2. SetTag(c.id, c.ino.type) /\ Settled
  BY <1>1, UpSettled DEF IoctlTag, SetTag
<1>3. c.id \in Known(disk) /\ c.ino.type = disk.inodes[c.id].type
  BY <1>1, <1>2, HandleFacts
<1> QED
  BY <1>2, <1>3, SetTagStep

LEMMA SetxattrStep ==
  ASSUME IndInv, Orderly, NEW e \in disk.cat, Setxattr(e)
  PROVE  IndInv'
<1>1. e.id \in Known(disk) /\ SetTag(e.id, disk.inodes[e.id].type)
  BY DEF Setxattr, Known
<1>2. PICK i \in Known(disk) : i = e.id
  BY <1>1
<1>3. PICK t : t = disk.inodes[i].type
  OBVIOUS
<1> QED
  BY <1>1, <1>2, <1>3, SetTagStep

LEMMA RemovexattrStep ==
  ASSUME IndInv, Orderly, NEW e \in disk.cat, Removexattr(e)
  PROVE  IndInv'
<1>0. phase = "up" /\ Settled /\ disk \in Disks
  BY UpSettled DEF Removexattr, IndInv, Sound
<1>1. PICK T \in SUBSET Ids : T = disk.tags \ {e.id}
  BY <1>0, DiskParts
<1>2. PICK D : D = [disk EXCEPT !.tags = T]
  OBVIOUS
<1>3. /\ D \in Disks /\ D.cat = disk.cat /\ D.inodes = disk.inodes /\ Known(D) = Known(disk)
      /\ D.tags = T /\ D.junk = disk.junk /\ D.next_inode_id = disk.next_inode_id
  BY <1>0, <1>2, TagParts
<1>4. Owned(disk) => Owned(D)
  BY <1>1, <1>3 DEF Owned
<1>5. disk' = D /\ UNCHANGED <<nextId, handles, phase, want, failures, load>>
  BY <1>1, <1>2 DEF Removexattr
<1> QED
  BY <1>0, <1>3, <1>4, <1>5, TagStep

LEMMA AddJunkStep ==
  ASSUME IndInv, Orderly, NEW h \in DOMAIN handles, AddJunk(h)
  PROVE  IndInv'
<1>0. phase = "up" /\ Settled /\ disk \in Disks
  BY UpSettled DEF AddJunk, IndInv, Sound
<1>1. PICK c : c = handles[h]
  OBVIOUS
<1>2. c.id \in Known(disk) /\ disk.inodes[c.id].type = "nintendo" /\ c.id \in Ids
  <2>1. c.id \in Known(disk) /\ c.ino.type = disk.inodes[c.id].type /\ c.id \in Ids
    BY <1>0, <1>1, HandleFacts
  <2> QED
    BY <1>1, <2>1 DEF AddJunk
<1>3. PICK T \in SUBSET Ids : T = disk.junk \cup {c.id}
  BY <1>0, <1>2, DiskParts
<1>4. PICK D : D = [disk EXCEPT !.junk = T]
  OBVIOUS
<1>5. /\ D \in Disks /\ D.cat = disk.cat /\ D.inodes = disk.inodes /\ Known(D) = Known(disk)
      /\ D.tags = disk.tags /\ D.junk = T /\ D.next_inode_id = disk.next_inode_id
  BY <1>0, <1>4, TagParts
<1>6. Owned(disk) => Owned(D)
  BY <1>2, <1>3, <1>5 DEF Owned
<1>7. disk' = D /\ UNCHANGED <<nextId, handles, phase, want, failures, load>>
  BY <1>1, <1>3, <1>4 DEF AddJunk
<1> QED
  BY <1>0, <1>5, <1>6, <1>7, TagStep

(* copy_file_range puts the inodes of two handles. *)
LEMMA CloneStep ==
  ASSUME IndInv, Orderly, NEW h \in DOMAIN handles, NEW g \in DOMAIN handles, Clone(h, g)
  PROVE  IndInv'
<1>0. /\ phase = "up" /\ Settled /\ Sound(disk) /\ WantsSound /\ HandlesSound /\ load \in Workloads /\ Fresh
      /\ disk \in Disks /\ h # g
  BY UpSettled, Numbers DEF Clone, IndInv, Sound
<1>1. PICK c : c = handles[h]
  OBVIOUS
<1>2. PICK d : d = handles[g]
  OBVIOUS
<1>3. /\ c \in HandleRecord /\ CopiesOf(disk, c) /\ SizesOf(want, c) /\ c.id # c.sub /\ c.sub # Missing
      /\ c.id \in Known(disk) /\ c.id \notin DirInodes(disk) /\ c.id \in Ids /\ c.id \in Holds(c)
      /\ c.ino.type = disk.inodes[c.id].type /\ c.ino.ref = disk.inodes[c.id].ref /\ c.ino.type # "dir"
      /\ c.ino \in InodeRecord
      /\ \A f \in DOMAIN handles : f # h => c.sub \notin Holds(handles[f]) /\ c.id \notin Holds(handles[f])
  BY <1>0, <1>1, HandleFacts
<1>4. /\ d \in HandleRecord /\ CopiesOf(disk, d) /\ SizesOf(want, d) /\ d.id # d.sub /\ d.sub # Missing
      /\ d.id \in Known(disk) /\ d.id \notin DirInodes(disk) /\ d.id \in Ids /\ d.id \in Holds(d)
      /\ d.ino.type = disk.inodes[d.id].type /\ d.ino.ref = disk.inodes[d.id].ref /\ d.ino.type # "dir"
      /\ d.ino \in InodeRecord
      /\ \A f \in DOMAIN handles : f # g => d.sub \notin Holds(handles[f]) /\ d.id \notin Holds(handles[f])
  BY <1>0, <1>2, HandleFacts
<1>5. c.id # d.id /\ c.sub # d.id /\ d.sub # c.id
  BY <1>0, <1>1, <1>2, <1>3, <1>4 DEF Holds
<1>6. PICK no \in BOOLEAN : no = FALSE
  OBVIOUS
<1>7. PICK s \in {0, 1} : s = 1
  OBVIOUS
<1>8. PICK a : a = [c EXCEPT !.dirty = no]
  OBVIOUS
<1>9. PICK b : b = Sized(d, s, no)
  OBVIOUS
<1>10. /\ a \in HandleRecord /\ a.id = c.id /\ a.sub = c.sub /\ a.ino = c.ino
       /\ a.subino = c.subino /\ a.subdirty = c.subdirty
  BY <1>3, <1>8 DEF HandleRecord
<1>11. /\ b \in HandleRecord /\ b.id = d.id /\ b.sub = d.sub
       /\ b.subino = d.subino /\ b.subdirty = d.subdirty
       /\ b.ino \in InodeRecord /\ b.ino.size = s /\ b.ino.type = d.ino.type /\ b.ino.ref = d.ino.ref
  BY <1>4, <1>9, Resized
<1>12. PICK A : A = Put(disk, c.id, c.ino)
  OBVIOUS
<1>13. /\ Sound(A) /\ Known(A) = Known(disk) /\ DirInodes(A) = DirInodes(disk)
       /\ A.inodes[c.id] = c.ino /\ \A k \in Known(disk) : k # c.id => A.inodes[k] = disk.inodes[k]
       /\ Exact(disk) => Exact(A)
       /\ Owned(disk) => Owned(A)
  BY <1>0, <1>3, <1>12, PutCopy
<1>14. PICK D : D = Put(A, d.id, b.ino)
  OBVIOUS
<1>15. /\ Sound(D) /\ Known(D) = Known(A) /\ DirInodes(D) = DirInodes(A)
       /\ D.inodes[d.id] = b.ino /\ \A k \in Known(A) : k # d.id => D.inodes[k] = A.inodes[k]
       /\ Exact(A) => Exact(D)
       /\ Owned(A) => Owned(D)
  <2>1. /\ d.id \in Known(A) /\ d.id \notin DirInodes(A) /\ b.ino.type # "dir" /\ b.ino.ref = A.inodes[d.id].ref
        /\ b.ino.type = A.inodes[d.id].type
    BY <1>4, <1>5, <1>11, <1>13
  <2> QED
    BY <1>0, <1>11, <1>13, <1>14, <2>1, PutCopy
<1>16. CopiesOf(A, a)
  BY <1>3, <1>10, <1>13, CopiesPut
<1>17. CopiesOf(A, d)
  BY <1>4, <1>5, <1>13 DEF CopiesOf, Copy
<1>18. CopiesOf(D, b)
  BY <1>4, <1>11, <1>15, <1>17, CopiesPut
<1>19. CopiesOf(D, a)
  BY <1>5, <1>10, <1>15, <1>16 DEF CopiesOf, Copy
<1>20. PICK H : H = [handles EXCEPT ![h] = a, ![g] = b]
  OBVIOUS
<1>21. /\ DOMAIN H = DOMAIN handles /\ H[h] = a /\ H[g] = b
       /\ \A f \in DOMAIN handles : f # h /\ f # g => H[f] = handles[f]
  BY <1>0, <1>20
<1>22. H \in HandleMaps
  <2>1. DOMAIN handles \in SUBSET load.handles /\ handles \in [DOMAIN handles -> HandleRecord]
    BY <1>0, HandleTyped
  <2>2. H \in [DOMAIN handles -> HandleRecord]
    BY <1>10, <1>11, <1>20, <2>1
  <2> QED
    BY <2>1, <2>2 DEF HandleMaps
<1>23. PICK w : w = [want EXCEPT ![d.id] = s]
  OBVIOUS
<1>24. w \in [Ids -> {0, 1}] /\ w[d.id] = s /\ \A i \in Ids : i # d.id => w[i] = want[i]
  BY <1>0, <1>4, <1>23 DEF WantsSound
<1>25. \A f \in DOMAIN handles : Holds(H[f]) = Holds(handles[f])
  BY <1>1, <1>2, <1>10, <1>11, <1>21 DEF Holds
<1>26. /\ handles' = H /\ disk' = D /\ want' = w /\ nextId' = nextId /\ failures' = failures
       /\ UNCHANGED <<phase, load>>
  <2>1. [handles[h] EXCEPT !.dirty = FALSE] = a /\ [handles[g] EXCEPT !.ino.size = 1, !.dirty = FALSE] = b
    BY <1>1, <1>2, <1>6, <1>7, <1>8, <1>9 DEF Sized
  <2> QED
    BY <1>7, <1>10, <1>11, <1>12, <1>14, <1>20, <1>23, <2>1 DEF Clone
<1>27. \A e, f \in DOMAIN H : e # f => Holds(H[e]) \cap Holds(H[f]) = {}
  BY <1>0, <1>21, <1>25 DEF HandlesSound, HoldersSound
<1>28. HandleGood(H, D, w, h)
  <2>1. SizesOf(w, a) /\ PlaceFree(D, a) /\ a.id # a.sub /\ a.sub # Missing
    BY <1>3, <1>5, <1>10, <1>24 DEF SizesOf, PlaceFree
  <2> QED
    BY <1>19, <1>21, <1>27, <2>1 DEF HandleGood
<1>29. HandleGood(H, D, w, g)
  <2>1. SizesOf(w, b) /\ PlaceFree(D, b) /\ b.id # b.sub /\ b.sub # Missing
    BY <1>4, <1>11, <1>24 DEF SizesOf, PlaceFree
  <2> QED
    BY <1>18, <1>21, <1>27, <2>1 DEF HandleGood
<1>30. ASSUME NEW f \in DOMAIN H, f # h, f # g PROVE HandleSame(H, D, w, f)
  <2>1. f \in DOMAIN handles /\ H[f] = handles[f] /\ handles[f].sub # Missing
    BY <1>0, <1>21, <1>30 DEF Settled
  <2>2. ASSUME NEW i \in Holds(handles[f])
        PROVE  i \in Known(D) /\ D.inodes[i] = disk.inodes[i] /\ w[i] = want[i]
    <3>1. i \in Ids /\ i # c.id /\ i # d.id /\ Held(i)
      BY <1>3, <1>4, <1>30, <2>1 DEF Holds, Held
    <3>2. i \in Known(disk)
      BY <1>0, <3>1, HeldAreFiles
    <3> QED
      BY <1>13, <1>15, <1>24, <3>1, <3>2
  <2> QED
    BY <2>1, <2>2 DEF HandleSame
<1>31. \A f \in DOMAIN H : HandleGood(H, D, w, f) \/ HandleSame(H, D, w, f)
  BY <1>28, <1>29, <1>30
<1>32. ASSUME NEW i \in Known(D), \A f \in DOMAIN H : i \notin Holds(H[f]) PROVE D.inodes[i].size = w[i]
  <2>1. i \in Known(disk) /\ i \in Ids
    BY <1>0, <1>13, <1>15, DiskParts
  <2>2. ~Held(i)
    BY <1>21, <1>25, <1>32, <2>1, HeldIsHolds
  <2>3. i # c.id /\ i # d.id
    BY <1>1, <1>2, <2>2 DEF Held
  <2>4. disk.inodes[i].size = want[i]
    BY <1>0, <2>1, <2>2 DEF WantsSound
  <2> QED
    BY <1>13, <1>15, <1>24, <2>1, <2>3, <2>4
<1>33. \A i \in Known(D) : (\A f \in DOMAIN H : i \notin Holds(H[f])) => D.inodes[i].size = w[i]
  BY <1>32
<1>34. nextId' \in 3 .. MaxId + 1 /\ failures' \in 0 .. load.failures /\ \A i \in Known(D) : i < nextId'
  <2>1. \A i \in Known(D) : i < nextId
    BY <1>0, <1>13, <1>15 DEF Fresh
  <2> QED
    BY <1>26, <2>1, Numbers DEF IndInv
<1>35. failures' = 0 => Exact(D) /\ Owned(D)
  BY <1>13, <1>15, <1>26 DEF IndInv
<1>36. \A i \in Ids \ Known(D) : w[i] = 0
  BY <1>0, <1>4, <1>13, <1>15, <1>24 DEF WantsSound
<1> QED
  BY <1>0, <1>15, <1>22, <1>24, <1>26, <1>31, <1>33, <1>34, <1>35, <1>36, CallStep

-----------------------------------------------------------------------------
(* The steps of handlers that make inodes.                                  *)

(* Taking the inode back leaves what was there. *)
LEMMA RolledBack ==
  ASSUME NEW D \in Disks, NEW i \in Ids, i \notin Known(D), NEW ino \in InodeRecord
  PROVE  DeleteInode(Put(D, i, ino), i) = D
<1>1. PICK P : P = Put(D, i, ino)
  OBVIOUS
<1>2. PICK R : R = DeleteInode(P, i)
  OBVIOUS
<1>3. /\ P \in Disks /\ P.cat = D.cat /\ P.tags = D.tags /\ P.junk = D.junk /\ P.next_inode_id = D.next_inode_id
      /\ Known(P) = Known(D) \cup {i}
      /\ \A k \in Known(D) \cup {i} : P.inodes[k] = IF k = i THEN ino ELSE D.inodes[k]
  BY <1>1, PutParts
<1>4. /\ R \in Disks /\ R.cat = P.cat /\ R.tags = P.tags /\ R.junk = P.junk /\ R.next_inode_id = P.next_inode_id
      /\ Known(R) = Known(P) \ {i} /\ \A k \in Known(P) \ {i} : R.inodes[k] = P.inodes[k]
  BY <1>2, <1>3, DeleteInodeParts
<1>5. Known(R) = Known(D) /\ \A k \in Known(D) : R.inodes[k] = D.inodes[k]
  BY <1>3, <1>4
<1>6. R.inodes = D.inodes
  <2>1. R.inodes = [k \in Known(R) |-> R.inodes[k]]
    BY <1>4, DiskParts
  <2>2. D.inodes = [k \in Known(D) |-> D.inodes[k]]
    BY DiskParts
  <2> QED
    BY <1>5, <2>1, <2>2
<1>7. R = D
  BY <1>3, <1>4, <1>6 DEF Disks
<1> QED
  BY <1>1, <1>2, <1>7

(* The contents with a new inode and its name. *)
Made(d, n, ino, E) == E = Insert(Put(disk, nextId, ino), Entry(d, n, nextId, ino.type = "dir"))

(* The size expected of the new inode. *)
Aims(w, s) == w = [want EXCEPT ![nextId] = s]

(* An inode and its name have been made; the handles of H are those there   *)
(* were, or are right about the new contents.                               *)
LEMMA MadeStep ==
  ASSUME IndInv, phase = "up", nextId <= MaxId, NEW d \in Dirs(disk), NEW n \in Names, Lookup(d, n) = {},
         NEW ino \in InodeRecord, ino.ref = 1, ino.type = "dir" => ino.size = 0,
         n # LostFound, n[1] = "sub" => ino.type # "dir",
         NEW E, Made(d, n, ino, E),
         NEW w, Aims(w, ino.size),
         NEW H \in HandleMaps, handles' = H, disk' = E, want' = w, nextId' = nextId + 1,
         UNCHANGED <<phase, failures, load>>,
         \A h \in DOMAIN handles : h \in DOMAIN H /\ Holds(handles[h]) \subseteq Holds(H[h]),
         \A h \in DOMAIN H : \/ HandleGood(H, E, w, h)
                             \/ h \in DOMAIN handles /\ H[h] = handles[h] /\ handles[h].sub # Missing
  PROVE  IndInv'
<1>0. /\ Sound(disk) /\ WantsSound /\ HandlesSound /\ Fresh /\ disk \in Disks /\ Known(disk) \subseteq Ids
      /\ nextId \in Nat /\ nextId \in 3 .. MaxId + 1 /\ MaxId \in Nat /\ Ids \subseteq Nat
  BY Numbers, DiskParts DEF IndInv, Sound
<1>1. PICK P : P = Put(disk, nextId, ino)
  OBVIOUS
<1>2. /\ nextId \in Ids \ Known(disk) /\ Sound(E)
      /\ Known(P) = Known(disk) \cup {nextId}
      /\ E.inodes = P.inodes /\ P.inodes[nextId] = ino
      /\ \A i \in Known(disk) : P.inodes[i] = disk.inodes[i]
      /\ Exact(disk) => Exact(E)
      /\ Owned(disk) => Owned(E)
  BY <1>1, MakeSound DEF Made
<1>3. Known(E) = Known(disk) \cup {nextId} /\ E.inodes[nextId] = ino /\ \A i \in Known(disk) : E.inodes[i] = disk.inodes[i]
  BY <1>2 DEF Known
<1>4. want \in [Ids -> {0, 1}] /\ ino.size \in {0, 1}
  BY <1>0 DEF WantsSound, InodeRecord
<1>5. w \in [Ids -> {0, 1}] /\ w[nextId] = ino.size /\ \A i \in Ids : i # nextId => w[i] = want[i]
  BY <1>2, <1>4 DEF Aims
<1>6. ASSUME NEW h \in DOMAIN H, h \in DOMAIN handles, H[h] = handles[h], handles[h].sub # Missing
      PROVE  HandleSame(H, E, w, h)
  <2>1. ASSUME NEW i \in Holds(handles[h])
        PROVE  i \in Known(E) /\ E.inodes[i] = disk.inodes[i] /\ w[i] = want[i]
    <3>1. i \in Ids /\ Held(i)
      BY <1>6 DEF Holds, Held
    <3>2. i \in Known(disk) /\ i # nextId
      BY <1>0, <1>2, <3>1, HeldAreFiles
    <3> QED
      BY <1>3, <1>5, <3>1, <3>2
  <2> QED
    BY <1>6, <2>1 DEF HandleSame
<1>7. \A h \in DOMAIN H : HandleGood(H, E, w, h) \/ HandleSame(H, E, w, h)
  BY <1>6
<1>8. ASSUME NEW i \in Known(E), \A h \in DOMAIN H : i \notin Holds(H[h]) PROVE E.inodes[i].size = w[i]
  <2>1. CASE i = nextId
    BY <1>3, <1>5, <2>1
  <2>2. CASE i # nextId
    <3>1. i \in Known(disk) /\ i \in Ids
      BY <1>0, <1>3, <2>2
    <3>2. \A h \in DOMAIN handles : i \notin Holds(handles[h])
      BY <1>8
    <3>3. ~Held(i)
      BY <3>1, <3>2, HeldIsHolds
    <3>4. disk.inodes[i].size = want[i]
      BY <1>0, <3>1, <3>3 DEF WantsSound
    <3> QED
      BY <1>3, <1>5, <2>2, <3>1, <3>4
  <2> QED
    BY <2>1, <2>2
<1>9. \A i \in Known(E) : (\A h \in DOMAIN H : i \notin Holds(H[h])) => E.inodes[i].size = w[i]
  BY <1>8
<1>10. nextId' \in 3 .. MaxId + 1 /\ \A i \in Known(E) : i < nextId'
  <2>1. nextId' = nextId + 1 /\ nextId' \in 3 .. MaxId + 1
    BY <1>0
  <2>2. ASSUME NEW i \in Known(E) PROVE i < nextId'
    <3>1. CASE i = nextId
      BY <1>0, <2>1, <3>1
    <3>2. CASE i # nextId
      <4>1. i \in Nat /\ i < nextId
        BY <1>0, <1>3, <3>2 DEF Fresh
      <4> QED
        BY <1>0, <2>1, <4>1
    <3> QED
      BY <3>1, <3>2
  <2> QED
    BY <2>1, <2>2
<1>11. failures' \in 0 .. load.failures /\ (failures' = 0 => Exact(E) /\ Owned(E)) /\ UNCHANGED <<phase, load>>
  <2>1. failures' = failures /\ failures \in 0 .. load.failures
    BY Numbers DEF IndInv
  <2>2. failures = 0 => Exact(E) /\ Owned(E)
    BY <1>2 DEF IndInv
  <2> QED
    BY <2>1, <2>2
<1>12. \A i \in Ids \ Known(E) : w[i] = 0
  BY <1>0, <1>3, <1>5 DEF WantsSound
<1>13. Sound(E) /\ w \in [Ids -> {0, 1}]
  BY <1>2, <1>5
<1> QED
  BY <1>7, <1>9, <1>10, <1>11, <1>12, <1>13, CallStep

(* The process dies between the inode and the name. *)
LEMMA MakeDies ==
  ASSUME IndInv, phase = "up", nextId <= MaxId, NEW d \in Dirs(disk), NEW n \in Names, Lookup(d, n) = {},
         NEW ino \in InodeRecord, ino.ref = 1, ino.type = "dir" => ino.size = 0,
         n # LostFound, n[1] = "sub" => ino.type # "dir", Dies(MakeWrites(d, n, nextId, ino))
  PROVE  IndInv'
<1>1. PICK P : P = Put(disk, nextId, ino)
  OBVIOUS
<1>2. PICK E : E = Insert(P, Entry(d, n, nextId, ino.type = "dir"))
  OBVIOUS
<1>3. Sound(P) /\ Sound(E)
  BY <1>1, <1>2, MakeSound
<1>4. Dies(<<P, E>>)
  BY <1>1, <1>2 DEF MakeWrites
<1> QED
  BY <1>3, <1>4, TwoWrites, DiesStep

(* The name cannot be inserted, and the inode is taken back. *)
LEMMA MakeUndone ==
  ASSUME IndInv, Settled, phase = "up", nextId <= MaxId, nextId \in Ids \ Known(disk),
         NEW ino \in InodeRecord, disk' = DeleteInode(Put(disk, nextId, ino), nextId),
         failures < load.failures, failures' = failures + 1, nextId' = nextId + 1,
         UNCHANGED <<handles, phase, want, load>>
  PROVE  IndInv'
<1>0. Sound(disk) /\ disk \in Disks /\ HandlesSound /\ WantsSound
  BY DEF IndInv, Sound
<1>1. PICK D : D = disk
  OBVIOUS
<1>2. disk' = D
  BY <1>0, <1>1, RolledBack
<1>3. Sound(D) /\ Kept(D)
  BY <1>0, <1>1, KeptDisk
<1>4. Forget
  BY <1>0, <1>1, <1>2, WantForgets DEF WantsSound
<1>5. nextId' \in 3 .. MaxId + 1 /\ nextId' >= nextId /\ failures' \in 0 .. load.failures /\ failures' # 0
  BY Numbers DEF IndInv
<1> QED
  BY <1>2, <1>3, <1>4, <1>5, TreeStep

(* How create, mkdir and symlink end when nothing fails. *)
Makes(d, n, ino, H) ==
    \E E, w :
      /\ Made(d, n, ino, E) /\ Aims(w, ino.size)
      /\ handles' = H /\ disk' = E /\ want' = w /\ nextId' = nextId + 1
      /\ UNCHANGED <<phase, failures, load>>

LEMMA MakeCases ==
  ASSUME IndInv, Orderly, NEW d, NEW n \in Given, NEW ino \in InodeRecord, ino.ref = 1,
         ino.type = "dir" => ino.size = 0, NEW H, Make(d, n, ino, H)
  PROVE  /\ phase = "up" /\ Settled /\ nextId <= MaxId /\ d \in Dirs(disk) /\ Lookup(d, n) = {}
         /\ n \in Names /\ n # LostFound /\ n[1] # "sub" /\ nextId \in Ids \ Known(disk)
         /\ IndInv' \/ Makes(d, n, ino, H)
<1>1. phase = "up" /\ Settled /\ nextId <= MaxId /\ d \in Dirs(disk) /\ Lookup(d, n) = {}
  BY UpSettled DEF Make
<1>2. n \in Names /\ n # LostFound /\ n[1] # "sub"
  BY GivenNames
<1>3. PICK P : P = Put(disk, nextId, ino)
  OBVIOUS
<1>4. PICK E : E = Insert(P, Entry(d, n, nextId, ino.type = "dir"))
  OBVIOUS
<1>5. nextId \in Ids \ Known(disk)
  BY <1>1, <1>2, <1>3, <1>4, MakeSound
<1>6. CASE Dies(MakeWrites(d, n, nextId, ino))
  <2>1. IndInv'
    BY <1>1, <1>2, <1>6, MakeDies
  <2> QED
    BY <1>1, <1>2, <1>5, <2>1
<1>7. CASE /\ failures < load.failures /\ failures' = failures + 1
           /\ disk' = MakeRollback(d, n, nextId, ino)
           /\ nextId' = nextId + 1 /\ UNCHANGED <<handles, phase, want, load>>
  <2>1. disk' = DeleteInode(Put(disk, nextId, ino), nextId)
    BY <1>7 DEF MakeRollback
  <2>2. IndInv'
    BY <1>1, <1>5, <1>7, <2>1, MakeUndone
  <2> QED
    BY <1>1, <1>2, <1>5, <2>2
<1>8. CASE Ends(MakeWrites(d, n, nextId, ino), H, nextId + 1) /\ want' = [want EXCEPT ![nextId] = ino.size]
  <2>1. /\ disk' = Last(MakeWrites(d, n, nextId, ino)) /\ handles' = H /\ nextId' = nextId + 1
        /\ UNCHANGED <<phase, failures, load>>
    BY <1>8 DEF Ends
  <2>2. disk' = E
    BY <1>3, <1>4, <2>1, TwoWrites DEF MakeWrites
  <2>3. Made(d, n, ino, E)
    BY <1>3, <1>4 DEF Made
  <2>4. Makes(d, n, ino, H)
    BY <1>8, <2>1, <2>2, <2>3 DEF Makes, Aims
  <2> QED
    BY <1>1, <1>2, <1>5, <2>4
<1> QED
  BY <1>6, <1>7, <1>8 DEF Make

(* mkdir and symlink leave the handles alone. *)
LEMMA MakeQuietStep ==
  ASSUME IndInv, Orderly, NEW d, NEW n \in Given, NEW ino \in InodeRecord, ino.ref = 1,
         ino.type = "dir" => ino.size = 0, Make(d, n, ino, handles)
  PROVE  IndInv'
<1>1. PICK H : H = handles
  OBVIOUS
<1>2. Make(d, n, ino, H) /\ H \in HandleMaps
  BY <1>1 DEF IndInv, HandlesSound
<1>3. /\ phase = "up" /\ Settled /\ nextId <= MaxId /\ d \in Dirs(disk) /\ Lookup(d, n) = {}
      /\ n \in Names /\ n # LostFound /\ n[1] # "sub" /\ nextId \in Ids \ Known(disk)
      /\ IndInv' \/ Makes(d, n, ino, H)
  BY <1>2, MakeCases
<1>4. CASE Makes(d, n, ino, H)
  <2>1. PICK E, w :
          /\ Made(d, n, ino, E) /\ Aims(w, ino.size)
          /\ handles' = H /\ disk' = E /\ want' = w /\ nextId' = nextId + 1
          /\ UNCHANGED <<phase, failures, load>>
    BY <1>4 DEF Makes
  <2>2. \A h \in DOMAIN handles : h \in DOMAIN H /\ Holds(handles[h]) \subseteq Holds(H[h])
    BY <1>1
  <2>3. \A h \in DOMAIN H : \/ HandleGood(H, E, w, h)
                            \/ h \in DOMAIN handles /\ H[h] = handles[h] /\ handles[h].sub # Missing
    BY <1>1, <1>3 DEF Settled
  <2>4. n[1] = "sub" => ino.type # "dir"
    BY <1>3
  <2> QED
    BY <1>2, <1>3, <2>1, <2>2, <2>3, <2>4, MadeStep
<1> QED
  BY <1>3, <1>4

LEMMA MkdirStep ==
  ASSUME IndInv, Orderly, NEW d, NEW n \in Given, Mkdir(d, n)
  PROVE  IndInv'
<1>1. PICK ino : ino = Inode("dir", 0)
  OBVIOUS
<1>2. ino \in InodeRecord /\ ino.ref = 1 /\ (ino.type = "dir" => ino.size = 0)
  BY <1>1 DEF Inode, InodeRecord, Types
<1>3. Make(d, n, ino, handles)
  BY <1>1 DEF Mkdir
<1> QED
  BY <1>2, <1>3, MakeQuietStep

LEMMA SymlinkStep ==
  ASSUME IndInv, Orderly, NEW d, NEW n \in Given, Symlink(d, n)
  PROVE  IndInv'
<1>1. PICK ino : ino = Inode("symlink", 1)
  OBVIOUS
<1>2. ino \in InodeRecord /\ ino.ref = 1 /\ (ino.type = "dir" => ino.size = 0)
  BY <1>1 DEF Inode, InodeRecord, Types
<1>3. Make(d, n, ino, handles)
  BY <1>1 DEF Symlink
<1> QED
  BY <1>2, <1>3, MakeQuietStep

LEMMA CreateStep ==
  ASSUME IndInv, Orderly, NEW d, NEW n \in Given, NEW h \in load.handles, NEW media \in BOOLEAN,
         Create(d, n, h, media)
  PROVE  IndInv'
<1>1. PICK ino : ino = Inode(IF media THEN "media" ELSE "reg", 0)
  OBVIOUS
<1>2. ino \in InodeRecord /\ ino.ref = 1 /\ ino.size = 0 /\ ino.type # "dir"
  BY <1>1 DEF Inode, InodeRecord, Types
<1>3. PICK c : c = Handle(nextId, ino)
  OBVIOUS
<1>4. PICK H : H = Bind(handles, h, c)
  OBVIOUS
<1>5. Make(d, n, ino, H) /\ h \notin DOMAIN handles
  BY <1>1, <1>3, <1>4 DEF Create
<1>6. /\ phase = "up" /\ Settled /\ nextId <= MaxId /\ d \in Dirs(disk) /\ Lookup(d, n) = {}
      /\ n \in Names /\ n # LostFound /\ n[1] # "sub" /\ nextId \in Ids \ Known(disk)
      /\ IndInv' \/ Makes(d, n, ino, H)
  BY <1>2, <1>5, MakeCases
<1>7. CASE Makes(d, n, ino, H)
  <2>1. PICK E, w :
          /\ Made(d, n, ino, E) /\ Aims(w, ino.size)
          /\ handles' = H /\ disk' = E /\ want' = w /\ nextId' = nextId + 1
          /\ UNCHANGED <<phase, failures, load>>
    BY <1>7 DEF Makes
  <2>2. HandlesSound /\ want \in [Ids -> {0, 1}]
    BY DEF IndInv, WantsSound
  <2>3. ~Held(nextId)
    BY <1>6, <2>2, HeldAreFiles
  <2>4. PICK P : P = Put(disk, nextId, ino)
    OBVIOUS
  <2>5. E.inodes = P.inodes /\ Known(P) = Known(disk) \cup {nextId} /\ P.inodes[nextId] = ino
    BY <1>2, <1>6, <2>1, <2>4, MakeSound DEF Made
  <2>6. nextId \in Known(E) /\ E.inodes[nextId] = ino /\ nextId \notin DirInodes(E)
    BY <1>2, <2>5 DEF Known, DirInodes
  <2>7. w[nextId] = ino.size
    BY <1>6, <2>1, <2>2 DEF Aims
  <2>8. /\ HandleGood(H, E, w, h) /\ H \in HandleMaps
        /\ DOMAIN H = DOMAIN handles \cup {h} /\ nextId \in Holds(H[h])
        /\ \A g \in DOMAIN handles : H[g] = handles[g]
    BY <1>2, <1>3, <1>4, <1>5, <1>6, <2>3, <2>6, <2>7, NewHandleGood
  <2>9. \A g \in DOMAIN handles : g \in DOMAIN H /\ Holds(handles[g]) \subseteq Holds(H[g])
    BY <2>8
  <2>10. \A g \in DOMAIN H : \/ HandleGood(H, E, w, g)
                             \/ g \in DOMAIN handles /\ H[g] = handles[g] /\ handles[g].sub # Missing
    BY <1>6, <2>8 DEF Settled
  <2>11. (n[1] = "sub" => ino.type # "dir") /\ (ino.type = "dir" => ino.size = 0) /\ H \in HandleMaps
    BY <1>2, <2>8
  <2> QED
    BY <1>2, <1>6, <2>1, <2>9, <2>10, <2>11, MadeStep
<1> QED
  BY <1>6, <1>7

-----------------------------------------------------------------------------
(* The creation of a sidecar.                                               *)

(* The handle that waits for its sidecar, and the others. *)
LEMMA WaitingFacts ==
  ASSUME IndInv, NEW h \in DOMAIN handles, NEW c, c = handles[h], c.sub = Missing
  PROVE  /\ c \in HandleRecord /\ CopiesOf(disk, c) /\ SizesOf(want, c) /\ c.ino \in InodeRecord
         /\ c.id \in Known(disk) /\ c.id \notin DirInodes(disk) /\ c.id \in Ids
         /\ ~c.subdirty /\ Missing \notin Ids /\ 0 \notin Ids /\ Missing # 0
         /\ c.at.dir \in Dirs(disk) /\ c.at.name \in Names /\ c.at.name[1] = "sub" /\ c.at.name # LostFound
         /\ Lookup(c.at.dir, c.at.name) = {}
         /\ \A g \in DOMAIN handles : g # h => handles[g].sub # Missing /\ c.id \notin Holds(handles[g])
<1>1. HandlesSound /\ WantsSound
  BY DEF IndInv
<1>2. c \in HandleRecord /\ CopiesOf(disk, c) /\ SizesOf(want, c)
  BY <1>1, HandleTyped DEF HandlesSound, CopiesSound, WantsSound
<1>3. Missing \notin Ids /\ 0 \notin Ids /\ Missing # 0
  BY Numbers DEF IndInv, Ids, Root, Missing
<1>4. c.id \in Ids /\ c.ino \in InodeRecord /\ c.at.name \in Names
  BY <1>2 DEF HandleRecord
<1>5. c.id \in Known(disk) /\ c.id \notin DirInodes(disk) /\ ~c.subdirty
  BY <1>2, <1>3 DEF CopiesOf, Copy
<1>6. PlaceFree(disk, c) /\ \A g \in DOMAIN handles : g # h => handles[g].sub # Missing
  BY <1>1 DEF HandlesSound, PlacesSound
<1>7. c.at.dir \in Dirs(disk) /\ c.at.name[1] = "sub" /\ Lookup(c.at.dir, c.at.name) = {}
  BY <1>6 DEF PlaceFree, Lookup
<1>8. c.at.name # LostFound
  <2>1. LostFound[1] = "lost+found"
    BY DEF LostFound
  <2> QED
    BY <1>7, <2>1
<1>9. \A g \in DOMAIN handles : g # h => c.id \notin Holds(handles[g])
  <2>1. c.id \in Holds(c)
    BY <1>4 DEF Holds
  <2> QED
    BY <1>1, <2>1 DEF HandlesSound, HoldersSound
<1> QED
  BY <1>2, <1>3, <1>4, <1>5, <1>6, <1>7, <1>8, <1>9

(* One handle of the map is another; the handle has sidecar s. *)
Replaced(H, h, x) == H = [handles EXCEPT ![h] = x]
Renewed(x, c, s, j) == x = [c EXCEPT !.sub = s, !.at = NoPlace, !.subino = j]

LEMMA RenewedParts ==
  ASSUME load \in Workloads, NEW c \in HandleRecord, NEW s \in Ids \cup {0}, NEW j \in InodeRecord,
         NEW x, Renewed(x, c, s, j)
  PROVE  /\ x \in HandleRecord /\ x.id = c.id /\ x.sub = s /\ x.ino = c.ino /\ x.dirty = c.dirty
         /\ x.subino = j /\ x.subdirty = c.subdirty
<1>1. NoPlace \in [dir : Ids, name : Names]
  BY RootIsAnId DEF NoPlace, Place, Names
<1> QED
  BY <1>1 DEF HandleRecord, Renewed

LEMMA HandleSet ==
  ASSUME HandlesSound, NEW h \in DOMAIN handles, NEW x \in HandleRecord, NEW H, Replaced(H, h, x)
  PROVE  /\ H \in HandleMaps /\ DOMAIN H = DOMAIN handles /\ H[h] = x
         /\ \A g \in DOMAIN handles : g # h => H[g] = handles[g]
<1>1. DOMAIN handles \in SUBSET load.handles /\ handles \in [DOMAIN handles -> HandleRecord]
  BY HandleTyped
<1>2. H \in [DOMAIN handles -> HandleRecord]
  BY <1>1 DEF Replaced
<1> QED
  BY <1>1, <1>2 DEF HandleMaps, Replaced

(* The sidecar is there, and the handle holds it. *)
LEMMA SidecarMade ==
  ASSUME IndInv, phase = "up", nextId <= MaxId, NEW h \in DOMAIN handles, NEW c, c = handles[h], c.sub = Missing,
         NEW ino \in InodeRecord, ino.ref = 1, ino.type = "sub", ino.size = 0,
         NEW x, Renewed(x, c, nextId, ino), NEW H, Replaced(H, h, x),
         NEW E, Made(c.at.dir, c.at.name, ino, E),
         handles' = H, disk' = E, nextId' = nextId + 1, UNCHANGED <<phase, want, failures, load>>
  PROVE  IndInv'
<1>0. HandlesSound /\ WantsSound /\ want \in [Ids -> {0, 1}] /\ load \in Workloads
  BY Numbers DEF IndInv, WantsSound
<1>1. /\ c \in HandleRecord /\ CopiesOf(disk, c) /\ SizesOf(want, c) /\ c.ino \in InodeRecord
      /\ c.id \in Known(disk) /\ c.id \notin DirInodes(disk) /\ c.id \in Ids
      /\ ~c.subdirty /\ Missing \notin Ids /\ 0 \notin Ids /\ Missing # 0
      /\ c.at.dir \in Dirs(disk) /\ c.at.name \in Names /\ c.at.name[1] = "sub" /\ c.at.name # LostFound
      /\ Lookup(c.at.dir, c.at.name) = {}
      /\ \A g \in DOMAIN handles : g # h => handles[g].sub # Missing /\ c.id \notin Holds(handles[g])
  BY WaitingFacts
<1>2. PICK d \in Dirs(disk) : d = c.at.dir
  BY <1>1
<1>3. PICK n \in Names : n = c.at.name
  BY <1>1
<1>4. /\ Lookup(d, n) = {} /\ n # LostFound /\ (n[1] = "sub" => ino.type # "dir") /\ (ino.type = "dir" => ino.size = 0)
      /\ Made(d, n, ino, E)
  BY <1>1, <1>2, <1>3
<1>5. PICK P : P = Put(disk, nextId, ino)
  OBVIOUS
<1>6. /\ nextId \in Ids \ Known(disk) /\ Known(P) = Known(disk) \cup {nextId}
      /\ E.inodes = P.inodes /\ P.inodes[nextId] = ino
      /\ \A i \in Known(disk) : P.inodes[i] = disk.inodes[i]
  BY <1>4, <1>5, MakeSound DEF Made
<1>7. /\ nextId \in Known(E) \ DirInodes(E) /\ c.id \in Known(E) \ DirInodes(E)
      /\ E.inodes[nextId] = ino /\ E.inodes[c.id] = disk.inodes[c.id]
  BY <1>1, <1>6 DEF Known, DirInodes
<1>9. /\ x \in HandleRecord /\ x.id = c.id /\ x.sub = nextId /\ x.ino = c.ino /\ x.dirty = c.dirty
      /\ x.subino = ino /\ x.subdirty = c.subdirty
  BY <1>0, <1>1, <1>6, RenewedParts
<1>10. /\ H \in HandleMaps /\ DOMAIN H = DOMAIN handles /\ H[h] = x
       /\ \A g \in DOMAIN handles : g # h => H[g] = handles[g]
  BY <1>0, <1>9, HandleSet
<1>11. PICK w : w = want
  OBVIOUS
<1>12. w[nextId] = 0 /\ want' = w
  BY <1>0, <1>6, <1>11 DEF WantsSound
<1>13. Aims(w, ino.size)
  <2>1. [want EXCEPT ![nextId] = 0] = want
    BY <1>0, <1>11, <1>12
  <2> QED
    BY <1>11, <2>1 DEF Aims
<1>14. CopiesOf(E, x)
  <2>1. Copy(disk, c.id, c.ino, c.dirty)
    BY <1>1 DEF CopiesOf
  <2>2. Copy(E, x.id, x.ino, x.dirty)
    BY <1>7, <1>9, <2>1 DEF Copy
  <2>3. Copy(E, x.sub, x.subino, x.subdirty)
    BY <1>7, <1>9 DEF Copy
  <2> QED
    BY <1>6, <1>9, <2>2, <2>3 DEF CopiesOf
<1>15. SizesOf(w, x) /\ x.id # x.sub /\ PlaceFree(E, x) /\ x.sub # Missing
  BY <1>1, <1>6, <1>9, <1>11, <1>12 DEF SizesOf, PlaceFree
<1>16. \A g \in DOMAIN handles : nextId \notin Holds(handles[g])
  <2>1. ~Held(nextId)
    BY <1>0, <1>6, HeldAreFiles
  <2> QED
    BY <1>6, <2>1, HeldIsHolds
<1>17. Holds(x) = {c.id, nextId} /\ Holds(c) = {c.id}
  BY <1>1, <1>6, <1>9 DEF Holds
<1>18. HandleGood(H, E, w, h)
  <2>1. \A g \in DOMAIN H : g # h => Holds(H[g]) \cap Holds(H[h]) = {}
    BY <1>1, <1>10, <1>16, <1>17
  <2>2. CopiesOf(E, H[h]) /\ H[h].id # H[h].sub /\ PlaceFree(E, H[h]) /\ SizesOf(w, H[h]) /\ H[h].sub # Missing
    BY <1>10, <1>14, <1>15
  <2> QED
    BY <2>1, <2>2 DEF HandleGood
<1>19. \A g \in DOMAIN handles : g \in DOMAIN H /\ Holds(handles[g]) \subseteq Holds(H[g])
  BY <1>10, <1>17
<1>20. \A g \in DOMAIN H : \/ HandleGood(H, E, w, g)
                           \/ g \in DOMAIN handles /\ H[g] = handles[g] /\ handles[g].sub # Missing
  BY <1>1, <1>10, <1>18
<1>21. UNCHANGED <<phase, failures, load>>
  OBVIOUS
<1> QED
  BY <1>4, <1>10, <1>12, <1>13, <1>19, <1>20, <1>21, MadeStep

(* The name cannot be inserted: the inode is taken back, and the handle     *)
(* has no sidecar.                                                          *)
LEMMA SidecarUndone ==
  ASSUME IndInv, phase = "up", nextId <= MaxId, NEW h \in DOMAIN handles, NEW c, c = handles[h], c.sub = Missing,
         nextId \in Ids \ Known(disk), NEW ino \in InodeRecord,
         disk' = DeleteInode(Put(disk, nextId, ino), nextId), nextId' = nextId + 1,
         NEW x, Renewed(x, c, 0, c.subino), NEW H, Replaced(H, h, x), handles' = H,
         failures < load.failures, failures' = failures + 1, UNCHANGED <<phase, want, load>>
  PROVE  IndInv'
<1>0. HandlesSound /\ WantsSound /\ Fresh /\ load \in Workloads /\ Sound(disk) /\ disk \in Disks
  BY Numbers DEF IndInv, Sound
<1>1. /\ c \in HandleRecord /\ CopiesOf(disk, c) /\ SizesOf(want, c)
      /\ c.id \in Known(disk) /\ c.id \in Ids /\ ~c.subdirty /\ Missing \notin Ids /\ 0 \notin Ids /\ Missing # 0
      /\ \A g \in DOMAIN handles : g # h => handles[g].sub # Missing /\ c.id \notin Holds(handles[g])
  BY WaitingFacts
<1>2. PICK D : D = disk
  OBVIOUS
<1>3. PICK w : w = want
  OBVIOUS
<1>4. disk' = D /\ want' = w /\ Sound(D) /\ D \in Disks
  BY <1>0, <1>2, <1>3, RolledBack
<1>5. c.subino \in InodeRecord
  BY <1>1 DEF HandleRecord
<1>6. /\ x \in HandleRecord /\ x.id = c.id /\ x.sub = 0 /\ x.ino = c.ino /\ x.dirty = c.dirty
      /\ x.subino = c.subino /\ x.subdirty = c.subdirty
  BY <1>0, <1>1, <1>5, RenewedParts
<1>7. /\ H \in HandleMaps /\ DOMAIN H = DOMAIN handles /\ H[h] = x
      /\ \A g \in DOMAIN handles : g # h => H[g] = handles[g]
  BY <1>0, <1>6, HandleSet
<1>8. Holds(x) = {c.id} /\ Holds(c) = {c.id}
  BY <1>1, <1>6 DEF Holds
<1>9. HandleGood(H, D, w, h)
  <2>1. CopiesOf(D, x)
    BY <1>1, <1>2, <1>6 DEF CopiesOf
  <2>2. x.id # x.sub /\ PlaceFree(D, x) /\ SizesOf(w, x) /\ x.sub # Missing
    BY <1>1, <1>3, <1>6 DEF PlaceFree, SizesOf
  <2>3. \A g \in DOMAIN H : g # h => Holds(H[g]) \cap Holds(H[h]) = {}
    BY <1>1, <1>7, <1>8
  <2> QED
    BY <1>7, <2>1, <2>2, <2>3 DEF HandleGood
<1>10. ASSUME NEW g \in DOMAIN H, g # h PROVE HandleSame(H, D, w, g)
  <2>1. \A i \in Holds(handles[g]) : i \in Ids /\ Held(i)
    BY <1>7 DEF Holds, Held
  <2>2. \A i \in Holds(handles[g]) : i \in Known(D)
    BY <1>0, <1>2, <2>1, HeldAreFiles
  <2> QED
    BY <1>1, <1>2, <1>3, <1>7, <1>10, <2>2 DEF HandleSame
<1>11. \A g \in DOMAIN H : HandleGood(H, D, w, g) \/ HandleSame(H, D, w, g)
  BY <1>9, <1>10
<1>12. ASSUME NEW i \in Known(D), \A g \in DOMAIN H : i \notin Holds(H[g]) PROVE D.inodes[i].size = w[i]
  <2>1. i \in Ids /\ i \in Known(disk)
    BY <1>0, <1>2, DiskParts
  <2>2. \A g \in DOMAIN handles : i \notin Holds(handles[g])
    BY <1>7, <1>8, <1>12
  <2>3. ~Held(i)
    BY <2>1, <2>2, HeldIsHolds
  <2> QED
    BY <1>0, <1>2, <1>3, <2>1, <2>3 DEF WantsSound
<1>13. \A i \in Known(D) : (\A g \in DOMAIN H : i \notin Holds(H[g])) => D.inodes[i].size = w[i]
  BY <1>12
<1>14. nextId' \in 3 .. MaxId + 1 /\ failures' \in 0 .. load.failures /\ failures' # 0 /\ \A i \in Known(D) : i < nextId'
  <2>1. nextId' \in 3 .. MaxId + 1 /\ failures' \in 0 .. load.failures /\ failures' # 0 /\ nextId \in Nat /\ Ids \subseteq Nat
    BY Numbers DEF IndInv
  <2>2. \A i \in Known(D) : i < nextId /\ i \in Ids
    BY <1>0, <1>2, DiskParts DEF Fresh
  <2>3. ASSUME NEW i \in Known(D) PROVE i < nextId'
    <3>1. i \in Nat /\ i < nextId
      BY <2>1, <2>2
    <3> QED
      BY <2>1, <3>1
  <2> QED
    BY <2>1, <2>3
<1>15. w \in [Ids -> {0, 1}] /\ \A i \in Ids \ Known(D) : w[i] = 0
  BY <1>0, <1>2, <1>3 DEF WantsSound
<1>16. UNCHANGED <<phase, load>> /\ (failures' = 0 => Exact(D) /\ Owned(D))
  BY <1>14
<1> QED
  BY <1>4, <1>7, <1>11, <1>13, <1>14, <1>15, <1>16, CallStep

LEMMA SidecarCreateStep ==
  ASSUME IndInv, NEW h \in DOMAIN handles, SidecarCreate(h)
  PROVE  IndInv'
<1>1. PICK c : c = handles[h]
  OBVIOUS
<1>2. PICK ino : ino = [Inode("sub", 0) EXCEPT !.mode = c.ino.mode]
  OBVIOUS
<1>3. phase = "up" /\ c.sub = Missing /\ nextId <= MaxId
  BY <1>1 DEF SidecarCreate
<1>4. /\ c.ino \in InodeRecord /\ c.at.dir \in Dirs(disk) /\ c.at.name \in Names /\ c.at.name[1] = "sub"
      /\ c.at.name # LostFound /\ Lookup(c.at.dir, c.at.name) = {}
  BY <1>1, <1>3, WaitingFacts
<1>5. ino \in InodeRecord /\ ino.ref = 1 /\ ino.type = "sub" /\ ino.size = 0
  BY <1>2, <1>4 DEF Inode, InodeRecord, Types
<1>6. PICK d \in Dirs(disk) : d = c.at.dir
  BY <1>4
<1>7. PICK n \in Names : n = c.at.name
  BY <1>4
<1>8. Lookup(d, n) = {} /\ n # LostFound /\ (n[1] = "sub" => ino.type # "dir") /\ (ino.type = "dir" => ino.size = 0)
  BY <1>4, <1>5, <1>6, <1>7
<1>9. PICK P : P = Put(disk, nextId, ino)
  OBVIOUS
<1>10. PICK E : E = Insert(P, Entry(d, n, nextId, ino.type = "dir"))
  OBVIOUS
<1>11. nextId \in Ids \ Known(disk)
  BY <1>3, <1>5, <1>8, <1>9, <1>10, MakeSound
<1>12. CASE Dies(MakeWrites(d, n, nextId, ino))
  BY <1>3, <1>5, <1>8, <1>12, MakeDies
<1>13. CASE /\ Ends(MakeWrites(d, n, nextId, ino),
                    [handles EXCEPT ![h] = [c EXCEPT !.sub = nextId, !.at = NoPlace, !.subino = ino]], nextId + 1)
            /\ UNCHANGED want
  <2>1. PICK x : Renewed(x, c, nextId, ino)
    BY DEF Renewed
  <2>2. PICK H : Replaced(H, h, x)
    BY DEF Replaced
  <2>3. /\ disk' = Last(MakeWrites(d, n, nextId, ino)) /\ handles' = H /\ nextId' = nextId + 1
        /\ UNCHANGED <<phase, want, failures, load>>
    BY <1>13, <2>1, <2>2 DEF Ends, Renewed, Replaced
  <2>4. disk' = E
    BY <1>9, <1>10, <2>3, TwoWrites DEF MakeWrites
  <2>5. Made(c.at.dir, c.at.name, ino, E)
    BY <1>6, <1>7, <1>9, <1>10 DEF Made
  <2> QED
    BY <1>1, <1>3, <1>5, <2>1, <2>2, <2>3, <2>4, <2>5, SidecarMade
<1>14. CASE /\ failures < load.failures /\ failures' = failures + 1
            /\ disk' = MakeRollback(d, n, nextId, ino) /\ nextId' = nextId + 1
            /\ Change(h, [c EXCEPT !.sub = 0, !.at = NoPlace]) /\ UNCHANGED <<phase, want, load>>
  <2>0. c \in HandleRecord
    BY <1>1, HandleTyped DEF IndInv
  <2>1. PICK x : Renewed(x, c, 0, c.subino) /\ x = [c EXCEPT !.sub = 0, !.at = NoPlace]
    <3>1. [c EXCEPT !.sub = 0, !.at = NoPlace] = [c EXCEPT !.sub = 0, !.at = NoPlace, !.subino = c.subino]
      BY <2>0 DEF HandleRecord
    <3> QED
      BY <3>1 DEF Renewed
  <2>2. PICK H : Replaced(H, h, x)
    BY DEF Replaced
  <2>3. handles' = H /\ disk' = DeleteInode(Put(disk, nextId, ino), nextId)
    BY <1>14, <2>1, <2>2 DEF Change, MakeRollback, Replaced
  <2> QED
    BY <1>1, <1>3, <1>5, <1>11, <1>14, <2>1, <2>2, <2>3, SidecarUndone
<1> QED
  BY <1>1, <1>2, <1>6, <1>7, <1>12, <1>13, <1>14 DEF SidecarCreate

-----------------------------------------------------------------------------
(* Mounting, unmounting, dying, repairing.                                  *)

(* A volume whose files all have names below the root. *)
Reconnected(D) ==
    /\ ~Stale(D) /\ Dangling(D) = {}
    /\ \A i \in Known(D) \ {Root} : \E e \in NamesOf(D, i) : e.dir \in Dirs(D)

(* A step while no file is open. *)
LEMMA IdleStep ==
  ASSUME IndInv, handles = <<>>, UNCHANGED <<handles, want, failures, load>>,
         NEW D, disk' = D, Sound(D), failures = 0 => Exact(D) /\ Owned(D),
         phase' \in {"up", "down", "checked"}, nextId' \in 3 .. MaxId + 1,
         phase' = "up" => \A i \in Known(D) : i < nextId',
         phase' = "checked" => Reconnected(D),
         \A i \in Known(D) : D.inodes[i].size = want[i], \A i \in Ids \ Known(D) : want[i] = 0
  PROVE  IndInv'
<1>0. load \in Workloads /\ HandlesSound /\ WantsSound /\ load' = load /\ failures' = failures /\ want' = want
  BY Numbers DEF IndInv
<1>1. Ids' = Ids /\ Known(disk)' = Known(D) /\ MaxId' = MaxId
  BY <1>0 DEF Ids, MaxId, Known
<1>2. Bounds'
  BY <1>0, <1>1 DEF IndInv, Bounds
<1>3. Sound(disk)'
  BY <1>0, SoundNow
<1>4. handles' = <<>> /\ DOMAIN handles' = {}
  OBVIOUS
<1>5. HandlesSound'
  <2>1. handles' \in [{} -> HandleRecord'] /\ {} \in SUBSET load'.handles
    BY <1>4
  <2>2. (handles \in HandleMaps)'
    BY <2>1 DEF HandleMaps
  <2>3. CopiesSound(disk)' /\ HoldersSound' /\ PlacesSound'
    BY <1>4 DEF CopiesSound, HoldersSound, PlacesSound
  <2> QED
    BY <1>4, <2>2, <2>3 DEF HandlesSound
<1>6. Fresh'
  BY <1>1 DEF Fresh
<1>7. WantsSound'
  <2>1. (want \in [Ids -> {0, 1}])' /\ (\A i \in Ids \ Known(disk) : want[i] = 0)'
    BY <1>0, <1>1 DEF WantsSound
  <2>2. (\A i \in Known(disk) : ~Held(i) => disk.inodes[i].size = want[i])'
    BY <1>0, <1>1
  <2>3. (\A h \in DOMAIN handles : SizesOf(want, handles[h]))'
    BY <1>4
  <2> QED
    BY <2>1, <2>2, <2>3 DEF WantsSound
<1>8. (failures = 0 => Exact(disk) /\ Owned(disk))'
  BY <1>0, ExactNow
<1>9. RepairReconnects'
  <2>1. Dirs(disk)' = Dirs(D)
    BY <1>1 DEF Dirs, Closed
  <2>2. Stale(disk)' <=> Stale(D)
    BY DEF Stale
  <2>3. Dangling(disk)' = Dangling(D) /\ \A i : NamesOf(disk, i)' = NamesOf(D, i)
    BY DEF Dangling, NamesOf
  <2> QED
    BY <1>1, <2>1, <2>2, <2>3 DEF RepairReconnects, Reconnected, Known
<1> QED
  BY <1>2, <1>3, <1>5, <1>6, <1>7, <1>8, <1>9 DEF IndInv

(* Nobody holds an inode while no file is open. *)
LEMMA IdleSizes ==
  ASSUME WantsSound, handles = <<>>
  PROVE  \A i \in Known(disk) : disk.inodes[i].size = want[i]
BY DEF WantsSound, Held

LEMMA UnmountStep ==
  ASSUME IndInv, Unmount
  PROVE  IndInv'
<1>0. Sound(disk) /\ disk \in Disks /\ WantsSound /\ nextId \in 3 .. MaxId + 1
  BY Numbers DEF IndInv, Sound
<1>1. PICK D : D = [disk EXCEPT !.next_inode_id = nextId]
  OBVIOUS
<1>2. /\ D \in Disks /\ D.cat = disk.cat /\ D.inodes = disk.inodes /\ Known(D) = Known(disk)
      /\ D.tags = disk.tags /\ D.junk = disk.junk
  BY <1>0, <1>1, NextIdParts
<1>3. Sound(D)
  BY <1>0, <1>2, SameTrees
<1>4. (Exact(disk) => Exact(D)) /\ (Owned(disk) => Owned(D))
  BY <1>2 DEF Exact, Tallied, Unambiguous, Owned, NamesOf
<1>5. /\ handles = <<>> /\ disk' = D /\ phase' = "down" /\ nextId' = nextId
      /\ UNCHANGED <<handles, want, failures, load>>
  BY <1>1 DEF Unmount
<1>6. failures = 0 => Exact(D) /\ Owned(D)
  BY <1>4 DEF IndInv
<1>7. (\A i \in Known(D) : D.inodes[i].size = want[i]) /\ (\A i \in Ids \ Known(D) : want[i] = 0)
  BY <1>0, <1>2, <1>5, IdleSizes DEF WantsSound
<1>8. phase' \in {"up", "down", "checked"} /\ phase' # "up" /\ phase' # "checked" /\ nextId' \in 3 .. MaxId + 1
  BY <1>0, <1>5
<1> QED
  BY <1>3, <1>5, <1>6, <1>7, <1>8, IdleStep

LEMMA CrashStep ==
  ASSUME IndInv, Crash
  PROVE  IndInv'
<1>1. PICK D : D = disk
  OBVIOUS
<1>2. Sound(D) /\ Stop(D) /\ failures < load.failures
  BY <1>1 DEF IndInv, Crash
<1> QED
  BY <1>2, StopStep

LEMMA MountStep ==
  ASSUME IndInv, Orderly, Mount
  PROVE  IndInv'
<1>0. Sound(disk) /\ disk \in Disks /\ WantsSound /\ HandlesSound /\ Ids \subseteq Nat /\ MaxId \in Nat
  BY Numbers DEF IndInv, Sound
<1>1. PICK D : D = disk
  OBVIOUS
<1>2. /\ disk' = D /\ phase' = "up" /\ nextId' = D.next_inode_id /\ handles = <<>>
      /\ UNCHANGED <<handles, want, failures, load>> /\ ~Stale(D)
  BY <1>0, <1>1 DEF Mount, HandlesSound, Orderly
<1>3. Sound(D) /\ (failures = 0 => Exact(D) /\ Owned(D))
  BY <1>1 DEF IndInv
<1>4. Known(D) \subseteq Ids /\ D.next_inode_id \in 3 .. MaxId + 1
  BY <1>0, <1>1, DiskParts
<1>5. ASSUME NEW i \in Known(D) PROVE i < nextId'
  <2>0. PICK m : m = D.next_inode_id
    OBVIOUS
  <2>1a. m \in 3 .. MaxId + 1 /\ i \in Ids
    BY <1>4, <2>0
  <2>1b. m \in Nat /\ i \in Nat
    BY <1>0, <2>1a
  <2>1. i \in Nat /\ m \in Nat /\ nextId' = m
    BY <1>2, <2>0, <2>1b
  <2>2. ~(i >= m)
    BY <1>2, <2>0 DEF Stale, Known
  <2> QED
    BY <2>1, <2>2
<1>6. (\A i \in Known(D) : D.inodes[i].size = want[i]) /\ (\A i \in Ids \ Known(D) : want[i] = 0)
  BY <1>0, <1>1, <1>2, IdleSizes DEF WantsSound
<1>7. phase' \in {"up", "down", "checked"} /\ phase' # "checked" /\ nextId' \in 3 .. MaxId + 1
  BY <1>2, <1>4
<1> QED
  BY <1>2, <1>3, <1>5, <1>6, <1>7, IdleStep

(* The largest inode id. *)
LEMMA LargestId ==
  ASSUME NEW S \in SUBSET Nat, S # {}, NEW n \in Nat, \A i \in S : i <= n
  PROVE  Max(S) \in S /\ \A i \in S : i <= Max(S)
<1>1. PICK T : T = {n - i : i \in S}
  OBVIOUS
<1>2. T \in SUBSET Nat /\ T # {}
  <2>1. ASSUME NEW t \in T PROVE t \in Nat
    <3>1. PICK i \in S : t = n - i
      BY <1>1
    <3>2. i \in Nat /\ i <= n
      OBVIOUS
    <3> QED
      BY <3>1, <3>2
  <2>2. PICK i \in S : TRUE
    OBVIOUS
  <2>3. n - i \in T
    BY <1>1
  <2> QED
    BY <2>1, <2>3
<1>3. PICK R : R = {s \in Nat \X Nat : s[1] < s[2]}
  OBVIOUS
<1>4. IsWellFoundedOn(R, Nat)
  BY <1>3, NatLessThanWellFounded DEF OpToRel
<1>5. \A a, b \in Nat : <<a, b>> \in R <=> a < b
  BY <1>3
<1>6. PICK t \in T : \A y \in T : ~(<<y, t>> \in R)
  BY <1>2, <1>4, WFMin
<1>7. PICK m \in S : t = n - m
  BY <1>1
<1>8. ASSUME NEW i \in S PROVE m >= i
  <2>1. n - i \in T
    BY <1>1
  <2>2. n - i \in Nat /\ ~(n - i < n - m) /\ i \in Nat /\ m \in Nat
    BY <1>2, <1>5, <1>6, <1>7, <2>1
  <2> QED
    BY <2>2
<1>9. Max(S) \in S /\ \A i \in S : Max(S) >= i
  BY <1>8 DEF Max
<1> QED
  BY <1>9

(* The order of an inode and its name does not matter once both are there. *)
LEMMA PutInsert ==
  ASSUME NEW D \in Disks, NEW i \in Ids, NEW ino \in InodeRecord, NEW e \in Entries
  PROVE  Put(Insert(D, e), i, ino) = Insert(Put(D, i, ino), e)
<1>1. PICK A : A = Insert(D, e)
  OBVIOUS
<1>2. PICK B : B = Put(D, i, ino)
  OBVIOUS
<1>3. A \in Disks /\ A.inodes = D.inodes /\ A.cat = D.cat \cup {e} /\ B \in Disks /\ B.cat = D.cat
  BY <1>1, <1>2, InsertParts, PutParts
<1>4. PICK f : f = Bind(D.inodes, i, ino)
  OBVIOUS
<1>5. Put(A, i, ino) = [A EXCEPT !.inodes = f] /\ B = [D EXCEPT !.inodes = f]
  BY <1>2, <1>3, <1>4 DEF Put
<1>6. PICK C : C = D.cat \cup {e}
  OBVIOUS
<1>7. Insert(B, e) = [B EXCEPT !.cat = C] /\ A = [D EXCEPT !.cat = C]
  BY <1>1, <1>3, <1>6 DEF Insert
<1>8. [A EXCEPT !.inodes = f] = [B EXCEPT !.cat = C]
  BY <1>5, <1>7 DEF Disks
<1> QED
  BY <1>1, <1>2, <1>5, <1>7, <1>8

(* What obmafsck's repairs leave of a file. *)
Spared(D, E) ==
    /\ Known(D) \subseteq Known(E) /\ \A i \in Known(D) : E.inodes[i] = D.inodes[i]
    /\ \A i \in Known(E) \ Known(D) : E.inodes[i].size = 0

LEMMA SparedSame == \A D : Spared(D, D)
BY DEF Spared

(* lost+found is there, or is made at an id that is not in use. *)
LEMMA LostFoundMade ==
  ASSUME load \in Workloads, NEW D, Sound(D), ~Stale(D), D.next_inode_id <= MaxId, NEW L, L = WithLostFound(D)
  PROVE  /\ Sound(L) /\ ~Stale(L) /\ Spared(D, L)
         /\ Orphans(D) \subseteq Orphans(L) /\ Orphans(L) \subseteq Orphans(D)
         /\ \E e \in L.cat : e.dir = Root /\ e.name = LostFound
<1>0. D \in Disks /\ Resolving(D) /\ Known(D) \subseteq Ids /\ MaxId \in Nat /\ Ids \subseteq Nat /\ Root \in Ids
  BY DiskParts, RootIsAnId DEF Sound
<1>1. CASE \E e \in D.cat : e.dir = Root /\ e.name = LostFound
  <2>1. L = D
    BY <1>1 DEF WithLostFound, HasLostFound
  <2> QED
    BY <1>1, <2>1, SparedSame
<1>2. CASE ~\E e \in D.cat : e.dir = Root /\ e.name = LostFound
  <2>1. PICK i : i = D.next_inode_id
    OBVIOUS
  <2>2. i \in 3 .. MaxId + 1 /\ i <= MaxId
    BY <1>0, <2>1, DiskParts
  <2>3. i \in Ids /\ i \in Nat /\ i + 1 \in 3 .. MaxId + 1
    BY <1>0, <2>2 DEF Ids, Root
  <2>4. \A k \in Known(D) : k \in Nat /\ ~(k >= i)
    BY <1>0, <2>1 DEF Stale, Known
  <2>5. i \notin Known(D)
    BY <2>3, <2>4
  <2>6. PICK ino : ino = Inode("dir", 0)
    OBVIOUS
  <2>7. ino \in InodeRecord /\ ino.type = "dir" /\ ino.ref = 1 /\ ino.size = 0
    BY <2>6 DEF Inode, InodeRecord, Types
  <2>8. PICK b \in BOOLEAN : b = TRUE
    OBVIOUS
  <2>9. PICK e : e = Entry(Root, LostFound, i, b)
    OBVIOUS
  <2>10. /\ e \in Entries /\ e.dir = Root /\ e.name = LostFound /\ e.id = i /\ e.isdir = b
    <3>1. LostFound \in Names
      BY DEF Names
    <3> QED
      BY <1>0, <2>3, <2>9, <3>1, EntryTyped
  <2>11. PICK P : P = Put(D, i, ino)
    OBVIOUS
  <2>12. PICK E : E = Insert(P, e)
    OBVIOUS
  <2>13. /\ Sound(P) /\ NamesOf(P, i) = {} /\ i # Root
    BY <2>3, <2>5, <2>7, <2>11, PutFresh
  <2>14. /\ P \in Disks /\ P.cat = D.cat /\ P.next_inode_id = D.next_inode_id
         /\ Known(P) = Known(D) \cup {i} /\ \A k \in Known(D) \cup {i} : P.inodes[k] = IF k = i THEN ino ELSE D.inodes[k]
    BY <1>0, <2>3, <2>7, <2>11, PutParts
  <2>15. i \in DirInodes(P) /\ P.inodes[i] = ino /\ i \in Known(P)
    BY <2>7, <2>14 DEF DirInodes
  <2>16. Sound(E)
    <3>1. e.id \in Known(P) \ {Root} /\ e.isdir = (e.id \in DirInodes(P))
      BY <2>8, <2>10, <2>13, <2>15
    <3>2. e.dir \in Dirs(P)
      BY <2>10, RootIsADir
    <3>3. LostFound[1] = "lost+found"
      BY DEF LostFound
    <3>4. (e.name = LostFound => e.isdir) /\ (e.name[1] = "sub" => ~e.isdir)
      BY <2>8, <2>10, <3>3
    <3>5. Cardinality(NamesOf(P, e.id)) < P.inodes[e.id].ref
      <4>1. Cardinality(NamesOf(P, e.id)) = 0 /\ P.inodes[e.id].ref = 1
        BY <2>7, <2>10, <2>13, <2>15, FS_EmptySet
      <4> QED
        BY <4>1
    <3> QED
      BY <2>10, <2>12, <2>13, <3>1, <3>2, <3>4, <3>5, InsertName
  <2>17. /\ E \in Disks /\ E.cat = D.cat \cup {e} /\ E.inodes = P.inodes /\ Known(E) = Known(D) \cup {i}
    BY <2>10, <2>12, <2>14, InsertParts
  <2>18. L = [E EXCEPT !.next_inode_id = i + 1]
    <3>1. L = [Put(Insert(D, Entry(Root, LostFound, i, TRUE)), i, ino) EXCEPT !.next_inode_id = @ + 1]
      BY <1>2, <2>1, <2>6 DEF WithLostFound, HasLostFound
    <3>2. e = Entry(Root, LostFound, i, TRUE)
      BY <2>8, <2>9
    <3>3. Put(Insert(D, e), i, ino) = E
      BY <1>0, <2>3, <2>7, <2>10, <2>11, <2>12, PutInsert
    <3>4. E.next_inode_id = i
      BY <2>1, <2>10, <2>12, <2>14, InsertParts
    <3> QED
      BY <3>1, <3>2, <3>3, <3>4
  <2>19. /\ L \in Disks /\ L.cat = E.cat /\ L.inodes = E.inodes /\ Known(L) = Known(E) /\ L.next_inode_id = i + 1
    BY <2>3, <2>17, <2>18, NextIdParts
  <2>20. Sound(L)
    BY <2>16, <2>19, SameTrees
  <2>21. ~Stale(L)
    <3>1. ASSUME NEW k \in Known(L) PROVE ~(k >= i + 1)
      <4>1. k \in Nat /\ (k = i \/ ~(k >= i))
        BY <2>3, <2>4, <2>17, <2>19
      <4> QED
        BY <2>3, <4>1
    <3> QED
      BY <2>19, <3>1 DEF Stale, Known
  <2>22. Spared(D, L)
    BY <2>5, <2>7, <2>14, <2>17, <2>19 DEF Spared
  <2>23. Orphans(D) \subseteq Orphans(L) /\ Orphans(L) \subseteq Orphans(D)
    BY <2>5, <2>10, <2>17, <2>19 DEF Orphans, NamesOf, Known
  <2>24. e \in L.cat
    BY <2>17, <2>19
  <2> QED
    BY <2>10, <2>20, <2>21, <2>22, <2>23, <2>24
<1> QED
  BY <1>1, <1>2

LEMMA InodeNames == \A i \in Ids : InodeName(i) \in Names /\ InodeName(i) # LostFound /\ InodeName(i)[1] # "sub"
BY DEF Names, InodeName, LostFound

(* The names obmafsck gives to the inodes of N, in directory lf. *)
NewNames(L, lf, N) == {Entry(lf, InodeName(i), i, L.inodes[i].type = "dir") : i \in N}

LEMMA NewNamesParts ==
  ASSUME load \in Workloads, NEW L, Sound(L), NEW lf \in Ids, NEW N \in SUBSET Known(L)
  PROVE  /\ NewNames(L, lf, N) \subseteq Entries /\ IsFiniteSet(NewNames(L, lf, N))
         /\ \A e \in NewNames(L, lf, N) : e.dir = lf /\ e.id \in N /\ e.name = InodeName(e.id)
                                          /\ e.isdir = (e.id \in DirInodes(L))
         /\ \A i \in N : \E e \in NewNames(L, lf, N) : e.id = i
         /\ \A e, f \in NewNames(L, lf, N) : e.id = f.id => e = f
<1>0. Known(L) \subseteq Ids /\ MaxId \in Nat
  BY DiskParts, RootIsAnId DEF Sound
<1>1. PICK X : X = NewNames(L, lf, N)
  OBVIOUS
<1>2. PICK f : f = [i \in N |-> Entry(lf, InodeName(i), i, L.inodes[i].type = "dir")]
  OBVIOUS
<1>3. ASSUME NEW i \in N
      PROVE  /\ f[i] \in Entries /\ f[i].dir = lf /\ f[i].id = i /\ f[i].name = InodeName(i)
             /\ f[i].isdir = (i \in DirInodes(L)) /\ f[i] \in X
  <2>1. PICK b \in BOOLEAN : b = (L.inodes[i].type = "dir")
    OBVIOUS
  <2>2. f[i] = Entry(lf, InodeName(i), i, b) /\ f[i] \in X
    BY <1>1, <1>2, <2>1 DEF NewNames
  <2>3. i \in Ids /\ InodeName(i) \in Names
    BY <1>0, InodeNames
  <2>4. f[i] \in Entries /\ f[i].dir = lf /\ f[i].id = i /\ f[i].name = InodeName(i) /\ f[i].isdir = b
    BY <2>2, <2>3, EntryTyped
  <2>5. b = (i \in DirInodes(L))
    BY <2>1 DEF DirInodes
  <2> QED
    BY <2>2, <2>4, <2>5
<1>4. \A e \in X : \E i \in N : e = f[i]
  BY <1>1, <1>2 DEF NewNames
<1>5. IsFiniteSet(X)
  <2>1. IsFiniteSet(2 .. MaxId) /\ N \in SUBSET (2 .. MaxId)
    BY <1>0, FS_Interval DEF Ids, Root
  <2>2. IsFiniteSet(N)
    BY <2>1, FS_Subset
  <2>3. f \in [N -> X]
    BY <1>2, <1>3
  <2>4. f \in Surjection(N, X)
    BY <1>4, <2>3 DEF Surjection
  <2> QED
    BY <2>2, <2>4, FS_Surjection
<1>6. X \subseteq Entries
  BY <1>3, <1>4
<1>7. \A e \in X : e.dir = lf /\ e.id \in N /\ e.name = InodeName(e.id) /\ e.isdir = (e.id \in DirInodes(L))
  BY <1>3, <1>4
<1>8. \A i \in N : \E e \in X : e.id = i
  BY <1>3
<1>9. \A e, g \in X : e.id = g.id => e = g
  BY <1>3, <1>4
<1> QED
  BY <1>1, <1>5, <1>6, <1>7, <1>8, <1>9

(* All inodes without a name get one, in a directory below the root. *)
LEMMA NamesGiven ==
  ASSUME load \in Workloads, NEW L, Sound(L), NEW lf \in Dirs(L), NEW X, X = NewNames(L, lf, Orphans(L)),
         NEW A \in Disks, A.cat = L.cat \cup X, A.inodes = L.inodes
  PROVE  /\ Sound(A) /\ DirInodes(A) \subseteq Dirs(A) /\ Orphans(A) = {}
<1>0. /\ L \in Disks /\ Resolving(L) /\ Counted(L) /\ Reached(L) /\ Known(L) \subseteq Ids /\ lf \in Ids
      /\ lf \in DirInodes(L)
  BY DiskParts, DirsKnown DEF Sound, Dirs
<1>1. PICK N : N = Orphans(L)
  OBVIOUS
<1>2. N \subseteq Known(L) \ {Root} /\ \A i \in N : NamesOf(L, i) = {}
  BY <1>1 DEF Orphans, Known
<1>3. /\ X \subseteq Entries /\ IsFiniteSet(X)
      /\ \A e \in X : e.dir = lf /\ e.id \in N /\ e.name = InodeName(e.id) /\ e.isdir = (e.id \in DirInodes(L))
      /\ \A i \in N : \E e \in X : e.id = i
      /\ \A e, f \in X : e.id = f.id => e = f
  <2>1. N \in SUBSET Known(L) /\ X = NewNames(L, lf, N)
    BY <1>1, <1>2
  <2> QED
    BY <1>0, <2>1, NewNamesParts
<1>4. Known(A) = Known(L) /\ DirInodes(A) = DirInodes(L)
  BY DEF Known, DirInodes
<1>5. Resolving(A)
  <2>1. ASSUME NEW e \in X
        PROVE  /\ e.id \in Known(A) \ {Root} /\ e.isdir = (e.id \in DirInodes(A)) /\ e.dir \in DirInodes(A)
               /\ e.name = LostFound => e.isdir
               /\ e.name[1] = "sub" => ~e.isdir
    <3>1. e.id \in Ids /\ e.name = InodeName(e.id)
      BY <1>0, <1>2, <1>3
    <3>2. e.name # LostFound /\ e.name[1] # "sub"
      BY <3>1, InodeNames
    <3> QED
      BY <1>0, <1>2, <1>3, <1>4, <3>2
  <2>2. ASSUME NEW e \in L.cat
        PROVE  /\ e.id \in Known(A) \ {Root} /\ e.isdir = (e.id \in DirInodes(A)) /\ e.dir \in DirInodes(A)
               /\ e.name = LostFound => e.isdir
               /\ e.name[1] = "sub" => ~e.isdir
    BY <1>0, <1>4 DEF Resolving
  <2>3. Root \in DirInodes(A)
    BY <1>0, <1>4 DEF Resolving
  <2> QED
    BY <2>1, <2>2, <2>3 DEF Resolving
<1>6. Counted(A)
  <2>1. IsFiniteSet(L.cat)
    BY <1>0 DEF Counted
  <2>2. IsFiniteSet(A.cat)
    <3>1. IsFiniteSet(X)
      BY <1>3
    <3>2. IsFiniteSet(L.cat \cup X)
      BY <2>1, <3>1, FS_Union
    <3> QED
      BY <3>2
  <2>3. ASSUME NEW i \in Known(A) \ {Root} PROVE Cardinality(NamesOf(A, i)) <= A.inodes[i].ref
    <3>1. A.inodes[i].ref \in Nat \ {0}
      BY DiskParts DEF InodeRecord
    <3>2. CASE i \in N
      <4>1. PICK e \in X : e.id = i
        BY <1>3, <3>2
      <4>2. NamesOf(A, i) = {e}
        BY <1>2, <1>3, <3>2, <4>1 DEF NamesOf
      <4>3. Cardinality(NamesOf(A, i)) = 1
        BY <4>2, FS_Singleton
      <4> QED
        BY <3>1, <4>3
    <3>3. CASE i \notin N
      <4>1. NamesOf(A, i) = NamesOf(L, i)
        BY <1>3, <3>3 DEF NamesOf
      <4>2. i \in Known(L) \ {Root}
        BY <1>4
      <4>3. Cardinality(NamesOf(L, i)) <= L.inodes[i].ref
        BY <1>0, <4>2 DEF Counted
      <4> QED
        BY <4>1, <4>3
    <3> QED
      BY <3>2, <3>3
  <2>4. \A i \in DirInodes(A) : A.inodes[i].ref = 1 /\ A.inodes[i].size = 0
    BY <1>0, <1>4 DEF Counted
  <2> QED
    BY <2>2, <2>3, <2>4 DEF Counted
<1>7. A.cat \subseteq Entries /\ Dirs(A) \subseteq Ids /\ Closed(A, Dirs(A))
  BY DiskParts, DirsClosed
<1>8. Dirs(L) \subseteq Dirs(A)
  BY <1>7, DirsGrow
<1>9. Tops(L) \subseteq Dirs(A)
  <2>1. ASSUME NEW i \in N \cap DirInodes(L) PROVE i \in Dirs(A)
    <3>1. PICK e \in X : e.id = i
      BY <1>3
    <3>2. e \in A.cat /\ e.isdir /\ e.dir \in Dirs(A)
      BY <1>3, <1>8, <2>1, <3>1
    <3> QED
      BY <1>7, <3>1, <3>2 DEF Closed
  <2> QED
    BY <1>1, <2>1, RootIsADir DEF Tops
<1>10. Closed(L, Dirs(A))
  BY <1>7 DEF Closed
<1>11. DirInodes(A) \subseteq Dirs(A)
  BY <1>0, <1>4, <1>7, <1>9, <1>10, ReachLeast DEF Reached
<1>12. Reached(A)
  BY <1>11, DirsReached DEF Reached
<1>13. Orphans(A) = {}
  <2>1. ASSUME NEW i \in Orphans(A) PROVE FALSE
    <3>1. i \in Known(L) \ {Root} /\ NamesOf(A, i) = {}
      BY <1>4 DEF Orphans, Known
    <3>2. NamesOf(L, i) = {}
      BY <3>1 DEF NamesOf
    <3>3. i \in N
      BY <1>1, <3>1, <3>2 DEF Orphans, Known
    <3> QED
      BY <1>3, <3>1, <3>3 DEF NamesOf
  <2> QED
    BY <2>1
<1> QED
  BY <1>5, <1>6, <1>11, <1>12, <1>13 DEF Sound

(* Re-linking. *)
LEMMA Relinked ==
  ASSUME load \in Workloads, NEW D, Sound(D), ~Stale(D), D.next_inode_id <= MaxId, NEW A, A = Relink(D)
  PROVE  Sound(A) /\ ~Stale(A) /\ Spared(D, A) /\ DirInodes(A) \subseteq Dirs(A) /\ Orphans(A) = {}
<1>1. PICK L : L = WithLostFound(D)
  OBVIOUS
<1>2. /\ Sound(L) /\ ~Stale(L) /\ Spared(D, L)
      /\ Orphans(D) \subseteq Orphans(L) /\ Orphans(L) \subseteq Orphans(D)
      /\ \E e \in L.cat : e.dir = Root /\ e.name = LostFound
  BY <1>1, LostFoundMade
<1>3. PICK e : e = CHOOSE x \in L.cat : x.dir = Root /\ x.name = LostFound
  OBVIOUS
<1>4. e \in L.cat /\ e.dir = Root /\ e.name = LostFound
  BY <1>2, <1>3
<1>5. PICK lf : lf = e.id
  OBVIOUS
<1>6. L \in Disks /\ e.isdir /\ lf \in Known(L)
  BY <1>2, <1>4, <1>5 DEF Sound, Resolving
<1>7. lf \in Dirs(L) /\ lf \in Ids
  <2>1. L.cat \subseteq Entries
    BY <1>6, DiskParts
  <2>2. Root \in Dirs(L) /\ Closed(L, Dirs(L)) /\ Dirs(L) \subseteq Ids
    BY <2>1, DirsClosed, RootIsADir
  <2> QED
    BY <1>4, <1>5, <1>6, <2>2 DEF Closed
<1>8. Orphans(D) = Orphans(L) /\ Orphans(L) \subseteq Known(L)
  BY <1>2 DEF Orphans, Known
<1>9. lf \notin Orphans(L)
  BY <1>4, <1>5 DEF Orphans, NamesOf
<1>10. PICK X : X = NewNames(L, lf, Orphans(L))
  OBVIOUS
<1>11. PICK f : f = [i \in DOMAIN L.inodes |->
                       IF i \in Orphans(D) \ {lf} /\ L.inodes[i].ref = 0 THEN [L.inodes[i] EXCEPT !.ref = 1] ELSE L.inodes[i]]
  OBVIOUS
<1>12. A = [L EXCEPT !.cat = L.cat \cup X, !.inodes = f]
  <2>1. lf = (CHOOSE x \in L.cat : x.dir = Root /\ x.name = LostFound).id
    BY <1>3, <1>5
  <2>2. Orphans(D) \ {lf} = Orphans(L)
    BY <1>8, <1>9
  <2>3. X = {Entry(lf, InodeName(i), i, L.inodes[i].type = "dir") : i \in Orphans(D) \ {lf}}
    BY <1>10, <2>2 DEF NewNames
  <2> QED
    BY <1>1, <1>11, <2>1, <2>3 DEF Relink
<1>13. f = L.inodes
  <2>1. ASSUME NEW i \in DOMAIN L.inodes PROVE f[i] = L.inodes[i]
    <3>1. L.inodes[i] \in InodeRecord
      BY <1>6, DiskParts DEF Known
    <3>2. L.inodes[i].ref # 0
      BY <3>1 DEF InodeRecord
    <3> QED
      BY <1>11, <3>2
  <2>2. L.inodes = [i \in DOMAIN L.inodes |-> L.inodes[i]]
    BY <1>6, DiskParts DEF Known
  <2> QED
    BY <1>11, <2>1, <2>2
<1>14. A = [L EXCEPT !.cat = L.cat \cup X]
  BY <1>6, <1>12, <1>13 DEF Disks
<1>15. L.cat \cup X \in SUBSET Entries
  <2>1. X \subseteq Entries
    BY <1>2, <1>7, <1>8, <1>10, NewNamesParts
  <2> QED
    BY <1>6, <2>1, DiskParts
<1>16. A \in Disks /\ A.cat = L.cat \cup X /\ A.inodes = L.inodes /\ Known(A) = Known(L) /\ A.next_inode_id = L.next_inode_id
  BY <1>6, <1>14, <1>15, CatParts
<1>17. Sound(A) /\ DirInodes(A) \subseteq Dirs(A) /\ Orphans(A) = {}
  BY <1>2, <1>7, <1>10, <1>16, NamesGiven
<1>18. ~Stale(A) /\ Spared(D, A)
  BY <1>2, <1>16 DEF Stale, Spared, Known
<1> QED
  BY <1>17, <1>18

(* Correcting next_inode_id. *)
LEMMA IdFixed ==
  ASSUME load \in Workloads, NEW D \in Disks, Root \in Known(D), NEW C, C = FixNextId(D)
  PROVE  C \in Disks /\ C.cat = D.cat /\ C.inodes = D.inodes /\ Known(C) = Known(D) /\ ~Stale(C)
<1>0. D \in Disks /\ Known(D) \subseteq Ids /\ MaxId \in Nat /\ Ids \subseteq Nat
  BY DiskParts, RootIsAnId
<1>1. CASE ~Stale(D)
  BY <1>0, <1>1 DEF FixNextId
<1>2. CASE Stale(D)
  <2>1. PICK m : m = Max(Known(D))
    OBVIOUS
  <2>2. Root \in Known(D) /\ Known(D) \in SUBSET Nat /\ \A i \in Known(D) : i <= MaxId
    BY <1>0 DEF Ids
  <2>3. m \in Known(D) /\ \A i \in Known(D) : i <= m
    BY <1>0, <2>1, <2>2, LargestId
  <2>4. m \in Nat /\ 2 <= m /\ m <= MaxId
    BY <2>2, <2>3 DEF Root
  <2>5. m + 1 \in 3 .. MaxId + 1
    BY <1>0, <2>4
  <2>6. C = [D EXCEPT !.next_inode_id = m + 1]
    BY <1>2, <2>1 DEF FixNextId, Known
  <2>7. /\ C \in Disks /\ C.cat = D.cat /\ C.inodes = D.inodes /\ Known(C) = Known(D) /\ C.next_inode_id = m + 1
    BY <1>0, <2>5, <2>6, NextIdParts
  <2>8. ASSUME NEW i \in Known(C) PROVE ~(i >= m + 1)
    <3>1. i \in Nat /\ i <= m
      BY <2>2, <2>3, <2>7
    <3> QED
      BY <2>4, <3>1
  <2>9. ~Stale(C)
    BY <2>7, <2>8 DEF Stale, Known
  <2> QED
    BY <2>7, <2>9
<1> QED
  BY <1>1, <1>2

(* With nothing left to re-link, every file is below the root. *)
LEMMA AllBelowRoot ==
  ASSUME load \in Workloads, NEW D, Sound(D), Orphans(D) = {}
  PROVE  DirInodes(D) \subseteq Dirs(D)
<1>1. D \in Disks /\ D.cat \subseteq Entries
  BY DiskParts DEF Sound
<1>2. Tops(D) = {Root}
  BY DEF Tops
<1>3. Dirs(D) \in SUBSET Ids /\ Closed(D, Dirs(D)) /\ Root \in Dirs(D)
  BY <1>1, DirsClosed, RootIsADir
<1>4. Reach(D) \subseteq Dirs(D)
  BY <1>2, <1>3, ReachLeast
<1> QED
  BY <1>4 DEF Sound, Reached

LEMMA NamedBelowRoot ==
  ASSUME NEW D, Sound(D), Orphans(D) = {}, DirInodes(D) \subseteq Dirs(D)
  PROVE  /\ Dangling(D) = {}
         /\ \A i \in Known(D) \ {Root} : \E e \in NamesOf(D, i) : e.dir \in Dirs(D)
<1>1. Dangling(D) = {}
  BY DEF Dangling, Sound, Resolving, Known
<1>2. ASSUME NEW i \in Known(D) \ {Root} PROVE \E e \in NamesOf(D, i) : e.dir \in Dirs(D)
  <2>1. NamesOf(D, i) # {}
    BY DEF Orphans, Known
  <2>2. PICK e \in NamesOf(D, i) : TRUE
    BY <2>1
  <2>3. e.dir \in DirInodes(D)
    BY DEF NamesOf, Sound, Resolving
  <2> QED
    BY <2>3
<1> QED
  BY <1>1, <1>2

(* obmafsck, whichever repairs are agreed to, with next_inode_id right when *)
(* files are re-linked. *)
LEMMA FsckDone ==
  ASSUME IndInv, Orderly, NEW relink \in BOOLEAN, NEW drop \in BOOLEAN, NEW ids \in BOOLEAN, Fsck(relink, drop, ids),
         ~(relink /\ Stale(disk))
  PROVE  \E C : /\ disk' = C /\ nextId' = C.next_inode_id /\ Sound(C) /\ Spared(disk, C)
                /\ relink /\ ids => Reconnected(C)
<1>0. Sound(disk) /\ disk \in Disks /\ load \in Workloads /\ Resolving(disk)
  BY Numbers DEF IndInv, Sound
<1>1. PICK A : A = IF relink /\ Orphans(disk) # {} THEN Relink(disk) ELSE disk
  OBVIOUS
<1>2. PICK B : B = IF drop THEN [A EXCEPT !.cat = @ \ Dangling(disk)] ELSE A
  OBVIOUS
<1>3. PICK C : C = IF ids THEN FixNextId(B) ELSE B
  OBVIOUS
<1>4. disk' = C /\ nextId' = C.next_inode_id
  BY <1>1, <1>2, <1>3 DEF Fsck
<1>5. Sound(A) /\ Spared(disk, A) /\ (relink => DirInodes(A) \subseteq Dirs(A) /\ Orphans(A) = {})
  <2>1. CASE relink /\ Orphans(disk) # {}
    <3>1. ~Stale(disk) /\ disk.next_inode_id <= MaxId /\ A = Relink(disk)
      BY <1>1, <2>1 DEF Fsck
    <3> QED
      BY <1>0, <3>1, Relinked
  <2>2. CASE ~(relink /\ Orphans(disk) # {})
    <3>1. A = disk
      BY <1>1, <2>2
    <3>2. relink => Orphans(A) = {}
      BY <2>2, <3>1
    <3>3. relink => DirInodes(A) \subseteq Dirs(A)
      BY <1>0, <3>1, <3>2, AllBelowRoot
    <3> QED
      BY <1>0, <3>1, <3>2, <3>3, SparedSame
  <2> QED
    BY <2>1, <2>2
<1>6. B = A
  <2>1. Dangling(disk) = {}
    BY <1>0 DEF Dangling, Resolving, Known
  <2>2. [A EXCEPT !.cat = @ \ {}] = A
    BY <1>5 DEF Sound, Disks
  <2> QED
    BY <1>2, <2>1, <2>2
<1>7. C \in Disks /\ C.cat = A.cat /\ C.inodes = A.inodes /\ Known(C) = Known(A) /\ (ids => ~Stale(C))
  <2>1. A \in Disks /\ Root \in Known(A)
    BY <1>5 DEF Sound, Resolving, DirInodes
  <2>2. CASE ids
    <3>1. C = FixNextId(A)
      BY <1>3, <1>6, <2>2
    <3> QED
      BY <1>0, <2>1, <3>1, IdFixed
  <2>3. CASE ~ids
    BY <1>3, <1>6, <2>1, <2>3
  <2> QED
    BY <2>2, <2>3
<1>8. Sound(C)
  BY <1>5, <1>7, SameTrees
<1>9. Spared(disk, C)
  BY <1>5, <1>7 DEF Spared
<1>10. ASSUME relink, ids PROVE Reconnected(C)
  <2>1. DirInodes(A) \subseteq Dirs(A) /\ Orphans(A) = {}
    BY <1>5, <1>10
  <2>2. DirInodes(C) = DirInodes(A) /\ Dirs(C) = Dirs(A) /\ Orphans(C) = Orphans(A)
    BY <1>7 DEF DirInodes, Dirs, Closed, Orphans, NamesOf, Known
  <2>3. /\ Dangling(C) = {}
        /\ \A i \in Known(C) \ {Root} : \E e \in NamesOf(C, i) : e.dir \in Dirs(C)
    BY <1>8, <2>1, <2>2, NamedBelowRoot
  <2> QED
    BY <1>7, <1>10, <2>3 DEF Reconnected
<1> QED
  BY <1>4, <1>8, <1>9, <1>10

(* What is left of the files, whatever next_inode_id is: lost+found takes   *)
(* the place of the one whose id it is given.                               *)
LEMMA LostFoundTyped ==
  ASSUME load \in Workloads, NEW D \in Disks, D.next_inode_id <= MaxId, NEW L, L = WithLostFound(D)
  PROVE  /\ L \in Disks /\ Known(D) \subseteq Known(L)
         /\ \E e \in L.cat : e.dir = Root /\ e.name = LostFound
         /\ \A k \in Known(D) : (HasLostFound(D) \/ k # D.next_inode_id) => L.inodes[k] = D.inodes[k]
<1>0. MaxId \in Nat /\ Ids \subseteq Nat /\ Root \in Ids
  BY RootIsAnId
<1>1. CASE HasLostFound(D)
  BY <1>1 DEF WithLostFound, HasLostFound
<1>2. CASE ~HasLostFound(D)
  <2>1. PICK i : i = D.next_inode_id
    OBVIOUS
  <2>2. i \in 3 .. MaxId + 1 /\ i <= MaxId
    BY <2>1, DiskParts
  <2>3. i \in Ids /\ i + 1 \in 3 .. MaxId + 1
    BY <1>0, <2>2 DEF Ids, Root
  <2>4. PICK ino : ino = Inode("dir", 0)
    OBVIOUS
  <2>5. ino \in InodeRecord
    BY <2>4 DEF Inode, InodeRecord, Types
  <2>6. PICK b \in BOOLEAN : b = TRUE
    OBVIOUS
  <2>7. PICK e : e = Entry(Root, LostFound, i, b)
    OBVIOUS
  <2>8. e \in Entries /\ e.dir = Root /\ e.name = LostFound
    <3>1. LostFound \in Names
      BY DEF Names
    <3> QED
      BY <1>0, <2>3, <2>7, <3>1, EntryTyped
  <2>9. PICK E : E = Insert(D, e)
    OBVIOUS
  <2>10. E \in Disks /\ E.cat = D.cat \cup {e} /\ E.inodes = D.inodes /\ Known(E) = Known(D)
         /\ E.next_inode_id = i
    BY <2>1, <2>8, <2>9, InsertParts
  <2>11. PICK P : P = Put(E, i, ino)
    OBVIOUS
  <2>12. /\ P \in Disks /\ P.cat = E.cat /\ P.next_inode_id = i /\ Known(P) = Known(D) \cup {i}
         /\ \A k \in Known(D) : k # i => P.inodes[k] = D.inodes[k]
    BY <2>3, <2>5, <2>10, <2>11, PutParts
  <2>13. L = [P EXCEPT !.next_inode_id = i + 1]
    BY <1>2, <2>1, <2>4, <2>6, <2>7, <2>9, <2>11, <2>12 DEF WithLostFound
  <2>14. L \in Disks /\ L.cat = P.cat /\ L.inodes = P.inodes /\ Known(L) = Known(P)
    BY <2>3, <2>12, <2>13, NextIdParts
  <2> QED
    BY <1>2, <2>1, <2>8, <2>10, <2>12, <2>14
<1> QED
  BY <1>1, <1>2

LEMMA RelinkTyped ==
  ASSUME load \in Workloads, NEW D \in Disks, D.next_inode_id <= MaxId, NEW A, A = Relink(D)
  PROVE  /\ A \in Disks /\ Known(D) \subseteq Known(A)
         /\ \A k \in Known(D) : (HasLostFound(D) \/ k # D.next_inode_id) => A.inodes[k] = D.inodes[k]
<1>1. PICK L : L = WithLostFound(D)
  OBVIOUS
<1>2. /\ L \in Disks /\ Known(D) \subseteq Known(L)
      /\ \E e \in L.cat : e.dir = Root /\ e.name = LostFound
      /\ \A k \in Known(D) : (HasLostFound(D) \/ k # D.next_inode_id) => L.inodes[k] = D.inodes[k]
  BY <1>1, LostFoundTyped
<1>3. PICK e : e = CHOOSE x \in L.cat : x.dir = Root /\ x.name = LostFound
  OBVIOUS
<1>4. PICK lf : lf = e.id
  OBVIOUS
<1>5. lf \in Ids
  <2>1. e \in L.cat
    BY <1>2, <1>3
  <2> QED
    BY <1>2, <1>4, <2>1, DiskParts DEF Entries
<1>6. PICK N : N = Orphans(D) \ {lf}
  OBVIOUS
<1>7. N \subseteq Known(L) /\ Known(L) \subseteq Ids
  BY <1>2, <1>6, DiskParts DEF Orphans, Known
<1>8. PICK X : X = NewNames(L, lf, N)
  OBVIOUS
<1>9. X \subseteq Entries
  <2>1. ASSUME NEW i \in N, NEW x, x = Entry(lf, InodeName(i), i, L.inodes[i].type = "dir") PROVE x \in Entries
    <3>1. PICK b \in BOOLEAN : b = (L.inodes[i].type = "dir")
      OBVIOUS
    <3>2. i \in Ids /\ InodeName(i) \in Names
      BY <1>7, InodeNames
    <3> QED
      BY <1>5, <2>1, <3>1, <3>2, EntryTyped
  <2> QED
    BY <1>8, <2>1 DEF NewNames
<1>10. PICK f : f = [i \in DOMAIN L.inodes |->
                       IF i \in N /\ L.inodes[i].ref = 0 THEN [L.inodes[i] EXCEPT !.ref = 1] ELSE L.inodes[i]]
  OBVIOUS
<1>11. f = L.inodes
  <2>1. ASSUME NEW i \in DOMAIN L.inodes PROVE f[i] = L.inodes[i]
    <3>1. L.inodes[i] \in InodeRecord
      BY <1>2, DiskParts DEF Known
    <3>2. L.inodes[i].ref # 0
      BY <3>1 DEF InodeRecord
    <3> QED
      BY <1>10, <3>2
  <2>2. L.inodes = [i \in DOMAIN L.inodes |-> L.inodes[i]]
    BY <1>2, DiskParts DEF Known
  <2> QED
    BY <1>10, <2>1, <2>2
<1>12. A = [L EXCEPT !.cat = L.cat \cup X, !.inodes = f]
  <2>1. lf = (CHOOSE x \in L.cat : x.dir = Root /\ x.name = LostFound).id
    BY <1>3, <1>4
  <2>2. X = {Entry(lf, InodeName(i), i, L.inodes[i].type = "dir") : i \in Orphans(D) \ {lf}}
    BY <1>6, <1>8 DEF NewNames
  <2> QED
    BY <1>1, <1>6, <1>10, <2>1, <2>2 DEF Relink
<1>13. A = [L EXCEPT !.cat = L.cat \cup X]
  BY <1>2, <1>11, <1>12 DEF Disks
<1>14. L.cat \cup X \in SUBSET Entries
  BY <1>2, <1>9, DiskParts
<1>15. A \in Disks /\ A.inodes = L.inodes /\ Known(A) = Known(L)
  BY <1>2, <1>13, <1>14, CatParts
<1> QED
  BY <1>2, <1>15

LEMMA FsckSpares ==
  ASSUME IndInv, NEW relink \in BOOLEAN, NEW drop \in BOOLEAN, NEW ids \in BOOLEAN, Fsck(relink, drop, ids)
  PROVE  /\ disk' \in Disks /\ nextId' = disk'.next_inode_id
         /\ \A i \in Known(disk) \ Overtaken(disk) :
              i \in Known(disk') /\ disk'.inodes[i] = disk.inodes[i]
<1>0. disk \in Disks /\ load \in Workloads /\ Resolving(disk) /\ Root \in Known(disk)
  BY Numbers DEF IndInv, Sound, Resolving, DirInodes
<1>1. PICK A : A = IF relink /\ Orphans(disk) # {} THEN Relink(disk) ELSE disk
  OBVIOUS
<1>2. PICK B : B = IF drop THEN [A EXCEPT !.cat = @ \ Dangling(disk)] ELSE A
  OBVIOUS
<1>3. PICK C : C = IF ids THEN FixNextId(B) ELSE B
  OBVIOUS
<1>4. disk' = C /\ nextId' = C.next_inode_id
  BY <1>1, <1>2, <1>3 DEF Fsck
<1>5. /\ A \in Disks /\ Known(disk) \subseteq Known(A)
      /\ \A i \in Known(disk) \ Overtaken(disk) : A.inodes[i] = disk.inodes[i]
  <2>1. CASE relink /\ Orphans(disk) # {}
    <3>1. disk.next_inode_id <= MaxId /\ A = Relink(disk)
      BY <1>1, <2>1 DEF Fsck
    <3>2. /\ A \in Disks /\ Known(disk) \subseteq Known(A)
          /\ \A k \in Known(disk) : (HasLostFound(disk) \/ k # disk.next_inode_id) => A.inodes[k] = disk.inodes[k]
      BY <1>0, <3>1, RelinkTyped
    <3>3. \A k \in Known(disk) \ Overtaken(disk) : HasLostFound(disk) \/ k # disk.next_inode_id
      BY <2>1 DEF Overtaken, Known
    <3> QED
      BY <3>2, <3>3
  <2>2. CASE ~(relink /\ Orphans(disk) # {})
    BY <1>0, <1>1, <2>2
  <2> QED
    BY <2>1, <2>2
<1>6. B = A
  <2>1. Dangling(disk) = {}
    BY <1>0 DEF Dangling, Resolving, Known
  <2>2. [A EXCEPT !.cat = @ \ {}] = A
    BY <1>5 DEF Disks
  <2> QED
    BY <1>2, <2>1, <2>2
<1>7. C \in Disks /\ C.inodes = A.inodes /\ Known(C) = Known(A)
  <2>1. Root \in Known(A)
    BY <1>0, <1>5
  <2>2. CASE ids
    BY <1>0, <1>3, <1>5, <1>6, <2>1, <2>2, IdFixed
  <2>3. CASE ~ids
    BY <1>3, <1>5, <1>6, <2>3
  <2> QED
    BY <2>2, <2>3
<1> QED
  BY <1>4, <1>5, <1>7

(* A volume on which files were re-linked with a stale next_inode_id: the   *)
(* types are all that is said of it.                                        *)
Ended == phase = "ended" /\ handles = <<>> /\ TypeOK

LEMMA FsckEnds ==
  ASSUME IndInv, Orderly, NEW relink \in BOOLEAN, NEW drop \in BOOLEAN, NEW ids \in BOOLEAN, Fsck(relink, drop, ids),
         relink /\ Stale(disk)
  PROVE  Ended'
<1>0. /\ phase = "down" /\ HandlesSound /\ WantsSound /\ failures \in 0 .. load.failures /\ load \in Workloads
      /\ phase' = "ended" /\ UNCHANGED <<handles, want, failures, load>>
  BY DEF Fsck, Orderly, IndInv, Bounds
<1>1. handles' = <<>> /\ DOMAIN handles' = {}
  BY <1>0 DEF HandlesSound
<1>2. disk' \in Disks /\ nextId' = disk'.next_inode_id
  BY FsckSpares
<1>3. MaxId' = MaxId /\ Ids' = Ids /\ Names' = Names
  BY <1>0 DEF MaxId, Ids, Names
<1>4. /\ disk'.cat \subseteq Entries /\ DOMAIN disk'.inodes \subseteq Ids
      /\ \A id \in DOMAIN disk'.inodes : disk'.inodes[id] \in InodeRecord
      /\ disk'.tags \cup disk'.junk \subseteq Ids /\ disk'.next_inode_id \in 3 .. MaxId + 1
  BY <1>2, DiskParts DEF Known
<1>5. want' \in [Ids -> {0, 1}]
  BY <1>0 DEF WantsSound
<1>6. disk'.cat \subseteq [dir : Ids', name : Names', id : Ids', isdir : BOOLEAN]
  BY <1>3, <1>4 DEF Entries
<1>7. TypeOK'
  BY <1>0, <1>1, <1>2, <1>3, <1>4, <1>5, <1>6 DEF TypeOK
<1> QED
  BY <1>0, <1>1, <1>7 DEF Ended

LEMMA FsckStep ==
  ASSUME IndInv, Orderly, NEW relink \in BOOLEAN, NEW drop \in BOOLEAN, NEW ids \in BOOLEAN, Fsck(relink, drop, ids),
         ~(relink /\ Stale(disk))
  PROVE  IndInv'
<1>0. WantsSound /\ HandlesSound /\ disk \in Disks /\ load \in Workloads /\ failures \in Nat
  BY Numbers DEF IndInv, Sound
<1>1. PICK C : /\ disk' = C /\ nextId' = C.next_inode_id /\ Sound(C) /\ Spared(disk, C)
               /\ relink /\ ids => Reconnected(C)
  BY FsckDone
<1>2. /\ phase = "down" /\ failures # 0 /\ UNCHANGED <<handles, want, failures, load>>
      /\ phase' = IF relink /\ drop /\ ids THEN "checked" ELSE "down"
  BY <1>0 DEF Fsck
<1>3. handles = <<>>
  BY <1>0, <1>2 DEF HandlesSound
<1>4. nextId' \in 3 .. MaxId + 1 /\ Known(C) \subseteq Ids
  BY <1>1, DiskParts DEF Sound
<1>5. ASSUME NEW i \in Known(C) PROVE C.inodes[i].size = want[i]
  <2>1. CASE i \in Known(disk)
    BY <1>0, <1>1, <1>3, <2>1, IdleSizes DEF Spared
  <2>2. CASE i \notin Known(disk)
    BY <1>0, <1>1, <1>4, <2>2 DEF Spared, WantsSound
  <2> QED
    BY <2>1, <2>2
<1>6. \A i \in Ids \ Known(C) : want[i] = 0
  BY <1>0, <1>1 DEF Spared, WantsSound
<1>7. phase' \in {"up", "down", "checked"} /\ phase' # "up" /\ (phase' = "checked" => Reconnected(C))
  BY <1>1, <1>2
<1>8. failures = 0 => Exact(C) /\ Owned(C)
  BY <1>2
<1> QED
  BY <1>1, <1>2, <1>3, <1>4, <1>5, <1>6, <1>7, <1>8, IdleStep

-----------------------------------------------------------------------------
(* The invariant.                                                           *)

LEMMA InitSound ==
  ASSUME Init
  PROVE  IndInv
<1>1. load \in Workloads /\ failures = 0 /\ phase = "up" /\ nextId = 3 /\ handles = <<>> /\ want = [i \in Ids |-> 0]
  BY DEF Init, Root
<1>2. load.last \in Nat \ {0, 1} /\ load.failures \in Nat
  BY <1>1, NamesAssumption
<1>3. MaxId \in Nat /\ 2 <= MaxId /\ Root \in Ids /\ Ids \subseteq Nat
  BY <1>1, <1>2, RootIsAnId DEF MaxId
<1>4. PICK r : r = Inode("dir", 0)
  OBVIOUS
<1>5. r \in InodeRecord /\ r.type = "dir" /\ r.ref = 1 /\ r.size = 0
  BY <1>4 DEF Inode, InodeRecord, Types
<1>6. /\ disk.cat = {} /\ disk.inodes = [i \in {Root} |-> r] /\ disk.tags = {} /\ disk.junk = {}
      /\ disk.next_inode_id = 3
      /\ disk = [cat |-> {}, inodes |-> [i \in {Root} |-> r], tags |-> {}, junk |-> {}, next_inode_id |-> 3]
  BY <1>4 DEF Init, Root
<1>7. Known(disk) = {Root} /\ disk.inodes[Root] = r
  BY <1>6 DEF Known
<1>8. DirInodes(disk) = {Root}
  BY <1>5, <1>7 DEF DirInodes
<1>9. disk \in Disks
  <2>1. [i \in {Root} |-> r] \in [{Root} -> InodeRecord] /\ {Root} \in SUBSET Ids
    BY <1>3, <1>5
  <2>2. [i \in {Root} |-> r] \in InodeMaps
    BY <2>1 DEF InodeMaps
  <2>3. 3 \in 3 .. MaxId + 1
    BY <1>3
  <2> QED
    BY <1>6, <2>2, <2>3 DEF Disks
<1>10. Resolving(disk)
  BY <1>6, <1>8 DEF Resolving
<1>11. Counted(disk)
  <2>1. IsFiniteSet(disk.cat)
    BY <1>6, FS_EmptySet
  <2> QED
    BY <1>5, <1>7, <1>8, <2>1 DEF Counted
<1>12. Reached(disk)
  BY <1>1, <1>8, <1>9, ReachClosed DEF Reached, Tops
<1>13. Sound(disk)
  BY <1>9, <1>10, <1>11, <1>12 DEF Sound
<1>14. Bounds
  BY <1>1, <1>2, <1>3 DEF Bounds
<1>15. HandlesSound
  <2>0. DOMAIN handles = {}
    BY <1>1
  <2>1. handles \in [{} -> HandleRecord] /\ {} \in SUBSET load.handles
    BY <1>1
  <2>2. handles \in HandleMaps
    BY <2>1 DEF HandleMaps
  <2>3. CopiesSound(disk) /\ HoldersSound /\ PlacesSound
    BY <2>0 DEF CopiesSound, HoldersSound, PlacesSound
  <2> QED
    BY <1>1, <2>2, <2>3 DEF HandlesSound
<1>16. Fresh
  BY <1>1, <1>7 DEF Fresh, Root
<1>17. WantsSound
  <2>1. want \in [Ids -> {0, 1}] /\ \A i \in Ids : want[i] = 0
    BY <1>1
  <2>2. DOMAIN handles = {}
    BY <1>1
  <2> QED
    BY <1>3, <1>5, <1>7, <2>1, <2>2 DEF WantsSound
<1>18. Exact(disk) /\ Owned(disk)
  BY <1>6, <1>7 DEF Exact, Tallied, Unambiguous, Owned
<1>19. RepairReconnects
  BY <1>1 DEF RepairReconnects
<1> QED
  BY <1>13, <1>14, <1>15, <1>16, <1>17, <1>18, <1>19 DEF IndInv

(* Steps that change nothing. *)
LEMMA StutterStep ==
  ASSUME IndInv, UNCHANGED vars
  PROVE  IndInv'
<1>1. /\ disk' = disk /\ nextId' = nextId /\ handles' = handles /\ phase' = phase /\ want' = want
      /\ failures' = failures /\ load' = load
  BY DEF vars
<1>2. Ids' = Ids /\ Names' = Names /\ MaxId' = MaxId /\ Known(disk)' = Known(disk) /\ DirInodes(disk)' = DirInodes(disk)
  BY <1>1 DEF Ids, MaxId, Names, InodeName, Given, Known, DirInodes
<1>3. Bounds' /\ Fresh'
  BY <1>1, <1>2 DEF IndInv, Bounds, Fresh
<1>4. Sound(disk)' /\ (failures = 0 => Exact(disk) /\ Owned(disk))'
  BY <1>1, SoundNow, ExactNow DEF IndInv
<1>5. Dirs(disk)' = Dirs(disk)
  BY <1>1, <1>2 DEF Dirs, Closed
<1>6. HandlesSound'
  <2>1. HandleRecord' = HandleRecord
    BY <1>2 DEF HandleRecord
  <2>2. (handles \in HandleMaps)'
    BY <1>1, <2>1 DEF HandleMaps, IndInv, HandlesSound
  <2>3. CopiesSound(disk)'
    BY <1>1, <1>2 DEF CopiesSound, CopiesOf, Copy, IndInv, HandlesSound
  <2>4. HoldersSound'
    BY <1>1, <1>2 DEF HoldersSound, Holds, IndInv, HandlesSound
  <2>5. PlacesSound'
    BY <1>1, <1>5 DEF PlacesSound, PlaceFree, IndInv, HandlesSound
  <2> QED
    BY <1>1, <2>2, <2>3, <2>4, <2>5 DEF HandlesSound, IndInv
<1>7. WantsSound'
  BY <1>1, <1>2 DEF WantsSound, SizesOf, Held, IndInv
<1>8. RepairReconnects'
  BY <1>1, <1>5 DEF RepairReconnects, Stale, Dangling, NamesOf, IndInv
<1> QED
  BY <1>3, <1>4, <1>6, <1>7, <1>8 DEF IndInv

(* Every step keeps the invariant. *)
LEMMA NextSound ==
  ASSUME IndInv, Orderly, [Next]_vars
  PROVE  IndInv' \/ Ended'
<1>1. ASSUME NEW d \in Ids, NEW n \in Given, NEW h \in load.handles, NEW media \in BOOLEAN, Create(d, n, h, media)
      PROVE  IndInv'
  BY <1>1, CreateStep
<1>2. ASSUME NEW d \in Ids, NEW n \in Given, Mkdir(d, n) \/ Symlink(d, n) PROVE IndInv'
  BY <1>2, MkdirStep, SymlinkStep
<1>3. ASSUME NEW d \in Ids, NEW n \in Given, NEW e \in disk.cat, Link(e, d, n) \/ Rename(e, d, n) PROVE IndInv'
  BY <1>3, LinkStep, RenameStep
<1>4. ASSUME NEW e \in disk.cat, Unlink(e) \/ Rmdir(e) PROVE IndInv'
  BY <1>4, UnlinkStep, RmdirStep
<1>5. ASSUME NEW e \in disk.cat, NEW f \in disk.cat, Exchange(e, f) PROVE IndInv'
  BY <1>5, ExchangeStep
<1>6. ASSUME NEW e \in disk.cat, NEW h \in load.handles, Open(e, h) PROVE IndInv'
  BY <1>6, OpenStep
<1>7. ASSUME NEW e \in disk.cat, NEW s \in {0, 1}, TruncatePath(e, s) \/ SetAttr(e, s) PROVE IndInv'
  BY <1>7, TruncatePathStep, SetAttrStep
<1>8. ASSUME NEW e \in disk.cat, Setxattr(e) \/ Removexattr(e) PROVE IndInv'
  BY <1>8, SetxattrStep, RemovexattrStep
<1>9. ASSUME NEW h \in DOMAIN handles,
             \/ Write(h) \/ Flush(h) \/ Release(h) \/ CdWrite(h) \/ SidecarCreate(h) \/ IoctlTag(h) \/ AddJunk(h)
      PROVE  IndInv'
  BY <1>9, WriteStep, FlushStep, ReleaseStep, CdWriteStep, SidecarCreateStep, IoctlTagStep, AddJunkStep
<1>10. ASSUME NEW h \in DOMAIN handles, NEW s \in {0, 1}, Truncate(h, s) PROVE IndInv'
  BY <1>10, TruncateStep
<1>11. ASSUME NEW h \in DOMAIN handles, NEW g \in DOMAIN handles, Clone(h, g) PROVE IndInv'
  BY <1>11, CloneStep
<1>12. ASSUME NEW h \in DOMAIN handles, NEW k \in load.kinds, Convert(h, k) PROVE IndInv'
  BY <1>12, ConvertStep
<1>13. ASSUME NEW h \in DOMAIN handles, NEW e \in disk.cat, SidecarLookup(h, e) PROVE IndInv'
  BY <1>13, SidecarLookupStep
<1>14. ASSUME Unmount \/ Crash \/ Mount PROVE IndInv'
  BY <1>14, UnmountStep, CrashStep, MountStep
<1>15. ASSUME NEW relink \in BOOLEAN, NEW drop \in BOOLEAN, NEW ids \in BOOLEAN, Fsck(relink, drop, ids)
      PROVE  IndInv' \/ Ended'
  BY <1>15, FsckStep, FsckEnds
<1>16. CASE UNCHANGED vars
  BY <1>16, StutterStep
<1> QED
  BY <1>1, <1>2, <1>3, <1>4, <1>5, <1>6, <1>7, <1>8, <1>9, <1>10, <1>11, <1>12, <1>13, <1>14, <1>15, <1>16 DEF Next

-----------------------------------------------------------------------------
(* What the invariant says.                                                 *)

LEMMA CatalogFromInv ==
  ASSUME IndInv
  PROVE  CatalogSound
<1>0. /\ Bounds /\ Sound(disk) /\ HandlesSound /\ WantsSound /\ disk \in Disks /\ Resolving(disk) /\ Counted(disk)
      /\ load \in Workloads
  BY Numbers DEF IndInv, Sound
<1>1. TypeOK
  <2>1. /\ disk.cat \subseteq [dir : Ids, name : Names, id : Ids, isdir : BOOLEAN] /\ DOMAIN disk.inodes \subseteq Ids
        /\ \A id \in DOMAIN disk.inodes : disk.inodes[id] \in InodeRecord
        /\ disk.tags \cup disk.junk \subseteq Ids /\ disk.next_inode_id \in 3 .. MaxId + 1
    BY <1>0, DiskParts DEF Entries, Known
  <2>2. nextId \in 3 .. MaxId + 1 /\ phase \in {"up", "down", "checked"} /\ failures \in 0 .. load.failures
    BY <1>0 DEF Bounds
  <2>3. DOMAIN handles \subseteq load.handles
    BY <1>0, HandleTyped
  <2>4. ASSUME NEW h \in DOMAIN handles
        PROVE  /\ handles[h].ino \in InodeRecord /\ handles[h].subino \in InodeRecord
               /\ handles[h].id \in DOMAIN disk.inodes
    <3>1. handles[h] \in HandleRecord
      BY <1>0, HandleTyped
    <3>2. Copy(disk, handles[h].id, handles[h].ino, handles[h].dirty)
      BY <1>0 DEF HandlesSound, CopiesSound, CopiesOf
    <3> QED
      BY <3>1, <3>2 DEF HandleRecord, Copy, Known
  <2>5. want \in [Ids -> {0, 1}]
    BY <1>0 DEF WantsSound
  <2>6. {disk.next_inode_id, nextId} \subseteq 3 .. MaxId + 1 /\ phase \in {"up", "down", "checked", "ended"}
    BY <2>1, <2>2
  <2> QED
    BY <2>1, <2>2, <2>3, <2>4, <2>5, <2>6 DEF TypeOK
<1>2. NamesResolve
  <2>1. ASSUME NEW d \in Dirs(disk), NEW n \in Readdir(d) PROVE Getattr(d, n).err = "OK"
    <3>1. PICK e : e = CHOOSE x \in Lookup(d, n) : TRUE
      OBVIOUS
    <3>2. Lookup(d, n) # {}
      BY DEF Readdir, Lookup
    <3>3. e \in disk.cat
      BY <3>1, <3>2 DEF Lookup
    <3>4. e.id \in DOMAIN disk.inodes
      BY <1>0, <3>3 DEF Resolving, Known
    <3>5. Getattr(d, n) = [err |-> "OK", ino |-> disk.inodes[e.id]]
      BY <3>1, <3>4 DEF Getattr
    <3> QED
      BY <3>5
  <2> QED
    BY <2>1 DEF NamesResolve
<1>3. CountsCoverNames
  <2>1. ASSUME NEW i \in DOMAIN disk.inodes \ {Root} PROVE disk.inodes[i].ref >= Cardinality(NamesOf(disk, i))
    <3>1. i \in Known(disk) \ {Root}
      BY DEF Known
    <3>2. Cardinality(NamesOf(disk, i)) <= disk.inodes[i].ref /\ IsFiniteSet(disk.cat)
      BY <1>0, <3>1 DEF Counted
    <3>3. Cardinality(NamesOf(disk, i)) \in Nat /\ disk.inodes[i].ref \in Nat
      BY <1>0, <3>1, <3>2, NamesFinite, DiskParts DEF InodeRecord
    <3> QED
      BY <3>2, <3>3
  <2> QED
    BY <2>1 DEF CountsCoverNames
<1>4. NothingStray
  <2> SUFFICES ASSUME failures = 0
               PROVE  \A id \in DOMAIN disk.inodes \ {Root} :
                        /\ disk.inodes[id].ref = Cardinality(NamesOf(disk, id))
                        /\ \E e \in NamesOf(disk, id) : e.dir \in Dirs(disk)
    BY DEF NothingStray
  <2>1. \A i \in Known(disk) \ {Root} : Cardinality(NamesOf(disk, i)) = disk.inodes[i].ref
    BY DEF IndInv, Exact, Tallied
  <2>2. ASSUME NEW i \in Orphans(disk) PROVE FALSE
    <3>1. i \in Known(disk) \ {Root} /\ NamesOf(disk, i) = {}
      BY DEF Orphans, Known
    <3>2. Cardinality(NamesOf(disk, i)) = 0
      BY <3>1, FS_EmptySet
    <3>3. disk.inodes[i].ref \in Nat \ {0}
      BY <1>0, <3>1, DiskParts DEF InodeRecord
    <3> QED
      BY <2>1, <3>1, <3>2, <3>3
  <2>3. Orphans(disk) = {}
    BY <2>2
  <2>4. DirInodes(disk) \subseteq Dirs(disk)
    BY <1>0, <2>3, AllBelowRoot
  <2>5. \A i \in Known(disk) \ {Root} : \E e \in NamesOf(disk, i) : e.dir \in Dirs(disk)
    BY <1>0, <2>3, <2>4, NamedBelowRoot
  <2> QED
    BY <2>1, <2>5 DEF Known
<1>5. TagsOwned
  BY DEF TagsOwned, IndInv, Owned, Known
<1> QED
  BY <1>1, <1>2, <1>3, <1>4, <1>5 DEF CatalogSound

LEMMA SizesFromInv ==
  ASSUME IndInv
  PROVE  SizesKept
BY DEF IndInv, WantsSound, SizesKept, Known

(* An unmounted volume is changed by obmafsck only. *)
LEMMA DownSteps ==
  ASSUME handles = <<>>, phase # "up", Next
  PROVE  \/ \E relink, drop, ids \in BOOLEAN : Fsck(relink, drop, ids)
         \/ phase' = "up" /\ phase # "ended"
<1>0. DOMAIN handles = {}
  OBVIOUS
<1>1. ~Up
  BY DEF Up
<1>2. \A d, n, ino, hs : ~Make(d, n, ino, hs)
  BY <1>1 DEF Make
<1>3. \A d, n, h, media : ~Create(d, n, h, media)
  BY <1>2 DEF Create
<1>4. \A d, n : ~Mkdir(d, n) /\ ~Symlink(d, n)
  BY <1>2 DEF Mkdir, Symlink
<1>5. \A e, d, n : ~Link(e, d, n) /\ ~Rename(e, d, n)
  BY <1>1 DEF Link, Rename
<1>6. \A e : ~Unlink(e) /\ ~Rmdir(e) /\ ~Setxattr(e) /\ ~Removexattr(e)
  BY <1>1 DEF Unlink, Rmdir, Setxattr, SetTag, Removexattr
<1>7. \A e, f : ~Exchange(e, f)
  BY <1>1 DEF Exchange
<1>8. \A e, h : ~Open(e, h)
  BY <1>1 DEF Open
<1>9. \A e, s : ~TruncatePath(e, s) /\ ~SetAttr(e, s)
  BY <1>1 DEF TruncatePath, SetAttr
<1>10. ~Unmount /\ ~Crash /\ (Mount => phase' = "up" /\ phase # "ended")
  BY DEF Unmount, Crash, Mount
<1> QED
  BY <1>0, <1>3, <1>4, <1>5, <1>6, <1>7, <1>8, <1>9, <1>10 DEF Next

(* A volume that was left alone stays so. *)
LEMMA EndedStays ==
  ASSUME Ended, [Next]_vars
  PROVE  UNCHANGED vars
<1>1. \A relink, drop, ids : ~Fsck(relink, drop, ids)
  BY DEF Fsck, Ended
<1>2. ~Next
  BY <1>1, DownSteps DEF Ended
<1> QED
  BY <1>2

LEMMA EndedStep ==
  ASSUME Ended, [Next]_vars
  PROVE  Ended'
<1>1. UNCHANGED vars
  BY EndedStays
<1> QED
  BY <1>1 DEF Ended, TypeOK, vars, Ids, MaxId, Names

LEMMA RepairSpares ==
  ASSUME IndInv \/ Ended, Orderly, [Next]_vars, phase = "down", phase' # "up"
  PROVE  \A id \in DOMAIN disk.inodes \ Overtaken(disk) :
           id \in DOMAIN disk'.inodes /\ disk'.inodes[id].type = disk.inodes[id].type
<1>0. IndInv /\ handles = <<>>
  BY DEF Ended, IndInv, HandlesSound
<1>1. CASE UNCHANGED vars
  BY <1>1 DEF vars
<1>2. CASE Next
  <2>1. PICK relink \in BOOLEAN, drop \in BOOLEAN, ids \in BOOLEAN : Fsck(relink, drop, ids)
    BY <1>0, <1>2, DownSteps
  <2> QED
    BY <1>0, <2>1, FsckSpares DEF Known
<1> QED
  BY <1>1, <1>2

-----------------------------------------------------------------------------
(* The theorems.                                                            *)

(* Every state that calls, failed writes, crashes, repairs and flushes of   *)
(* handles leave satisfies the invariant, but for the volume that obmafsck  *)
(* re-linked files on with a stale next_inode_id.                           *)
THEOREM InvariantHolds ==
  ASSUME Orderly
  PROVE  Spec => [](IndInv \/ Ended)
<1>1. Init => IndInv \/ Ended
  BY InitSound
<1>2. (IndInv \/ Ended) /\ [Next]_vars => (IndInv \/ Ended)'
  BY NextSound, EndedStep
<1> QED
  BY <1>1, <1>2, PTL DEF Spec

(* No listed name leads to a missing inode, no link count is below the      *)
(* number of names, and, while nothing has failed, no inode is out of reach *)
(* of the root and no tag outlives its file (fuse_write.c, fuse_dir.c).     *)
THEOREM CatalogAlwaysSound ==
  ASSUME Orderly
  PROVE  Spec => []CatalogSound
<1>1. IndInv \/ Ended => CatalogSound
  BY CatalogFromInv DEF Ended, CatalogSound
<1> QED
  BY <1>1, InvariantHolds, PTL

(* The inode tree has the size of the last accepted write of every file     *)
(* that is not open (write, flush and release in fuse_read.c, truncate,     *)
(* copy_file_range).                                                        *)
THEOREM SizesAlwaysKept ==
  ASSUME Orderly
  PROVE  Spec => []SizesKept
<1>1. IndInv \/ Ended => SizesKept
  BY SizesFromInv DEF Ended, SizesKept
<1> QED
  BY <1>1, InvariantHolds, PTL

(* A repaired volume has no inode out of reach, no name without inode and a *)
(* next_inode_id above every inode (fsck_crosscheck.c).                     *)
THEOREM RepairAlwaysReconnects ==
  ASSUME Orderly
  PROVE  Spec => []RepairReconnects
<1>1. IndInv \/ Ended => RepairReconnects
  BY DEF IndInv, Ended, RepairReconnects
<1> QED
  BY <1>1, InvariantHolds, PTL

(* obmafsck takes no file away and turns none into another, whatever a      *)
(* crash left, but for the one whose id a stale next_inode_id gives to      *)
(* lost+found (fsck_crosscheck.c).                                          *)
THEOREM RepairAlwaysKeepsFiles ==
  ASSUME Orderly
  PROVE  Spec => RepairKeepsFiles
<1>1. (IndInv \/ Ended) /\ [Next]_vars =>
        [(phase = "down" /\ phase' # "up") =>
           \A id \in DOMAIN disk.inodes \ Overtaken(disk) :
             id \in DOMAIN disk'.inodes /\ disk'.inodes[id].type = disk.inodes[id].type]_vars
  BY RepairSpares
<1> QED
  BY <1>1, InvariantHolds, PTL DEF Spec, RepairKeepsFiles
=============================================================================
