------------------------------- MODULE Names -------------------------------
(***************************************************************************)
(* Names, inodes and open files of a mounted volume: the FUSE handlers     *)
(* that create, link, rename and remove (mount/fuse_write.c, fuse_dir.c),  *)
(* the handlers of an open file with its private copy of the inode         *)
(* (fuse_read.c, fuse_attr.c, fuse_clone.c, fuse_xattr.c), the ioctls that *)
(* make a file a disk image (fuse_ioctl.c), and the checker that           *)
(* reconnects what a crash left behind (obmafsck/fsck_crosscheck.c).       *)
(*                                                                         *)
(* The trees are maps here (Trees shows that the B+Trees are).  A handler  *)
(* runs alone under tree_lock; it is given by the sequence of contents its *)
(* tree writes leave on the disk, so that the process may die, or a write  *)
(* fail, after any of them.  The one handler that leaves the lock, the     *)
(* creation of a CD image's subchannel sidecar, takes two steps.           *)
(*                                                                         *)
(* A behaviour keeps to one of the workloads, which bound what it uses, so *)
(* that one run can follow many names without open files and open files    *)
(* with few names.                                                         *)
(***************************************************************************)
EXTENDS Integers, FiniteSets, FiniteSetsExt, Sequences, SequencesExt, TLC

CONSTANTS
  UserNames,    \* the names users give to files
  Workloads,    \* bounds: [handles: open at one time, kinds: image types that
                \* importers convert to, last: largest inode id, failures:
                \* crashes and failed tree writes]
  TaggedKinds,  \* the image types whose files are given media tags
  Exclusive,    \* TRUE: a file with an open handle is changed through it only
  Alone,        \* TRUE: nothing else runs while a sidecar is being created
  Careful       \* TRUE: a crash is followed by obmafsck, and a volume on which
                \* it re-linked files with a stale next_inode_id is left alone

ASSUME NamesAssumption ==
  /\ \A w \in Workloads :
       /\ w.kinds \subseteq {"media", "cd", "nintendo", "ps3"}
       /\ w.last \in Nat \ {0, 1} /\ w.failures \in Nat
  /\ {Exclusive, Alone, Careful} \subseteq BOOLEAN

VARIABLES
  disk,      \* the trees: [cat, inodes, tags, junk, next_inode_id]
  nextId,    \* ctx->sb.next_inode_id in memory
  handles,   \* fuse_file_ctx of every open handle
  phase,     \* "up" mounted, "down" not mounted, "checked" obmafsck has just run,
             \* "ended" see Careful
  want,      \* history: the size the last accepted change gave to each file
  failures,  \* crashes and failed writes so far
  load       \* the workload of this behaviour

vars == <<disk, nextId, handles, phase, want, failures, load>>

Root == 2
MaxId == load.last
Ids == Root .. MaxId

(* What users type, and the names the program derives: an image's sidecar,  *)
(* lost+found, and a re-linked inode's number.                              *)
User(n) == <<"user", n>>
SubName(n) == <<"sub", n[2]>>
LostFound == <<"lost+found">>
InodeName(id) == <<"inode", id>>
Given == {User(n) : n \in UserNames}
Names == Given \cup {SubName(n) : n \in Given} \cup {LostFound} \cup {InodeName(id) : id \in Ids}

Types == {"dir", "reg", "symlink", "sub", "media", "cd", "nintendo", "ps3"}
Images == {"media", "cd", "nintendo", "ps3"}
Inode(type, size) == [type |-> type, mode |-> 0, size |-> size, ref |-> 1]
InodeRecord == [type : Types, mode : {0, 1}, size : {0, 1}, ref : Nat \ {0}]
NoInode == Inode("sub", 0)

(* fuse_file_ctx: the copy of the inode, and of the subchannel sidecar's   *)
(* inode.  sub is 0 before the sidecar is looked up, Missing between the   *)
(* lookup that found none and its creation, at the directory and the name  *)
(* it was looked up under.                                                 *)
Missing == 1
Place(d, n) == [dir |-> d, name |-> n]
NoPlace == Place(Root, LostFound)
Handle(id, ino) ==
  [id |-> id, ino |-> ino, dirty |-> FALSE,
   sub |-> 0, at |-> NoPlace, subino |-> NoInode, subdirty |-> FALSE]

Entry(d, n, id, isdir) == [dir |-> d, name |-> n, id |-> id, isdir |-> isdir]

(* f with x given the value y. *)
Bind(f, x, y) == [i \in DOMAIN f \cup {x} |-> IF i = x THEN y ELSE f[i]]

Init ==
  /\ disk = [cat |-> {}, inodes |-> [i \in {Root} |-> Inode("dir", 0)], tags |-> {}, junk |-> {}, next_inode_id |-> Root + 1]
  /\ nextId = Root + 1
  /\ handles = <<>>
  /\ phase = "up"
  /\ load \in Workloads
  /\ want = [id \in Ids |-> 0]
  /\ failures = 0

-----------------------------------------------------------------------------
(* The trees, as the handlers use them.                                     *)

Lookup(d, n) == {e \in disk.cat : e.dir = d /\ e.name = n}
NamesOf(D, id) == {e \in D.cat : e.id = id}
Put(D, id, ino) == [D EXCEPT !.inodes = Bind(@, id, ino)]
DeleteInode(D, id) == [D EXCEPT !.inodes = [i \in DOMAIN @ \ {id} |-> @[i]]]
Insert(D, e) == [D EXCEPT !.cat = @ \cup {e}]
DeleteEntry(D, e) == [D EXCEPT !.cat = @ \ {e}]

(* resolve_path: the directories a path walked from the root can end in,    *)
(* the least set with the root that directory entries do not lead out of.   *)
Closed(D, S) == \A e \in D.cat : (e.isdir /\ e.dir \in S) => e.id \in S
Dirs(D) == {d \in Ids : \A S \in SUBSET (Ids \ {d}) : Root \in S => ~Closed(D, S)}

(* catalog_list of a directory, and the stat of a name in it: EIO when the  *)
(* inode is missing.                                                        *)
Readdir(d) == {e.name : e \in {x \in disk.cat : x.dir = d}}
Getattr(d, n) ==
  LET e == CHOOSE x \in Lookup(d, n) : TRUE
  IN  IF e.id \in DOMAIN disk.inodes THEN [err |-> "OK", ino |-> disk.inodes[e.id]]
      ELSE [err |-> "EIO", ino |-> NoInode]

(* find_parent_of_dir searches from the root for the directory that lists d. *)
FindParent(d) == {p \in Dirs(disk) : \E e \in disk.cat : e.isdir /\ e.id = d /\ e.dir = p}
(* is_ancestor climbs from parent to parent. *)
Above(d) ==
  {a \in Ids : \A S \in SUBSET (Ids \ {a}) : d \in S => \E x \in S : ~(FindParent(x) \subseteq S)}
(* Mutant: the climb towards the root stops at the first parent. *)
MutIsAncestor(a, d) == a \in {d} \cup FindParent(d)
IsAncestor(a, d) == a \in Above(d)

-----------------------------------------------------------------------------
(* How a handler ends.  ws is the sequence of disk contents its tree writes *)
(* make, hs the handles and n the next inode id it leaves.                  *)

Stop(D) ==
  /\ disk' = D /\ nextId' = D.next_inode_id /\ handles' = <<>> /\ phase' = "down"
  /\ want' = [id \in Ids |-> IF id \in DOMAIN D.inodes THEN D.inodes[id].size ELSE 0]
  /\ failures' = failures + 1 /\ UNCHANGED load

(* The process is killed between two of the handler's writes.               *)
Dies(ws) == failures < load.failures /\ \E k \in 1 .. Len(ws) - 1 : Stop(ws[k])
Ends(ws, hs, n) ==
  /\ disk' = Last(ws) /\ handles' = hs /\ nextId' = n
  /\ UNCHANGED <<phase, failures, load>>
Forget == want' = [id \in Ids |-> IF id \in DOMAIN disk'.inodes THEN want[id] ELSE 0]
(* A write fails and the handler returns -EIO without undoing the others.   *)
FailsAfter(ws) ==
  /\ failures < load.failures /\ failures' = failures + 1
  /\ \E k \in 1 .. Len(ws) - 1 : disk' = ws[k]
  /\ UNCHANGED <<nextId, handles, phase, load>> /\ Forget

Up == phase = "up" /\ (Alone => \A h \in DOMAIN handles : handles[h].sub # Missing)
Held(id) == \E h \in DOMAIN handles : id \in {handles[h].id, handles[h].sub}
Usable(id) == Exclusive => ~Held(id)

-----------------------------------------------------------------------------
(* Making names: create, mkdir and symlink write the inode first and the    *)
(* catalog entry second, and take the inode back when the entry fails.      *)

(* Mutant: the catalog entry is written before the inode it names. *)
MutMakeWrites(d, n, id, ino) ==
  <<Insert(disk, Entry(d, n, id, ino.type = "dir")),
    Put(Insert(disk, Entry(d, n, id, ino.type = "dir")), id, ino)>>
MakeWrites(d, n, id, ino) ==
  <<Put(disk, id, ino), Insert(Put(disk, id, ino), Entry(d, n, id, ino.type = "dir"))>>

MakeRollback(d, n, id, ino) == DeleteInode(Put(disk, id, ino), id)

Make(d, n, ino, hs) ==
  /\ Up /\ d \in Dirs(disk) /\ Lookup(d, n) = {} /\ nextId <= MaxId
  /\ \/ Ends(MakeWrites(d, n, nextId, ino), hs, nextId + 1) /\ want' = [want EXCEPT ![nextId] = ino.size]
     \/ Dies(MakeWrites(d, n, nextId, ino))
     \/ /\ failures < load.failures /\ failures' = failures + 1
        /\ disk' = MakeRollback(d, n, nextId, ino)
        /\ nextId' = nextId + 1 /\ UNCHANGED <<handles, phase, want, load>>

(* The extension of the name makes a new file a disk image or not.          *)
Create(d, n, h, media) ==
  LET ino == Inode(IF media THEN "media" ELSE "reg", 0)
  IN  h \notin DOMAIN handles /\ Make(d, n, ino, Bind(handles, h, Handle(nextId, ino)))
Mkdir(d, n) == Make(d, n, Inode("dir", 0), handles)
Symlink(d, n) == Make(d, n, Inode("symlink", 1), handles)

(* link: the count goes up before the second name exists.                   *)
Count(D, id, by) == [D EXCEPT !.inodes[id].ref = @ + by]
(* Mutant: the new name is inserted before the count is raised. *)
MutLinkWrites(e, d, n) ==
  <<Insert(disk, Entry(d, n, e.id, FALSE)), Count(Insert(disk, Entry(d, n, e.id, FALSE)), e.id, 1)>>
LinkWrites(e, d, n) ==
  <<Count(disk, e.id, 1), Insert(Count(disk, e.id, 1), Entry(d, n, e.id, FALSE))>>
(* Mutant: the count is lowered once too often. *)
MutLinkRollback(e, d, n) == Count(Count(disk, e.id, 1), e.id, -2)
LinkRollback(e, d, n) == Count(Count(disk, e.id, 1), e.id, -1)

Link(e, d, n) ==
  /\ Up /\ e.dir \in Dirs(disk) /\ ~e.isdir /\ d \in Dirs(disk) /\ Lookup(d, n) = {}
  /\ e.id \in DOMAIN disk.inodes /\ Usable(e.id)
  /\ \/ Ends(LinkWrites(e, d, n), handles, nextId) /\ UNCHANGED want
     \/ Dies(LinkWrites(e, d, n))
     \/ /\ failures < load.failures /\ failures' = failures + 1
        /\ disk' = LinkRollback(e, d, n) /\ UNCHANGED <<nextId, handles, phase, want, load>>

-----------------------------------------------------------------------------
(* Removing names.  The entry goes first; the last name takes the file's    *)
(* media tags (but not those of a CD image), its junk map and its inode.    *)

TagsGo(D, id) ==
  IF D.inodes[id].type \in {"media", "nintendo", "ps3"} THEN [D EXCEPT !.tags = @ \ {id}] ELSE D
(* Mutant: the junk map outlives the file. *)
MutJunkGoes(D, id) == D
JunkGoes(D, id) == IF D.inodes[id].type = "nintendo" THEN [D EXCEPT !.junk = @ \ {id}] ELSE D
UnlinkWrites(e) ==
  LET D == DeleteEntry(disk, e) IN
  IF e.id \notin DOMAIN D.inodes THEN <<D>>
  ELSE IF D.inodes[e.id].ref > 1 THEN <<D, Count(D, e.id, -1)>>
  ELSE <<D, TagsGo(D, e.id), JunkGoes(TagsGo(D, e.id), e.id),
         DeleteInode(JunkGoes(TagsGo(D, e.id), e.id), e.id)>>

(* libfuse renames, instead of unlinking, a file that is open: such a call  *)
(* does not reach the handler.                                              *)
Unopened(id) == \A h \in DOMAIN handles : handles[h].id # id
Unlink(e) ==
  /\ Up /\ e.dir \in Dirs(disk) /\ ~e.isdir /\ Unopened(e.id) /\ Usable(e.id)
  /\ \/ Ends(UnlinkWrites(e), handles, nextId) /\ Forget
     \/ Dies(UnlinkWrites(e))
     \/ FailsAfter(UnlinkWrites(e))

Empty(D, id) == \A e \in D.cat : e.dir # id
RmdirWrites(e) == <<DeleteEntry(disk, e), DeleteInode(DeleteEntry(disk, e), e.id)>>
Rmdir(e) ==
  /\ Up /\ e.dir \in Dirs(disk) /\ e.isdir /\ Empty(disk, e.id)
  /\ \/ Ends(RmdirWrites(e), handles, nextId) /\ UNCHANGED want
     \/ Dies(RmdirWrites(e))
     \/ FailsAfter(RmdirWrites(e))

-----------------------------------------------------------------------------
(* rename.                                                                  *)

(* replace_dest: what makes room for the new name, nothing if it is free.   *)
ReplaceDest(dst) ==
  IF dst = {} THEN <<>>
  ELSE LET e == CHOOSE x \in dst : TRUE IN IF e.isdir THEN RmdirWrites(e) ELSE UnlinkWrites(e)

MoveWrites(e, dst, d, n) ==
  LET rw == ReplaceDest(dst)
      D  == IF rw = <<>> THEN disk ELSE Last(rw)
  IN  rw \o <<DeleteEntry(D, e), Insert(DeleteEntry(D, e), Entry(d, n, e.id, e.isdir))>>

MayMove(e, dst, d) ==
  /\ \A x \in dst : e.isdir = x.isdir /\ (x.isdir => Empty(disk, x.id))
  /\ (e.isdir /\ e.dir # d) => ~IsAncestor(e.id, d)

(* The kernel drops a rename of a name onto itself.                         *)
Rename(e, d, n) ==
  LET dst == Lookup(d, n) IN
  /\ Up /\ e.dir \in Dirs(disk) /\ d \in Dirs(disk) /\ e \notin dst /\ Cardinality(dst) < 2
  /\ MayMove(e, dst, d)
  /\ \A x \in dst : x.isdir \/ (Unopened(x.id) /\ Usable(x.id))
  /\ \/ Ends(MoveWrites(e, dst, d, n), handles, nextId) /\ Forget
     \/ Dies(MoveWrites(e, dst, d, n))
     \/ FailsAfter(MoveWrites(e, dst, d, n))

(* RENAME_EXCHANGE: both entries are deleted and inserted swapped.          *)
ExchangeWrites(e, f) ==
  LET A == DeleteEntry(disk, e)
      B == DeleteEntry(A, f)
      C == Insert(B, Entry(e.dir, e.name, f.id, f.isdir))
  IN  <<A, B, C, Insert(C, Entry(f.dir, f.name, e.id, e.isdir))>>

(* The kernel refuses the exchange of a directory with one inside it.       *)
Exchange(e, f) ==
  /\ Up /\ {e.dir, f.dir} \subseteq Dirs(disk) /\ e # f /\ e.isdir = f.isdir
  /\ e.isdir => ~IsAncestor(e.id, f.dir) /\ ~IsAncestor(f.id, e.dir)
  /\ \/ Ends(ExchangeWrites(e, f), handles, nextId) /\ UNCHANGED want
     \/ Dies(ExchangeWrites(e, f))
     \/ FailsAfter(ExchangeWrites(e, f))

-----------------------------------------------------------------------------
(* Open files.  open copies the inode; write changes the copy and leaves it *)
(* to flush and release to put it into the tree.                            *)

Open(e, h) ==
  /\ Up /\ h \notin DOMAIN handles /\ e.dir \in Dirs(disk) /\ ~e.isdir
  /\ e.id \in DOMAIN disk.inodes /\ disk.inodes[e.id].type # "symlink" /\ Usable(e.id)
  /\ handles' = Bind(handles, h, Handle(e.id, disk.inodes[e.id]))
  /\ UNCHANGED <<disk, nextId, phase, want, failures, load>>

Change(h, c) == handles' = [handles EXCEPT ![h] = c]

Write(h) ==
  /\ Up /\ handles[h].ino.type # "sub"
  /\ Change(h, [handles[h] EXCEPT !.ino.size = 1, !.dirty = TRUE])
  /\ want' = [want EXCEPT ![handles[h].id] = 1]
  /\ UNCHANGED <<disk, nextId, phase, failures, load>>

(* Mutant: the cached copy is forgotten when the file is closed. *)
MutWriteBack(c) == disk
WriteBack(c) ==
  LET D == IF c.dirty THEN Put(disk, c.id, c.ino) ELSE disk
  IN  IF c.subdirty THEN Put(D, c.sub, c.subino) ELSE D

Flush(h) ==
  /\ Up /\ disk' = WriteBack(handles[h])
  /\ Change(h, [handles[h] EXCEPT !.dirty = FALSE, !.subdirty = FALSE])
  /\ UNCHANGED <<nextId, phase, want, failures, load>>

Release(h) ==
  /\ Up /\ handles[h].sub # Missing
  /\ disk' = WriteBack(handles[h])
  /\ handles' = [g \in DOMAIN handles \ {h} |-> handles[g]]
  /\ UNCHANGED <<nextId, phase, want, failures, load>>

(* truncate through a handle puts the copy at once, by path the tree's own; *)
(* the kernel lets no path of a directory or a symbolic link through.       *)
Truncate(h, size) ==
  LET c == [handles[h] EXCEPT !.ino.size = size, !.dirty = FALSE] IN
  /\ Up
  /\ Change(h, c) /\ disk' = Put(disk, c.id, c.ino)
  /\ want' = [want EXCEPT ![c.id] = size]
  /\ UNCHANGED <<nextId, phase, failures, load>>

TruncatePath(e, size) ==
  /\ Up /\ e.dir \in Dirs(disk) /\ e.id \in DOMAIN disk.inodes /\ Usable(e.id)
  /\ disk.inodes[e.id].type \notin {"dir", "symlink"}
  /\ disk' = [disk EXCEPT !.inodes[e.id].size = size]
  /\ want' = [want EXCEPT ![e.id] = size]
  /\ UNCHANGED <<nextId, handles, phase, failures, load>>

(* chmod, chown and utimens go by path even when the file is open; here on  *)
(* regular files.                                                           *)
SetAttr(e, m) ==
  /\ Up /\ e.dir \in Dirs(disk) /\ e.id \in DOMAIN disk.inodes /\ Usable(e.id)
  /\ disk.inodes[e.id].type = "reg"
  /\ disk' = [disk EXCEPT !.inodes[e.id].mode = m]
  /\ UNCHANGED <<nextId, handles, phase, want, failures, load>>

(* copy_file_range puts the copies of both handles.                         *)
Clone(h, g) ==
  LET a == [handles[h] EXCEPT !.dirty = FALSE]
      b == [handles[g] EXCEPT !.ino.size = 1, !.dirty = FALSE]
  IN /\ Up /\ h # g /\ a.ino.type = "reg" /\ b.ino.type = "reg" /\ a.ino.size > 0
     /\ disk' = Put(Put(disk, a.id, a.ino), b.id, b.ino)
     /\ handles' = [handles EXCEPT ![h] = a, ![g] = b]
     /\ want' = [want EXCEPT ![b.id] = 1]
     /\ UNCHANGED <<nextId, phase, failures, load>>

-----------------------------------------------------------------------------
(* Disk images.  Importers convert an empty file before they tag it.  The   *)
(* first Nintendo or PS3 image also writes the superblock, for its feature  *)
(* flag, and with it next_inode_id.                                         *)

Convert(h, kind) ==
  LET c == [handles[h] EXCEPT !.ino.type = kind] IN
  /\ Up /\ c.ino.size = 0 /\ handles[h].ino.type \in {"reg", "media"}
  /\ c.id \notin disk.tags \cup disk.junk
  /\ Change(h, c)
  /\ \E n \in {disk.next_inode_id} \cup (IF kind \in {"nintendo", "ps3"} THEN {nextId} ELSE {}) :
       disk' = [Put(disk, c.id, c.ino) EXCEPT !.next_inode_id = n]
  /\ UNCHANGED <<nextId, phase, want, failures, load>>

(* Media tags are set and removed by ioctl on a handle or by xattr on a     *)
(* path; junk regions by ioctl on a Nintendo image.                         *)
IsImage(type) == type \in Images
SetTag(id, type) ==
  /\ Up /\ IsImage(type) /\ type \in TaggedKinds
  /\ disk' = [disk EXCEPT !.tags = @ \cup {id}]
  /\ UNCHANGED <<nextId, handles, phase, want, failures, load>>
IoctlTag(h) == SetTag(handles[h].id, handles[h].ino.type)
Setxattr(e) == e.dir \in Dirs(disk) /\ e.id \in DOMAIN disk.inodes /\ SetTag(e.id, disk.inodes[e.id].type)
Removexattr(e) ==
  /\ Up /\ e.dir \in Dirs(disk) /\ e.id \in DOMAIN disk.inodes \cap disk.tags
  /\ IsImage(disk.inodes[e.id].type)
  /\ disk' = [disk EXCEPT !.tags = @ \ {e.id}]
  /\ UNCHANGED <<nextId, handles, phase, want, failures, load>>
AddJunk(h) ==
  /\ Up /\ handles[h].ino.type = "nintendo"
  /\ disk' = [disk EXCEPT !.junk = @ \cup {handles[h].id}]
  /\ UNCHANGED <<nextId, handles, phase, want, failures, load>>

(* A raw CD sector written with its subchannel.  The first one looks for    *)
(* the sidecar next to the image and creates it if there is none; that part *)
(* of the ioctl holds no lock.                                              *)
Written(c) ==
  [c EXCEPT !.ino.size = 1, !.dirty = TRUE,
            !.subino.size = IF c.sub > Missing THEN 1 ELSE @,
            !.subdirty = @ \/ c.sub > Missing]

CdWrite(h) ==
  /\ Up /\ handles[h].ino.type = "cd" /\ handles[h].sub # Missing
  /\ Change(h, Written(handles[h]))
  /\ want' = [id \in Ids |-> IF id \in {handles[h].id, handles[h].sub} THEN 1 ELSE want[id]]
  /\ UNCHANGED <<disk, nextId, phase, failures, load>>

SidecarLookup(h, e) ==
  LET found == Lookup(e.dir, SubName(e.name)) IN
  /\ Up /\ handles[h].ino.type = "cd" /\ handles[h].sub = 0 /\ e.id = handles[h].id
  /\ e.dir \in Dirs(disk) /\ e.name \in Given
  /\ \A x \in found : Usable(x.id)
  /\ \/ /\ found = {}
        /\ Change(h, [handles[h] EXCEPT !.sub = Missing, !.at = Place(e.dir, SubName(e.name))])
     \/ \E x \in found :
          /\ x.id \in DOMAIN disk.inodes
          /\ Change(h, [handles[h] EXCEPT !.sub = x.id, !.subino = disk.inodes[x.id]])
  /\ UNCHANGED <<disk, nextId, phase, want, failures, load>>

SidecarCreate(h) ==
  LET c   == handles[h]
      ino == [Inode("sub", 0) EXCEPT !.mode = c.ino.mode]
      ws  == MakeWrites(c.at.dir, c.at.name, nextId, ino)
  IN /\ phase = "up" /\ c.sub = Missing /\ nextId <= MaxId
     /\ \/ /\ Ends(ws, [handles EXCEPT ![h] = [c EXCEPT !.sub = nextId, !.at = NoPlace, !.subino = ino]],
                  nextId + 1)
           /\ UNCHANGED want
        \/ Dies(ws)
        \/ /\ failures < load.failures /\ failures' = failures + 1
           /\ disk' = MakeRollback(c.at.dir, c.at.name, nextId, ino) /\ nextId' = nextId + 1
           /\ Change(h, [c EXCEPT !.sub = 0, !.at = NoPlace]) /\ UNCHANGED <<phase, want, load>>

-----------------------------------------------------------------------------
(* Mounting, unmounting, dying.  next_inode_id reaches the disk at unmount. *)

Unmount ==
  /\ phase = "up" /\ handles = <<>> /\ phase' = "down"
  /\ disk' = [disk EXCEPT !.next_inode_id = nextId]
  /\ UNCHANGED <<nextId, handles, want, failures, load>>

Crash == phase = "up" /\ failures < load.failures /\ Stop(disk)

Stale(D) == \E id \in DOMAIN D.inodes : id >= D.next_inode_id
Mount ==
  /\ phase \in {"down", "checked"} /\ (Careful => ~Stale(disk))
  /\ phase' = "up" /\ nextId' = disk.next_inode_id
  /\ UNCHANGED <<disk, handles, want, failures, load>>

-----------------------------------------------------------------------------
(* obmafsck.  It collects the names and the inodes once, re-links every     *)
(* inode without a name below lost+found, deletes the names without inode,  *)
(* and then compares next_inode_id with the largest inode.  Each repair is  *)
(* asked for; closing the volume writes the superblock.                     *)

Orphans(D) == {id \in DOMAIN D.inodes \ {Root} : NamesOf(D, id) = {}}
Dangling(D) == {e \in D.cat : e.id \notin DOMAIN D.inodes}

HasLostFound(D) == \E e \in D.cat : e.dir = Root /\ e.name = LostFound
WithLostFound(D) ==
  IF HasLostFound(D) THEN D
  ELSE [Put(Insert(D, Entry(Root, LostFound, D.next_inode_id, TRUE)), D.next_inode_id, Inode("dir", 0))
          EXCEPT !.next_inode_id = @ + 1]

(* Mutant: inodes without a name are deleted. *)
MutRelink(D) == [D EXCEPT !.inodes = [i \in DOMAIN @ \ Orphans(D) |-> @[i]]]
(* Mutant: an inode without a name is given as its own parent. *)
MutRelinkElsewhere(D) ==
  LET L == WithLostFound(D)
  IN  [L EXCEPT !.cat = @ \cup {Entry(id, InodeName(id), id, L.inodes[id].type = "dir") : id \in Orphans(D)}]
Relink(D) ==
  LET L   == WithLostFound(D)
      lf  == (CHOOSE e \in L.cat : e.dir = Root /\ e.name = LostFound).id
      new == Orphans(D) \ {lf}
  IN  [L EXCEPT !.cat = @ \cup {Entry(lf, InodeName(id), id, L.inodes[id].type = "dir") : id \in new},
                !.inodes = [i \in DOMAIN @ |->
                              IF i \in new /\ @[i].ref = 0 THEN [@[i] EXCEPT !.ref = 1] ELSE @[i]]]

FixNextId(D) == IF Stale(D) THEN [D EXCEPT !.next_inode_id = Max(DOMAIN D.inodes) + 1] ELSE D

Fsck(relink, drop, ids) ==
  LET A == IF relink /\ Orphans(disk) # {} THEN Relink(disk) ELSE disk
      B == IF drop THEN [A EXCEPT !.cat = @ \ Dangling(disk)] ELSE A
      C == IF ids THEN FixNextId(B) ELSE B
  IN /\ phase = "down" /\ failures > 0
     /\ (relink /\ Orphans(disk) # {}) => disk.next_inode_id <= MaxId
     /\ disk' = C /\ nextId' = C.next_inode_id
     /\ phase' = IF Careful /\ relink /\ Stale(disk) THEN "ended"
                 ELSE IF relink /\ drop /\ ids THEN "checked" ELSE "down"
     /\ UNCHANGED <<handles, want, failures, load>>

-----------------------------------------------------------------------------
Next ==
  \/ \E d \in Ids, n \in Given :
       \/ \E h \in load.handles, media \in BOOLEAN : Create(d, n, h, media)
       \/ Mkdir(d, n) \/ Symlink(d, n)
       \/ \E e \in disk.cat : Link(e, d, n) \/ Rename(e, d, n)
  \/ \E e \in disk.cat :
       \/ Unlink(e) \/ Rmdir(e)
       \/ \E f \in disk.cat : Exchange(e, f)
       \/ \E h \in load.handles : Open(e, h)
       \/ \E s \in {0, 1} : TruncatePath(e, s) \/ SetAttr(e, s)
       \/ Setxattr(e) \/ Removexattr(e)
  \/ \E h \in DOMAIN handles :
       \/ Write(h) \/ Flush(h) \/ Release(h) \/ CdWrite(h) \/ SidecarCreate(h) \/ IoctlTag(h) \/ AddJunk(h)
       \/ \E s \in {0, 1} : Truncate(h, s)
       \/ \E g \in DOMAIN handles : Clone(h, g)
       \/ \E k \in load.kinds : Convert(h, k)
       \/ \E e \in disk.cat : SidecarLookup(h, e)
  \/ Unmount \/ Crash \/ Mount
  \/ \E relink, drop, ids \in BOOLEAN : Fsck(relink, drop, ids)

Spec == Init /\ [][Next]_vars

-----------------------------------------------------------------------------
(* Properties.                                                              *)

(* The trees, the handles and the counters stay in their types; every open  *)
(* handle belongs to an inode the volume has.                               *)
TypeOK ==
  /\ disk.cat \subseteq [dir : Ids, name : Names, id : Ids, isdir : BOOLEAN]
  /\ DOMAIN disk.inodes \subseteq Ids
  /\ \A id \in DOMAIN disk.inodes : disk.inodes[id] \in InodeRecord
  /\ disk.tags \cup disk.junk \subseteq Ids
  /\ {disk.next_inode_id, nextId} \subseteq 3 .. MaxId + 1
  /\ DOMAIN handles \subseteq load.handles
  /\ \A h \in DOMAIN handles :
       /\ handles[h].ino \in InodeRecord /\ handles[h].subino \in InodeRecord
       /\ handles[h].id \in DOMAIN disk.inodes
  /\ phase \in {"up", "down", "checked", "ended"}
  /\ want \in [Ids -> {0, 1}] /\ failures \in 0 .. load.failures

(* No listed name leads to a missing inode, whatever step a crash or a      *)
(* failed write interrupted ("a dangling catalog entry (no inode) causes    *)
(* -EIO on every access").                                                  *)
NamesResolve == \A d \in Dirs(disk) : \A n \in Readdir(d) : Getattr(d, n).err = "OK"

(* A file's link count never falls below the number of its names, so that   *)
(* removing one name never deletes the file under another.                  *)
CountsCoverNames ==
  \A id \in DOMAIN disk.inodes \ {Root} : disk.inodes[id].ref >= Cardinality(NamesOf(disk, id))

(* While nothing has failed every inode is counted exactly, and is reached  *)
(* by a path from the root: no rename made a cycle, no removal left an      *)
(* inode without a name, no flush of a handle's copy brought one back.      *)
NothingStray ==
  failures = 0 =>
    \A id \in DOMAIN disk.inodes \ {Root} :
      /\ disk.inodes[id].ref = Cardinality(NamesOf(disk, id))
      /\ \E e \in NamesOf(disk, id) : e.dir \in Dirs(disk)

(* While nothing has failed, media tags and junk regions belong to files    *)
(* that exist: the id of a removed file carries none of them.               *)
TagsOwned == failures = 0 => disk.tags \cup disk.junk \subseteq DOMAIN disk.inodes

(* A file nobody has open has, in the inode tree, the size of the last      *)
(* write, truncation or clone that was accepted for it.                     *)
SizesKept ==
  \A id \in DOMAIN disk.inodes : (phase = "up" /\ ~Held(id)) => disk.inodes[id].size = want[id]

(* A volume obmafsck has repaired has no inode out of reach of the root, no *)
(* name without inode, and a next_inode_id above every inode.               *)
RepairReconnects ==
  phase = "checked" =>
    /\ ~Stale(disk) /\ Dangling(disk) = {}
    /\ \A id \in DOMAIN disk.inodes \ {Root} : \E e \in NamesOf(disk, id) : e.dir \in Dirs(disk)

(* The inode whose id obmafsck gives to the lost+found it creates: there is *)
(* one when next_inode_id is stale.                                         *)
Overtaken(D) ==
  IF Orphans(D) = {} \/ HasLostFound(D) THEN {} ELSE {D.next_inode_id} \cap DOMAIN D.inodes

(* obmafsck takes no file away and turns none into another, but for one:    *)
(* every inode it finds, also one without a name, is there with its type    *)
(* when it is done, unless a stale next_inode_id gave its id to lost+found. *)
(* The code asks "Re-link orphan inodes into lost+found?" and does so; its  *)
(* header comment and DESIGN.md say that orphans are deleted, see           *)
(* OrphansDeleted.                                                          *)
RepairKeepsFiles ==
  [][(phase = "down" /\ phase' # "up") =>
       \A id \in DOMAIN disk.inodes \ Overtaken(disk) :
         id \in DOMAIN disk'.inodes /\ disk'.inodes[id].type = disk.inodes[id].type]_vars

(* The same without the exception.  Refuted: lost+found replaces a file.    *)
RepairKeepsAll ==
  [][(phase = "down" /\ phase' # "up") =>
       \A id \in DOMAIN disk.inodes :
         id \in DOMAIN disk'.inodes /\ disk'.inodes[id].type = disk.inodes[id].type]_vars

(* What fsck_crosscheck.c:311-312 ("Fixed by deleting the inode") and       *)
(* DESIGN.md:1764 ("offer to delete them") say of inodes without a name.    *)
(* Refuted: the code re-links them.                                         *)
OrphansDeleted ==
  [][(phase = "down" /\ phase' = "checked") =>
       Orphans(disk) \cap DOMAIN disk'.inodes = {}]_vars

(* The catalog, the inodes, their counts and their tags agree in every      *)
(* state that calls, failed writes, crashes and flushes of handles leave    *)
(* (fuse_write.c, fuse_attr.c), other than one left alone.                  *)
CatalogSound ==
  /\ TypeOK
  /\ phase # "ended" => NamesResolve /\ CountsCoverNames /\ NothingStray /\ TagsOwned
=============================================================================
