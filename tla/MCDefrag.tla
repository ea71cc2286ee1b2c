------------------------------ MODULE MCDefrag ------------------------------
(* The defragmenter on small volumes.                                        *)
EXTENDS Defrag

Free(n) == <<"-", n>>
One(item) == <<item, 1>>
Ones(items) == [k \in DOMAIN items |-> One(items[k])]

\* The volume on which the runs of a strip follow each other from block 1.
StartOf(strip) ==
    LET at[k \in DOMAIN strip] == IF k = 1 THEN 1 ELSE at[k - 1] + strip[k - 1][2] IN at
Slots(strip) == {k \in DOMAIN strip : strip[k][1] # "-"}
PlaceOf(strip) ==
    [i \in {strip[k][1] : k \in Slots(strip)} |->
        LET k == CHOOSE k \in Slots(strip) : strip[k][1] = i
        IN [start |-> StartOf(strip)[k], width |-> strip[k][2]]]
SizeOf(strip) == StartOf(strip)[Len(strip)] + strip[Len(strip)][2] + 1

Inode(inline, overflow) == [inline |-> inline, overflow |-> overflow]
NoItems == [x \in {} |-> 0]

\* The ways to put the elements of a sequence in order.
Orders(s) == {[k \in DOMAIN s |-> s[p[k]]] : p \in Permutations(DOMAIN s)}

Volume(strip) ==
    [place |-> PlaceOf(strip), size |-> SizeOf(strip), inodes |-> <<>>, dedup |-> <<>>,
     stored |-> NoItems, maps |-> NoItems, perDedup |-> 1, passes |-> 1, cancel |-> FALSE]

(* No dedup: files of several blocks, an inode tree of two levels.  The run *)
(* is repeated on its own result.                                           *)
FilesOnly(o) ==
    LET strip == Ones(<<"bitmap", "ihdr">>) \o SubSeq(o, 1, 3) \o Ones(<<"iroot", "ileaf2">>)
                 \o SubSeq(o, 4, 6) \o Ones(<<"ifree", "ohdr", "oleaf", "ileaf1">>) \o <<Free(8)>>
    IN [Volume(strip) EXCEPT !.inodes = <<Inode(<<"f1", "f2">>, <<>>), Inode(<<"f3">>, <<"f4">>)>>,
                             !.passes = 2]

(* Dedup blocks of one block among files of one block; the last dedup block *)
(* lies in the area of the trees.                                           *)
Mixed(o) ==
    LET strip == Ones(<<"bitmap", "list", "dhdr">>) \o SubSeq(o, 1, 3) \o Ones(<<"iroot", "dleaf">>)
                 \o SubSeq(o, 4, 6) \o Ones(<<"ihdr", "ohdr", "oleaf", "dfree">>)
                 \o <<Free(4), One("d3"), Free(7)>>
    IN [Volume(strip) EXCEPT !.inodes = <<Inode(<<"map">>, <<>>), Inode(<<"f1">>, <<"f2">>)>>,
                             !.dedup = <<"d1", "d2", "d3">>,
                             !.stored = ("d1" :> 1 @@ "d2" :> 1 @@ "d3" :> 1),
                             !.maps = ("map" :> <<"d3", "d1", "d2", "d1">>)]

(* Dedup blocks of two blocks among files of one block; no overflow extent. *)
Wide(o) ==
    LET strip == Ones(<<"bitmap", "list", "dhdr">>) \o SubSeq(o, 1, 3) \o Ones(<<"iroot", "dleaf">>)
                 \o SubSeq(o, 4, 6) \o Ones(<<"ihdr", "ohdr">>) \o <<Free(14)>>
    IN [Volume(strip) EXCEPT !.inodes = <<Inode(<<"f1">>, <<>>), Inode(<<"map">>, <<>>)>>,
                             !.dedup = <<"d1", "d2">>, !.perDedup = 2,
                             !.stored = ("d1" :> 2 @@ "d2" :> 2),
                             !.maps = ("map" :> <<"d2", "d1">>)]

(* A dedup block whose write failed, so that its entry leads to blocks      *)
(* without a header; the block being filled is full.  No image refers to    *)
(* the dedup blocks, and the run may be cancelled.                          *)
Unwritten(o) ==
    LET strip == Ones(<<"bitmap", "list", "dhdr">>) \o FlattenSeq(o) \o Ones(<<"iroot", "dleaf", "ihdr", "ohdr">>)
                 \o <<Free(12)>>
    IN [Volume(strip) EXCEPT !.inodes = <<Inode(<<"f1">>, <<>>)>>,
                             !.dedup = <<"d1", "d2">>, !.perDedup = 2,
                             !.stored = "d2" :> 2, !.cancel = TRUE]

(* The same with the block that was not written in the area of the trees. *)
UnwrittenAtEnd(o) ==
    LET strip == Ones(<<"bitmap", "list", "dhdr">>) \o FlattenSeq(o) \o Ones(<<"iroot", "dleaf", "ihdr", "ohdr">>)
                 \o <<Free(8), <<"d1", 2>>, Free(2)>>
    IN [Volume(strip) EXCEPT !.inodes = <<Inode(<<"f1">>, <<>>)>>,
                             !.dedup = <<"d1", "d2">>, !.perDedup = 2, !.stored = "d2" :> 2]

(* The block being filled keeps two blocks although it has written one. *)
Partial(strip) ==
    [Volume(strip) EXCEPT !.inodes = <<Inode(<<"f1">>, <<>>)>>,
                          !.dedup = <<"d1", "d2">>, !.perDedup = 2,
                          !.stored = ("d1" :> 1 @@ "d2" :> 1)]

(* Files and dedup blocks lie where they would be put. *)
Settled(o) ==
    Partial(Ones(<<"bitmap", "f1">>) \o o \o Ones(<<"list", "dhdr", "iroot", "dleaf", "ihdr", "ohdr">>)
            \o <<Free(12)>>)

(* They have to move. *)
Filling(o) ==
    Partial(Ones(<<"bitmap", "list", "dhdr">>) \o o \o Ones(<<"iroot", "dleaf", "ihdr", "ohdr">>)
            \o <<Free(12)>>)

(* A block nothing refers to, which still begins with a block header, lies  *)
(* where a dedup block of two blocks goes.                                  *)
Leaked ==
    LET strip == Ones(<<"bitmap", "list", "dhdr", "f1">>) \o <<Free(1), One("lost")>> \o <<<<"d1", 2>>>>
                 \o Ones(<<"iroot", "dleaf", "ihdr", "ohdr">>) \o <<Free(12)>>
    IN [Volume(strip) EXCEPT !.inodes = <<Inode(<<"f1">>, <<>>)>>,
                             !.dedup = <<"d1">>, !.perDedup = 2,
                             !.stored = ("d1" :> 2 @@ "lost" :> 1)]

MCLayouts ==
    {FilesOnly(o) : o \in Orders(<< <<"f1", 2>>, One("f2"), One("f3"), <<"f4", 2>>, Free(1), Free(1)>>)}
    \cup {Mixed(o) : o \in Orders(<<One("map"), One("f1"), One("f2"), One("d1"), One("d2"), Free(1)>>)}
    \cup {Wide(o) : o \in Orders(<<One("map"), One("f1"), <<"d1", 2>>, <<"d2", 2>>, Free(1), Free(1)>>)}
    \cup {Unwritten(o) : o \in Orders(<< <<One("f1")>>, <<<<"d2", 2>>>>, <<<<"d1", 2>>, Free(2)>>, <<Free(1)>> >>)}
    \cup {UnwrittenAtEnd(o) : o \in Orders(<< <<One("f1")>>, <<<<"d2", 2>>>>, <<Free(2)>> >>)}
    \cup {Settled(o) : o \in Orders(<<One("d1"), <<"d2", 2>> >>)}
    \cup {Leaked}

(* A compressed file of two blocks does not fit into the hole before it; a  *)
(* dedup block follows.                                                     *)
BehindAHole(o) ==
    LET strip == Ones(<<"bitmap", "list", "dhdr">>) \o o \o Ones(<<"iroot", "dleaf", "ihdr", "ohdr">>)
                 \o <<Free(12)>>
    IN [Volume(strip) EXCEPT !.inodes = <<Inode(<<"f1">>, <<>>), Inode(<<"f2">>, <<>>)>>,
                             !.dedup = <<"d1">>, !.perDedup = 2,
                             !.stored = ("d1" :> 2 @@ "f1" :> 2 @@ "f2" :> 2)]

\* What is lost on them is described in the README.
MCKnownLosses ==
    {BehindAHole(o) : o \in Orders(<< <<"f1", 2>>, <<"f2", 2>>, <<"d1", 2>>, Free(1)>>)}
    \cup {Filling(o) : o \in Orders(<<One("f1"), One("d1"), <<"d2", 2>>, Free(1)>>)}
=============================================================================
