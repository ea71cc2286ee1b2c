----------------------------- MODULE QueryPages -----------------------------
(***************************************************************************)
(* A metadata query answered page by page: the table of cursors that the   *)
(* FUSE process keeps between the ioctls of a query, and the loop of       *)
(* obmafs-query that asks for one page after the other.                    *)
(*                                                                         *)
(* Which inodes a query collects is the subject of MetaStore; here it is   *)
(* any set of inodes with metadata.  Removing an image leaves its metadata *)
(* behind, so the set may hold inodes that no longer have a path.          *)
(***************************************************************************)
EXTENDS Integers, Sequences, FiniteSets, FiniteSetsExt, Functions

CONSTANTS
    Inodes,       \* inodes with metadata
    Answers,      \* sets of inodes a query may collect
    Clients,      \* processes of obmafs-query
    MaxCursors,   \* MAX_QUERY_CURSORS, 4 in the code
    PageSize,     \* METADATA_QUERY_MAX_RESULTS, 8 in the code
    MaxQueries    \* bound on queries asked (and on cursor ids)

ASSUME QueryAssumption ==
    /\ Inodes \subseteq Nat
    /\ \A found \in Answers : found \subseteq Inodes /\ IsFiniteSet(found)
    /\ MaxCursors \in Nat \ {0} /\ PageSize \in Nat \ {0}
    /\ MaxQueries \in Nat

VARIABLES
    named,    \* inodes that have a path
    cursors,  \* g_cursors: slot -> [id, ids, last_use]; id 0 is unused
    use_seq,  \* g_cursor_use_seq
    next_id,  \* g_next_cursor_id
    client,   \* what each client holds
    since     \* client -> cursors used by others since its last call

vars == <<named, cursors, use_seq, next_id, client, since>>

Slots == 1..MaxCursors

Unused == [id |-> 0, ids |-> << >>, last_use |-> 0]

\* "want" and "skipped" are for the properties: the inodes the query
\* collected, and whether one of them had no path when its page was made.
Idle == [pc |-> "idle", cursor |-> 0, offset |-> 0, got |-> << >>,
         want |-> << >>, skipped |-> FALSE]

(***************************************************************************)
(* The cursor table.                                                       *)
(***************************************************************************)
cursor_find(id) == {s \in Slots : cursors[s].id = id}

(* Mutant: a full table always gives up its first slot. *)
Mutcursor_alloc == Min({s \in Slots : cursors[s].id = 0} \cup {1})

\* The first unused slot, or the one used least recently.
cursor_alloc ==
    LET unused == {s \in Slots : cursors[s].id = 0}
        oldest == {s \in Slots : \A t \in Slots : cursors[s].last_use <= cursors[t].last_use}
    IN  Min(IF unused # {} THEN unused ELSE oldest)

(* Mutant: a follow-up page does not count as a use of the cursor. *)
MutUsed(id, ids) ==
    [id |-> id, ids |-> ids,
     last_use |-> IF cursor_find(id) = {} THEN use_seq + 1
                  ELSE Min({cursors[s].last_use : s \in cursor_find(id)})]

\* cursor->last_use = ++g_cursor_use_seq
Used(id, ids) == [id |-> id, ids |-> ids, last_use |-> use_seq + 1]

\* The array of inode numbers that a query leaves in its cursor.
InOrder(found) ==
    CHOOSE ids \in [1..Cardinality(found) -> found] :
        \A i, j \in DOMAIN ids : i < j => ids[i] < ids[j]

EndOfPage(ids, offset) ==
    IF offset + PageSize < Len(ids) THEN offset + PageSize ELSE Len(ids)

\* The loop over the ids after offset; an id without a path is passed over.
Resolved(ids, offset, last) ==
    LET upto[i \in offset..last] ==
            IF i = offset THEN << >>
            ELSE IF ids[i] \in named THEN Append(upto[i - 1], ids[i]) ELSE upto[i - 1]
    IN  upto

(* Mutant: the page starts one id later. *)
Mutresolve_page(ids, offset) ==
    IF offset + 1 >= Len(ids) THEN << >>
    ELSE LET last == EndOfPage(ids, offset + 1) IN Resolved(ids, offset + 1, last)[last]

\* Paths of the ids from offset on.
resolve_page(ids, offset) ==
    IF offset >= Len(ids) THEN << >>
    ELSE LET last == EndOfPage(ids, offset) IN Resolved(ids, offset, last)[last]

\* The cursor is released when the answer reaches the end of its ids.
LastPage(ids, offset, page) == offset + Len(page) >= Len(ids)

\* The client goes on until a page is empty or it has as many as there are.
More(page, offset, total) == page # << >> /\ offset < total

(***************************************************************************)
(* One ioctl of a client and what the client makes of the answer: slot s   *)
(* holds (or gets) the ids of its query.                                   *)
(***************************************************************************)
Page(c, me, s, ids, id) ==
    LET page == resolve_page(ids, me.offset)
        asked == EndOfPage(ids, me.offset) - me.offset
        offset == me.offset + Len(page)
        last == LastPage(ids, me.offset, page)
    IN  /\ cursors' = [cursors EXCEPT ![s] = IF last THEN Unused ELSE Used(id, ids)]
        /\ use_seq' = use_seq + 1
        /\ client' = [client EXCEPT ![c] =
                        [pc |-> IF More(page, offset, Len(ids)) THEN "paging" ELSE "done",
                         cursor |-> id, offset |-> offset, got |-> me.got \o page,
                         want |-> me.want, skipped |-> me.skipped \/ Len(page) < asked]]
        /\ since' = [x \in Clients |-> IF x = c THEN {} ELSE since[x] \cup {id}]

\* First call of a query: its ids go into a slot of the table.
StartQuery(c, found) ==
    LET ids == InOrder(found)
    IN  /\ client[c].pc # "paging"
        /\ next_id <= MaxQueries
        /\ next_id' = next_id + 1
        /\ Page(c, [Idle EXCEPT !.want = ids], cursor_alloc, ids, next_id)
        /\ UNCHANGED named

NextPage(c) ==
    /\ client[c].pc = "paging"
    /\ \E s \in cursor_find(client[c].cursor) :
         Page(c, client[c], s, cursors[s].ids, client[c].cursor)
    /\ UNCHANGED <<named, next_id>>

(* Mutant: a client that is told its cursor is invalid asks again. *)
MutNextPageFails(c) ==
    /\ client[c].pc = "paging"
    /\ cursor_find(client[c].cursor) = {}
    /\ UNCHANGED vars

\* The cursor was given to another query in the meantime: EINVAL.
NextPageFails(c) ==
    /\ client[c].pc = "paging"
    /\ cursor_find(client[c].cursor) = {}
    /\ client' = [client EXCEPT ![c].pc = "failed"]
    /\ UNCHANGED <<named, cursors, use_seq, next_id, since>>

\* A client that has as many results as it wanted stops asking; its cursor
\* stays in the table.
Abandon(c) ==
    /\ client[c].pc = "paging"
    /\ client' = [client EXCEPT ![c] = Idle]
    /\ UNCHANGED <<named, cursors, use_seq, next_id, since>>

\* A count is a first call that asks for no paths and keeps its cursor.
CountOnly(c, found) ==
    LET ids == InOrder(found)
        s == cursor_alloc
    IN  /\ client[c].pc # "paging"
        /\ next_id <= MaxQueries
        /\ cursors' = [cursors EXCEPT ![s] = Used(next_id, ids)]
        /\ use_seq' = use_seq + 1
        /\ next_id' = next_id + 1
        /\ client' = [client EXCEPT ![c] = Idle]
        /\ since' = [x \in Clients |-> IF x = c THEN {} ELSE since[x] \cup {next_id}]
        /\ UNCHANGED named

\* unlink removes the name and the inode; the metadata stays.
Unlink(i) ==
    /\ i \in named
    /\ named' = named \ {i}
    /\ UNCHANGED <<cursors, use_seq, next_id, client, since>>

Init ==
    /\ named = Inodes
    /\ cursors = [s \in Slots |-> Unused]
    /\ use_seq = 0 /\ next_id = 1
    /\ client = [c \in Clients |-> Idle]
    /\ since = [c \in Clients |-> {}]

Next ==
    \/ \E c \in Clients : \/ \E found \in Answers : StartQuery(c, found) \/ CountOnly(c, found)
                          \/ NextPage(c) \/ NextPageFails(c) \/ Abandon(c)
    \/ \E i \in Inodes : Unlink(i)

\* A client asks for its next page as soon as it has printed the last one.
Fairness == \A c \in Clients : WF_vars(NextPage(c) \/ NextPageFails(c))

Spec == Init /\ [][Next]_vars /\ Fairness

(***************************************************************************)
(* Properties.                                                             *)
(***************************************************************************)
TypeOK ==
    /\ named \subseteq Inodes
    /\ cursors \in [Slots -> [id : 0..MaxQueries, ids : Seq(Inodes), last_use : Nat]]
    /\ use_seq \in Nat /\ next_id \in 1..MaxQueries + 1
    /\ client \in [Clients -> [pc : {"idle", "paging", "done", "failed"},
                               cursor : 0..MaxQueries, offset : Nat, got : Seq(Inodes),
                               want : Seq(Inodes), skipped : BOOLEAN]]
    /\ since \in [Clients -> SUBSET (1..MaxQueries)]

(* Unless an image of its answer has lost its path, a client has received  *)
(* the inodes of its own query, in order, from the first page to the last, *)
(* whatever other clients ask in between (fuse_ioctl.c:912-993).           *)
PagesInOrder ==
    \A c \in Clients : ~client[c].skipped =>
        /\ client[c].got = SubSeq(client[c].want, 1, Len(client[c].got))
        /\ client[c].pc = "done" => client[c].got = client[c].want

(* A client loses its cursor only to as many other cursors used since its  *)
(* last call as the table has slots: the least recently used one goes      *)
(* (cursor_alloc, fuse_ioctl.c:74-91).                                     *)
RecentKept ==
    \A c \in Clients :
        client[c].pc = "paging" /\ Cardinality(since[c]) < MaxCursors =>
            cursor_find(client[c].cursor) # {}

(* Every query that is not abandoned ends: the offset of the next page     *)
(* always moves on (obmafs-query/main.c:1441-1466).                        *)
QueriesEnd == \A c \in Clients : client[c].pc = "paging" ~> client[c].pc # "paging"

(* What obmafs-query says of execute_query_collect: it collects all        *)
(* matching paths.  A client that ends has every image of the answer that  *)
(* still has a path, and none twice.                                       *)
AllPathsOnce ==
    \A c \in Clients : client[c].pc = "done" =>
        /\ Range(client[c].want) \cap named \subseteq Range(client[c].got)
        /\ Cardinality(Range(client[c].got)) = Len(client[c].got)

(* Clients share the cursors of fuse_ioctl.c without disturbing each       *)
(* other: each one's pages come in order, and a cursor goes only when      *)
(* enough others were used since.                                          *)
ClientsServed == TypeOK /\ PagesInOrder /\ RecentKept
=============================================================================
