------------------------------ MODULE MetaStore ------------------------------
(***************************************************************************)
(* Metadata of images: the values set on them, the three kinds of index    *)
(* kept beside the values, and the queries that read the indexes.          *)
(*                                                                         *)
(* The reverse index is a tree of MetaTrees; its keys (key, value, inode)  *)
(* are integers in that order.  The values and the numeric indexes are     *)
(* held as the map and the sets that module Trees shows their trees to be. *)
(***************************************************************************)
EXTENDS MetaTrees

CONSTANTS
    Inodes,       \* the images, 1..n
    MetaKeys,     \* the metadata keys, 1..m in strcmp order
    Comments,     \* the key whose values are never split at newlines
    Values,       \* sequence of the values, in strcmp order
    Takes,        \* Takes[k]: positions in Values of what is set under key k
    Queries,      \* the queries asked
    MinNum,       \* INT64_MIN
    MaxNum,       \* INT64_MAX
    UserIndexes,  \* <<key, type>> of the indexes a user may ask for
    LargeBuilds,  \* may an index be created for a key whose entries span leaves
    MaxChanges,   \* bound on values set and deleted
    MaxFaults     \* bound on tree writes that fail

ASSUME MetaAssumption ==
    /\ IsFiniteSet(Inodes) /\ Inodes = 1..Cardinality(Inodes)
    /\ IsFiniteSet(MetaKeys) /\ MetaKeys = 1..Cardinality(MetaKeys)
    /\ Values \in Seq(Range(Values))
    /\ PerOwner = Len(Values) * Cardinality(Inodes)
    /\ \A k \in MetaKeys : Takes[k] \subseteq DOMAIN Values
    /\ UserIndexes \subseteq MetaKeys \X {"numeric", "string"}
    /\ LargeBuilds \in BOOLEAN /\ MaxChanges \in Nat /\ MaxFaults \in Nat

VARIABLES
    meta,       \* inode -> key -> position of its value, 0 if there is none
    midx,       \* reverse index
    numlba,     \* does the volume have a numeric index
    num,        \* numeric index: <<key, number, inode>>
    uidx,       \* user-defined indexes: key -> [type, recs]
    unindexed,  \* <<inode, key>> whose last put reported an error
    changes, faults

vars == <<meta, midx, numlba, num, uidx, unindexed, changes, faults>>

(***************************************************************************)
(* A value has "whole", the string itself, and "subs", the strings between *)
(* its newlines.  A string has "num", what strtoll reads from it, and      *)
(* "int", whether that reading uses it up.                                 *)
(***************************************************************************)
is_numeric_value(v) == Len(Values[v].subs) = 1 /\ Values[v].whole.int

\* strtoll reads a number of 64 bits, a value has at least one line, and an
\* integer is a line of its own.
ASSUME ValuesAssumption ==
    /\ MinNum \in Int /\ MaxNum \in Int
    /\ \A v \in DOMAIN Values :
          /\ Values[v].whole.num \in MinNum..MaxNum
          /\ Values[v].subs # << >> /\ Values[v].subs \in Seq(Range(Values[v].subs))
          /\ is_numeric_value(v) => Values[v].subs = <<Values[v].whole>>

SubValues(k, v) == IF k = Comments THEN <<Values[v].whole>> ELSE Values[v].subs

EntryKey(k, v, i) == FirstKey(k - 1) + (v - 1) * Cardinality(Inodes) + i - 1

EntryValue(e) == ((e - 1) % PerOwner) \div Cardinality(Inodes) + 1

EntryInode(e) == ((e - 1) % Cardinality(Inodes)) + 1

(* Mutant: the key is not copied into the entry. *)
MutNumber(k, v, i) == IF is_numeric_value(v) THEN {<<0, Values[v].whole.num, i>>} ELSE {}

Number(k, v, i) == IF is_numeric_value(v) THEN {<<k, Values[v].whole.num, i>>} ELSE {}

user_index_find(k) == k \in DOMAIN uidx /\ uidx[k].type = "numeric"

(***************************************************************************)
(* Setting and deleting values.                                            *)
(***************************************************************************)
metadata_get(i, k) == meta[i][k]

(* Mutant: the number of the old value stays in the numeric index. *)
MutNumWithout(k, v, i) == num

NumWithout(k, v, i) == IF numlba /\ v # 0 THEN num \ Number(k, v, i) ELSE num

UidxWithout(k, v, i) ==
    IF v # 0 /\ user_index_find(k)
    THEN [uidx EXCEPT ![k].recs = @ \ Number(k, v, i)] ELSE uidx

MidxWithout(k, v, i) ==
    IF v # 0 THEN midx_tree_delete(midx, EntryKey(k, v, i)).t ELSE midx

\* The entries of the old value go first; then the value is stored, then
\* entered in the reverse, the numeric and the user-defined index.  A write
\* that fails ends the call: of the value ("value"), of the reverse index
\* ("index"), or none ("").
metadata_put(i, k, v, fails) ==
    LET old == meta[i][k]
        numbers == NumWithout(k, old, i)
        users == UidxWithout(k, old, i)
        entered == fails = ""
    IN  /\ meta' = IF fails = "value" THEN meta ELSE [meta EXCEPT ![i][k] = v]
        /\ midx' = IF entered
                   THEN midx_tree_put(MidxWithout(k, old, i), Rec(EntryKey(k, v, i), 0)).t
                   ELSE MidxWithout(k, old, i)
        /\ num' = IF entered /\ numlba THEN numbers \cup Number(k, v, i) ELSE numbers
        /\ uidx' = IF entered /\ user_index_find(k)
                   THEN [users EXCEPT ![k].recs = @ \cup Number(k, v, i)] ELSE users
        /\ unindexed' = IF entered THEN unindexed \ {<<i, k>>} ELSE unindexed \cup {<<i, k>>}

metadata_delete(i, k) ==
    LET old == meta[i][k]
    IN  /\ meta' = [meta EXCEPT ![i][k] = 0]
        /\ midx' = MidxWithout(k, old, i)
        /\ num' = NumWithout(k, old, i)
        /\ uidx' = UidxWithout(k, old, i)
        /\ unindexed' = unindexed \ {<<i, k>>}

SetMetadata(i, k, v) ==
    /\ changes < MaxChanges
    /\ metadata_put(i, k, v, "")
    /\ changes' = changes + 1
    /\ UNCHANGED <<numlba, faults>>

\* The ioctl answers EIO.
SetMetadataFails(i, k, v) ==
    /\ changes < MaxChanges /\ faults < MaxFaults
    /\ \E step \in {"value", "index"} : metadata_put(i, k, v, step)
    /\ changes' = changes + 1 /\ faults' = faults + 1
    /\ UNCHANGED numlba

DeleteMetadata(i, k) ==
    /\ changes < MaxChanges
    /\ meta[i][k] # 0
    /\ metadata_delete(i, k)
    /\ changes' = changes + 1
    /\ UNCHANGED <<numlba, faults>>

(***************************************************************************)
(* Building indexes.                                                       *)
(***************************************************************************)
NumbersOf(recs) ==
    UNION {Number(Owner(r.key) + 1, EntryValue(r.key), EntryInode(r.key)) : r \in Range(recs)}

\* numidx_build at every mount: the header block is allocated when there is
\* anything to index, and every numeric entry of the reverse index is put.
numidx_build ==
    IF midx.mem.root = 0 THEN /\ UNCHANGED <<numlba, num>>
    ELSE /\ numlba' = TRUE
         /\ num' = num \cup NumbersOf(AllRecords(midx))

Remount ==
    /\ midx' = HeaderRead(midx)
    /\ numidx_build
    /\ UNCHANGED <<meta, uidx, unindexed, changes, faults>>

\* The descent compares keys only, and takes the last child whose smallest
\* key is not above k.
LeafForKey(k) ==
    Walk(midx, LAMBDA n : Max({1} \cup {j \in 1..n.keys : Owner(n.recs[j].key) <= k - 1})).leaf

EntriesOf(k, leaf) ==
    IF midx.mem.root = 0 THEN << >> ELSE OfOwner(Chain(midx, leaf), k - 1)

CreateIndex(k, type) ==
    LET found == IF type = "numeric" THEN NumbersOf(EntriesOf(k, LeafForKey(k))) ELSE {}
    IN  /\ k \notin DOMAIN uidx
        /\ LargeBuilds \/ LeafForKey(k) = Descend(midx, FirstKey(k - 1)).leaf
        /\ uidx' = [x \in DOMAIN uidx \cup {k} |->
                      IF x = k THEN [type |-> type, recs |-> found] ELSE uidx[x]]
        /\ UNCHANGED <<meta, midx, numlba, num, unindexed, changes, faults>>

DropIndex(k) ==
    /\ k \in DOMAIN uidx
    /\ uidx' = [x \in DOMAIN uidx \ {k} |-> uidx[x]]
    /\ UNCHANGED <<meta, midx, numlba, num, unindexed, changes, faults>>

(***************************************************************************)
(* Queries.  A filter names a key (0 is the wildcard "*"), an operator and *)
(* its operand: a set of strings for the operators on text (a pattern is   *)
(* the set of strings it matches), a number or two for the numeric ones.   *)
(***************************************************************************)
filter_single_value_matches(s, f) ==
    CASE f.op = "exists" -> TRUE
      [] f.op = "matches" -> s \in f.strings
      [] f.op = "notequal" -> s \notin f.strings
      [] f.op = "num=" -> s.num = f.low
      [] f.op = "num!=" -> s.num # f.low
      [] f.op = "num>" -> s.num > f.low
      [] f.op = "num<" -> s.num < f.low
      [] f.op = "num>=" -> s.num >= f.low
      [] f.op = "num<=" -> s.num <= f.low
      [] f.op = "numbetween" -> f.low <= s.num /\ s.num <= f.high

(* Mutant: a negative operator is content with one sub-value. *)
Mutfilter_value_matches(k, v, f) ==
    LET subs == Range(SubValues(k, v))
    IN  \E s \in subs : filter_single_value_matches(s, f)

filter_value_matches(k, v, f) ==
    LET subs == Range(SubValues(k, v))
    IN  IF f.op = "notequal" THEN \A s \in subs : filter_single_value_matches(s, f)
        ELSE \E s \in subs : filter_single_value_matches(s, f)

\* The range of numbers that a numeric operator asks an index for.
RangeOf(f) ==
    CASE f.op = "num=" -> <<f.low, f.low>>
      [] f.op = "num>" -> <<IF f.low < MaxNum THEN f.low + 1 ELSE MaxNum, MaxNum>>
      [] f.op = "num<" -> <<MinNum, IF f.low > MinNum THEN f.low - 1 ELSE MinNum>>
      [] f.op = "num>=" -> <<f.low, MaxNum>>
      [] f.op = "num<=" -> <<MinNum, f.low>>
      [] f.op = "numbetween" -> <<f.low, f.high>>
      [] OTHER -> << >>

CollectRange(recs, k, r) == {e[3] : e \in {x \in recs : x[1] = k /\ r[1] <= x[2] /\ x[2] <= r[2]}}

ScanEntries(f) ==
    IF f.key = 0 THEN AllRecords(midx)
    ELSE EntriesOf(f.key, Descend(midx, FirstKey(f.key - 1)).leaf)

\* The user-defined index of the key, then the numeric index, then a scan.
midx_collect_matching(f) ==
    LET r == RangeOf(f)
    IN  IF midx.mem.root = 0 THEN {}
        ELSE IF f.key # 0 /\ r # << >> /\ user_index_find(f.key) /\ uidx[f.key].recs # {}
        THEN CollectRange(uidx[f.key].recs, f.key, r)
        ELSE IF f.key # 0 /\ r # << >> /\ numlba /\ num # {}
        THEN CollectRange(num, f.key, r)
        ELSE {EntryInode(e.key) : e \in {x \in Range(ScanEntries(f)) :
                 filter_value_matches(Owner(x.key) + 1, EntryValue(x.key), f)}}

AnyEntry == [key |-> 0, op |-> "exists", negate |-> FALSE, group |-> 0]

FilterSet(f) ==
    IF f.negate THEN midx_collect_matching(AnyEntry) \ midx_collect_matching(f)
    ELSE midx_collect_matching(f)

idset_combine(sets, how) ==
    IF how = "and" THEN {i \in UNION sets : \A s \in sets : i \in s} ELSE UNION sets

\* A query is its filters, how each of the two groups combines, and how the
\* groups do.
query_collect_ids(q) ==
    LET Group(g) == {j \in DOMAIN q.filters : q.filters[j].group = g}
        Result(g) == idset_combine({FilterSet(q.filters[j]) : j \in Group(g)}, q.combine[g + 1])
    IN  IF Group(0) # {} /\ Group(1) # {}
        THEN idset_combine({Result(0), Result(1)}, q.group_combine)
        ELSE IF Group(0) # {} THEN Result(0) ELSE Result(1)

(***************************************************************************)
(* Aggregates over the entries of one key.                                 *)
(***************************************************************************)
KeyEntries(k) == EntriesOf(k, Descend(midx, FirstKey(k - 1)).leaf)

\* (sub-value, inode) of every entry, in the order of the scan.
Pairs(k) ==
    LET es == KeyEntries(k)
    IN  FlattenSeq([n \in DOMAIN es |->
            LET subs == SubValues(k, EntryValue(es[n].key))
            IN  [s \in DOMAIN subs |-> <<subs[s], EntryInode(es[n].key)>>]])

metadata_distinct(k) == {p[1] : p \in Range(Pairs(k))}

(* Mutant: an image counts once for every repetition of the sub-value. *)
Mutmetadata_groupby(k) ==
    LET ps == Pairs(k)
    IN  [s \in {p[1] : p \in Range(ps)} |-> Cardinality({n \in DOMAIN ps : ps[n][1] = s})]

\* Sorted pairs, equal neighbours counted once.
metadata_groupby(k) ==
    LET ps == Range(Pairs(k))
    IN  [s \in {p[1] : p \in ps} |-> Cardinality({p \in ps : p[1] = s})]

metadata_stats(k) ==
    LET ps == Pairs(k)
        nums == {ps[n][1].num : n \in DOMAIN ps}
    IN  [count |-> Len(ps),
         sum |-> FoldLeft(LAMBDA acc, p : acc + p[1].num, 0, ps),
         min |-> IF ps = << >> THEN 0 ELSE Min(nums),
         max |-> IF ps = << >> THEN 0 ELSE Max(nums)]

(***************************************************************************)
(* The specification.                                                      *)
(***************************************************************************)
Init ==
    /\ meta = [i \in Inodes |-> [k \in MetaKeys |-> 0]]
    /\ midx = EmptyTree
    /\ numlba = FALSE /\ num = {}
    /\ uidx = [k \in {} |-> 0]
    /\ unindexed = {}
    /\ changes = 0 /\ faults = 0

Next ==
    \/ \E i \in Inodes, k \in MetaKeys : \E v \in Takes[k] :
          SetMetadata(i, k, v) \/ SetMetadataFails(i, k, v)
    \/ \E i \in Inodes, k \in MetaKeys : DeleteMetadata(i, k)
    \/ \E x \in UserIndexes : CreateIndex(x[1], x[2])
    \/ \E k \in MetaKeys : DropIndex(k)
    \/ Remount

Spec == Init /\ [][Next]_vars

(***************************************************************************)
(* Properties.                                                             *)
(***************************************************************************)

\* The values an image is indexed under: those whose put reported no error.
Indexed == {p \in Inodes \X MetaKeys : meta[p[1]][p[2]] # 0 /\ p \notin unindexed}

NumbersSet(S) == UNION {Number(p[2], meta[p[1]][p[2]], p[1]) : p \in S}

TypeOK ==
    /\ meta \in [Inodes -> [MetaKeys -> 0..Len(Values)]]
    /\ numlba \in BOOLEAN
    /\ num \subseteq MetaKeys \X (MinNum..MaxNum) \X Inodes
    /\ DOMAIN uidx \subseteq MetaKeys
    /\ \A k \in DOMAIN uidx : uidx[k].recs \subseteq MetaKeys \X (MinNum..MaxNum) \X Inodes
    /\ unindexed \subseteq Inodes \X MetaKeys

\* The keys a tree holds, and those the indexed values should have in it.
Keys(recs) == {r.key : r \in Range(recs)}
Entry(p) == EntryKey(p[2], meta[p[1]][p[2]], p[1])

(* What the rest of this module relies on in the tree under the reverse    *)
(* index: a delete and a put change its keys as they would a set, for      *)
(* every value that may be set next, a remount changes nothing, and the    *)
(* scan of one key finds all its entries (metadata.c:2741-2842).           *)
TreeActsAsSet ==
    LET held == Keys(AllRecords(midx))
    IN  /\ \A i \in Inodes, k \in MetaKeys :
              LET t == MidxWithout(k, meta[i][k], i)
                  kept == held \ (IF meta[i][k] = 0 THEN {} ELSE {Entry(<<i, k>>)})
              IN  /\ Keys(AllRecords(t)) = kept
                  /\ \A v \in Takes[k] :
                        LET e == EntryKey(k, v, i)
                        IN  Keys(AllRecords(midx_tree_put(t, Rec(e, 0)).t)) = kept \cup {e}
        /\ Keys(AllRecords(HeaderRead(midx))) = held
        /\ \A k \in MetaKeys : Keys(KeyEntries(k)) = {e \in held : Owner(e) = k - 1}

(* However values are set, replaced and deleted, indexes created and       *)
(* dropped and the volume remounted, the reverse index, the numeric index  *)
(* and every user-defined index (metadata.c:1582-1711) hold exactly the    *)
(* values that were set without an error: no entry of a value that was     *)
(* replaced, none missing.                                                 *)
IndexesAgree ==
    /\ Keys(AllRecords(midx)) = {Entry(p) : p \in Indexed}
    /\ numlba => num = NumbersSet(Indexed)
    /\ \A k \in DOMAIN uidx : uidx[k].type = "numeric" =>
          uidx[k].recs = NumbersSet({p \in Indexed : p[2] = k})

\* What a filter means on the values themselves.
Satisfies(i, f) ==
    \E p \in Indexed :
      /\ p[1] = i /\ (f.key = 0 \/ f.key = p[2])
      /\ LET subs == Range(SubValues(p[2], meta[i][p[2]]))
         IN  IF f.op = "notequal" THEN {s \in subs : ~filter_single_value_matches(s, f)} = {}
             ELSE {s \in subs : filter_single_value_matches(s, f)} # {}

Described(i) == \E p \in Indexed : p[1] = i

Answers(i, q) ==
    LET Holds(j) == IF q.filters[j].negate THEN Described(i) /\ ~Satisfies(i, q.filters[j])
                    ELSE Satisfies(i, q.filters[j])
        Group(g) == {j \in DOMAIN q.filters : q.filters[j].group = g}
        InGroup(g) == IF q.combine[g + 1] = "and" THEN \A j \in Group(g) : Holds(j)
                      ELSE \E j \in Group(g) : Holds(j)
        both == {g \in {0, 1} : Group(g) # {}}
    IN  IF q.group_combine = "and" THEN \A g \in both : InGroup(g) ELSE \E g \in both : InGroup(g)

\* A filter that an index can stand in for: its range ends inside the 64-bit
\* numbers, and it takes no line of a value that is left out of the indexes
\* because it is not an integer.
Indexable(f) ==
    f.key # 0 /\ RangeOf(f) # << >> =>
      /\ {f.low, f.high} \subseteq MinNum..MaxNum
      /\ (f.op = "num>" => f.low < MaxNum) /\ (f.op = "num<" => f.low > MinNum)
      /\ \A v \in Takes[f.key] : is_numeric_value(v) \/
            \A s \in Range(SubValues(f.key, v)) : ~filter_single_value_matches(s, f)

QuerySuited(q) ==
    /\ DOMAIN q.filters # {}
    /\ \A j \in DOMAIN q.filters :
          LET f == q.filters[j]
          IN  f.key \in MetaKeys \cup {0} /\ f.group \in {0, 1} /\ Indexable(f)

(* Whichever index a query is answered from (metadata.c:2607-2842), it     *)
(* returns the images whose values satisfy the filters, their negations    *)
(* and their two groups: the answer does not depend on the indexes.        *)
QueryAnswers == \A q \in Queries : query_collect_ids(q) = {i \in Inodes : Answers(i, q)}

(* DISTINCT, GROUP BY and the statistics of a key, which read the reverse  *)
(* index leaf by leaf (metadata.c:3068-3506), agree with the values: each  *)
(* sub-value is counted once for every image that has it.                  *)
AggregatesAgree ==
    \A k \in MetaKeys :
      LET Subs(i) == IF <<i, k>> \in Indexed THEN SubValues(k, meta[i][k]) ELSE << >>
          Having(s) == {i \in Inodes : s \in Range(Subs(i))}
          all == UNION {Range(Subs(i)) : i \in Inodes}
          places == UNION {{i} \X DOMAIN Subs(i) : i \in Inodes}
          stats == metadata_stats(k)
      IN  /\ metadata_distinct(k) = all
          /\ metadata_groupby(k) = [s \in all |-> Cardinality(Having(s))]
          /\ stats.count = Cardinality(places)
          /\ stats.sum =
               FoldSet(LAMBDA p, acc : acc + Subs(p[1])[p[2]].num, 0, places)
          /\ all # {} => /\ \A s \in all : stats.min <= s.num
                         /\ \A s \in all : s.num <= stats.max

(* No index of metadata.c has an entry too many or too few, also after a   *)
(* put that failed half way, and the tree of the reverse index finds and   *)
(* changes its entries as a set would.                                     *)
IndexesSound == TypeOK /\ TreeActsAsSet /\ IndexesAgree

(* Every answer obtained through the indexes, a filtered query or an       *)
(* aggregate, is the one the values themselves give.                       *)
AnswersRight == QueryAnswers /\ AggregatesAgree
=============================================================================
