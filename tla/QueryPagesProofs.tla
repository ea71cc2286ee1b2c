-------------------------- MODULE QueryPagesProofs --------------------------
(***************************************************************************)
(* Proofs about QueryPages: whatever the number of clients, cursors and    *)
(* images and the size of a page, a client receives its own answer in      *)
(* order, and loses its cursor only to as many more recent ones as the     *)
(* table has slots.                                                        *)
(*                                                                         *)
(* What the loop over the ids of a page computes, and that a set of inode  *)
(* numbers can be put in order, are proved first, by induction over the    *)
(* positions.                                                              *)
(***************************************************************************)
EXTENDS QueryPages, FiniteSetTheorems, WellFoundedInduction, TLAPS

-----------------------------------------------------------------------------
(* Induction, stated for sets.                                              *)

LEMMA LeastNatural ==
  ASSUME NEW S \in SUBSET Nat, S # {}
  PROVE  \E m \in S : \A k \in S : m <= k
<1>1. PICK R : R = {p \in Nat \X Nat : p[1] < p[2]}
  OBVIOUS
<1>2. IsWellFoundedOn(R, Nat)
  BY <1>1, NatLessThanWellFounded DEF OpToRel
<1>3. PICK m \in S : \A k \in S : ~(<<k, m>> \in R)
  BY <1>2, WFMin
<1>4. \A k \in S : ~(k < m)
  BY <1>1, <1>3
<1> QED
  BY <1>4

LEMMA UpFrom ==
  ASSUME NEW a \in Nat, NEW b \in Nat, NEW S, a \in S,
         \A i \in a..b : i \in S /\ i + 1 <= b => i + 1 \in S
  PROVE  a..b \subseteq S
<1>1. SUFFICES ASSUME NEW j \in a..b, j \notin S PROVE FALSE
  OBVIOUS
<1>2. PICK T : T = {i \in a..b : i \notin S}
  OBVIOUS
<1>3. T \in SUBSET Nat /\ T # {}
  BY <1>1, <1>2
<1>4. PICK m \in T : \A k \in T : m <= k
  BY <1>3, LeastNatural
<1>5. m \in a..b /\ m # a /\ m \notin S
  BY <1>2
<1>6. m - 1 \in a..b /\ m - 1 \notin T
  BY <1>4, <1>5, <1>3
<1> QED
  BY <1>2, <1>5, <1>6

-----------------------------------------------------------------------------
(* The page that a loop over the ids makes.                                 *)

LEMMA ResolvedDef ==
  ASSUME NEW ids, NEW a \in Nat, NEW b \in Nat, a <= b
  PROVE  \A i \in a..b : Resolved(ids, a, b)[i] =
            IF i = a THEN << >>
            ELSE IF ids[i] \in named THEN Append(Resolved(ids, a, b)[i - 1], ids[i])
            ELSE Resolved(ids, a, b)[i - 1]
<1> DEFINE Step(g, i) == IF i = a THEN << >>
                         ELSE IF ids[i] \in named THEN Append(g[i - 1], ids[i]) ELSE g[i - 1]
           S == {m \in a..b : \E g : g = [i \in a..m |-> Step(g, i)]}
<1>1. a \in S
  <2>1. PICK g : g = [i \in a..a |-> << >>]
    OBVIOUS
  <2>2. g = [i \in a..a |-> Step(g, i)]
    BY <2>1
  <2> QED
    BY <2>2
<1>2. ASSUME NEW m \in a..b, m \in S, m + 1 <= b PROVE m + 1 \in S
  <2>1. PICK g : g = [i \in a..m |-> Step(g, i)]
    BY <1>2
  <2>2. PICK h : h = [i \in a..(m + 1) |-> IF i = m + 1 THEN Step(g, i) ELSE g[i]]
    OBVIOUS
  <2>3. ASSUME NEW i \in a..(m + 1) PROVE h[i] = Step(h, i)
    <3>1. i # a => i - 1 \in a..m /\ h[i - 1] = g[i - 1]
      BY <2>2
    <3>2. h[i] = Step(g, i)
      <4> HIDE DEF Step
      <4>1. i # m + 1 => i \in a..m /\ h[i] = g[i]
        BY <2>2
      <4>2. i # m + 1 => g[i] = Step(g, i)
        BY <2>1, <4>1
      <4> QED
        BY <2>2, <4>1, <4>2
    <3>3. CASE i = a
      BY <3>2, <3>3
    <3>4. CASE i # a
      BY <3>1, <3>2, <3>4
    <3> QED
      BY <3>3, <3>4
  <2>4. h = [i \in a..(m + 1) |-> Step(h, i)]
    <3> HIDE DEF Step
    <3> QED
      BY <2>2, <2>3
  <2>5. m + 1 \in a..b
    BY <1>2
  <2> QED
    BY <2>4, <2>5, Zenon
<1>3. b \in S
  <2> HIDE DEF S
  <2>1. a..b \subseteq S
    BY <1>1, <1>2, UpFrom
  <2> QED
    BY <2>1
<1>4. PICK g : g = [i \in a..b |-> Step(g, i)]
  BY <1>3
<1> DEFINE f == Resolved(ids, a, b)
<1>5. f = [i \in a..b |-> Step(f, i)]
  BY <1>4 DEF Resolved
<1>6. \A i \in a..b : f[i] = Step(f, i)
  <2> HIDE DEF f, Step
  <2> QED
    BY <1>5
<1> QED
  BY <1>6

(* A page holds at most the ids asked for, and when nothing was passed over *)
(* exactly those.                                                           *)
LEMMA ResolvedPage ==
  ASSUME NEW ids \in Seq(Inodes), NEW offset \in Nat
  PROVE  /\ resolve_page(ids, offset) \in Seq(Inodes)
         /\ offset < Len(ids) =>
              /\ EndOfPage(ids, offset) \in offset + 1..Len(ids)
              /\ Len(resolve_page(ids, offset)) <= EndOfPage(ids, offset) - offset
              /\ Len(resolve_page(ids, offset)) = EndOfPage(ids, offset) - offset
                   => \A i \in 1..Len(resolve_page(ids, offset)) :
                        resolve_page(ids, offset)[i] = ids[offset + i]
<1>1. CASE offset >= Len(ids)
  BY <1>1 DEF resolve_page
<1>2. CASE offset < Len(ids)
  <2>1. PICK last : last = EndOfPage(ids, offset)
    OBVIOUS
  <2>2. last \in offset + 1..Len(ids) /\ last \in Nat
    BY <1>2, <2>1, QueryAssumption DEF EndOfPage
  <2> DEFINE f == Resolved(ids, offset, last)
  <2>4. \A i \in offset..last :
          f[i] = IF i = offset THEN << >>
                 ELSE IF ids[i] \in named THEN Append(f[i - 1], ids[i]) ELSE f[i - 1]
    <3>1. offset <= last /\ last \in Nat
      BY <2>2
    <3> QED
      BY <3>1, ResolvedDef
  <2> HIDE DEF f
  <2> DEFINE Good(i) == /\ f[i] \in Seq(Inodes) /\ Len(f[i]) <= i - offset
                        /\ Len(f[i]) = i - offset =>
                             \A j \in 1..Len(f[i]) : f[i][j] = ids[offset + j]
             S == {i \in offset..last : Good(i)}
  <2>5. offset \in S
    <3>1. f[offset] = << >> /\ offset \in offset..last
      BY <2>2, <2>4
    <3>2. << >> \in Seq(Inodes) /\ Len(<< >>) = 0 /\ offset - offset = 0 /\ 0 <= 0
      OBVIOUS
    <3>3. \A j \in 1..0 : FALSE
      OBVIOUS
    <3> QED
      BY <3>1, <3>2, <3>3, Zenon
  <2>6. ASSUME NEW i \in offset..last, i \in S, i + 1 <= last PROVE i + 1 \in S
    <3>1. i + 1 \in offset..last /\ i + 1 # offset /\ i + 1 \in 1..Len(ids) /\ ids[i + 1] \in Inodes
      BY <2>2, <2>6
    <3>2. f[i + 1] = IF ids[i + 1] \in named THEN Append(f[i], ids[i + 1]) ELSE f[i]
      BY <2>4, <3>1
    <3>3. Good(i)
      BY <2>6
    <3>4. CASE ids[i + 1] \in named
      <4>0. PICK p \in Seq(Inodes), q \in Inodes : p = f[i] /\ q = ids[i + 1]
        BY <3>1, <3>3
      <4>a. f[i + 1] = Append(p, q)
        BY <3>2, <3>4, <4>0
      <4>1. f[i + 1] \in Seq(Inodes) /\ Len(f[i + 1]) = Len(p) + 1
        BY <4>a
      <4>2. ASSUME Len(f[i + 1]) = i + 1 - offset, NEW j \in 1..Len(f[i + 1])
            PROVE  f[i + 1][j] = ids[offset + j]
        <5>1. Len(p) = i - offset /\ Len(p) \in Nat
          BY <2>2, <4>1, <4>2
        <5>2. CASE j \in 1..Len(p)
          <6>1. Append(p, q)[j] = p[j]
            BY <5>2
          <6> QED
            BY <3>3, <4>0, <4>a, <5>1, <5>2, <6>1
        <5>3. CASE j = Len(p) + 1
          <6>1. Append(p, q)[j] = q
            BY <5>1, <5>3
          <6> QED
            BY <4>0, <4>a, <5>1, <5>3, <6>1
        <5> QED
          BY <4>1, <4>2, <5>1, <5>2, <5>3
      <4> QED
        <5>1. Good(i + 1)
          BY <2>2, <3>1, <3>3, <4>0, <4>1, <4>2
        <5> QED
          BY <3>1, <5>1, Zenon
    <3>5. CASE ids[i + 1] \notin named
      BY <3>1, <3>2, <3>3, <3>5
    <3> QED
      BY <3>4, <3>5
  <2>7. last \in S
    <3> HIDE DEF S
    <3>1. offset..last \subseteq S
      BY <2>2, <2>5, <2>6, UpFrom
    <3> QED
      BY <2>2, <3>1
  <2>8. resolve_page(ids, offset) = f[last]
    BY <1>2, <2>1 DEF resolve_page, f
  <2> QED
    BY <2>1, <2>2, <2>7, <2>8
<1> QED
  BY <1>1, <1>2

-----------------------------------------------------------------------------
(* A finite set of inode numbers can be put in order.                       *)

LEMMA OrderExists ==
  ASSUME NEW n \in Nat
  PROVE  \A A \in SUBSET Nat : IsFiniteSet(A) /\ Cardinality(A) = n =>
           \E f \in [1..n -> A] : \A i, j \in 1..n : i < j => f[i] < f[j]
<1> DEFINE Orders(k, A) == \E f \in [1..k -> A] : \A i, j \in 1..k : i < j => f[i] < f[j]
           S == {k \in Nat : \A A \in SUBSET Nat : IsFiniteSet(A) /\ Cardinality(A) = k => Orders(k, A)}
<1>1. 0 \in S
  <2>1. ASSUME NEW A PROVE Orders(0, A)
    <3>1. [i \in 1..0 |-> 0] \in [1..0 -> A]
      OBVIOUS
    <3>2. \A i \in 1..0 : FALSE
      OBVIOUS
    <3> QED
      BY <3>1, <3>2, Zenon
  <2> QED
    BY <2>1
<1>2. ASSUME NEW k \in 0..n, k \in S, k + 1 <= n PROVE k + 1 \in S
  <2>1. SUFFICES ASSUME NEW A \in SUBSET Nat, IsFiniteSet(A), Cardinality(A) = k + 1
                 PROVE  Orders(k + 1, A)
    OBVIOUS
  <2>2. A # {}
    BY <2>1, FS_EmptySet
  <2>3. PICK m \in A : \A x \in A : m <= x
    BY <2>2, LeastNatural
  <2>4. PICK B : B = A \ {m}
    OBVIOUS
  <2>5. B \in SUBSET Nat /\ IsFiniteSet(B) /\ Cardinality(B) = k
    BY <2>1, <2>4, FS_RemoveElement
  <2>6. PICK f \in [1..k -> B] : \A i, j \in 1..k : i < j => f[i] < f[j]
    BY <1>2, <2>5
  <2>7. PICK g : g = [i \in 1..(k + 1) |-> IF i = 1 THEN m ELSE f[i - 1]]
    OBVIOUS
  <2>8. \A i \in 1..(k + 1) : i # 1 => i - 1 \in 1..k /\ g[i] = f[i - 1] /\ g[i] \in B
    BY <2>7
  <2>9. g \in [1..(k + 1) -> A]
    BY <2>4, <2>7, <2>8
  <2>10. ASSUME NEW i \in 1..(k + 1), NEW j \in 1..(k + 1), i < j PROVE g[i] < g[j]
    <3>1. j # 1 /\ g[j] \in B /\ j - 1 \in 1..k
      BY <2>8, <2>10
    <3>2. CASE i = 1
      <4>1. g[i] = m /\ g[j] \in A /\ g[j] # m
        BY <2>4, <2>7, <3>1, <3>2
      <4>2. m \in Nat /\ g[j] \in Nat /\ m <= g[j]
        BY <2>3, <4>1
      <4> QED
        BY <4>1, <4>2
    <3>3. CASE i # 1
      BY <2>6, <2>8, <2>10, <3>1, <3>3
    <3> QED
      BY <3>2, <3>3
  <2> QED
    BY <2>9, <2>10
<1>3. n \in S
  <2> HIDE DEF S
  <2>1. 0..n \subseteq S
    BY <1>1, <1>2, UpFrom
  <2> QED
    BY <2>1
<1> QED
  BY <1>3

LEMMA InOrderType ==
  ASSUME NEW found \in Answers
  PROVE  InOrder(found) \in Seq(Inodes)
<1>1. found \in SUBSET Nat /\ found \subseteq Inodes /\ IsFiniteSet(found)
  BY QueryAssumption
<1>2. Cardinality(found) \in Nat
  BY <1>1, FS_CardinalityType
<1>3. PICK n \in Nat : n = Cardinality(found)
  BY <1>2
<1>4. \E f \in [1..n -> found] : \A i, j \in 1..n : i < j => f[i] < f[j]
  BY <1>1, <1>3, OrderExists
<1>5. \E f \in [1..n -> found] : \A i, j \in DOMAIN f : i < j => f[i] < f[j]
  BY <1>4
<1>6. InOrder(found) \in [1..n -> found]
  BY <1>3, <1>5, Zenon DEF InOrder
<1>7. PICK ids : ids = InOrder(found)
  OBVIOUS
<1>8. ids \in [1..n -> Inodes]
  BY <1>1, <1>6, <1>7
<1>9. ids = [i \in 1..n |-> ids[i]] /\ \A i \in 1..n : ids[i] \in Inodes
  BY <1>8
<1>10. ids \in Seq(Inodes)
  BY <1>8, <1>9
<1> QED
  BY <1>7, <1>10

-----------------------------------------------------------------------------
(* The inductive invariant.                                                 *)

(* Cursors in the table are distinct, were used at distinct times, and come *)
(* from queries asked so far.                                               *)
TableSound ==
    /\ \A s \in Slots : cursors[s].id # 0 =>
          /\ cursors[s].id < next_id
          /\ cursors[s].last_use <= use_seq
    /\ \A s, t \in Slots : s # t /\ cursors[s].id # 0 /\ cursors[t].id # 0 =>
          cursors[s].id # cursors[t].id /\ cursors[s].last_use # cursors[t].last_use

(* A cursor belongs to one client, holds the answer to its query, and those *)
(* used later were used since the client's last call.                       *)
OwnersSound ==
    /\ \A c \in Clients : client[c].pc = "paging" => client[c].cursor \in 1..next_id - 1
    /\ \A c, d \in Clients : c # d /\ client[c].pc = "paging" /\ client[d].pc = "paging" =>
          client[c].cursor # client[d].cursor
    /\ \A c \in Clients, s \in Slots :
          client[c].pc = "paging" /\ cursors[s].id = client[c].cursor =>
              /\ cursors[s].ids = client[c].want
              /\ \A t \in Slots : cursors[t].id # 0 /\ cursors[t].last_use > cursors[s].last_use =>
                    cursors[t].id \in since[c]

(* The offset a client asks for is what it has received, and not the end.   *)
OffsetsSound ==
    \A c \in Clients : client[c].pc = "paging" /\ ~client[c].skipped =>
        client[c].offset = Len(client[c].got) /\ client[c].offset < Len(client[c].want)

IndInv == TypeOK /\ TableSound /\ OwnersSound /\ OffsetsSound /\ PagesInOrder /\ RecentKept

-----------------------------------------------------------------------------
(* What an ioctl answers.                                                   *)

LEMMA PrefixOf ==
  ASSUME NEW s \in Seq(Inodes), NEW w \in Seq(Inodes), Len(s) <= Len(w)
  PROVE  s = SubSeq(w, 1, Len(s)) <=> \A i \in 1..Len(s) : s[i] = w[i]
<1>1. \A i \in 1..Len(s) : SubSeq(w, 1, Len(s))[i] = w[i]
  OBVIOUS
<1>2. SubSeq(w, 1, Len(s)) \in Seq(Inodes) /\ Len(SubSeq(w, 1, Len(s))) = Len(s)
  OBVIOUS
<1> QED
  BY <1>1, <1>2

(* A page continues what the client has.                                    *)
Continues(ids, got, page) ==
    /\ got \o page = SubSeq(ids, 1, Len(got \o page))
    /\ Len(got \o page) = Len(got) + Len(page)
    /\ page = << >> => got \o page = ids
    /\ Len(got) + Len(page) >= Len(ids) => got \o page = ids

LEMMA PageContinues ==
  ASSUME NEW ids \in Seq(Inodes), NEW got \in Seq(Inodes),
         Len(got) < Len(ids) \/ Len(got) = 0,
         got = SubSeq(ids, 1, Len(got)),
         NEW page, page = resolve_page(ids, Len(got)),
         Len(page) >= EndOfPage(ids, Len(got)) - Len(got)
  PROVE  Continues(ids, got, page)
<1>1. page \in Seq(Inodes) /\ Len(got) \in Nat /\ Len(page) \in Nat /\ Len(ids) \in Nat
  BY ResolvedPage
<1>2. CASE Len(ids) = 0
  <2>1. Len(got) = 0 /\ page = << >>
    BY <1>1, <1>2 DEF resolve_page
  <2>2. got = << >> /\ ids = << >>
    BY <1>1, <1>2, <2>1
  <2>3. page = got /\ ids = got
    BY <2>1, <2>2
  <2>4. Len(got \o got) = 0 /\ got \o got \in Seq(Inodes)
    BY <2>1
  <2>5. got \o got = got
    BY <2>1, <2>4
  <2>6. Len(got) = Len(got) + Len(got)
    BY <2>1
  <2> QED
    BY <2>3, <2>5, <2>6 DEF Continues
<1>3. CASE Len(got) < Len(ids)
  <2>1. PICK last : last = EndOfPage(ids, Len(got))
    OBVIOUS
  <2>2. last \in Len(got) + 1..Len(ids) /\ Len(page) <= last - Len(got)
    BY <1>1, <1>3, <2>1, ResolvedPage
  <2>3. Len(page) = last - Len(got)
    BY <1>1, <2>1, <2>2
  <2>4. \A i \in 1..Len(page) : page[i] = ids[Len(got) + i]
    BY <1>1, <1>3, <2>1, <2>3, ResolvedPage
  <2>5. PICK all : all = got \o page
    OBVIOUS
  <2>6. all \in Seq(Inodes) /\ Len(all) = Len(got) + Len(page)
    BY <1>1, <2>5
  <2>7. \A i \in 1..Len(got) : got[i] = ids[i]
    BY <1>1, <1>3, PrefixOf
  <2>8. ASSUME NEW i \in 1..Len(all) PROVE all[i] = ids[i]
    <3>1. CASE i \in 1..Len(got)
      BY <1>1, <2>5, <2>7, <3>1
    <3>2. CASE i \in Len(got) + 1..Len(all)
      <4>1. i - Len(got) \in 1..Len(page) /\ Len(got) + (i - Len(got)) = i
        BY <1>1, <2>6, <3>2
      <4>2. all[i] = page[i - Len(got)]
        BY <1>1, <2>5, <2>6, <3>2
      <4> QED
        BY <2>4, <4>1, <4>2
    <3> QED
      BY <1>1, <2>6, <3>1, <3>2
  <2>9. Len(all) <= Len(ids)
    BY <1>1, <2>2, <2>3, <2>6
  <2>10. all = SubSeq(ids, 1, Len(all))
    BY <2>6, <2>8, <2>9, PrefixOf
  <2>11. Len(all) >= Len(ids) => all = ids
    BY <1>1, <2>6, <2>8, <2>9
  <2>12. page # << >>
    BY <1>1, <2>2, <2>3
  <2> QED
    BY <2>5, <2>6, <2>10, <2>11, <2>12 DEF Continues
<1> QED
  BY <1>1, <1>2, <1>3

-----------------------------------------------------------------------------
(* The table.                                                               *)

(* A query gets an unused slot, or in a full table the one used least       *)
(* recently.                                                                *)
LEMMA AllocatedSlot ==
  ASSUME TypeOK
  PROVE  /\ cursor_alloc \in Slots
         /\ \/ cursors[cursor_alloc].id = 0
            \/ \A t \in Slots : cursors[t].id # 0 /\ cursors[cursor_alloc].last_use <= cursors[t].last_use
<1> DEFINE unused == {s \in Slots : cursors[s].id = 0}
           oldest == {s \in Slots : \A t \in Slots : cursors[s].last_use <= cursors[t].last_use}
           S == IF unused # {} THEN unused ELSE oldest
<1>1. Slots \in SUBSET Nat /\ 1 \in Slots /\ \A s \in Slots : cursors[s].last_use \in Nat
  BY QueryAssumption DEF Slots, TypeOK
<1>2. oldest # {}
  <2>1. PICK U : U = {cursors[s].last_use : s \in Slots}
    OBVIOUS
  <2>2. U \in SUBSET Nat /\ U # {}
    BY <1>1, <2>1
  <2>3. PICK m \in U : \A k \in U : m <= k
    BY <2>2, LeastNatural
  <2>4. PICK s \in Slots : m = cursors[s].last_use
    BY <2>1
  <2>5. \A t \in Slots : cursors[s].last_use <= cursors[t].last_use
    BY <2>1, <2>3, <2>4
  <2> QED
    BY <2>5
<1>3. S # {} /\ S \in SUBSET Nat
  BY <1>1, <1>2
<1>4. \E m \in S : \A k \in S : m <= k
  <2> HIDE DEF S
  <2> QED
    BY <1>3, LeastNatural
<1>5. cursor_alloc = Min(S)
  BY DEF cursor_alloc
<1>6. Min(S) \in S
  <2> HIDE DEF S
  <2> QED
    BY <1>4, Zenon DEF Min
<1>7. cursor_alloc \in S
  BY <1>5, <1>6
<1> QED
  BY <1>7

(* What a call of client c with cursor id does to the table: slot s keeps   *)
(* the cursor or is released, and me is what the client knows afterwards.   *)
TakesSlot(c, s, id, ids, keep, me) ==
    /\ cursors' = [cursors EXCEPT ![s] = IF keep THEN Used(id, ids) ELSE Unused]
    /\ use_seq' = use_seq + 1
    /\ client' = [client EXCEPT ![c] = me]
    /\ since' = [x \in Clients |-> IF x = c THEN {} ELSE since[x] \cup {id}]

(* The slot is the client's own, or one that cursor_alloc chose.            *)
Takeable(s, id) ==
    \/ cursors[s].id \in {0, id}
    \/ \A t \in Slots : cursors[t].id # 0 /\ cursors[s].last_use <= cursors[t].last_use

(* A client whose cursor was evicted has seen as many others as there are   *)
(* slots.                                                                   *)
LEMMA EvictedLate ==
  ASSUME TypeOK, TableSound, OwnersSound, NEW d \in Clients, NEW s \in Slots, NEW id \in 1..MaxQueries,
         client[d].pc = "paging", cursors[s].id = client[d].cursor, client[d].cursor # id,
         Takeable(s, id), \A t \in Slots : t # s => cursors[t].id # id
  PROVE  IsFiniteSet(since[d] \cup {id}) /\ Cardinality(since[d] \cup {id}) >= MaxCursors
<1>1. \A t \in Slots : cursors[t].id # 0 /\ cursors[s].last_use <= cursors[t].last_use
  BY DEF Takeable, OwnersSound, TypeOK
<1>2. \A t \in Slots : t # s => cursors[t].id \in since[d] /\ cursors[t].id # id
  <2>1. SUFFICES ASSUME NEW t \in Slots, t # s PROVE cursors[t].id \in since[d]
    OBVIOUS
  <2>2. cursors[t].last_use # cursors[s].last_use
    BY <1>1, <2>1 DEF TableSound
  <2>3. cursors[t].last_use \in Nat /\ cursors[s].last_use \in Nat
    BY DEF TypeOK
  <2>4. cursors[t].last_use > cursors[s].last_use
    BY <1>1, <2>2, <2>3
  <2> QED
    BY <1>1, <2>4 DEF OwnersSound
<1>3. PICK T : T = since[d] \cup {id}
  OBVIOUS
<1>4. PICK f : f = [t \in Slots |-> IF t = s THEN id ELSE cursors[t].id]
  OBVIOUS
<1>5. f \in [Slots -> T]
  BY <1>2, <1>3, <1>4
<1>6. \A t, u \in Slots : f[t] = f[u] => t = u
  BY <1>1, <1>2, <1>4 DEF TableSound
<1>7. f \in Injection(Slots, T)
  BY <1>5, <1>6 DEF Injection, IsInjective
<1>8. IsFiniteSet(T)
  <2>1. T \in SUBSET (1..MaxQueries)
    BY <1>3 DEF TypeOK
  <2>2. IsFiniteSet(1..MaxQueries)
    BY QueryAssumption, FS_Interval
  <2> QED
    BY <2>1, <2>2, FS_Subset
<1>9. Cardinality(Slots) = MaxCursors
  <2>1. MaxCursors \in Int /\ MaxCursors >= 1
    BY QueryAssumption
  <2> QED
    BY <2>1, FS_Interval DEF Slots
<1>10. Cardinality(Slots) <= Cardinality(T)
  BY <1>7, <1>8, FS_Injection
<1>11. Cardinality(T) \in Nat /\ MaxCursors \in Nat
  BY <1>8, FS_CardinalityType, QueryAssumption
<1> QED
  BY <1>3, <1>8, <1>9, <1>10, <1>11

(* A call of one client leaves the table sound and the other clients their  *)
(* cursors.                                                                 *)
LEMMA SlotTaken ==
  ASSUME IndInv, NEW c \in Clients, NEW s \in Slots, NEW id \in 1..MaxQueries,
         NEW ids \in Seq(Inodes), NEW keep \in BOOLEAN, NEW me,
         TakesSlot(c, s, id, ids, keep, me), Takeable(s, id),
         next_id' \in Nat, next_id <= next_id', id < next_id',
         \A t \in Slots : t # s => cursors[t].id # id,
         \A d \in Clients : d # c /\ client[d].pc = "paging" => client[d].cursor # id,
         me.pc = "paging" => keep /\ me.cursor = id /\ me.want = ids
  PROVE  TableSound' /\ OwnersSound' /\ RecentKept'
<1> USE DEF IndInv
<1>1. /\ \A t \in Slots : cursors'[t] = IF t = s THEN (IF keep THEN Used(id, ids) ELSE Unused) ELSE cursors[t]
      /\ \A d \in Clients : client'[d] = IF d = c THEN me ELSE client[d]
      /\ \A d \in Clients : since'[d] = IF d = c THEN {} ELSE since[d] \cup {id}
      /\ use_seq' = use_seq + 1
  BY DEF TakesSlot, TypeOK
<1>2. /\ \A t \in Slots : cursors[t].id \in Nat /\ cursors[t].last_use \in Nat
      /\ use_seq \in Nat /\ next_id \in Nat /\ id \in Nat /\ id # 0
      /\ \A d \in Clients : client[d].cursor \in Nat
  BY QueryAssumption DEF TypeOK
<1>3. /\ keep => cursors'[s].id = id /\ cursors'[s].ids = ids /\ cursors'[s].last_use = use_seq + 1
      /\ ~keep => cursors'[s].id = 0
      /\ \A t \in Slots : t # s => cursors'[t] = cursors[t]
  BY <1>1 DEF Used, Unused
<1>4. TableSound'
  <2>1. ASSUME NEW t \in Slots, cursors'[t].id # 0
        PROVE  cursors'[t].id < next_id' /\ cursors'[t].last_use <= use_seq'
    <3>1. CASE t = s
      BY <1>1, <1>2, <1>3, <2>1, <3>1
    <3>2. CASE t # s
      BY <1>1, <1>2, <1>3, <2>1, <3>2 DEF TableSound
    <3> QED
      BY <3>1, <3>2
  <2>2. ASSUME NEW t \in Slots, NEW u \in Slots, t # u, cursors'[t].id # 0, cursors'[u].id # 0
        PROVE  cursors'[t].id # cursors'[u].id /\ cursors'[t].last_use # cursors'[u].last_use
    <3>1. CASE t = s
      BY <1>2, <1>3, <2>2, <3>1 DEF TableSound
    <3>2. CASE u = s
      BY <1>2, <1>3, <2>2, <3>2 DEF TableSound
    <3>3. CASE t # s /\ u # s
      BY <1>3, <2>2, <3>3 DEF TableSound
    <3> QED
      BY <3>1, <3>2, <3>3
  <2> QED
    BY <2>1, <2>2 DEF TableSound, Slots
<1>5. OwnersSound'
  <2>1. ASSUME NEW d \in Clients, client'[d].pc = "paging" PROVE client'[d].cursor \in 1..next_id' - 1
    BY <1>1, <1>2, <2>1 DEF OwnersSound
  <2>2. ASSUME NEW d \in Clients, NEW e \in Clients, d # e,
               client'[d].pc = "paging", client'[e].pc = "paging"
        PROVE  client'[d].cursor # client'[e].cursor
    BY <1>1, <2>2 DEF OwnersSound
  <2>3. ASSUME NEW d \in Clients, NEW t \in Slots,
               client'[d].pc = "paging", cursors'[t].id = client'[d].cursor
        PROVE  /\ cursors'[t].ids = client'[d].want
               /\ \A u \in Slots : cursors'[u].id # 0 /\ cursors'[u].last_use > cursors'[t].last_use =>
                     cursors'[u].id \in since'[d]
    <3>1. CASE d = c
      <4>1. t = s /\ keep
        BY <1>1, <1>3, <2>3, <3>1
      <4>2. \A u \in Slots : cursors'[u].id # 0 => cursors'[u].last_use <= use_seq + 1
        BY <1>1, <1>4 DEF TableSound, Slots
      <4>3. \A u \in Slots : cursors'[u].last_use \in Nat
        BY <1>1, <1>2 DEF Used, Unused
      <4> QED
        BY <1>1, <1>2, <1>3, <2>3, <3>1, <4>1, <4>2, <4>3
    <3>2. CASE d # c
      <4>1. client'[d] = client[d] /\ since'[d] = since[d] \cup {id} /\ client[d].cursor # id
        BY <1>1, <2>3, <3>2
      <4>2. client[d].cursor # 0
        BY <2>3, <4>1, <1>2 DEF OwnersSound
      <4>3. t # s
        BY <1>3, <2>3, <4>1, <4>2
      <4>4. cursors'[t] = cursors[t]
        BY <1>3, <4>3
      <4>5. ASSUME NEW u \in Slots, cursors'[u].id # 0, cursors'[u].last_use > cursors'[t].last_use
            PROVE  cursors'[u].id \in since'[d]
        <5>1. CASE u = s
          BY <1>3, <4>1, <4>5, <5>1
        <5>2. CASE u # s
          BY <1>3, <2>3, <4>1, <4>4, <4>5, <5>2 DEF OwnersSound
        <5> QED
          BY <5>1, <5>2
      <4> QED
        BY <2>3, <4>1, <4>4, <4>5 DEF OwnersSound
    <3> QED
      BY <3>1, <3>2
  <2> QED
    BY <2>1, <2>2, <2>3 DEF OwnersSound, Slots
<1>6. RecentKept'
  <2>1. SUFFICES ASSUME NEW d \in Clients, client'[d].pc = "paging", Cardinality(since'[d]) < MaxCursors
                 PROVE  \E t \in Slots : cursors'[t].id = client'[d].cursor
    BY DEF RecentKept, cursor_find, Slots
  <2>2. CASE d = c
    BY <1>1, <1>3, <2>1, <2>2
  <2>3. CASE d # c
    <3>1. client'[d] = client[d] /\ since'[d] = since[d] \cup {id} /\ client[d].cursor # id
      BY <1>1, <2>1, <2>3
    <3>2. since[d] \subseteq 1..MaxQueries /\ IsFiniteSet(1..MaxQueries)
      BY QueryAssumption, FS_Interval DEF TypeOK
    <3>3. IsFiniteSet(since[d]) /\ Cardinality(since[d]) \in Nat
      BY <3>2, FS_Subset, FS_CardinalityType
    <3>4. Cardinality(since[d]) <= Cardinality(since'[d]) /\ Cardinality(since'[d]) \in Nat
      <4>1. Cardinality(since[d] \cup {id}) =
              IF id \in since[d] THEN Cardinality(since[d]) ELSE Cardinality(since[d]) + 1
        BY <3>3, FS_AddElement
      <4> QED
        BY <3>1, <3>3, <4>1
    <3>5. Cardinality(since[d]) < MaxCursors
      BY <2>1, <3>3, <3>4, QueryAssumption
    <3>6. PICK t \in Slots : cursors[t].id = client[d].cursor
      BY <2>1, <3>1, <3>5 DEF RecentKept, cursor_find
    <3>7. t # s
      <4>1. SUFFICES ASSUME t = s PROVE FALSE
        OBVIOUS
      <4>2. Cardinality(since[d] \cup {id}) >= MaxCursors
        BY <2>1, <3>1, <3>6, <4>1, EvictedLate
      <4> QED
        BY <2>1, <3>1, <3>4, <4>2, QueryAssumption
    <3> QED
      BY <1>3, <3>1, <3>6, <3>7
  <2> QED
    BY <2>2, <2>3
<1> QED
  BY <1>4, <1>5, <1>6

-----------------------------------------------------------------------------
(* The steps.                                                               *)

(* What the client knows after a page is sound when what it knew before was.*)
LEMMA PageStep ==
  ASSUME IndInv, NEW c \in Clients, NEW s \in Slots, NEW id \in 1..MaxQueries,
         NEW ids \in Seq(Inodes), NEW me, Page(c, me, s, ids, id), Takeable(s, id),
         named' = named, next_id' \in 1..MaxQueries + 1, next_id <= next_id', id < next_id',
         \A t \in Slots : t # s => cursors[t].id # id,
         \A d \in Clients : d # c /\ client[d].pc = "paging" => client[d].cursor # id,
         me.offset \in Nat, me.got \in Seq(Inodes), me.skipped \in BOOLEAN, me.want = ids,
         ~me.skipped => /\ me.offset = Len(me.got) /\ me.got = SubSeq(ids, 1, Len(me.got))
                        /\ me.offset < Len(ids) \/ me.offset = 0
  PROVE  IndInv'
<1>1. PICK page : page = resolve_page(ids, me.offset)
  OBVIOUS
<1>2. page \in Seq(Inodes) /\ Len(page) \in Nat /\ Len(ids) \in Nat
  BY <1>1, ResolvedPage
<1>3. PICK skip : skip = (me.skipped \/ Len(page) < EndOfPage(ids, me.offset) - me.offset)
  OBVIOUS
<1>4. PICK new : new = [pc |-> IF More(page, me.offset + Len(page), Len(ids)) THEN "paging" ELSE "done",
                        cursor |-> id, offset |-> me.offset + Len(page), got |-> me.got \o page,
                        want |-> ids, skipped |-> skip]
  OBVIOUS
<1>5. PICK keep \in BOOLEAN : keep = ~LastPage(ids, me.offset, page)
  BY DEF LastPage
<1>6. TakesSlot(c, s, id, ids, keep, new)
  <2>1. cursors' = [cursors EXCEPT ![s] = IF keep THEN Used(id, ids) ELSE Unused]
    BY <1>1, <1>5 DEF Page
  <2>2. client' = [client EXCEPT ![c] = new]
    BY <1>1, <1>3, <1>4 DEF Page
  <2> QED
    BY <2>1, <2>2 DEF Page, TakesSlot
<1>7. new.pc = "paging" => keep /\ new.cursor = id /\ new.want = ids
  <2>1. new.cursor = id /\ new.want = ids
    BY <1>4
  <2>2. new.pc = "paging" => More(page, me.offset + Len(page), Len(ids))
    BY <1>4
  <2>3. More(page, me.offset + Len(page), Len(ids)) => ~LastPage(ids, me.offset, page)
    BY <1>2 DEF More, LastPage
  <2> QED
    BY <1>5, <2>1, <2>2, <2>3
<1>8. TableSound' /\ OwnersSound' /\ RecentKept'
  <2>1. next_id' \in Nat
    BY QueryAssumption
  <2> QED
    BY <1>6, <1>7, <2>1, SlotTaken
<1>9. /\ client' = [client EXCEPT ![c] = new] /\ use_seq' = use_seq + 1
      /\ cursors' = [cursors EXCEPT ![s] = IF keep THEN Used(id, ids) ELSE Unused]
      /\ since' = [x \in Clients |-> IF x = c THEN {} ELSE since[x] \cup {id}]
  BY <1>6 DEF TakesSlot
<1>10. skip \in BOOLEAN
  BY <1>3
<1>11. TypeOK'
  <2>1. new \in [pc : {"idle", "paging", "done", "failed"},
                 cursor : 0..MaxQueries, offset : Nat, got : Seq(Inodes),
                 want : Seq(Inodes), skipped : BOOLEAN]
    <3>1. me.got \o page \in Seq(Inodes) /\ me.offset + Len(page) \in Nat /\ id \in 0..MaxQueries
      BY <1>2
    <3> QED
      BY <1>4, <1>10, <3>1
  <2>2. << >> \in Seq(Inodes) /\ 0 \in 0..MaxQueries /\ use_seq + 1 \in Nat /\ use_seq \in Nat
    BY QueryAssumption DEF IndInv, TypeOK
  <2>3. /\ Used(id, ids) \in [id : 0..MaxQueries, ids : Seq(Inodes), last_use : Nat]
        /\ Unused \in [id : 0..MaxQueries, ids : Seq(Inodes), last_use : Nat]
    BY <2>2 DEF Used, Unused
  <2>4. cursors' \in [Slots -> [id : 0..MaxQueries, ids : Seq(Inodes), last_use : Nat]]
    BY <1>9, <2>3 DEF IndInv, TypeOK
  <2>5. since' \in [Clients -> SUBSET (1..MaxQueries)]
    BY <1>9 DEF IndInv, TypeOK
  <2>6. client' \in [Clients -> [pc : {"idle", "paging", "done", "failed"},
                                 cursor : 0..MaxQueries, offset : Nat, got : Seq(Inodes),
                                 want : Seq(Inodes), skipped : BOOLEAN]]
    BY <1>9, <2>1 DEF IndInv, TypeOK
  <2>7. named' \subseteq Inodes /\ use_seq' \in Nat /\ next_id' \in 1..MaxQueries + 1
    BY <1>9, <2>2 DEF IndInv, TypeOK
  <2> QED
    BY <2>4, <2>5, <2>6, <2>7 DEF TypeOK, Slots
<1>12. \A d \in Clients : client'[d] = IF d = c THEN new ELSE client[d]
  BY <1>9 DEF IndInv, TypeOK
<1>13. ASSUME ~skip
       PROVE  /\ new.got = SubSeq(ids, 1, Len(new.got))
              /\ new.pc = "done" => new.got = ids
              /\ new.pc = "paging" => new.offset = Len(new.got) /\ new.offset < Len(ids)
  <2>1. ~me.skipped /\ ~(Len(page) < EndOfPage(ids, me.offset) - me.offset)
    BY <1>3, <1>13
  <2>2. me.offset = Len(me.got) /\ me.got = SubSeq(ids, 1, Len(me.got))
    BY <2>1
  <2>3. EndOfPage(ids, me.offset) \in Int
    BY <1>2, QueryAssumption DEF EndOfPage
  <2>4. Len(page) >= EndOfPage(ids, Len(me.got)) - Len(me.got)
    BY <1>2, <2>1, <2>2, <2>3
  <2>5. Len(me.got) < Len(ids) \/ Len(me.got) = 0
    BY <2>1, <2>2
  <2>6. Continues(ids, me.got, page)
    <3>1. PICK got \in Seq(Inodes) : got = me.got
      OBVIOUS
    <3>2. page = resolve_page(ids, Len(got))
      BY <1>1, <2>2, <3>1
    <3>a. /\ Len(got) < Len(ids) \/ Len(got) = 0
          /\ got = SubSeq(ids, 1, Len(got))
          /\ Len(page) >= EndOfPage(ids, Len(got)) - Len(got)
      BY <2>2, <2>4, <2>5, <3>1
    <3>3. Continues(ids, got, page)
      BY <3>2, <3>a, PageContinues, Zenon
    <3> QED
      BY <3>1, <3>3
  <2>7. new.got = me.got \o page /\ new.offset = Len(me.got) + Len(page)
    BY <1>4, <2>2
  <2>8. new.pc = "done" => page = << >> \/ Len(me.got) + Len(page) >= Len(ids)
    BY <1>2, <1>4, <2>2 DEF More
  <2>9. new.pc = "paging" => Len(me.got) + Len(page) < Len(ids)
    BY <1>4, <2>2 DEF More
  <2> QED
    BY <2>6, <2>7, <2>8, <2>9 DEF Continues
<1>14. new.skipped = skip /\ new.want = ids
  BY <1>4
<1>15. OffsetsSound' /\ PagesInOrder'
  <2>1. ASSUME NEW d \in Clients, client'[d].pc = "paging", ~client'[d].skipped
        PROVE  client'[d].offset = Len(client'[d].got) /\ client'[d].offset < Len(client'[d].want)
    BY <1>12, <1>13, <1>14, <2>1 DEF IndInv, OffsetsSound
  <2>2. ASSUME NEW d \in Clients, ~client'[d].skipped
        PROVE  /\ client'[d].got = SubSeq(client'[d].want, 1, Len(client'[d].got))
               /\ client'[d].pc = "done" => client'[d].got = client'[d].want
    BY <1>12, <1>13, <1>14, <2>2 DEF IndInv, PagesInOrder
  <2> QED
    BY <2>1, <2>2 DEF OffsetsSound, PagesInOrder
<1> QED
  BY <1>8, <1>11, <1>15 DEF IndInv

(* No cursor of the table and no client has the number of the next query.   *)
LEMMA NextIdIsNew ==
  ASSUME IndInv, next_id <= MaxQueries
  PROVE  /\ next_id \in 1..MaxQueries /\ next_id + 1 \in 1..MaxQueries + 1
         /\ next_id <= next_id + 1 /\ next_id < next_id + 1
         /\ \A t \in Slots : cursors[t].id # next_id
         /\ \A d \in Clients : client[d].pc = "paging" => client[d].cursor # next_id
<1>1. next_id \in 1..MaxQueries /\ MaxQueries \in Nat
  BY QueryAssumption DEF IndInv, TypeOK
<1>2. \A t \in Slots : cursors[t].id # next_id
  BY <1>1 DEF IndInv, TypeOK, TableSound
<1>3. \A d \in Clients : client[d].pc = "paging" => client[d].cursor # next_id
  BY <1>1 DEF IndInv, TypeOK, OwnersSound
<1> QED
  BY <1>1, <1>2, <1>3

LEMMA StartQueryStep ==
  ASSUME IndInv, NEW c \in Clients, NEW found \in Answers, StartQuery(c, found)
  PROVE  IndInv'
<1>1. PICK ids \in Seq(Inodes) : ids = InOrder(found)
  BY InOrderType
<1>2. PICK me : me = [Idle EXCEPT !.want = ids]
  OBVIOUS
<1>3. PICK s \in Slots : s = cursor_alloc
  BY AllocatedSlot DEF IndInv
<1>4. Takeable(s, next_id)
  BY <1>3, AllocatedSlot DEF IndInv, Takeable
<1>5. next_id <= MaxQueries /\ next_id' = next_id + 1 /\ named' = named /\ Page(c, me, s, ids, next_id)
  BY <1>1, <1>2, <1>3 DEF StartQuery
<1>6. /\ me.offset = 0 /\ me.got = << >> /\ me.skipped = FALSE /\ me.want = ids
  BY <1>2 DEF Idle
<1>7. << >> \in Seq(Inodes) /\ Len(<< >>) = 0 /\ << >> = SubSeq(ids, 1, 0)
  OBVIOUS
<1>8. /\ me.offset \in Nat /\ me.got \in Seq(Inodes) /\ me.skipped \in BOOLEAN
      /\ me.offset = Len(me.got) /\ me.got = SubSeq(ids, 1, Len(me.got))
  <2>1. 0 \in Nat /\ FALSE \in BOOLEAN
    OBVIOUS
  <2> QED
    BY <1>6, <1>7, <2>1, Zenon
<1>9. PICK id \in 1..MaxQueries : id = next_id
  BY <1>5, NextIdIsNew
<1>10. /\ next_id' \in 1..MaxQueries + 1 /\ next_id <= next_id' /\ id < next_id'
       /\ \A t \in Slots : t # s => cursors[t].id # id
       /\ \A d \in Clients : d # c /\ client[d].pc = "paging" => client[d].cursor # id
  BY <1>5, <1>9, NextIdIsNew
<1>11. Takeable(s, id) /\ Page(c, me, s, ids, id) /\ named' = named
  BY <1>4, <1>5, <1>9
<1>12. me.want = ids /\ me.offset = 0
  BY <1>6
<1> QED
  <2>1. ~me.skipped => /\ me.offset = Len(me.got) /\ me.got = SubSeq(ids, 1, Len(me.got))
                       /\ me.offset < Len(ids) \/ me.offset = 0
    BY <1>8, <1>12
  <2>2. me.offset \in Nat /\ me.got \in Seq(Inodes) /\ me.skipped \in BOOLEAN
    BY <1>8
  <2> QED
    BY <1>10, <1>11, <1>12, <2>1, <2>2, PageStep

LEMMA NextPageStep ==
  ASSUME IndInv, NEW c \in Clients, NextPage(c)
  PROVE  IndInv'
<1>1. PICK s \in Slots : cursors[s].id = client[c].cursor
                         /\ Page(c, client[c], s, cursors[s].ids, client[c].cursor)
  BY DEF NextPage, cursor_find
<1>2. client[c].pc = "paging" /\ named' = named /\ next_id' = next_id
  BY DEF NextPage
<1>3. cursors[s].ids = client[c].want /\ client[c].cursor \in 1..next_id - 1
  BY <1>1, <1>2 DEF IndInv, OwnersSound
<1>a. PICK me : me = client[c]
  OBVIOUS
<1>b. PICK ids \in Seq(Inodes) : ids = cursors[s].ids
  BY DEF IndInv, TypeOK
<1>5. /\ me.offset \in Nat /\ me.got \in Seq(Inodes) /\ me.skipped \in BOOLEAN /\ me.want = ids
      /\ next_id \in 1..MaxQueries + 1
  BY <1>3, <1>a, <1>b DEF IndInv, TypeOK
<1>6. ~me.skipped => /\ me.offset = Len(me.got) /\ me.got = SubSeq(ids, 1, Len(me.got))
                     /\ me.offset < Len(ids) \/ me.offset = 0
  BY <1>2, <1>a, <1>b, <1>5 DEF IndInv, OffsetsSound, PagesInOrder
<1>7. PICK id \in 1..MaxQueries : id = client[c].cursor
  BY <1>3, <1>5, QueryAssumption
<1>8. Takeable(s, id) /\ Page(c, me, s, ids, id)
  BY <1>1, <1>a, <1>b, <1>7 DEF Takeable
<1>9. \A t \in Slots : t # s => cursors[t].id # id
  <2>1. id # 0 /\ cursors[s].id = id
    BY <1>1, <1>7
  <2> QED
    BY <2>1 DEF IndInv, TableSound
<1>10. \A d \in Clients : d # c /\ client[d].pc = "paging" => client[d].cursor # id
  BY <1>2, <1>7 DEF IndInv, OwnersSound
<1>11. next_id' \in 1..MaxQueries + 1 /\ next_id <= next_id' /\ id < next_id'
  BY <1>2, <1>3, <1>5, <1>7, QueryAssumption
<1> QED
  BY <1>2, <1>5, <1>6, <1>8, <1>9, <1>10, <1>11, PageStep

LEMMA CountOnlyStep ==
  ASSUME IndInv, NEW c \in Clients, NEW found \in Answers, CountOnly(c, found)
  PROVE  IndInv'
<1>1. PICK ids \in Seq(Inodes) : ids = InOrder(found)
  BY InOrderType
<1>2. PICK s \in Slots : s = cursor_alloc
  BY AllocatedSlot DEF IndInv
<1>3. Takeable(s, next_id)
  BY <1>2, AllocatedSlot DEF IndInv, Takeable
<1>4. /\ next_id <= MaxQueries /\ next_id' = next_id + 1 /\ named' = named
      /\ cursors' = [cursors EXCEPT ![s] = Used(next_id, ids)] /\ use_seq' = use_seq + 1
      /\ client' = [client EXCEPT ![c] = Idle]
      /\ since' = [x \in Clients |-> IF x = c THEN {} ELSE since[x] \cup {next_id}]
  BY <1>1, <1>2 DEF CountOnly
<1>5. PICK id \in 1..MaxQueries : id = next_id
  BY <1>4, NextIdIsNew
<1>6. /\ next_id' \in 1..MaxQueries + 1 /\ next_id <= next_id' /\ id < next_id'
      /\ \A t \in Slots : t # s => cursors[t].id # id
      /\ \A d \in Clients : d # c /\ client[d].pc = "paging" => client[d].cursor # id
  BY <1>4, <1>5, NextIdIsNew
<1>7. TakesSlot(c, s, id, ids, TRUE, Idle)
  BY <1>4, <1>5 DEF TakesSlot
<1>8. Idle.pc = "idle" /\ ~Idle.skipped /\ Idle.got = << >> /\ Idle.want = << >>
  BY DEF Idle
<1>9. TableSound' /\ OwnersSound' /\ RecentKept'
  <2>1. next_id' \in Nat /\ Idle.pc # "paging"
    BY <1>6, <1>8, QueryAssumption
  <2> QED
    <3>1. PICK keep \in BOOLEAN : keep = TRUE
      OBVIOUS
    <3>2. TakesSlot(c, s, id, ids, keep, Idle) /\ Takeable(s, id)
      BY <1>3, <1>5, <1>7, <3>1
    <3>3. Idle.pc = "paging" => keep /\ Idle.cursor = id /\ Idle.want = ids
      BY <2>1
    <3> QED
      BY <1>6, <2>1, <3>2, <3>3, SlotTaken
<1>10. TypeOK'
  <2>1. << >> \in Seq(Inodes) /\ 0 \in 0..MaxQueries /\ use_seq + 1 \in Nat /\ use_seq \in Nat
    BY QueryAssumption DEF IndInv, TypeOK
  <2>2. Used(id, ids) \in [id : 0..MaxQueries, ids : Seq(Inodes), last_use : Nat]
    BY <2>1 DEF Used
  <2>3. Idle \in [pc : {"idle", "paging", "done", "failed"},
                  cursor : 0..MaxQueries, offset : Nat, got : Seq(Inodes),
                  want : Seq(Inodes), skipped : BOOLEAN]
    BY <2>1 DEF Idle
  <2>4. cursors' \in [Slots -> [id : 0..MaxQueries, ids : Seq(Inodes), last_use : Nat]]
    BY <1>4, <1>5, <2>2 DEF IndInv, TypeOK
  <2>5. since' \in [Clients -> SUBSET (1..MaxQueries)]
    BY <1>4, <1>5 DEF IndInv, TypeOK
  <2>6. client' \in [Clients -> [pc : {"idle", "paging", "done", "failed"},
                                 cursor : 0..MaxQueries, offset : Nat, got : Seq(Inodes),
                                 want : Seq(Inodes), skipped : BOOLEAN]]
    BY <1>4, <2>3 DEF IndInv, TypeOK
  <2>7. named' \subseteq Inodes /\ use_seq' \in Nat /\ next_id' \in 1..MaxQueries + 1
    BY <1>4, <1>6, <2>1 DEF IndInv, TypeOK
  <2> QED
    BY <2>4, <2>5, <2>6, <2>7 DEF TypeOK, Slots
<1>11. \A d \in Clients : client'[d] = IF d = c THEN Idle ELSE client[d]
  BY <1>4 DEF IndInv, TypeOK
<1>12. << >> = SubSeq(<< >>, 1, Len(<< >>))
  OBVIOUS
<1>13. OffsetsSound'
  BY <1>8, <1>11 DEF IndInv, OffsetsSound
<1>14. PagesInOrder'
  BY <1>8, <1>11, <1>12 DEF IndInv, PagesInOrder
<1> QED
  BY <1>9, <1>10, <1>13, <1>14 DEF IndInv

(* A client that stops asking disturbs nobody.                              *)
LEMMA StopStep ==
  ASSUME IndInv, NEW c \in Clients, NEW me, client' = [client EXCEPT ![c] = me],
         me \in {Idle, [client[c] EXCEPT !.pc = "failed"]},
         UNCHANGED <<named, cursors, use_seq, next_id, since>>
  PROVE  IndInv'
<1>1. /\ me \in [pc : {"idle", "paging", "done", "failed"},
                 cursor : 0..MaxQueries, offset : Nat, got : Seq(Inodes),
                 want : Seq(Inodes), skipped : BOOLEAN]
      /\ me.pc \in {"idle", "failed"}
  <2>1. << >> \in Seq(Inodes) /\ 0 \in 0..MaxQueries
    BY QueryAssumption
  <2>2. CASE me = Idle
    BY <2>1, <2>2 DEF Idle
  <2>3. CASE me = [client[c] EXCEPT !.pc = "failed"]
    BY <2>3 DEF IndInv, TypeOK
  <2> QED
    BY <2>2, <2>3
<1>2. \A d \in Clients : client'[d] = IF d = c THEN me ELSE client[d]
  BY DEF IndInv, TypeOK
<1>3. TypeOK'
  BY <1>1 DEF IndInv, TypeOK, Slots
<1>4. TableSound'
  <2>1. cursors' = cursors /\ next_id' = next_id /\ use_seq' = use_seq
    OBVIOUS
  <2> QED
    BY <2>1 DEF IndInv, TableSound, Slots
<1>5. OwnersSound'
  <2>1. \A d \in Clients : client'[d].pc = "paging" => client'[d] = client[d]
    BY <1>1, <1>2
  <2>2. cursors' = cursors /\ next_id' = next_id /\ since' = since /\ OwnersSound
    BY DEF IndInv
  <2> QED
    BY <2>1, <2>2 DEF OwnersSound, Slots
<1>6. OffsetsSound'
  BY <1>1, <1>2 DEF IndInv, OffsetsSound
<1>7. RecentKept'
  BY <1>1, <1>2 DEF IndInv, RecentKept, cursor_find, Slots
<1>8. ~me.skipped => me.got = SubSeq(me.want, 1, Len(me.got))
  <2>1. << >> = SubSeq(<< >>, 1, Len(<< >>))
    OBVIOUS
  <2>2. CASE me = Idle
    BY <2>1, <2>2 DEF Idle
  <2>3. CASE me = [client[c] EXCEPT !.pc = "failed"]
    BY <2>3 DEF IndInv, TypeOK, PagesInOrder
  <2> QED
    BY <2>2, <2>3
<1>9. PagesInOrder'
  BY <1>1, <1>2, <1>8 DEF IndInv, PagesInOrder
<1> QED
  BY <1>3, <1>4, <1>5, <1>6, <1>7, <1>9 DEF IndInv

LEMMA UnlinkStep ==
  ASSUME IndInv, NEW i \in Inodes, Unlink(i)
  PROVE  IndInv'
<1>1. named' \subseteq Inodes /\ UNCHANGED <<cursors, use_seq, next_id, client, since>>
  BY DEF Unlink, IndInv, TypeOK
<1> QED
  BY <1>1 DEF IndInv, TypeOK, TableSound, OwnersSound, OffsetsSound, PagesInOrder, RecentKept,
              cursor_find, Slots

LEMMA InitInv == Init => IndInv
<1>1. SUFFICES ASSUME Init PROVE IndInv
  OBVIOUS
<1>2. << >> \in Seq(Inodes) /\ 0 \in 0..MaxQueries /\ 1 \in 1..MaxQueries + 1
  BY QueryAssumption
<1>3. << >> = SubSeq(<< >>, 1, Len(<< >>))
  OBVIOUS
<1>4. TypeOK
  BY <1>1, <1>2 DEF Init, TypeOK, Idle, Unused
<1>5. TableSound /\ OwnersSound /\ OffsetsSound /\ RecentKept
  BY <1>1 DEF Init, TableSound, OwnersSound, OffsetsSound, RecentKept, Idle, Unused
<1>6. PagesInOrder
  BY <1>1, <1>3 DEF Init, PagesInOrder, Idle
<1> QED
  BY <1>4, <1>5, <1>6 DEF IndInv

LEMMA NextInv == IndInv /\ [Next]_vars => IndInv'
<1>1. SUFFICES ASSUME IndInv, [Next]_vars PROVE IndInv'
  OBVIOUS
<1>2. ASSUME NEW c \in Clients, NEW found \in Answers, StartQuery(c, found) PROVE IndInv'
  BY <1>1, <1>2, StartQueryStep
<1>3. ASSUME NEW c \in Clients, NEW found \in Answers, CountOnly(c, found) PROVE IndInv'
  BY <1>1, <1>3, CountOnlyStep
<1>4. ASSUME NEW c \in Clients, NextPage(c) PROVE IndInv'
  BY <1>1, <1>4, NextPageStep
<1>5. ASSUME NEW c \in Clients, NextPageFails(c) PROVE IndInv'
  BY <1>1, <1>5, StopStep DEF NextPageFails
<1>6. ASSUME NEW c \in Clients, Abandon(c) PROVE IndInv'
  BY <1>1, <1>6, StopStep DEF Abandon
<1>7. ASSUME NEW i \in Inodes, Unlink(i) PROVE IndInv'
  BY <1>1, <1>7, UnlinkStep
<1>8. CASE UNCHANGED vars
  BY <1>1, <1>8 DEF vars, IndInv, TypeOK, TableSound, OwnersSound, OffsetsSound, PagesInOrder, RecentKept,
                    cursor_find, Slots
<1> QED
  BY <1>1, <1>2, <1>3, <1>4, <1>5, <1>6, <1>7, <1>8 DEF Next

-----------------------------------------------------------------------------
(* Whatever the clients ask of the table of cursors in fuse_ioctl.c, in     *)
(* whatever order, and whatever images are removed meanwhile, every client  *)
(* whose answer has lost no path receives its own answer page after page,   *)
(* and finds its cursor unless as many others were used since its last call *)
(* as the table has slots.                                                  *)
THEOREM EachClientServed == Spec => []ClientsServed
<1>1. IndInv => ClientsServed
  BY DEF IndInv, ClientsServed
<1> QED
  BY <1>1, InitInv, NextInv, PTL DEF Spec
=============================================================================
