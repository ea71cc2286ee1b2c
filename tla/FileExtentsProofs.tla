-------------------------- MODULE FileExtentsProofs --------------------------
(***************************************************************************)
(* Proofs about FileExtents: however many files, blocks and inline slots   *)
(* there are and whatever the size of a group, files that are written      *)
(* without gaps, cloned by whole groups and deleted while they share       *)
(* nothing read back as they were written, and the reference counts are    *)
(* those of their extents.                                                 *)
(***************************************************************************)
EXTENDS FileExtents, FiniteSetTheorems, WellFoundedInduction, TLAPS

-----------------------------------------------------------------------------
(* Induction, stated for sets.                                              *)

LEMMA LeastMember ==
  ASSUME NEW S \in SUBSET Nat, S # {}
  PROVE  \E m \in S : \A k \in S : m <= k
<1>1. PICK R : R = {p \in Nat \X Nat : p[1] < p[2]}
  OBVIOUS
<1>2. IsWellFoundedOn(R, Nat)
  BY <1>1, NatLessThanWellFounded DEF OpToRel
<1>3. PICK m \in S : \A k \in S : ~(<<k, m>> \in R)
  BY <1>2, WFMin
<1>4. \A k \in S : ~(k < m)
  BY <1>1, <1>3
<1> QED
  BY <1>4

LEMMA Stepwise ==
  ASSUME NEW b \in Nat, NEW S, 0 \in S,
         \A i \in 0..b : i \in S /\ i + 1 <= b => i + 1 \in S
  PROVE  0..b \subseteq S
<1>1. SUFFICES ASSUME NEW j \in 0..b, j \notin S PROVE FALSE
  OBVIOUS
<1>2. PICK T : T = {i \in 0..b : i \notin S}
  OBVIOUS
<1>3. T \in SUBSET Nat /\ T # {}
  BY <1>1, <1>2
<1>4. PICK m \in T : \A k \in T : m <= k
  BY <1>3, LeastMember
<1>5. m \in 0..b /\ m # 0 /\ m \notin S
  BY <1>2
<1>6. m - 1 \in 0..b /\ m - 1 \notin T
  BY <1>4, <1>5, <1>3
<1> QED
  BY <1>2, <1>5, <1>6

LEMMA GreatestMember ==
  ASSUME NEW n \in Nat, NEW S \in SUBSET (0..n), S # {}
  PROVE  \E m \in S : \A k \in S : m >= k
<1>1. PICK T : T = {n - k : k \in S}
  OBVIOUS
<1>a. \A k \in S : n - k \in Nat
  OBVIOUS
<1>2. T \in SUBSET Nat /\ T # {}
  BY <1>1, <1>a
<1>3. PICK t \in T : \A k \in T : t <= k
  BY <1>2, LeastMember
<1>4. PICK m \in S : t = n - m
  BY <1>1, <1>3
<1>5. ASSUME NEW k \in S PROVE m >= k
  <2>1. n - k \in T /\ k \in 0..n /\ m \in 0..n
    BY <1>1
  <2> QED
    BY <1>3, <1>4, <2>1
<1> QED
  BY <1>5

LEMMA MinFact ==
  ASSUME NEW S \in SUBSET Nat, S # {}
  PROVE  Min(S) \in S /\ \A k \in S : Min(S) <= k
BY LeastMember DEF Min

LEMMA MaxFact ==
  ASSUME NEW n \in Nat, NEW S \in SUBSET (0..n), S # {}
  PROVE  Max(S) \in S /\ \A k \in S : Max(S) >= k
BY GreatestMember DEF Max

LEMMA MinOfTwo ==
  ASSUME NEW x \in Nat, NEW y \in Nat
  PROVE  Min({x, y}) = IF x <= y THEN x ELSE y
<1>1. Min({x, y}) \in {x, y} /\ \A k \in {x, y} : Min({x, y}) <= k
  BY MinFact
<1> QED
  BY <1>1

LEMMA MaxOfTwo ==
  ASSUME NEW x \in Nat, NEW y \in Nat
  PROVE  Max({x, y}) = IF x <= y THEN y ELSE x
<1>1. {x, y} \in SUBSET (0..(x + y))
  OBVIOUS
<1>2. Max({x, y}) \in {x, y} /\ \A k \in {x, y} : Max({x, y}) >= k
  BY <1>1, MaxFact
<1> QED
  BY <1>2
-----------------------------------------------------------------------------
(* What the loops compute: a recursive function has the value its equation *)
(* gives, shown by extending it one position at a time.                    *)

OnInterval(g, m) == g = [i \in 0..m |-> g[i]]

Extends(h, g, m, x) ==
  /\ OnInterval(h, m + 1) /\ h[m + 1] = x /\ \A i \in 0..m : h[i] = g[i]

LEMMA Longer ==
  ASSUME NEW m \in Nat, NEW g, NEW x
  PROVE  \E h : Extends(h, g, m, x)
<1>1. PICK h : h = [i \in 0..(m + 1) |-> IF i = m + 1 THEN x ELSE g[i]]
  OBVIOUS
<1>2. h = [i \in 0..(m + 1) |-> h[i]] /\ h[m + 1] = x
  BY <1>1
<1>3. \A i \in 0..m : h[i] = g[i]
  BY <1>1
<1> QED
  BY <1>2, <1>3 DEF Extends, OnInterval

LEMMA LogicalEndDef ==
  ASSUME NEW slots, Len(slots) \in Nat
  PROVE  /\ LogicalEnd(slots)[0] = 0
         /\ \A i \in 1..Len(slots) :
              LogicalEnd(slots)[i] =
                 LogicalEnd(slots)[i - 1] + slots[i].lc
<1>1. PICK end, start : end = Len(slots) /\ start = 0
  OBVIOUS
<1>a. end \in Nat
  BY <1>1
<1> DEFINE one(x, i) == x + slots[i].lc
           Is(g, m) == /\ OnInterval(g, m) /\ g[0] = start
                       /\ \A i \in 1..m : g[i] = one(g[i - 1], i)
           fn == LogicalEnd(slots)
<1>2. fn = CHOOSE g : g = [i \in 0..end |-> IF i = 0 THEN start ELSE one(g[i - 1], i)]
  BY <1>1 DEF LogicalEnd
<1> HIDE DEF one, fn
<1>3. \E g : Is(g, 0)
  <2>1. Is([i \in 0..0 |-> start], 0)
    BY DEF OnInterval
  <2> QED
    BY <2>1
<1>4. ASSUME NEW m \in Nat, NEW g, Is(g, m) PROVE \E h : Is(h, m + 1)
  <2>1. PICK h : Extends(h, g, m, one(g[m], m + 1))
    BY Longer, Zenon
  <2>2. Is(h, m + 1)
    <3>1. /\ h[0] = start /\ h[m + 1] = one(g[m], m + 1)
          /\ \A i \in 0..m : h[i] = g[i]
          /\ \A i \in 1..m : g[i] = one(g[i - 1], i)
      BY <1>4, <2>1 DEF Extends
    <3>2. \A i \in 1..(m + 1) : h[i] = one(h[i - 1], i)
      BY <3>1
    <3> QED
      BY <2>1, <3>1, <3>2 DEF Extends
  <2> QED
    BY <2>2
<1>5. \E g : Is(g, end)
  <2> HIDE DEF Is
  <2>1. PICK S : S = {m \in 0..end : \E g : Is(g, m)}
    OBVIOUS
  <2>2. 0 \in S
    BY <1>3, <1>a, <2>1
  <2>3. \A m \in 0..end : m \in S /\ m + 1 <= end => m + 1 \in S
    BY <1>4, <2>1
  <2>4. 0..end \subseteq S
    BY <2>2, <2>3, <1>a, Stepwise
  <2> QED
    BY <2>1, <2>4, <1>a
<1>6. PICK g : Is(g, end)
  BY <1>5
<1>7. g = [i \in 0..end |-> IF i = 0 THEN start ELSE one(g[i - 1], i)]
  <2>a. g[0] = start /\ \A i \in 1..end : g[i] = one(g[i - 1], i)
    BY <1>6
  <2>b. \A i \in 0..end : i # 0 => i \in 1..end
    BY <1>a
  <2>1. \A i \in 0..end : g[i] = IF i = 0 THEN start ELSE one(g[i - 1], i)
    BY <2>a, <2>b
  <2> QED
    BY <1>6, <2>1 DEF OnInterval
<1>8. fn = [i \in 0..end |-> IF i = 0 THEN start ELSE one(fn[i - 1], i)]
  BY <1>2, <1>7
<1>9. fn[0] = start /\ \A i \in 1..end : fn[i] = one(fn[i - 1], i)
  <2>1. 0 \in 0..end /\ \A i \in 1..end : i \in 0..end /\ i # 0
    BY <1>a
  <2> QED
    BY <1>8, <2>1
<1> QED
  BY <1>1, <1>9 DEF one, fn

LEMMA MergedDef ==
  ASSUME NEW list, Len(list) \in Nat
  PROVE  /\ Merged(list)[0] = << >>
         /\ \A i \in 1..Len(list) :
              Merged(list)[i] =
                 Merge(Merged(list)[i - 1], list[i])
<1>1. PICK end, start : end = Len(list) /\ start = << >>
  OBVIOUS
<1>a. end \in Nat
  BY <1>1
<1> DEFINE one(x, i) == Merge(x, list[i])
           Is(g, m) == /\ OnInterval(g, m) /\ g[0] = start
                       /\ \A i \in 1..m : g[i] = one(g[i - 1], i)
           fn == Merged(list)
<1>2. fn = CHOOSE g : g = [i \in 0..end |-> IF i = 0 THEN start ELSE one(g[i - 1], i)]
  BY <1>1 DEF Merged
<1> HIDE DEF one, fn
<1>3. \E g : Is(g, 0)
  <2>1. Is([i \in 0..0 |-> start], 0)
    BY DEF OnInterval
  <2> QED
    BY <2>1
<1>4. ASSUME NEW m \in Nat, NEW g, Is(g, m) PROVE \E h : Is(h, m + 1)
  <2>1. PICK h : Extends(h, g, m, one(g[m], m + 1))
    BY Longer, Zenon
  <2>2. Is(h, m + 1)
    <3>1. /\ h[0] = start /\ h[m + 1] = one(g[m], m + 1)
          /\ \A i \in 0..m : h[i] = g[i]
          /\ \A i \in 1..m : g[i] = one(g[i - 1], i)
      BY <1>4, <2>1 DEF Extends
    <3>2. \A i \in 1..(m + 1) : h[i] = one(h[i - 1], i)
      BY <3>1
    <3> QED
      BY <2>1, <3>1, <3>2 DEF Extends
  <2> QED
    BY <2>2
<1>5. \E g : Is(g, end)
  <2> HIDE DEF Is
  <2>1. PICK S : S = {m \in 0..end : \E g : Is(g, m)}
    OBVIOUS
  <2>2. 0 \in S
    BY <1>3, <1>a, <2>1
  <2>3. \A m \in 0..end : m \in S /\ m + 1 <= end => m + 1 \in S
    BY <1>4, <2>1
  <2>4. 0..end \subseteq S
    BY <2>2, <2>3, <1>a, Stepwise
  <2> QED
    BY <2>1, <2>4, <1>a
<1>6. PICK g : Is(g, end)
  BY <1>5
<1>7. g = [i \in 0..end |-> IF i = 0 THEN start ELSE one(g[i - 1], i)]
  <2>a. g[0] = start /\ \A i \in 1..end : g[i] = one(g[i - 1], i)
    BY <1>6
  <2>b. \A i \in 0..end : i # 0 => i \in 1..end
    BY <1>a
  <2>1. \A i \in 0..end : g[i] = IF i = 0 THEN start ELSE one(g[i - 1], i)
    BY <2>a, <2>b
  <2> QED
    BY <1>6, <2>1 DEF OnInterval
<1>8. fn = [i \in 0..end |-> IF i = 0 THEN start ELSE one(fn[i - 1], i)]
  BY <1>2, <1>7
<1>9. fn[0] = start /\ \A i \in 1..end : fn[i] = one(fn[i - 1], i)
  <2>1. 0 \in 0..end /\ \A i \in 1..end : i \in 0..end /\ i # 0
    BY <1>a
  <2> QED
    BY <1>8, <2>1
<1> QED
  BY <1>1, <1>9 DEF one, fn

LEMMA BeforeDef ==
  ASSUME NEW list, NEW from, Len(list) \in Nat
  PROVE  /\ Before(list, from)[0] = << >>
         /\ \A i \in 1..Len(list) :
              Before(list, from)[i] =
                 KeepLeft(Before(list, from)[i - 1], list[i], from)
<1>1. PICK end, start : end = Len(list) /\ start = << >>
  OBVIOUS
<1>a. end \in Nat
  BY <1>1
<1> DEFINE one(x, i) == KeepLeft(x, list[i], from)
           Is(g, m) == /\ OnInterval(g, m) /\ g[0] = start
                       /\ \A i \in 1..m : g[i] = one(g[i - 1], i)
           fn == Before(list, from)
<1>2. fn = CHOOSE g : g = [i \in 0..end |-> IF i = 0 THEN start ELSE one(g[i - 1], i)]
  BY <1>1 DEF Before
<1> HIDE DEF one, fn
<1>3. \E g : Is(g, 0)
  <2>1. Is([i \in 0..0 |-> start], 0)
    BY DEF OnInterval
  <2> QED
    BY <2>1
<1>4. ASSUME NEW m \in Nat, NEW g, Is(g, m) PROVE \E h : Is(h, m + 1)
  <2>1. PICK h : Extends(h, g, m, one(g[m], m + 1))
    BY Longer, Zenon
  <2>2. Is(h, m + 1)
    <3>1. /\ h[0] = start /\ h[m + 1] = one(g[m], m + 1)
          /\ \A i \in 0..m : h[i] = g[i]
          /\ \A i \in 1..m : g[i] = one(g[i - 1], i)
      BY <1>4, <2>1 DEF Extends
    <3>2. \A i \in 1..(m + 1) : h[i] = one(h[i - 1], i)
      BY <3>1
    <3> QED
      BY <2>1, <3>1, <3>2 DEF Extends
  <2> QED
    BY <2>2
<1>5. \E g : Is(g, end)
  <2> HIDE DEF Is
  <2>1. PICK S : S = {m \in 0..end : \E g : Is(g, m)}
    OBVIOUS
  <2>2. 0 \in S
    BY <1>3, <1>a, <2>1
  <2>3. \A m \in 0..end : m \in S /\ m + 1 <= end => m + 1 \in S
    BY <1>4, <2>1
  <2>4. 0..end \subseteq S
    BY <2>2, <2>3, <1>a, Stepwise
  <2> QED
    BY <2>1, <2>4, <1>a
<1>6. PICK g : Is(g, end)
  BY <1>5
<1>7. g = [i \in 0..end |-> IF i = 0 THEN start ELSE one(g[i - 1], i)]
  <2>a. g[0] = start /\ \A i \in 1..end : g[i] = one(g[i - 1], i)
    BY <1>6
  <2>b. \A i \in 0..end : i # 0 => i \in 1..end
    BY <1>a
  <2>1. \A i \in 0..end : g[i] = IF i = 0 THEN start ELSE one(g[i - 1], i)
    BY <2>a, <2>b
  <2> QED
    BY <1>6, <2>1 DEF OnInterval
<1>8. fn = [i \in 0..end |-> IF i = 0 THEN start ELSE one(fn[i - 1], i)]
  BY <1>2, <1>7
<1>9. fn[0] = start /\ \A i \in 1..end : fn[i] = one(fn[i - 1], i)
  <2>1. 0 \in 0..end /\ \A i \in 1..end : i \in 0..end /\ i # 0
    BY <1>a
  <2> QED
    BY <1>8, <2>1
<1> QED
  BY <1>1, <1>9 DEF one, fn

LEMMA AfterDef ==
  ASSUME NEW list, NEW to, Len(list) \in Nat
  PROVE  /\ After(list, to)[0] = << >>
         /\ \A i \in 1..Len(list) :
              After(list, to)[i] =
                 KeepRight(After(list, to)[i - 1], list[i], to)
<1>1. PICK end, start : end = Len(list) /\ start = << >>
  OBVIOUS
<1>a. end \in Nat
  BY <1>1
<1> DEFINE one(x, i) == KeepRight(x, list[i], to)
           Is(g, m) == /\ OnInterval(g, m) /\ g[0] = start
                       /\ \A i \in 1..m : g[i] = one(g[i - 1], i)
           fn == After(list, to)
<1>2. fn = CHOOSE g : g = [i \in 0..end |-> IF i = 0 THEN start ELSE one(g[i - 1], i)]
  BY <1>1 DEF After
<1> HIDE DEF one, fn
<1>3. \E g : Is(g, 0)
  <2>1. Is([i \in 0..0 |-> start], 0)
    BY DEF OnInterval
  <2> QED
    BY <2>1
<1>4. ASSUME NEW m \in Nat, NEW g, Is(g, m) PROVE \E h : Is(h, m + 1)
  <2>1. PICK h : Extends(h, g, m, one(g[m], m + 1))
    BY Longer, Zenon
  <2>2. Is(h, m + 1)
    <3>1. /\ h[0] = start /\ h[m + 1] = one(g[m], m + 1)
          /\ \A i \in 0..m : h[i] = g[i]
          /\ \A i \in 1..m : g[i] = one(g[i - 1], i)
      BY <1>4, <2>1 DEF Extends
    <3>2. \A i \in 1..(m + 1) : h[i] = one(h[i - 1], i)
      BY <3>1
    <3> QED
      BY <2>1, <3>1, <3>2 DEF Extends
  <2> QED
    BY <2>2
<1>5. \E g : Is(g, end)
  <2> HIDE DEF Is
  <2>1. PICK S : S = {m \in 0..end : \E g : Is(g, m)}
    OBVIOUS
  <2>2. 0 \in S
    BY <1>3, <1>a, <2>1
  <2>3. \A m \in 0..end : m \in S /\ m + 1 <= end => m + 1 \in S
    BY <1>4, <2>1
  <2>4. 0..end \subseteq S
    BY <2>2, <2>3, <1>a, Stepwise
  <2> QED
    BY <2>1, <2>4, <1>a
<1>6. PICK g : Is(g, end)
  BY <1>5
<1>7. g = [i \in 0..end |-> IF i = 0 THEN start ELSE one(g[i - 1], i)]
  <2>a. g[0] = start /\ \A i \in 1..end : g[i] = one(g[i - 1], i)
    BY <1>6
  <2>b. \A i \in 0..end : i # 0 => i \in 1..end
    BY <1>a
  <2>1. \A i \in 0..end : g[i] = IF i = 0 THEN start ELSE one(g[i - 1], i)
    BY <2>a, <2>b
  <2> QED
    BY <1>6, <2>1 DEF OnInterval
<1>8. fn = [i \in 0..end |-> IF i = 0 THEN start ELSE one(fn[i - 1], i)]
  BY <1>2, <1>7
<1>9. fn[0] = start /\ \A i \in 1..end : fn[i] = one(fn[i - 1], i)
  <2>1. 0 \in 0..end /\ \A i \in 1..end : i \in 0..end /\ i # 0
    BY <1>a
  <2> QED
    BY <1>8, <2>1
<1> QED
  BY <1>1, <1>9 DEF one, fn

LEMMA FreeRangeDef ==
  ASSUME NEW v, NEW list, NEW from, NEW to, Len(list) \in Nat
  PROVE  /\ FreeRange(v, list, from, to)[0] = v
         /\ \A i \in 1..Len(list) :
              FreeRange(v, list, from, to)[i] =
                 FreeBlocks(FreeRange(v, list, from, to)[i - 1], PhysIn(list[i], from, to))
<1>1. PICK end, start : end = Len(list) /\ start = v
  OBVIOUS
<1>a. end \in Nat
  BY <1>1
<1> DEFINE one(x, i) == FreeBlocks(x, PhysIn(list[i], from, to))
           Is(g, m) == /\ OnInterval(g, m) /\ g[0] = start
                       /\ \A i \in 1..m : g[i] = one(g[i - 1], i)
           fn == FreeRange(v, list, from, to)
<1>2. fn = CHOOSE g : g = [i \in 0..end |-> IF i = 0 THEN start ELSE one(g[i - 1], i)]
  BY <1>1 DEF FreeRange
<1> HIDE DEF one, fn
<1>3. \E g : Is(g, 0)
  <2>1. Is([i \in 0..0 |-> start], 0)
    BY DEF OnInterval
  <2> QED
    BY <2>1
<1>4. ASSUME NEW m \in Nat, NEW g, Is(g, m) PROVE \E h : Is(h, m + 1)
  <2>1. PICK h : Extends(h, g, m, one(g[m], m + 1))
    BY Longer, Zenon
  <2>2. Is(h, m + 1)
    <3>1. /\ h[0] = start /\ h[m + 1] = one(g[m], m + 1)
          /\ \A i \in 0..m : h[i] = g[i]
          /\ \A i \in 1..m : g[i] = one(g[i - 1], i)
      BY <1>4, <2>1 DEF Extends
    <3>2. \A i \in 1..(m + 1) : h[i] = one(h[i - 1], i)
      BY <3>1
    <3> QED
      BY <2>1, <3>1, <3>2 DEF Extends
  <2> QED
    BY <2>2
<1>5. \E g : Is(g, end)
  <2> HIDE DEF Is
  <2>1. PICK S : S = {m \in 0..end : \E g : Is(g, m)}
    OBVIOUS
  <2>2. 0 \in S
    BY <1>3, <1>a, <2>1
  <2>3. \A m \in 0..end : m \in S /\ m + 1 <= end => m + 1 \in S
    BY <1>4, <2>1
  <2>4. 0..end \subseteq S
    BY <2>2, <2>3, <1>a, Stepwise
  <2> QED
    BY <2>1, <2>4, <1>a
<1>6. PICK g : Is(g, end)
  BY <1>5
<1>7. g = [i \in 0..end |-> IF i = 0 THEN start ELSE one(g[i - 1], i)]
  <2>a. g[0] = start /\ \A i \in 1..end : g[i] = one(g[i - 1], i)
    BY <1>6
  <2>b. \A i \in 0..end : i # 0 => i \in 1..end
    BY <1>a
  <2>1. \A i \in 0..end : g[i] = IF i = 0 THEN start ELSE one(g[i - 1], i)
    BY <2>a, <2>b
  <2> QED
    BY <1>6, <2>1 DEF OnInterval
<1>8. fn = [i \in 0..end |-> IF i = 0 THEN start ELSE one(fn[i - 1], i)]
  BY <1>2, <1>7
<1>9. fn[0] = start /\ \A i \in 1..end : fn[i] = one(fn[i - 1], i)
  <2>1. 0 \in 0..end /\ \A i \in 1..end : i \in 0..end /\ i # 0
    BY <1>a
  <2> QED
    BY <1>8, <2>1
<1> QED
  BY <1>1, <1>9 DEF one, fn

FreeRun(R, v, list) ==
  /\ R[0] = v
  /\ \A i \in 1..Len(list) : R[i] = FreeBlocks(R[i - 1], Span(list[i].ps, list[i].pc))

LEMMA FreeAllDef ==
  ASSUME NEW v, NEW list, Len(list) \in Nat
  PROVE  FreeRun(FreeAll(v, list), v, list)
<1>1. PICK end, start : end = Len(list) /\ start = v
  OBVIOUS
<1>a. end \in Nat
  BY <1>1
<1> DEFINE one(x, i) == FreeBlocks(x, Span(list[i].ps, list[i].pc))
           Is(g, m) == /\ OnInterval(g, m) /\ g[0] = start
                       /\ \A i \in 1..m : g[i] = one(g[i - 1], i)
           fn == FreeAll(v, list)
<1>2. fn = CHOOSE g : g = [i \in 0..end |-> IF i = 0 THEN start ELSE one(g[i - 1], i)]
  BY <1>1 DEF FreeAll
<1> HIDE DEF one, fn
<1>3. \E g : Is(g, 0)
  <2>1. Is([i \in 0..0 |-> start], 0)
    BY DEF OnInterval
  <2> QED
    BY <2>1
<1>4. ASSUME NEW m \in Nat, NEW g, Is(g, m) PROVE \E h : Is(h, m + 1)
  <2>1. PICK h : Extends(h, g, m, one(g[m], m + 1))
    BY Longer, Zenon
  <2>2. Is(h, m + 1)
    <3>1. /\ h[0] = start /\ h[m + 1] = one(g[m], m + 1)
          /\ \A i \in 0..m : h[i] = g[i]
          /\ \A i \in 1..m : g[i] = one(g[i - 1], i)
      BY <1>4, <2>1 DEF Extends
    <3>2. \A i \in 1..(m + 1) : h[i] = one(h[i - 1], i)
      BY <3>1
    <3> QED
      BY <2>1, <3>1, <3>2 DEF Extends
  <2> QED
    BY <2>2
<1>5. \E g : Is(g, end)
  <2> HIDE DEF Is
  <2>1. PICK S : S = {m \in 0..end : \E g : Is(g, m)}
    OBVIOUS
  <2>2. 0 \in S
    BY <1>3, <1>a, <2>1
  <2>3. \A m \in 0..end : m \in S /\ m + 1 <= end => m + 1 \in S
    BY <1>4, <2>1
  <2>4. 0..end \subseteq S
    BY <2>2, <2>3, <1>a, Stepwise
  <2> QED
    BY <2>1, <2>4, <1>a
<1>6. PICK g : Is(g, end)
  BY <1>5
<1>7. g = [i \in 0..end |-> IF i = 0 THEN start ELSE one(g[i - 1], i)]
  <2>a. g[0] = start /\ \A i \in 1..end : g[i] = one(g[i - 1], i)
    BY <1>6
  <2>b. \A i \in 0..end : i # 0 => i \in 1..end
    BY <1>a
  <2>1. \A i \in 0..end : g[i] = IF i = 0 THEN start ELSE one(g[i - 1], i)
    BY <2>a, <2>b
  <2> QED
    BY <1>6, <2>1 DEF OnInterval
<1>8. fn = [i \in 0..end |-> IF i = 0 THEN start ELSE one(fn[i - 1], i)]
  BY <1>2, <1>7
<1>9. fn[0] = start /\ \A i \in 1..end : fn[i] = one(fn[i - 1], i)
  <2>1. 0 \in 0..end /\ \A i \in 1..end : i \in 0..end /\ i # 0
    BY <1>a
  <2> QED
    BY <1>8, <2>1
<1> QED
  BY <1>1, <1>9 DEF one, fn, FreeRun

AppendRun(R, f, off, n, val, zip) ==
  /\ R[0] = Result(vol, Grown(inode[f], off + n), FALSE)
  /\ \A i \in 1..NumGroups(off, n) :
        R[i] = AppendGroup(R[i - 1], f, FirstGroup(off) + i - 1, off, n, val, zip)

LEMMA AppendedDef ==
  ASSUME NEW f, NEW off, NEW n, NEW val, NEW zip, NumGroups(off, n) \in Nat
  PROVE  AppendRun(Appended(f, off, n, val, zip), f, off, n, val, zip)
<1>1. PICK end, start : end = NumGroups(off, n) /\ start = Result(vol, Grown(inode[f], off + n), FALSE)
  OBVIOUS
<1>a. end \in Nat
  BY <1>1
<1> DEFINE one(x, i) == AppendGroup(x, f, FirstGroup(off) + i - 1, off, n, val, zip)
           Is(g, m) == /\ OnInterval(g, m) /\ g[0] = start
                       /\ \A i \in 1..m : g[i] = one(g[i - 1], i)
           fn == Appended(f, off, n, val, zip)
<1>2. fn = CHOOSE g : g = [i \in 0..end |-> IF i = 0 THEN start ELSE one(g[i - 1], i)]
  BY <1>1 DEF Appended
<1> HIDE DEF one, fn
<1>3. \E g : Is(g, 0)
  <2>1. Is([i \in 0..0 |-> start], 0)
    BY DEF OnInterval
  <2> QED
    BY <2>1
<1>4. ASSUME NEW m \in Nat, NEW g, Is(g, m) PROVE \E h : Is(h, m + 1)
  <2>1. PICK h : Extends(h, g, m, one(g[m], m + 1))
    BY Longer, Zenon
  <2>2. Is(h, m + 1)
    <3>1. /\ h[0] = start /\ h[m + 1] = one(g[m], m + 1)
          /\ \A i \in 0..m : h[i] = g[i]
          /\ \A i \in 1..m : g[i] = one(g[i - 1], i)
      BY <1>4, <2>1 DEF Extends
    <3>2. \A i \in 1..(m + 1) : h[i] = one(h[i - 1], i)
      BY <3>1
    <3> QED
      BY <2>1, <3>1, <3>2 DEF Extends
  <2> QED
    BY <2>2
<1>5. \E g : Is(g, end)
  <2> HIDE DEF Is
  <2>1. PICK S : S = {m \in 0..end : \E g : Is(g, m)}
    OBVIOUS
  <2>2. 0 \in S
    BY <1>3, <1>a, <2>1
  <2>3. \A m \in 0..end : m \in S /\ m + 1 <= end => m + 1 \in S
    BY <1>4, <2>1
  <2>4. 0..end \subseteq S
    BY <2>2, <2>3, <1>a, Stepwise
  <2> QED
    BY <2>1, <2>4, <1>a
<1>6. PICK g : Is(g, end)
  BY <1>5
<1>7. g = [i \in 0..end |-> IF i = 0 THEN start ELSE one(g[i - 1], i)]
  <2>a. g[0] = start /\ \A i \in 1..end : g[i] = one(g[i - 1], i)
    BY <1>6
  <2>b. \A i \in 0..end : i # 0 => i \in 1..end
    BY <1>a
  <2>1. \A i \in 0..end : g[i] = IF i = 0 THEN start ELSE one(g[i - 1], i)
    BY <2>a, <2>b
  <2> QED
    BY <1>6, <2>1 DEF OnInterval
<1>8. fn = [i \in 0..end |-> IF i = 0 THEN start ELSE one(fn[i - 1], i)]
  BY <1>2, <1>7
<1>9. fn[0] = start /\ \A i \in 1..end : fn[i] = one(fn[i - 1], i)
  <2>1. 0 \in 0..end /\ \A i \in 1..end : i \in 0..end /\ i # 0
    BY <1>a
  <2> QED
    BY <1>8, <2>1
<1> QED
  BY <1>1, <1>9 DEF one, fn, AppendRun

LEMMA RewrittenDef ==
  ASSUME NEW f, NEW size, NEW off, NEW n, NEW val, NEW zip, NumGroups(off, n) \in Nat
  PROVE  /\ Rewritten(f, size, off, n, val, zip)[0] = [vol |-> vol, list |-> Collect(vol, f), failed |-> FALSE]
         /\ \A i \in 1..NumGroups(off, n) :
              Rewritten(f, size, off, n, val, zip)[i] =
                 RewriteGroup(Rewritten(f, size, off, n, val, zip)[i - 1], FirstGroup(off) + i - 1, size, off, n, val, zip)
<1>1. PICK end, start : end = NumGroups(off, n) /\ start = [vol |-> vol, list |-> Collect(vol, f), failed |-> FALSE]
  OBVIOUS
<1>a. end \in Nat
  BY <1>1
<1> DEFINE one(x, i) == RewriteGroup(x, FirstGroup(off) + i - 1, size, off, n, val, zip)
           Is(g, m) == /\ OnInterval(g, m) /\ g[0] = start
                       /\ \A i \in 1..m : g[i] = one(g[i - 1], i)
           fn == Rewritten(f, size, off, n, val, zip)
<1>2. fn = CHOOSE g : g = [i \in 0..end |-> IF i = 0 THEN start ELSE one(g[i - 1], i)]
  BY <1>1 DEF Rewritten
<1> HIDE DEF one, fn
<1>3. \E g : Is(g, 0)
  <2>1. Is([i \in 0..0 |-> start], 0)
    BY DEF OnInterval
  <2> QED
    BY <2>1
<1>4. ASSUME NEW m \in Nat, NEW g, Is(g, m) PROVE \E h : Is(h, m + 1)
  <2>1. PICK h : Extends(h, g, m, one(g[m], m + 1))
    BY Longer, Zenon
  <2>2. Is(h, m + 1)
    <3>1. /\ h[0] = start /\ h[m + 1] = one(g[m], m + 1)
          /\ \A i \in 0..m : h[i] = g[i]
          /\ \A i \in 1..m : g[i] = one(g[i - 1], i)
      BY <1>4, <2>1 DEF Extends
    <3>2. \A i \in 1..(m + 1) : h[i] = one(h[i - 1], i)
      BY <3>1
    <3> QED
      BY <2>1, <3>1, <3>2 DEF Extends
  <2> QED
    BY <2>2
<1>5. \E g : Is(g, end)
  <2> HIDE DEF Is
  <2>1. PICK S : S = {m \in 0..end : \E g : Is(g, m)}
    OBVIOUS
  <2>2. 0 \in S
    BY <1>3, <1>a, <2>1
  <2>3. \A m \in 0..end : m \in S /\ m + 1 <= end => m + 1 \in S
    BY <1>4, <2>1
  <2>4. 0..end \subseteq S
    BY <2>2, <2>3, <1>a, Stepwise
  <2> QED
    BY <2>1, <2>4, <1>a
<1>6. PICK g : Is(g, end)
  BY <1>5
<1>7. g = [i \in 0..end |-> IF i = 0 THEN start ELSE one(g[i - 1], i)]
  <2>a. g[0] = start /\ \A i \in 1..end : g[i] = one(g[i - 1], i)
    BY <1>6
  <2>b. \A i \in 0..end : i # 0 => i \in 1..end
    BY <1>a
  <2>1. \A i \in 0..end : g[i] = IF i = 0 THEN start ELSE one(g[i - 1], i)
    BY <2>a, <2>b
  <2> QED
    BY <1>6, <2>1 DEF OnInterval
<1>8. fn = [i \in 0..end |-> IF i = 0 THEN start ELSE one(fn[i - 1], i)]
  BY <1>2, <1>7
<1>9. fn[0] = start /\ \A i \in 1..end : fn[i] = one(fn[i - 1], i)
  <2>1. 0 \in 0..end /\ \A i \in 1..end : i \in 0..end /\ i # 0
    BY <1>a
  <2> QED
    BY <1>8, <2>1
<1> QED
  BY <1>1, <1>9 DEF one, fn

CutRun(R, list, keep) ==
  /\ R[0] = [vol |-> vol, list |-> << >>, pos |-> 0, failed |-> FALSE]
  /\ \A i \in 1..Len(list) : R[i] = CutExtent(R[i - 1], list[i], keep)

LEMMA CutAtDef ==
  ASSUME NEW list, NEW keep, Len(list) \in Nat
  PROVE  CutRun(CutAt(list, keep), list, keep)
<1>1. PICK end, start : end = Len(list) /\ start = [vol |-> vol, list |-> << >>, pos |-> 0, failed |-> FALSE]
  OBVIOUS
<1>a. end \in Nat
  BY <1>1
<1> DEFINE one(x, i) == CutExtent(x, list[i], keep)
           Is(g, m) == /\ OnInterval(g, m) /\ g[0] = start
                       /\ \A i \in 1..m : g[i] = one(g[i - 1], i)
           fn == CutAt(list, keep)
<1>2. fn = CHOOSE g : g = [i \in 0..end |-> IF i = 0 THEN start ELSE one(g[i - 1], i)]
  BY <1>1 DEF CutAt
<1> HIDE DEF one, fn
<1>3. \E g : Is(g, 0)
  <2>1. Is([i \in 0..0 |-> start], 0)
    BY DEF OnInterval
  <2> QED
    BY <2>1
<1>4. ASSUME NEW m \in Nat, NEW g, Is(g, m) PROVE \E h : Is(h, m + 1)
  <2>1. PICK h : Extends(h, g, m, one(g[m], m + 1))
    BY Longer, Zenon
  <2>2. Is(h, m + 1)
    <3>1. /\ h[0] = start /\ h[m + 1] = one(g[m], m + 1)
          /\ \A i \in 0..m : h[i] = g[i]
          /\ \A i \in 1..m : g[i] = one(g[i - 1], i)
      BY <1>4, <2>1 DEF Extends
    <3>2. \A i \in 1..(m + 1) : h[i] = one(h[i - 1], i)
      BY <3>1
    <3> QED
      BY <2>1, <3>1, <3>2 DEF Extends
  <2> QED
    BY <2>2
<1>5. \E g : Is(g, end)
  <2> HIDE DEF Is
  <2>1. PICK S : S = {m \in 0..end : \E g : Is(g, m)}
    OBVIOUS
  <2>2. 0 \in S
    BY <1>3, <1>a, <2>1
  <2>3. \A m \in 0..end : m \in S /\ m + 1 <= end => m + 1 \in S
    BY <1>4, <2>1
  <2>4. 0..end \subseteq S
    BY <2>2, <2>3, <1>a, Stepwise
  <2> QED
    BY <2>1, <2>4, <1>a
<1>6. PICK g : Is(g, end)
  BY <1>5
<1>7. g = [i \in 0..end |-> IF i = 0 THEN start ELSE one(g[i - 1], i)]
  <2>a. g[0] = start /\ \A i \in 1..end : g[i] = one(g[i - 1], i)
    BY <1>6
  <2>b. \A i \in 0..end : i # 0 => i \in 1..end
    BY <1>a
  <2>1. \A i \in 0..end : g[i] = IF i = 0 THEN start ELSE one(g[i - 1], i)
    BY <2>a, <2>b
  <2> QED
    BY <1>6, <2>1 DEF OnInterval
<1>8. fn = [i \in 0..end |-> IF i = 0 THEN start ELSE one(fn[i - 1], i)]
  BY <1>2, <1>7
<1>9. fn[0] = start /\ \A i \in 1..end : fn[i] = one(fn[i - 1], i)
  <2>1. 0 \in 0..end /\ \A i \in 1..end : i \in 0..end /\ i # 0
    BY <1>a
  <2> QED
    BY <1>8, <2>1
<1> QED
  BY <1>1, <1>9 DEF one, fn, CutRun

CloneRun(R, list, from, to, shift) ==
  /\ R[0] = [vol |-> vol, list |-> << >>, failed |-> FALSE]
  /\ \A i \in 1..Len(list) : R[i] = CloneExtent(R[i - 1], list[i], from, to, shift)

LEMMA ClonedDef ==
  ASSUME NEW list, NEW from, NEW to, NEW shift, Len(list) \in Nat
  PROVE  CloneRun(Cloned(list, from, to, shift), list, from, to, shift)
<1>1. PICK end, start : end = Len(list) /\ start = [vol |-> vol, list |-> << >>, failed |-> FALSE]
  OBVIOUS
<1>a. end \in Nat
  BY <1>1
<1> DEFINE one(x, i) == CloneExtent(x, list[i], from, to, shift)
           Is(g, m) == /\ OnInterval(g, m) /\ g[0] = start
                       /\ \A i \in 1..m : g[i] = one(g[i - 1], i)
           fn == Cloned(list, from, to, shift)
<1>2. fn = CHOOSE g : g = [i \in 0..end |-> IF i = 0 THEN start ELSE one(g[i - 1], i)]
  BY <1>1 DEF Cloned
<1> HIDE DEF one, fn
<1>3. \E g : Is(g, 0)
  <2>1. Is([i \in 0..0 |-> start], 0)
    BY DEF OnInterval
  <2> QED
    BY <2>1
<1>4. ASSUME NEW m \in Nat, NEW g, Is(g, m) PROVE \E h : Is(h, m + 1)
  <2>1. PICK h : Extends(h, g, m, one(g[m], m + 1))
    BY Longer, Zenon
  <2>2. Is(h, m + 1)
    <3>1. /\ h[0] = start /\ h[m + 1] = one(g[m], m + 1)
          /\ \A i \in 0..m : h[i] = g[i]
          /\ \A i \in 1..m : g[i] = one(g[i - 1], i)
      BY <1>4, <2>1 DEF Extends
    <3>2. \A i \in 1..(m + 1) : h[i] = one(h[i - 1], i)
      BY <3>1
    <3> QED
      BY <2>1, <3>1, <3>2 DEF Extends
  <2> QED
    BY <2>2
<1>5. \E g : Is(g, end)
  <2> HIDE DEF Is
  <2>1. PICK S : S = {m \in 0..end : \E g : Is(g, m)}
    OBVIOUS
  <2>2. 0 \in S
    BY <1>3, <1>a, <2>1
  <2>3. \A m \in 0..end : m \in S /\ m + 1 <= end => m + 1 \in S
    BY <1>4, <2>1
  <2>4. 0..end \subseteq S
    BY <2>2, <2>3, <1>a, Stepwise
  <2> QED
    BY <2>1, <2>4, <1>a
<1>6. PICK g : Is(g, end)
  BY <1>5
<1>7. g = [i \in 0..end |-> IF i = 0 THEN start ELSE one(g[i - 1], i)]
  <2>a. g[0] = start /\ \A i \in 1..end : g[i] = one(g[i - 1], i)
    BY <1>6
  <2>b. \A i \in 0..end : i # 0 => i \in 1..end
    BY <1>a
  <2>1. \A i \in 0..end : g[i] = IF i = 0 THEN start ELSE one(g[i - 1], i)
    BY <2>a, <2>b
  <2> QED
    BY <1>6, <2>1 DEF OnInterval
<1>8. fn = [i \in 0..end |-> IF i = 0 THEN start ELSE one(fn[i - 1], i)]
  BY <1>2, <1>7
<1>9. fn[0] = start /\ \A i \in 1..end : fn[i] = one(fn[i - 1], i)
  <2>1. 0 \in 0..end /\ \A i \in 1..end : i \in 0..end /\ i # 0
    BY <1>a
  <2> QED
    BY <1>8, <2>1
<1> QED
  BY <1>1, <1>9 DEF one, fn, CloneRun
-----------------------------------------------------------------------------
(* Extents and the lists that tile a range of logical blocks.               *)

Aligned(x) == x % GroupBlocks = 0

Good(e) ==
  /\ e \in Extents /\ e.lc >= 1 /\ e.pc >= 1 /\ e.ps >= 1 /\ e.ps + e.pc - 1 <= NumBlocks
  /\ \/ Plain(e)
     \/ Compression /\ e.lc = GroupBlocks /\ Aligned(e.ls) /\ e.pc < e.lc

(* Where the first i extents of a list that starts at a end.                *)
Pos(list, a, i) == IF i = 0 THEN a ELSE End(list[i])

Tiles(list, a, n) ==
  /\ list \in Seq(Extents)
  /\ \A i \in 1..Len(list) : Good(list[i]) /\ list[i].ls = Pos(list, a, i - 1)
  /\ Pos(list, a, Len(list)) = n

LEMMA AlignedGap ==
  ASSUME NEW x \in Nat, NEW y \in Nat, Aligned(x), Aligned(y), x < y
  PROVE  x + GroupBlocks <= y
<1>1. GroupBlocks \in Nat /\ GroupBlocks >= 1
  BY ExtentsAssumption
<1>2. PICK p \in Int, q \in Int : x = p * GroupBlocks /\ y = q * GroupBlocks
  <2>1. x \div GroupBlocks \in Int /\ y \div GroupBlocks \in Int
    BY <1>1
  <2>2. x = (x \div GroupBlocks) * GroupBlocks /\ y = (y \div GroupBlocks) * GroupBlocks
    BY <1>1 DEF Aligned
  <2> QED
    BY <2>1, <2>2
<1>3. p < q
  BY <1>1, <1>2
<1>4. (p + 1) * GroupBlocks <= q * GroupBlocks
  BY <1>1, <1>3
<1> QED
  BY <1>1, <1>2, <1>4

LEMMA GroupsAligned ==
  ASSUME NEW g \in Nat
  PROVE  /\ GroupStart(g) \in Nat /\ Aligned(GroupStart(g))
         /\ GroupStart(g + 1) = GroupStart(g) + GroupBlocks
<1>1. GroupBlocks \in Nat /\ GroupBlocks >= 1
  BY ExtentsAssumption
<1> QED
  BY <1>1 DEF GroupStart, Aligned

LEMMA GroupOf ==
  ASSUME NEW x \in Nat
  PROVE  /\ x \div GroupBlocks \in Nat
         /\ GroupStart(x \div GroupBlocks) <= x
         /\ x < GroupStart(x \div GroupBlocks) + GroupBlocks
<1>1. GroupBlocks \in Nat /\ GroupBlocks >= 1
  BY ExtentsAssumption
<1> QED
  BY <1>1 DEF GroupStart

LEMMA TilesEmpty ==
  ASSUME NEW a
  PROVE  Tiles(<< >>, a, a)
BY DEF Tiles, Pos

LEMMA TilesOrder ==
  ASSUME NEW list, NEW a \in Nat, NEW n, Tiles(list, a, n)
  PROVE  /\ n \in Nat /\ Len(list) \in Nat
         /\ \A i \in 0..Len(list) : Pos(list, a, i) \in a..n
         /\ \A i, j \in 0..Len(list) : i < j => Pos(list, a, i) < Pos(list, a, j)
<1>1. Len(list) \in Nat /\ \A i \in 1..Len(list) : list[i] \in Extents
  BY DEF Tiles
<1>2. \A i \in 0..Len(list) : Pos(list, a, i) \in Nat
  BY <1>1 DEF Pos, Extents, End
<1>3. \A i \in 1..Len(list) : Pos(list, a, i - 1) < Pos(list, a, i)
  <2>1. SUFFICES ASSUME NEW i \in 1..Len(list) PROVE Pos(list, a, i - 1) < Pos(list, a, i)
    OBVIOUS
  <2>2. PICK e : e = list[i] /\ Good(e) /\ e.ls = Pos(list, a, i - 1)
    BY <2>1 DEF Tiles
  <2>3. i # 0 /\ Pos(list, a, i) = e.ls + e.lc
    BY <1>1, <2>1, <2>2 DEF Pos, End
  <2>4. PICK x \in Nat, y \in Nat : x = e.ls /\ y = e.lc /\ y >= 1
    BY <2>2 DEF Good, Extents
  <2>5. x < x + y
    BY <2>4
  <2> QED
    BY <2>2, <2>3, <2>4, <2>5
<1>4. PICK S : S = {k \in 0..Len(list) : \A i \in 0..k : i < k => Pos(list, a, i) < Pos(list, a, k)}
  OBVIOUS
<1>5. 0 \in S
  BY <1>1, <1>4
<1>6. ASSUME NEW k \in 0..Len(list), k \in S, k + 1 <= Len(list) PROVE k + 1 \in S
  <2>1. k + 1 \in 1..Len(list) /\ Pos(list, a, k) < Pos(list, a, k + 1)
    BY <1>1, <1>3, <1>6
  <2>2. ASSUME NEW i \in 0..(k + 1), i < k + 1 PROVE Pos(list, a, i) < Pos(list, a, k + 1)
    <3>1. i = k \/ (i \in 0..k /\ i < k)
      BY <1>1, <1>6, <2>2
    <3>2. i \in 0..k /\ i < k => Pos(list, a, i) < Pos(list, a, k)
      BY <1>4, <1>6
    <3>3. Pos(list, a, i) \in Nat /\ Pos(list, a, k) \in Nat /\ Pos(list, a, k + 1) \in Nat
      BY <1>1, <1>2, <1>6, <2>1
    <3> QED
      BY <2>1, <3>1, <3>2, <3>3
  <2> QED
    BY <1>4, <2>1, <2>2
<1>7. 0..Len(list) \subseteq S
  BY <1>1, <1>5, <1>6, Stepwise
<1>8. \A i, j \in 0..Len(list) : i < j => Pos(list, a, i) < Pos(list, a, j)
  BY <1>1, <1>4, <1>7
<1>9. Pos(list, a, 0) = a /\ Pos(list, a, Len(list)) = n
  BY DEF Tiles, Pos
<1> QED
  BY <1>1, <1>2, <1>8, <1>9

LEMMA TilesAppend ==
  ASSUME NEW list, NEW a, NEW n, Tiles(list, a, n), NEW e, Good(e), e.ls = n
  PROVE  Tiles(Append(list, e), a, End(e))
<1>1. list \in Seq(Extents) /\ Len(list) \in Nat /\ e \in Extents
  BY DEF Tiles, Good
<1>2. PICK new : new = Append(list, e)
  OBVIOUS
<1>3. /\ new \in Seq(Extents) /\ Len(new) = Len(list) + 1 /\ new[Len(list) + 1] = e
      /\ \A i \in 1..Len(list) : new[i] = list[i]
  BY <1>1, <1>2
<1>4. ASSUME NEW i \in 1..Len(new) PROVE Good(new[i]) /\ new[i].ls = Pos(new, a, i - 1)
  <2>1. CASE i \in 1..Len(list)
    <3>1. Pos(new, a, i - 1) = Pos(list, a, i - 1)
      BY <1>1, <1>3, <2>1 DEF Pos
    <3> QED
      BY <1>3, <2>1, <3>1 DEF Tiles
  <2>2. CASE i = Len(list) + 1
    <3>1. Pos(new, a, i - 1) = Pos(list, a, Len(list))
      BY <1>1, <1>3, <2>2 DEF Pos
    <3> QED
      BY <1>3, <2>2, <3>1 DEF Tiles
  <2> QED
    BY <1>1, <1>3, <2>1, <2>2
<1>5. Pos(new, a, Len(new)) = End(e)
  BY <1>1, <1>3 DEF Pos
<1> QED
  BY <1>2, <1>3, <1>4, <1>5 DEF Tiles

LEMMA TilesConcat ==
  ASSUME NEW s, NEW t, NEW a, NEW m, NEW n, Tiles(s, a, m), Tiles(t, m, n)
  PROVE  Tiles(s \o t, a, n)
<1>1. s \in Seq(Extents) /\ t \in Seq(Extents) /\ Len(s) \in Nat /\ Len(t) \in Nat
  BY DEF Tiles
<1>2. PICK new : new = s \o t
  OBVIOUS
<1>3. /\ new \in Seq(Extents) /\ Len(new) = Len(s) + Len(t)
      /\ \A i \in 1..Len(s) : new[i] = s[i]
      /\ \A i \in 1..Len(t) : new[Len(s) + i] = t[i]
  BY <1>1, <1>2
<1>4. \A i \in 0..Len(s) : Pos(new, a, i) = Pos(s, a, i)
  BY <1>1, <1>3 DEF Pos
<1>5. ASSUME NEW i \in 0..Len(t) PROVE Pos(new, a, Len(s) + i) = Pos(t, m, i)
  <2>1. CASE i = 0
    BY <1>1, <1>4, <2>1 DEF Tiles, Pos
  <2>2. CASE i # 0
    BY <1>1, <1>3, <2>2 DEF Pos
  <2> QED
    BY <2>1, <2>2
<1>6. ASSUME NEW i \in 1..Len(new) PROVE Good(new[i]) /\ new[i].ls = Pos(new, a, i - 1)
  <2>1. CASE i \in 1..Len(s)
    <3>1. i - 1 \in 0..Len(s)
      BY <1>1, <2>1
    <3> QED
      BY <1>3, <1>4, <2>1, <3>1 DEF Tiles
  <2>2. CASE i \notin 1..Len(s)
    <3>1. PICK k \in 1..Len(t) : i = Len(s) + k
      <4>1. i - Len(s) \in 1..Len(t) /\ i = Len(s) + (i - Len(s))
        BY <1>1, <1>3, <2>2
      <4> QED
        BY <4>1
    <3>2. new[i] = t[k] /\ i - 1 = Len(s) + (k - 1) /\ k - 1 \in 0..Len(t)
      BY <1>1, <1>3, <3>1
    <3>3. Pos(new, a, i - 1) = Pos(t, m, k - 1)
      BY <1>5, <3>2
    <3> QED
      BY <3>1, <3>2, <3>3 DEF Tiles
  <2> QED
    BY <2>1, <2>2
<1>7. Pos(new, a, Len(new)) = n
  BY <1>1, <1>3, <1>5 DEF Tiles
<1> QED
  BY <1>2, <1>3, <1>6, <1>7 DEF Tiles
-----------------------------------------------------------------------------
(* How many extents of a list hold a block.                                 *)

Phys(e) == Span(e.ps, e.pc)
One(b, S) == IF b \in S THEN 1 ELSE 0
HoldingTo(list, b, k) == {i \in 1..k : b \in Phys(list[i])}
CountTo(list, b, k) == Cardinality(HoldingTo(list, b, k))
Count(list, b) == CountTo(list, b, Len(list))

LEMMA HoldingFinite ==
  ASSUME NEW list, NEW b, NEW k \in Nat
  PROVE  IsFiniteSet(HoldingTo(list, b, k)) /\ CountTo(list, b, k) \in Nat
<1>1. IsFiniteSet(1..k)
  BY FS_Interval
<1>2. HoldingTo(list, b, k) \in SUBSET (1..k)
  BY DEF HoldingTo
<1>3. IsFiniteSet(HoldingTo(list, b, k))
  BY <1>1, <1>2, FS_Subset
<1> QED
  BY <1>3, FS_CardinalityType DEF CountTo

LEMMA CountNone ==
  ASSUME NEW list, NEW b
  PROVE  CountTo(list, b, 0) = 0
<1>1. HoldingTo(list, b, 0) = {}
  BY DEF HoldingTo
<1> QED
  BY <1>1, FS_EmptySet DEF CountTo

LEMMA CountStep ==
  ASSUME NEW list, NEW b, NEW k \in Nat
  PROVE  CountTo(list, b, k + 1) = CountTo(list, b, k) + One(b, Phys(list[k + 1]))
<1>1. PICK S, T : S = HoldingTo(list, b, k) /\ T = HoldingTo(list, b, k + 1)
  OBVIOUS
<1>2. IsFiniteSet(S) /\ k + 1 \notin S /\ Cardinality(S) \in Nat
  <2>1. IsFiniteSet(S) /\ Cardinality(S) \in Nat
    BY <1>1, HoldingFinite DEF CountTo
  <2>2. k + 1 \notin S
    BY <1>1 DEF HoldingTo
  <2> QED
    BY <2>1, <2>2
<1>3. CASE b \in Phys(list[k + 1])
  <2>1. T = S \cup {k + 1}
    BY <1>1, <1>3 DEF HoldingTo
  <2>2. Cardinality(T) = Cardinality(S) + 1
    BY <1>2, <2>1, FS_AddElement
  <2> QED
    BY <1>1, <1>3, <2>2 DEF CountTo, One
<1>4. CASE b \notin Phys(list[k + 1])
  <2>1. T = S
    BY <1>1, <1>4 DEF HoldingTo
  <2> QED
    BY <1>1, <1>2, <1>4, <2>1 DEF CountTo, One
<1> QED
  BY <1>3, <1>4

LEMMA CountAgree ==
  ASSUME NEW s, NEW t, NEW b, NEW k, \A i \in 1..k : s[i] = t[i]
  PROVE  CountTo(s, b, k) = CountTo(t, b, k)
<1>1. HoldingTo(s, b, k) = HoldingTo(t, b, k)
  BY DEF HoldingTo
<1> QED
  BY <1>1 DEF CountTo

LEMMA CountAppend ==
  ASSUME NEW X, NEW list \in Seq(X), NEW e \in X, NEW b
  PROVE  Count(Append(list, e), b) = Count(list, b) + One(b, Phys(e))
<1>1. PICK new : new = Append(list, e)
  OBVIOUS
<1>2. /\ Len(list) \in Nat /\ Len(new) = Len(list) + 1 /\ new[Len(list) + 1] = e
      /\ \A i \in 1..Len(list) : new[i] = list[i]
  BY <1>1
<1>3. CountTo(new, b, Len(list) + 1) = CountTo(new, b, Len(list)) + One(b, Phys(e))
  BY <1>2, CountStep
<1>4. CountTo(new, b, Len(list)) = CountTo(list, b, Len(list))
  BY <1>2, CountAgree
<1> QED
  BY <1>1, <1>2, <1>3, <1>4 DEF Count

LEMMA CountConcat ==
  ASSUME NEW X, NEW s \in Seq(X), NEW t \in Seq(X), NEW b
  PROVE  Count(s \o t, b) = Count(s, b) + Count(t, b)
<1>1. PICK new : new = s \o t
  OBVIOUS
<1>2. /\ Len(s) \in Nat /\ Len(t) \in Nat /\ Len(new) = Len(s) + Len(t)
      /\ \A i \in 1..Len(s) : new[i] = s[i]
      /\ \A i \in 1..Len(t) : new[Len(s) + i] = t[i]
  BY <1>1
<1>3. PICK S : S = {k \in 0..Len(t) :
                      CountTo(new, b, Len(s) + k) = Count(s, b) + CountTo(t, b, k)}
  OBVIOUS
<1>4. 0 \in S
  <2>1. CountTo(new, b, Len(s)) = Count(s, b) /\ CountTo(t, b, 0) = 0 /\ Count(s, b) \in Nat
    BY <1>2, CountAgree, CountNone, HoldingFinite DEF Count
  <2> QED
    BY <1>2, <1>3, <2>1
<1>5. ASSUME NEW k \in 0..Len(t), k \in S, k + 1 <= Len(t) PROVE k + 1 \in S
  <2>1. /\ CountTo(new, b, Len(s) + k) = Count(s, b) + CountTo(t, b, k)
        /\ k \in Nat /\ Len(s) + k \in Nat /\ k + 1 \in 0..Len(t) /\ k + 1 \in 1..Len(t)
        /\ Len(s) + (k + 1) = Len(s) + k + 1
    BY <1>2, <1>3, <1>5
  <2>2. new[Len(s) + k + 1] = t[k + 1]
    BY <1>2, <2>1
  <2>3. CountTo(new, b, Len(s) + k + 1)
          = CountTo(new, b, Len(s) + k) + One(b, Phys(t[k + 1]))
    BY <2>1, <2>2, CountStep
  <2>4. CountTo(t, b, k + 1) = CountTo(t, b, k) + One(b, Phys(t[k + 1]))
    BY <2>1, CountStep
  <2>5. Count(s, b) \in Nat /\ CountTo(t, b, k) \in Nat /\ One(b, Phys(t[k + 1])) \in Nat
    BY <1>2, <2>1, HoldingFinite DEF One, Count
  <2>6. CountTo(new, b, Len(s) + (k + 1)) = Count(s, b) + CountTo(t, b, k + 1)
    BY <2>1, <2>3, <2>4, <2>5
  <2> QED
    BY <1>3, <2>1, <2>6
<1>6. 0..Len(t) \subseteq S
  BY <1>2, <1>4, <1>5, Stepwise
<1>7. CountTo(new, b, Len(s) + Len(t)) = Count(s, b) + CountTo(t, b, Len(t))
  BY <1>2, <1>3, <1>6
<1> QED
  BY <1>1, <1>2, <1>7 DEF Count

LEMMA CountRest ==
  ASSUME NEW list, NEW b, Len(list) \in Nat, NEW k \in 0..Len(list)
  PROVE  /\ CountTo(list, b, k) <= Count(list, b)
         /\ \A j \in (k + 1)..Len(list) :
               b \in Phys(list[j]) => CountTo(list, b, k) + 1 <= Count(list, b)
<1>1. PICK S, T : S = HoldingTo(list, b, k) /\ T = HoldingTo(list, b, Len(list))
  OBVIOUS
<1>2. IsFiniteSet(S) /\ IsFiniteSet(T) /\ S \in SUBSET T
  <2>1. IsFiniteSet(S) /\ IsFiniteSet(T)
    BY <1>1, HoldingFinite
  <2>2. S \in SUBSET T
    BY <1>1 DEF HoldingTo
  <2> QED
    BY <2>1, <2>2
<1>3. Cardinality(S) \in Nat /\ Cardinality(T) \in Nat /\ Cardinality(S) <= Cardinality(T)
  BY <1>2, FS_Subset, FS_CardinalityType
<1>4. ASSUME NEW j \in (k + 1)..Len(list), b \in Phys(list[j])
      PROVE  Cardinality(S) + 1 <= Cardinality(T)
  <2>1. S \cup {j} \in SUBSET T /\ j \notin S
    BY <1>1, <1>2, <1>4 DEF HoldingTo
  <2>2. Cardinality(S \cup {j}) = Cardinality(S) + 1 /\ Cardinality(S \cup {j}) <= Cardinality(T)
    BY <1>2, <2>1, FS_AddElement, FS_Subset
  <2> QED
    BY <2>2
<1> QED
  BY <1>1, <1>3, <1>4 DEF CountTo, Count

LEMMA CountHeld ==
  ASSUME NEW list, NEW b, Len(list) \in Nat, NEW i \in 1..Len(list), b \in Phys(list[i])
  PROVE  Count(list, b) >= 1
<1>1. CountTo(list, b, 0) = 0 /\ 0 \in 0..Len(list) /\ i \in (0 + 1)..Len(list)
  BY CountNone
<1>2. CountTo(list, b, 0) + 1 <= Count(list, b) /\ Count(list, b) \in Nat
  BY <1>1, CountRest, HoldingFinite DEF Count
<1> QED
  BY <1>1, <1>2
-----------------------------------------------------------------------------
(* The volume, and what allocating, freeing and sharing blocks does to the  *)
(* number of references C that blocks have.                                 *)

Volume(v) ==
  v \in [bitmap : SUBSET Blocks, hint : 1..(NumBlocks + 1), refs : [Blocks -> Nat],
         overflow : [Files -> SUBSET Extents], disk : {v.disk}]

Balanced(v, C) ==
  \A b \in Blocks :
    /\ C[b] \in Nat /\ v.refs[b] >= 1
    /\ b \in v.bitmap => C[b] = v.refs[b]
    /\ b \notin v.bitmap => C[b] = 0 /\ v.refs[b] = 1

(* The blocks that D counts are as they were in v. *)
Keeps(v, w, D) == \A b \in Blocks : D[b] >= 1 => w.disk[b] = v.disk[b]

LEMMA FreeEffect ==
  ASSUME NEW v, Volume(v), NEW C, Balanced(v, C), NEW S \in SUBSET Blocks, NEW D,
         \A b \in S : C[b] >= 1, \A b \in Blocks : D[b] = C[b] - One(b, S),
         NEW w, w = FreeBlocks(v, S)
  PROVE  Volume(w) /\ Balanced(w, D) /\ Keeps(v, w, D) /\ w.overflow = v.overflow
<1>1. /\ w.overflow = v.overflow /\ w.hint = v.hint
      /\ w.refs = [b \in Blocks |-> IF b \in S /\ v.refs[b] > 1 THEN v.refs[b] - 1 ELSE v.refs[b]]
      /\ w.bitmap = v.bitmap \ {b \in S : v.refs[b] <= 1}
      /\ w.disk = [b \in Blocks |-> IF b \in S /\ v.refs[b] <= 1 THEN << >> ELSE v.disk[b]]
      /\ DOMAIN w = {"bitmap", "hint", "refs", "overflow", "disk"}
  BY DEF FreeBlocks, Volume
<1>2. /\ v.bitmap \subseteq Blocks /\ v.hint \in 1..(NumBlocks + 1) /\ v.refs \in [Blocks -> Nat]
      /\ v.overflow \in [Files -> SUBSET Extents]
  BY DEF Volume
<1>3. w.refs \in [Blocks -> Nat]
  BY <1>1, <1>2
<1>4. w = [bitmap |-> w.bitmap, hint |-> w.hint, refs |-> w.refs, overflow |-> w.overflow, disk |-> w.disk]
  BY DEF FreeBlocks, Volume
<1>5. Volume(w)
  BY <1>1, <1>2, <1>3, <1>4 DEF Volume
<1>6. ASSUME NEW b \in Blocks
      PROVE  /\ D[b] \in Nat /\ w.refs[b] >= 1
             /\ b \in w.bitmap => D[b] = w.refs[b]
             /\ b \notin w.bitmap => D[b] = 0 /\ w.refs[b] = 1
             /\ D[b] >= 1 => w.disk[b] = v.disk[b]
  <2>1. /\ C[b] \in Nat /\ v.refs[b] \in Nat /\ v.refs[b] >= 1
        /\ b \in v.bitmap => C[b] = v.refs[b]
        /\ b \notin v.bitmap => C[b] = 0 /\ v.refs[b] = 1
    BY <1>2 DEF Balanced
  <2>2. CASE b \in S
    <3>1. C[b] >= 1 /\ D[b] = C[b] - 1 /\ b \in v.bitmap
      BY <2>1, <2>2 DEF One
    <3>2. CASE v.refs[b] > 1
      BY <1>1, <2>1, <2>2, <3>1, <3>2
    <3>3. CASE v.refs[b] <= 1
      BY <1>1, <2>1, <2>2, <3>1, <3>3
    <3> QED
      BY <2>1, <3>2, <3>3
  <2>3. CASE b \notin S
    <3>1. D[b] = C[b]
      BY <2>1, <2>3 DEF One
    <3> QED
      BY <1>1, <2>1, <2>3, <3>1
  <2> QED
    BY <2>2, <2>3
<1> QED
  BY <1>1, <1>5, <1>6 DEF Balanced, Keeps

LEMMA ShareEffect ==
  ASSUME NEW v, Volume(v), NEW C, Balanced(v, C), NEW S \in SUBSET Blocks, NEW D,
         \A b \in S : C[b] >= 1, \A b \in Blocks : D[b] = C[b] + One(b, S),
         NEW w, w = ShareBlocks(v, S)
  PROVE  Volume(w) /\ Balanced(w, D) /\ w.disk = v.disk /\ w.overflow = v.overflow
<1>1. /\ w.overflow = v.overflow /\ w.hint = v.hint /\ w.bitmap = v.bitmap /\ w.disk = v.disk
      /\ w.refs = [b \in Blocks |-> IF b \in S THEN v.refs[b] + 1 ELSE v.refs[b]]
  BY DEF ShareBlocks, Volume
<1>2. /\ v.bitmap \subseteq Blocks /\ v.hint \in 1..(NumBlocks + 1) /\ v.refs \in [Blocks -> Nat]
      /\ v.overflow \in [Files -> SUBSET Extents]
  BY DEF Volume
<1>3. w.refs \in [Blocks -> Nat]
  BY <1>1, <1>2
<1>4. w = [bitmap |-> w.bitmap, hint |-> w.hint, refs |-> w.refs, overflow |-> w.overflow, disk |-> w.disk]
  BY DEF ShareBlocks, Volume
<1>5. Volume(w)
  BY <1>1, <1>2, <1>3, <1>4 DEF Volume
<1>6. ASSUME NEW b \in Blocks
      PROVE  /\ D[b] \in Nat /\ w.refs[b] >= 1
             /\ b \in w.bitmap => D[b] = w.refs[b]
             /\ b \notin w.bitmap => D[b] = 0 /\ w.refs[b] = 1
  <2>1. /\ C[b] \in Nat /\ v.refs[b] \in Nat /\ v.refs[b] >= 1
        /\ b \in v.bitmap => C[b] = v.refs[b]
        /\ b \notin v.bitmap => C[b] = 0 /\ v.refs[b] = 1
    BY <1>2 DEF Balanced
  <2>2. CASE b \in S
    BY <1>1, <2>1, <2>2 DEF One
  <2>3. CASE b \notin S
    BY <1>1, <2>1, <2>3 DEF One
  <2> QED
    BY <2>2, <2>3
<1> QED
  BY <1>1, <1>5, <1>6 DEF Balanced

LEMMA AllocFree ==
  ASSUME NEW v, Volume(v), NEW n \in Nat \ {0}, NEW start, start = AllocStart(v, n), start # 0
  PROVE  /\ start \in Nat /\ start >= 1 /\ start + n - 1 <= NumBlocks
         /\ Span(start, n) \subseteq Blocks /\ Span(start, n) \cap v.bitmap = {}
<1>1. NumBlocks \in Nat /\ NumBlocks >= 1 /\ v.hint \in 1..(NumBlocks + 1)
  BY ExtentsAssumption DEF Volume
<1>2. PICK from : from = IF v.hint > NumBlocks THEN 1 ELSE v.hint
  OBVIOUS
<1>3. from \in 1..NumBlocks
  BY <1>1, <1>2
<1> DEFINE first == FreeRuns(v, from, NumBlocks, n)
           second == FreeRuns(v, 1, from - 1, n)
<1>4. first \in SUBSET Nat /\ second \in SUBSET Nat
  BY <1>1, <1>3 DEF FreeRuns
<1>5. start = IF first # {} THEN Min(first) ELSE IF second # {} THEN Min(second) ELSE 0
  BY <1>2 DEF AllocStart
<1> HIDE DEF first, second
<1>6. start \in first \/ start \in second
  BY <1>4, <1>5, MinFact
<1>7. /\ start \in Nat /\ start >= 1 /\ start + n - 1 <= NumBlocks
      /\ Span(start, n) \cap v.bitmap = {}
  BY <1>1, <1>3, <1>6 DEF first, second, FreeRuns
<1> QED
  BY <1>1, <1>7 DEF Span, Blocks

LEMMA AllocEffect ==
  ASSUME NEW v, Volume(v), NEW C, Balanced(v, C), NEW image, Len(image) \in Nat \ {0},
         NEW start, start = AllocStart(v, Len(image)), start # 0,
         NEW S, S = Span(start, Len(image)), NEW D, \A b \in Blocks : D[b] = C[b] + One(b, S),
         NEW w, w = AllocAndWrite(v, start, image)
  PROVE  /\ Volume(w) /\ Balanced(w, D) /\ Keeps(v, w, C) /\ w.overflow = v.overflow
         /\ \A b \in S : b \in Blocks /\ C[b] = 0 /\ w.disk[b] = image[b - start + 1]
<1>1. /\ start \in Nat /\ start >= 1 /\ start + Len(image) - 1 <= NumBlocks
      /\ S \subseteq Blocks /\ S \cap v.bitmap = {}
  BY AllocFree
<1>2. /\ w.overflow = v.overflow /\ w.refs = v.refs
      /\ w.bitmap = v.bitmap \cup S
      /\ w.hint = IF start + Len(image) > v.hint THEN start + Len(image) ELSE v.hint
      /\ w.disk = [b \in Blocks |-> IF b \in S THEN image[b - start + 1] ELSE v.disk[b]]
  BY DEF AllocAndWrite, Volume
<1>3. /\ v.bitmap \subseteq Blocks /\ v.hint \in 1..(NumBlocks + 1) /\ v.refs \in [Blocks -> Nat]
      /\ v.overflow \in [Files -> SUBSET Extents]
  BY DEF Volume
<1>4. w.hint \in 1..(NumBlocks + 1)
  BY <1>1, <1>2, <1>3, ExtentsAssumption
<1>5. w = [bitmap |-> w.bitmap, hint |-> w.hint, refs |-> w.refs, overflow |-> w.overflow, disk |-> w.disk]
  BY DEF AllocAndWrite, Volume
<1>6. Volume(w)
  BY <1>1, <1>2, <1>3, <1>4, <1>5 DEF Volume
<1>7. ASSUME NEW b \in Blocks
      PROVE  /\ D[b] \in Nat /\ w.refs[b] >= 1
             /\ b \in w.bitmap => D[b] = w.refs[b]
             /\ b \notin w.bitmap => D[b] = 0 /\ w.refs[b] = 1
             /\ C[b] >= 1 => w.disk[b] = v.disk[b]
             /\ b \in S => C[b] = 0
  <2>1. /\ C[b] \in Nat /\ v.refs[b] \in Nat /\ v.refs[b] >= 1
        /\ b \in v.bitmap => C[b] = v.refs[b]
        /\ b \notin v.bitmap => C[b] = 0 /\ v.refs[b] = 1
    BY <1>3 DEF Balanced
  <2>2. CASE b \in S
    <3>1. b \notin v.bitmap
      BY <1>1, <2>2
    <3> QED
      BY <1>2, <2>1, <2>2, <3>1 DEF One
  <2>3. CASE b \notin S
    <3>1. D[b] = C[b]
      BY <2>1, <2>3 DEF One
    <3>2. w.disk[b] = v.disk[b] /\ (b \in w.bitmap <=> b \in v.bitmap)
      BY <1>2, <2>3
    <3> QED
      BY <1>2, <2>1, <2>3, <3>1, <3>2
  <2> QED
    BY <2>2, <2>3
<1> QED
  BY <1>1, <1>2, <1>6, <1>7 DEF Balanced, Keeps
-----------------------------------------------------------------------------
(* What the extents of a list read as, on the logical blocks in Known.      *)

ReadsExtent(v, e, text, Known) ==
  \A lb \in Span(e.ls, e.lc) : lb \in Known => ReadExtent(v, e, lb) = text[lb + 1]

Reads(v, list, text, Known) ==
  \A i \in 1..Len(list) : ReadsExtent(v, list[i], text, Known)

LEMMA ReadKept ==
  ASSUME NEW e, Good(e), NEW v, NEW w, \A b \in Phys(e) : w.disk[b] = v.disk[b],
         NEW lb \in Span(e.ls, e.lc)
  PROVE  ReadExtent(w, e, lb) = ReadExtent(v, e, lb)
<1>1. PICK at : at = IF Plain(e) THEN e.ps + (lb - e.ls) ELSE e.ps
  OBVIOUS
<1>2. at \in Phys(e)
  BY <1>1 DEF Good, Plain, Phys, Span, Extents
<1>3. w.disk[at] = v.disk[at]
  BY <1>2
<1> QED
  BY <1>1, <1>3 DEF ReadExtent

LEMMA GoodPhys ==
  ASSUME NEW e, Good(e)
  PROVE  Phys(e) \in SUBSET Blocks
BY ExtentsAssumption DEF Good, Phys, Span, Blocks, Extents

LEMMA ReadsKept ==
  ASSUME NEW list, NEW a, NEW n, Tiles(list, a, n), NEW v, NEW w, NEW D, Keeps(v, w, D),
         \A b \in Blocks : Count(list, b) >= 1 => D[b] >= 1,
         NEW text, NEW Known, Reads(v, list, text, Known)
  PROVE  Reads(w, list, text, Known)
<1>1. SUFFICES ASSUME NEW i \in 1..Len(list), NEW lb \in Span(list[i].ls, list[i].lc), lb \in Known
               PROVE  ReadExtent(w, list[i], lb) = text[lb + 1]
  BY DEF Reads, ReadsExtent
<1>2. Good(list[i]) /\ Len(list) \in Nat
  BY DEF Tiles
<1>3. ASSUME NEW b \in Phys(list[i]) PROVE w.disk[b] = v.disk[b]
  <2>1. b \in Blocks
    BY <1>2, <1>3, GoodPhys
  <2>2. Count(list, b) >= 1
    BY <1>2, <1>3, CountHeld
  <2> QED
    BY <2>1, <2>2 DEF Keeps
<1>4. ReadExtent(w, list[i], lb) = ReadExtent(v, list[i], lb)
  BY <1>1, <1>2, <1>3, ReadKept
<1> QED
  BY <1>1, <1>4 DEF Reads, ReadsExtent

LEMMA ReadsAppend ==
  ASSUME NEW X, NEW list \in Seq(X), NEW e \in X, NEW v, NEW text, NEW Known,
         Reads(v, list, text, Known), ReadsExtent(v, e, text, Known)
  PROVE  Reads(v, Append(list, e), text, Known)
<1>1. PICK new : new = Append(list, e)
  OBVIOUS
<1>2. /\ Len(list) \in Nat /\ Len(new) = Len(list) + 1 /\ new[Len(list) + 1] = e
      /\ \A i \in 1..Len(list) : new[i] = list[i]
  BY <1>1
<1>3. \A i \in 1..Len(new) : i \in 1..Len(list) \/ i = Len(list) + 1
  BY <1>2
<1> QED
  BY <1>1, <1>2, <1>3 DEF Reads

LEMMA ReadsConcat ==
  ASSUME NEW X, NEW s \in Seq(X), NEW t \in Seq(X), NEW v, NEW text, NEW Known,
         Reads(v, s, text, Known), Reads(v, t, text, Known)
  PROVE  Reads(v, s \o t, text, Known)
<1>1. PICK new : new = s \o t
  OBVIOUS
<1>2. /\ Len(s) \in Nat /\ Len(t) \in Nat /\ Len(new) = Len(s) + Len(t)
      /\ \A i \in 1..Len(s) : new[i] = s[i]
      /\ \A i \in 1..Len(t) : new[Len(s) + i] = t[i]
  BY <1>1
<1>3. ASSUME NEW i \in 1..Len(new) PROVE ReadsExtent(v, new[i], text, Known)
  <2>1. CASE i \in 1..Len(s)
    BY <1>2, <2>1 DEF Reads
  <2>2. CASE i \notin 1..Len(s)
    <3>1. i - Len(s) \in 1..Len(t) /\ i = Len(s) + (i - Len(s))
      BY <1>2, <2>2
    <3>2. new[i] = t[i - Len(s)]
      BY <1>2, <3>1
    <3> QED
      BY <3>1, <3>2 DEF Reads
  <2> QED
    BY <2>1, <2>2
<1> QED
  BY <1>1, <1>3 DEF Reads

-----------------------------------------------------------------------------
(* write_extent_list: joining extents changes neither what a list covers,   *)
(* nor what it reads as, nor which blocks it holds.                         *)

LEMMA MergeStep ==
  ASSUME NEW done, NEW a \in Nat, NEW m, Tiles(done, a, m), NEW e, Good(e), e.ls = m
  PROVE  /\ Tiles(Merge(done, e), a, End(e))
         /\ \A b : Count(Merge(done, e), b) = Count(done, b) + One(b, Phys(e))
         /\ \A v, text, Known : Reads(v, done, text, Known) /\ ReadsExtent(v, e, text, Known)
                                  => Reads(v, Merge(done, e), text, Known)
<1>1. done \in Seq(Extents) /\ Len(done) \in Nat /\ e \in Extents
  BY DEF Tiles, Good
<1>2. CASE ~(done # << >> /\ Contiguous(Last(done), e))
  <2>1. Merge(done, e) = Append(done, e)
    BY <1>2 DEF Merge
  <2> QED
    BY <1>1, <2>1, TilesAppend, CountAppend, ReadsAppend
<1>3. CASE done # << >> /\ Contiguous(Last(done), e)
  <2>1. PICK n, d : n \in Nat /\ n = Len(done) /\ n >= 1 /\ d = done[n]
    BY <1>1, <1>3
  <2>2. Good(d) /\ d.ls = Pos(done, a, n - 1) /\ End(d) = m
    BY <2>1 DEF Tiles, Pos
  <2>3. Plain(d) /\ Plain(e) /\ d.ps + d.pc = e.ps
    BY <1>3, <2>1 DEF Contiguous, Last
  <2>4. PICK new, j : new = Merge(done, e) /\ j = Extent(d.ls, d.lc + e.lc, d.ps, d.pc + e.pc)
    OBVIOUS
  <2>a. /\ d \in Extents /\ d.ls \in Nat /\ d.lc \in Nat /\ d.ps \in Nat /\ d.pc \in Nat
        /\ e.ls \in Nat /\ e.lc \in Nat /\ e.ps \in Nat /\ e.pc \in Nat
    BY <1>1, <2>2 DEF Good, Extents
  <2>b. j.ls = d.ls /\ j.lc = d.lc + e.lc /\ j.ps = d.ps /\ j.pc = d.pc + e.pc
    BY <2>4 DEF Extent
  <2>5. d \in Extents /\ j \in Extents
    <3>1. d.lc + e.lc \in Nat /\ d.pc + e.pc \in Nat
      BY <2>a
    <3> QED
      BY <2>4, <2>a, <3>1 DEF Extents, Extent
  <2>6. new \in Seq(Extents) /\ Len(new) = n /\ new[n] = j /\ \A i \in 1..(n - 1) : new[i] = done[i]
    <3>2. new = [done EXCEPT ![n] = j]
      BY <1>3, <2>1, <2>4 DEF Merge, Joined, Last
    <3> QED
      BY <1>1, <2>1, <2>5, <3>2
  <2>7. Good(j) /\ End(j) = End(e) /\ j.ls = d.ls
    BY <2>2, <2>3, <2>4, <2>5 DEF Good, Extents, Extent, Plain, End
  <2>8. Tiles(new, a, End(e))
    <3>1. \A i \in 0..(n - 1) : Pos(new, a, i) = Pos(done, a, i)
      BY <2>6 DEF Pos
    <3>2. ASSUME NEW i \in 1..n PROVE Good(new[i]) /\ new[i].ls = Pos(new, a, i - 1)
      <4>1. i - 1 \in 0..(n - 1) /\ (i = n \/ i \in 1..(n - 1))
        BY <2>1, <3>2
      <4> QED
        BY <2>1, <2>2, <2>6, <2>7, <3>1, <4>1 DEF Tiles
    <3>3. Pos(new, a, n) = End(e)
      BY <2>1, <2>6, <2>7 DEF Pos
    <3> QED
      BY <2>6, <3>2, <3>3 DEF Tiles
  <2>9. ASSUME NEW b PROVE Count(new, b) = Count(done, b) + One(b, Phys(e))
    <3>1. n - 1 \in Nat /\ n - 1 + 1 = n
      BY <2>1
    <3>2. /\ CountTo(new, b, n) = CountTo(new, b, n - 1) + One(b, Phys(j))
          /\ CountTo(done, b, n) = CountTo(done, b, n - 1) + One(b, Phys(d))
      BY <2>1, <2>6, <3>1, CountStep
    <3>3. CountTo(new, b, n - 1) = CountTo(done, b, n - 1) /\ CountTo(done, b, n - 1) \in Nat
      BY <2>6, <3>1, CountAgree, HoldingFinite
    <3>4. One(b, Phys(j)) = One(b, Phys(d)) + One(b, Phys(e))
      <4>1. Phys(j) = Phys(d) \cup Phys(e) /\ Phys(d) \cap Phys(e) = {}
        BY <2>3, <2>a, <2>b DEF Phys, Span
      <4> QED
        BY <4>1 DEF One
    <3>5. One(b, Phys(d)) \in Nat /\ One(b, Phys(e)) \in Nat
      BY DEF One
    <3> QED
      BY <2>1, <2>6, <3>2, <3>3, <3>4, <3>5 DEF Count
  <2>10. ASSUME NEW v, NEW text, NEW Known, Reads(v, done, text, Known), ReadsExtent(v, e, text, Known)
         PROVE  Reads(v, new, text, Known)
    <3>1. ReadsExtent(v, d, text, Known)
      BY <2>1, <2>10 DEF Reads
    <3>2. ASSUME NEW lb \in Span(j.ls, j.lc), lb \in Known PROVE ReadExtent(v, j, lb) = text[lb + 1]
      <4>1. Plain(j) /\ lb \in Int
        BY <2>3, <2>4, <2>5 DEF Plain, Extent, Extents, Span
      <4>2. CASE lb \in Span(d.ls, d.lc)
        <5>1. j.ps + (lb - j.ls) = d.ps + (lb - d.ls)
          BY <2>4 DEF Extent
        <5>2. ReadExtent(v, j, lb) = ReadExtent(v, d, lb)
          BY <2>3, <4>1, <5>1 DEF ReadExtent
        <5> QED
          BY <3>1, <3>2, <4>2, <5>2 DEF ReadsExtent
      <4>3. CASE lb \notin Span(d.ls, d.lc)
        <5>1. lb \in Span(e.ls, e.lc) /\ j.ps + (lb - j.ls) = e.ps + (lb - e.ls)
          <6>1. d.ls + d.lc = e.ls /\ d.lc = d.pc
            BY <2>2, <2>3 DEF End, Plain
          <6> QED
            BY <2>3, <2>a, <2>b, <3>2, <4>3, <6>1 DEF Span
        <5>2. ReadExtent(v, j, lb) = ReadExtent(v, e, lb)
          BY <2>3, <4>1, <5>1 DEF ReadExtent
        <5> QED
          BY <2>10, <3>2, <5>1, <5>2 DEF ReadsExtent
      <4> QED
        BY <4>2, <4>3
    <3>3. ReadsExtent(v, j, text, Known)
      BY <3>2 DEF ReadsExtent
    <3>4. \A i \in 1..n : i = n \/ i \in 1..(n - 1)
      BY <2>1
    <3> QED
      BY <2>1, <2>6, <2>10, <3>3, <3>4 DEF Reads
  <2> QED
    BY <2>4, <2>8, <2>9, <2>10
<1> QED
  BY <1>2, <1>3

LEMMA CoalesceFact ==
  ASSUME NEW list, NEW a \in Nat, NEW n, Tiles(list, a, n)
  PROVE  /\ Tiles(Coalesce(list), a, n)
         /\ \A b : Count(Coalesce(list), b) = Count(list, b)
         /\ \A v, text, Known : Reads(v, list, text, Known) => Reads(v, Coalesce(list), text, Known)
<1>1. Len(list) \in Nat
  BY DEF Tiles
<1> DEFINE m == Merged(list)
           Done(k) == /\ Tiles(m[k], a, Pos(list, a, k))
                      /\ \A b : Count(m[k], b) = CountTo(list, b, k)
                      /\ \A v, text, Known : Reads(v, list, text, Known)
                                                => Reads(v, m[k], text, Known)
<1>2. m[0] = << >> /\ \A i \in 1..Len(list) : m[i] = Merge(m[i - 1], list[i])
  BY <1>1, MergedDef
<1> HIDE DEF m
<1>3. Done(0)
  <2>1. Pos(list, a, 0) = a /\ Tiles(<< >>, a, a)
    BY TilesEmpty DEF Pos
  <2>2. ASSUME NEW b PROVE Count(<< >>, b) = CountTo(list, b, 0)
    BY CountNone DEF Count
  <2>3. \A v, text, Known : Reads(v, << >>, text, Known)
    BY DEF Reads
  <2> QED
    BY <1>2, <2>1, <2>2, <2>3
<1>4. ASSUME NEW k \in 0..Len(list), k + 1 <= Len(list), Done(k) PROVE Done(k + 1)
  <2>1. /\ k + 1 \in 1..Len(list) /\ k \in Nat /\ m[k + 1] = Merge(m[k], list[k + 1])
        /\ Good(list[k + 1]) /\ list[k + 1].ls = Pos(list, a, k)
        /\ Pos(list, a, k + 1) = End(list[k + 1])
    <3>1. k + 1 \in 1..Len(list) /\ k \in Nat /\ k + 1 - 1 = k /\ k + 1 # 0
      BY <1>1, <1>4
    <3> QED
      BY <1>2, <3>1 DEF Tiles, Pos
  <2>2. PICK d, e, p : d = m[k] /\ e = list[k + 1] /\ p = Pos(list, a, k)
    OBVIOUS
  <2>3. /\ Tiles(Merge(d, e), a, End(e))
        /\ \A b : Count(Merge(d, e), b) = Count(d, b) + One(b, Phys(e))
        /\ \A v, text, Known : Reads(v, d, text, Known) /\ ReadsExtent(v, e, text, Known)
                                  => Reads(v, Merge(d, e), text, Known)
    <3>1. Tiles(d, a, p) /\ Good(e) /\ e.ls = p
      BY <1>4, <2>1, <2>2
    <3> QED
      BY <3>1, MergeStep
  <2>4. \A b : Count(m[k + 1], b) = CountTo(list, b, k + 1)
    BY <1>4, <2>1, <2>2, <2>3, CountStep
  <2>5. \A v, text, Known : Reads(v, list, text, Known) => ReadsExtent(v, e, text, Known)
    BY <2>1, <2>2 DEF Reads
  <2> QED
    BY <1>4, <2>1, <2>2, <2>3, <2>4, <2>5
<1>5. Done(Len(list))
  <2> HIDE DEF Done
  <2>1. PICK S : S = {k \in 0..Len(list) : Done(k)}
    OBVIOUS
  <2>2. 0 \in S /\ \A k \in 0..Len(list) : k \in S /\ k + 1 <= Len(list) => k + 1 \in S
    BY <1>1, <1>3, <1>4, <2>1
  <2>3. 0..Len(list) \subseteq S
    BY <1>1, <2>2, Stepwise
  <2> QED
    BY <1>1, <2>1, <2>3
<1> QED
  BY <1>5 DEF m, Coalesce, Count, Tiles
-----------------------------------------------------------------------------
(* Cutting a range out of a list: no compressed extent crosses its ends,    *)
(* so the extents on both sides and the blocks that are freed make up the   *)
(* list.                                                                    *)

Lo(x, y) == IF x <= y THEN x ELSE y
Hi(x, y) == IF x <= y THEN y ELSE x

CleanCut(x, n) == Compression => Aligned(x) \/ x >= n

LeftOf(e, from) ==
  IF End(e) <= from THEN Phys(e) ELSE IF e.ls < from THEN Span(e.ps, from - e.ls) ELSE {}
RightOf(e, to) ==
  IF e.ls >= to THEN Phys(e)
  ELSE IF End(e) > to THEN Span(e.ps + (to - e.ls), End(e) - to) ELSE {}

LEMMA GoodFields ==
  ASSUME NEW e, Good(e)
  PROVE  /\ e \in Extents /\ e.ls \in Nat /\ e.lc \in Nat \ {0}
         /\ e.ps \in Nat \ {0} /\ e.pc \in Nat \ {0}
         /\ End(e) = e.ls + e.lc /\ End(e) \in Nat /\ e.ls < End(e)
         /\ NumBlocks \in Nat /\ e.ps + e.pc - 1 <= NumBlocks
BY ExtentsAssumption DEF Good, Extents, End

Parts(s, x, y, c) ==
  /\ s + x .. s + y - 1 \subseteq s .. s + c - 1
  /\ \A b : One(b, s .. s + c - 1)
           = One(b, s .. s + x - 1) + One(b, s + x .. s + y - 1) + One(b, s + y .. s + c - 1)

LEMMA ThreeParts ==
  ASSUME NEW s \in Nat, NEW x \in Nat, NEW y \in Nat, NEW c \in Nat, x <= y, y <= c
  PROVE  Parts(s, x, y, c)
<1>1. /\ s .. s + x - 1 \subseteq s .. s + c - 1 /\ s + x .. s + y - 1 \subseteq s .. s + c - 1
      /\ s + y .. s + c - 1 \subseteq s .. s + c - 1
  OBVIOUS
<1>2. ASSUME NEW b
      PROVE  One(b, s .. s + c - 1)
                  = One(b, s .. s + x - 1) + One(b, s + x .. s + y - 1) + One(b, s + y .. s + c - 1)
  <2>1. CASE b \in s .. s + c - 1
    BY <2>1 DEF One
  <2>2. CASE b \notin s .. s + c - 1
    BY <1>1, <2>2 DEF One
  <2> QED
    BY <2>1, <2>2
<1> QED
  BY <1>1, <1>2 DEF Parts

LEMMA CutPlain ==
  ASSUME NEW e, Good(e), NEW x \in Nat, e.ls < x, x < End(e), NEW n \in Nat, End(e) <= n,
         CleanCut(x, n)
  PROVE  Plain(e)
<1>1. SUFFICES ASSUME ~Plain(e) PROVE FALSE
  OBVIOUS
<1>2. e.ls \in Nat /\ End(e) = e.ls + GroupBlocks /\ Aligned(e.ls) /\ Aligned(x)
  BY <1>1, GoodFields DEF Good, CleanCut
<1>3. e.ls + GroupBlocks <= x
  BY <1>2, AlignedGap
<1> QED
  BY <1>2, <1>3, ExtentsAssumption

LEMMA LeftPartFact ==
  ASSUME NEW e, Good(e), Plain(e), NEW x \in Nat, e.ls < x, x < End(e), NEW p, p = LeftPart(e, x)
  PROVE  /\ Good(p) /\ p.ls = e.ls /\ End(p) = x /\ Phys(p) = Span(e.ps, x - e.ls)
         /\ \A v, text, Known : ReadsExtent(v, e, text, Known) => ReadsExtent(v, p, text, Known)
<1>1. /\ e.ls \in Nat /\ e.lc \in Nat /\ e.ps \in Nat /\ e.pc \in Nat /\ e.pc = e.lc
      /\ x - e.ls \in Nat /\ x - e.ls >= 1 /\ x - e.ls < e.lc /\ e.ps >= 1
      /\ NumBlocks \in Nat /\ e.ps + e.pc - 1 <= NumBlocks
  BY GoodFields DEF Plain
<1>2. p \in Extents /\ p.ls = e.ls /\ p.lc = x - e.ls /\ p.ps = e.ps /\ p.pc = x - e.ls /\ End(p) = x
  <2>1. PICK k \in Nat : k = x - e.ls
    BY <1>1
  <2>2. p = Extent(e.ls, k, e.ps, k)
    BY <2>1 DEF LeftPart
  <2>3. p \in Extents /\ p.ls = e.ls /\ p.lc = k /\ p.ps = e.ps /\ p.pc = k /\ End(p) = e.ls + k
    BY <1>1, <2>2 DEF Extent, Extents, End
  <2> QED
    BY <1>1, <2>1, <2>3
<1>3. Good(p) /\ Plain(p)
  BY <1>1, <1>2 DEF Good, Plain
<1>4. ASSUME NEW v, NEW text, NEW Known, ReadsExtent(v, e, text, Known)
      PROVE  ReadsExtent(v, p, text, Known)
  <2>1. SUFFICES ASSUME NEW lb \in Span(p.ls, p.lc), lb \in Known
                 PROVE  ReadExtent(v, p, lb) = text[lb + 1]
    BY DEF ReadsExtent
  <2>2. lb \in Span(e.ls, e.lc)
    BY <1>1, <1>2, <2>1 DEF Span
  <2>3. ReadExtent(v, p, lb) = ReadExtent(v, e, lb)
    BY <1>2, <1>3 DEF ReadExtent
  <2> QED
    BY <1>4, <2>1, <2>2, <2>3 DEF ReadsExtent
<1> QED
  BY <1>2, <1>3, <1>4 DEF Phys

LEMMA RightPartFact ==
  ASSUME NEW e, Good(e), Plain(e), NEW x \in Nat, e.ls < x, x < End(e), NEW p, p = RightPart(e, x)
  PROVE  /\ Good(p) /\ p.ls = x /\ End(p) = End(e)
         /\ Phys(p) = Span(e.ps + (x - e.ls), End(e) - x)
         /\ \A v, text, Known : ReadsExtent(v, e, text, Known) => ReadsExtent(v, p, text, Known)
<1>1. /\ e.ls \in Nat /\ e.lc \in Nat /\ e.ps \in Nat /\ e.pc \in Nat /\ e.pc = e.lc
      /\ x - e.ls \in Nat /\ x - e.ls >= 1 /\ x - e.ls < e.lc /\ e.ps >= 1
      /\ End(e) = e.ls + e.lc /\ End(e) - x \in Nat /\ End(e) - x >= 1
      /\ e.ps + (x - e.ls) \in Nat
      /\ NumBlocks \in Nat /\ e.ps + e.pc - 1 <= NumBlocks
  BY GoodFields DEF Plain
<1>2. /\ p \in Extents /\ p.ls = x /\ p.lc = End(e) - x /\ p.ps = e.ps + (x - e.ls)
      /\ p.pc = End(e) - x /\ End(p) = End(e)
  <2>1. PICK k \in Nat, q \in Nat : k = End(e) - x /\ q = e.ps + (x - e.ls)
    BY <1>1
  <2>2. p = Extent(x, k, q, k)
    BY <2>1 DEF RightPart
  <2>3. p \in Extents /\ p.ls = x /\ p.lc = k /\ p.ps = q /\ p.pc = k /\ End(p) = x + k
    BY <2>2 DEF Extent, Extents, End
  <2> QED
    BY <1>1, <2>1, <2>3
<1>3. Good(p) /\ Plain(p)
  BY <1>1, <1>2 DEF Good, Plain
<1>4. ASSUME NEW v, NEW text, NEW Known, ReadsExtent(v, e, text, Known)
      PROVE  ReadsExtent(v, p, text, Known)
  <2>1. SUFFICES ASSUME NEW lb \in Span(p.ls, p.lc), lb \in Known
                 PROVE  ReadExtent(v, p, lb) = text[lb + 1]
    BY DEF ReadsExtent
  <2>2. lb \in Span(e.ls, e.lc) /\ lb \in Int
    BY <1>1, <1>2, <2>1 DEF Span
  <2>3. p.ps + (lb - p.ls) = e.ps + (lb - e.ls)
    BY <1>1, <1>2, <2>2
  <2>4. ReadExtent(v, p, lb) = ReadExtent(v, e, lb)
    BY <1>3, <2>3 DEF ReadExtent
  <2> QED
    BY <1>4, <2>1, <2>2, <2>4 DEF ReadsExtent
<1> QED
  BY <1>2, <1>3, <1>4 DEF Phys

LEMMA KeepLeftStep ==
  ASSUME NEW kept, NEW from \in Nat, NEW e, Good(e), Tiles(kept, 0, Lo(from, e.ls)),
         NEW n \in Nat, End(e) <= n, CleanCut(from, n)
  PROVE  /\ Tiles(KeepLeft(kept, e, from), 0, Lo(from, End(e)))
         /\ \A b : Count(KeepLeft(kept, e, from), b) = Count(kept, b) + One(b, LeftOf(e, from))
         /\ \A v, text, Known : Reads(v, kept, text, Known) /\ ReadsExtent(v, e, text, Known)
                                  => Reads(v, KeepLeft(kept, e, from), text, Known)
<1>1. kept \in Seq(Extents) /\ \A b : Count(kept, b) \in Nat
  BY HoldingFinite DEF Tiles, Count
<1>2. e \in Extents /\ e.ls \in Nat /\ End(e) \in Nat /\ e.ls < End(e)
  BY GoodFields
<1>3. CASE End(e) <= from
  <2>1. KeepLeft(kept, e, from) = Append(kept, e) /\ LeftOf(e, from) = Phys(e)
    BY <1>3 DEF KeepLeft, LeftOf
  <2>2. Lo(from, e.ls) = e.ls /\ Lo(from, End(e)) = End(e)
    BY <1>2, <1>3 DEF Lo
  <2>3. Tiles(kept, 0, e.ls)
    BY <2>2
  <2>4. Tiles(Append(kept, e), 0, End(e))
    BY <2>3, TilesAppend
  <2> QED
    BY <1>1, <1>2, <2>1, <2>2, <2>4, CountAppend, ReadsAppend
<1>4. CASE End(e) > from /\ e.ls < from
  <2>1. Plain(e)
    BY <1>4, CutPlain
  <2>2. PICK p : p = LeftPart(e, from)
    OBVIOUS
  <2>3. /\ Good(p) /\ p.ls = e.ls /\ End(p) = from /\ Phys(p) = Span(e.ps, from - e.ls)
        /\ \A v, text, Known : ReadsExtent(v, e, text, Known) => ReadsExtent(v, p, text, Known)
    BY <1>4, <2>1, <2>2, LeftPartFact
  <2>4. KeepLeft(kept, e, from) = Append(kept, p) /\ LeftOf(e, from) = Phys(p)
    BY <1>2, <1>4, <2>1, <2>2, <2>3 DEF KeepLeft, LeftOf
  <2>5. Lo(from, e.ls) = p.ls /\ Lo(from, End(e)) = End(p)
    BY <1>2, <1>4, <2>3 DEF Lo
  <2>6. Tiles(kept, 0, p.ls) /\ p \in Extents
    BY <2>3, <2>5, GoodFields
  <2>7. Tiles(Append(kept, p), 0, End(p))
    BY <2>3, <2>6, TilesAppend
  <2>8. \A b : Count(Append(kept, p), b) = Count(kept, b) + One(b, Phys(p))
    BY <1>1, <2>6, CountAppend
  <2>9. ASSUME NEW v, NEW text, NEW Known, Reads(v, kept, text, Known), ReadsExtent(v, e, text, Known)
        PROVE  Reads(v, Append(kept, p), text, Known)
    <3>1. ReadsExtent(v, p, text, Known)
      BY <2>3, <2>9
    <3> QED
      BY <1>1, <2>6, <2>9, <3>1, ReadsAppend
  <2> QED
    BY <2>4, <2>5, <2>7, <2>8, <2>9
<1>5. CASE e.ls >= from
  <2>1. KeepLeft(kept, e, from) = kept /\ LeftOf(e, from) = {}
    BY <1>2, <1>5 DEF KeepLeft, LeftOf
  <2>2. Lo(from, e.ls) = from /\ Lo(from, End(e)) = from
    BY <1>2, <1>5 DEF Lo
  <2>3. \A b : Count(kept, b) = Count(kept, b) + One(b, {})
    BY <1>1 DEF One
  <2> QED
    BY <2>1, <2>2, <2>3
<1> QED
  BY <1>2, <1>3, <1>4, <1>5

LEMMA KeepRightStep ==
  ASSUME NEW kept, NEW to \in Nat, NEW e, Good(e), Tiles(kept, to, Hi(to, e.ls)),
         NEW n \in Nat, End(e) <= n, CleanCut(to, n)
  PROVE  /\ Tiles(KeepRight(kept, e, to), to, Hi(to, End(e)))
         /\ \A b : Count(KeepRight(kept, e, to), b) = Count(kept, b) + One(b, RightOf(e, to))
         /\ \A v, text, Known : Reads(v, kept, text, Known) /\ ReadsExtent(v, e, text, Known)
                                  => Reads(v, KeepRight(kept, e, to), text, Known)
<1>1. kept \in Seq(Extents) /\ \A b : Count(kept, b) \in Nat
  BY HoldingFinite DEF Tiles, Count
<1>2. e \in Extents /\ e.ls \in Nat /\ End(e) \in Nat /\ e.ls < End(e)
  BY GoodFields
<1>3. CASE e.ls >= to
  <2>1. KeepRight(kept, e, to) = Append(kept, e) /\ RightOf(e, to) = Phys(e)
    BY <1>3 DEF KeepRight, RightOf
  <2>2. Hi(to, e.ls) = e.ls /\ Hi(to, End(e)) = End(e)
    BY <1>2, <1>3 DEF Hi
  <2>3. Tiles(kept, to, e.ls)
    BY <2>2
  <2>4. Tiles(Append(kept, e), to, End(e))
    BY <2>3, TilesAppend
  <2> QED
    BY <1>1, <1>2, <2>1, <2>2, <2>4, CountAppend, ReadsAppend
<1>4. CASE e.ls < to /\ End(e) > to
  <2>1. Plain(e)
    BY <1>4, CutPlain
  <2>2. PICK p : p = RightPart(e, to)
    OBVIOUS
  <2>3. /\ Good(p) /\ p.ls = to /\ End(p) = End(e) /\ Phys(p) = Span(e.ps + (to - e.ls), End(e) - to)
        /\ \A v, text, Known : ReadsExtent(v, e, text, Known) => ReadsExtent(v, p, text, Known)
    BY <1>4, <2>1, <2>2, RightPartFact
  <2>4. KeepRight(kept, e, to) = Append(kept, p) /\ RightOf(e, to) = Phys(p)
    BY <1>2, <1>4, <2>1, <2>2, <2>3 DEF KeepRight, RightOf
  <2>5. Hi(to, e.ls) = p.ls /\ Hi(to, End(e)) = End(p)
    BY <1>2, <1>4, <2>3 DEF Hi
  <2>6. Tiles(kept, to, p.ls) /\ p \in Extents
    BY <2>3, <2>5, GoodFields
  <2>7. Tiles(Append(kept, p), to, End(p))
    BY <2>3, <2>6, TilesAppend
  <2>8. \A b : Count(Append(kept, p), b) = Count(kept, b) + One(b, Phys(p))
    BY <1>1, <2>6, CountAppend
  <2>9. ASSUME NEW v, NEW text, NEW Known, Reads(v, kept, text, Known), ReadsExtent(v, e, text, Known)
        PROVE  Reads(v, Append(kept, p), text, Known)
    <3>1. ReadsExtent(v, p, text, Known)
      BY <2>3, <2>9
    <3> QED
      BY <1>1, <2>6, <2>9, <3>1, ReadsAppend
  <2> QED
    BY <2>4, <2>5, <2>7, <2>8, <2>9
<1>5. CASE End(e) <= to
  <2>1. KeepRight(kept, e, to) = kept /\ RightOf(e, to) = {}
    BY <1>2, <1>5 DEF KeepRight, RightOf
  <2>2. Hi(to, e.ls) = to /\ Hi(to, End(e)) = to
    BY <1>2, <1>5 DEF Hi
  <2>3. \A b : Count(kept, b) = Count(kept, b) + One(b, {})
    BY <1>1 DEF One
  <2> QED
    BY <2>1, <2>2, <2>3
<1> QED
  BY <1>2, <1>3, <1>4, <1>5

LEMMA PiecesFact ==
  ASSUME NEW e, Good(e), NEW from \in Nat, NEW to \in Nat, from < to, NEW n \in Nat, End(e) <= n,
         CleanCut(from, n), CleanCut(to, n)
  PROVE  /\ PhysIn(e, from, to) \subseteq Phys(e)
         /\ \A b : One(b, Phys(e)) = One(b, LeftOf(e, from)) + One(b, PhysIn(e, from, to))
                                       + One(b, RightOf(e, to))
<1>1. /\ e \in Extents /\ e.ls \in Nat /\ e.lc \in Nat \ {0} /\ e.ps \in Nat /\ e.pc \in Nat
      /\ End(e) = e.ls + e.lc
  BY GoodFields
<1>2. CASE Plain(e)
  <2>1. e.pc = e.lc
    BY <1>2 DEF Plain
  <2>2. /\ LeftOf(e, from) = e.ps .. e.ps + Lo(Hi(from - e.ls, 0), e.lc) - 1
        /\ RightOf(e, to) = e.ps + Lo(Hi(to - e.ls, 0), e.lc) .. e.ps + e.lc - 1
    <3>1. LeftOf(e, from) = e.ps .. e.ps + Lo(Hi(from - e.ls, 0), e.lc) - 1
      <4>1. CASE End(e) <= from
        <5>1. Lo(Hi(from - e.ls, 0), e.lc) = e.lc
          BY <1>1, <4>1 DEF Lo, Hi
        <5> QED
          BY <2>1, <4>1, <5>1 DEF LeftOf, Phys, Span
      <4>2. CASE End(e) > from /\ e.ls < from
        <5>1. Lo(Hi(from - e.ls, 0), e.lc) = from - e.ls
          BY <1>1, <4>2 DEF Lo, Hi
        <5> QED
          BY <1>1, <4>2, <5>1 DEF LeftOf, Span
      <4>3. CASE e.ls >= from
        <5>1. Lo(Hi(from - e.ls, 0), e.lc) = 0
          BY <1>1, <4>3 DEF Lo, Hi
        <5>2. LeftOf(e, from) = {}
          <6>1. ~(End(e) <= from) /\ ~(e.ls < from)
            BY <1>1, <4>3
          <6> QED
            BY <6>1 DEF LeftOf
        <5> QED
          BY <1>1, <5>1, <5>2
      <4> QED
        BY <1>1, <4>1, <4>2, <4>3
    <3>2. RightOf(e, to) = e.ps + Lo(Hi(to - e.ls, 0), e.lc) .. e.ps + e.lc - 1
      <4>1. CASE End(e) <= to
        <5>1. Lo(Hi(to - e.ls, 0), e.lc) = e.lc
          BY <1>1, <4>1 DEF Lo, Hi
        <5>2. RightOf(e, to) = {}
          BY <1>1, <4>1 DEF RightOf
        <5> QED
          BY <1>1, <5>1, <5>2
      <4>2. CASE End(e) > to /\ e.ls < to
        <5>1. Lo(Hi(to - e.ls, 0), e.lc) = to - e.ls
          BY <1>1, <4>2 DEF Lo, Hi
        <5>2. e.ps + (to - e.ls) + (End(e) - to) - 1 = e.ps + e.lc - 1
          BY <1>1
        <5> QED
          BY <1>1, <4>2, <5>1, <5>2 DEF RightOf, Span
      <4>3. CASE e.ls >= to
        <5>1. Lo(Hi(to - e.ls, 0), e.lc) = 0
          BY <1>1, <4>3 DEF Lo, Hi
        <5> QED
          BY <1>1, <2>1, <4>3, <5>1 DEF RightOf, Phys, Span
      <4> QED
        BY <1>1, <4>1, <4>2, <4>3
    <3> QED
      BY <3>1, <3>2
  <2>3. PhysIn(e, from, to) = e.ps + Lo(Hi(from - e.ls, 0), e.lc) .. e.ps + Lo(Hi(to - e.ls, 0), e.lc) - 1
    <3>1. CASE Overlaps(e, from, to)
      <4>1. PhysIn(e, from, to) = {e.ps + (lb - e.ls) : lb \in Span(e.ls, e.lc) \cap (from .. to - 1)}
        BY <1>2, <3>1 DEF PhysIn
      <4>2. ASSUME NEW x \in PhysIn(e, from, to)
            PROVE  x \in e.ps + Lo(Hi(from - e.ls, 0), e.lc) .. e.ps + Lo(Hi(to - e.ls, 0), e.lc) - 1
        <5>1. PICK lb \in Span(e.ls, e.lc) \cap (from .. to - 1) : x = e.ps + (lb - e.ls)
          BY <4>1, <4>2
        <5>2. lb \in Int /\ e.ls <= lb /\ lb < e.ls + e.lc /\ from <= lb /\ lb < to
          BY <1>1, <5>1 DEF Span
        <5> QED
          BY <1>1, <5>1, <5>2 DEF Lo, Hi
      <4>3. ASSUME NEW x \in e.ps + Lo(Hi(from - e.ls, 0), e.lc) .. e.ps + Lo(Hi(to - e.ls, 0), e.lc) - 1
            PROVE  x \in PhysIn(e, from, to)
        <5>1. PICK lb \in Int : lb = x - e.ps + e.ls
          BY <1>1, <4>3 DEF Lo, Hi
        <5>2. lb \in Span(e.ls, e.lc) \cap (from .. to - 1) /\ x = e.ps + (lb - e.ls)
          BY <1>1, <3>1, <4>3, <5>1 DEF Lo, Hi, Span, Overlaps
        <5> QED
          BY <4>1, <5>2
      <4> QED
        BY <4>2, <4>3
    <3>2. CASE ~Overlaps(e, from, to)
      <4>1. PhysIn(e, from, to) = {}
        BY <3>2 DEF PhysIn
      <4> QED
        BY <1>1, <3>2, <4>1 DEF Overlaps, Lo, Hi
    <3> QED
      BY <3>1, <3>2
  <2>4. PICK x, y : x = Lo(Hi(from - e.ls, 0), e.lc) /\ y = Lo(Hi(to - e.ls, 0), e.lc)
    OBVIOUS
  <2>5. x \in Nat /\ y \in Nat /\ x <= y /\ y <= e.lc
    BY <1>1, <2>4 DEF Lo, Hi
  <2>6. /\ LeftOf(e, from) = e.ps .. e.ps + x - 1 /\ PhysIn(e, from, to) = e.ps + x .. e.ps + y - 1
        /\ RightOf(e, to) = e.ps + y .. e.ps + e.lc - 1 /\ Phys(e) = e.ps .. e.ps + e.lc - 1
    BY <2>1, <2>2, <2>3, <2>4 DEF Phys, Span
  <2>7. PICK s \in Nat, c \in Nat : s = e.ps /\ c = e.lc
    BY <1>1
  <2>8. Parts(s, x, y, c)
    <3>1. x \in Nat /\ y \in Nat /\ x <= y /\ y <= c
      BY <2>5, <2>7
    <3> QED
      BY <3>1, ThreeParts, Zenon
  <2> QED
    BY <2>6, <2>7, <2>8, Zenon DEF Parts
<1>3. CASE ~Plain(e)
  <2>1. ~(e.ls < from /\ from < End(e)) /\ ~(e.ls < to /\ to < End(e))
    BY <1>3, CutPlain
  <2>2. CASE End(e) <= from
    <3>1. LeftOf(e, from) = Phys(e) /\ PhysIn(e, from, to) = {} /\ RightOf(e, to) = {}
      BY <1>1, <2>2 DEF LeftOf, RightOf, PhysIn, Overlaps
    <3> QED
      BY <3>1 DEF One
  <2>3. CASE e.ls >= to
    <3>1. LeftOf(e, from) = {} /\ PhysIn(e, from, to) = {} /\ RightOf(e, to) = Phys(e)
      BY <1>1, <2>3 DEF LeftOf, RightOf, PhysIn, Overlaps
    <3> QED
      BY <3>1 DEF One
  <2>4. CASE e.ls >= from /\ End(e) <= to
    <3>1. LeftOf(e, from) = {} /\ PhysIn(e, from, to) = Phys(e) /\ RightOf(e, to) = {}
      BY <1>1, <1>3, <2>4 DEF LeftOf, RightOf, PhysIn, Overlaps, Phys
    <3> QED
      BY <3>1 DEF One
  <2> QED
    BY <1>1, <2>1, <2>2, <2>3, <2>4
<1> QED
  BY <1>2, <1>3
LeftKept(kept, list, from) ==
  /\ \A k \in 0..Len(list) :
       /\ Tiles(kept[k], 0, Lo(from, Pos(list, 0, k)))
       /\ \A v, text, Known : Reads(v, list, text, Known) => Reads(v, kept[k], text, Known)
  /\ \A k \in 0..Len(list) : \A b : k + 1 <= Len(list) =>
       Count(kept[k + 1], b) = Count(kept[k], b) + One(b, LeftOf(list[k + 1], from))
  /\ \A b : Count(kept[0], b) = 0

LEMMA BeforeFact ==
  ASSUME NEW list, NEW n, Tiles(list, 0, n), NEW from \in Nat, CleanCut(from, n),
         NEW kept, kept = Before(list, from)
  PROVE  LeftKept(kept, list, from)
<1>1. Len(list) \in Nat /\ n \in Nat /\ \A i \in 0..Len(list) : Pos(list, 0, i) \in 0..n
  BY TilesOrder
<1>2. kept[0] = << >> /\ \A i \in 1..Len(list) : kept[i] = KeepLeft(kept[i - 1], list[i], from)
  BY <1>1, BeforeDef
<1> DEFINE Done(k) == /\ Tiles(kept[k], 0, Lo(from, Pos(list, 0, k)))
                      /\ \A v, text, Known : Reads(v, list, text, Known)
                                                => Reads(v, kept[k], text, Known)
           Counts(k) == \A b : Count(kept[k + 1], b)
                               = Count(kept[k], b) + One(b, LeftOf(list[k + 1], from))
<1>3. Done(0)
  <2>1. Lo(from, Pos(list, 0, 0)) = 0 /\ Tiles(<< >>, 0, 0)
    BY TilesEmpty DEF Pos, Lo
  <2>2. \A v, text, Known : Reads(v, << >>, text, Known)
    BY DEF Reads
  <2> QED
    BY <1>2, <2>1, <2>2
<1>4. ASSUME NEW k \in 0..Len(list), k + 1 <= Len(list), Done(k) PROVE Done(k + 1) /\ Counts(k)
  <2>1. PICK d, e : d = kept[k] /\ e = list[k + 1]
    OBVIOUS
  <2>2. /\ k + 1 \in 1..Len(list) /\ kept[k + 1] = KeepLeft(d, e, from)
        /\ Good(e) /\ e.ls = Pos(list, 0, k) /\ Pos(list, 0, k + 1) = End(e) /\ End(e) <= n
    <3>1. k + 1 \in 1..Len(list) /\ k + 1 \in 0..Len(list) /\ k + 1 - 1 = k /\ k + 1 # 0
      BY <1>1, <1>4
    <3>2. Pos(list, 0, k + 1) = End(e)
      BY <2>1, <3>1 DEF Pos
    <3>3. Pos(list, 0, k + 1) \in 0..n
      BY <1>1, <3>1
    <3>4. Good(e) /\ e.ls = Pos(list, 0, k)
      BY <2>1, <3>1 DEF Tiles
    <3>5. End(e) <= n
      BY <1>1, <3>2, <3>3
    <3> QED
      BY <1>2, <2>1, <3>1, <3>2, <3>4, <3>5
  <2>3. Tiles(d, 0, Lo(from, e.ls))
    BY <1>4, <2>1, <2>2
  <2>4. /\ Tiles(KeepLeft(d, e, from), 0, Lo(from, End(e)))
        /\ \A b : Count(KeepLeft(d, e, from), b) = Count(d, b) + One(b, LeftOf(e, from))
        /\ \A v, text, Known : Reads(v, d, text, Known) /\ ReadsExtent(v, e, text, Known)
                                  => Reads(v, KeepLeft(d, e, from), text, Known)
    BY <1>1, <2>2, <2>3, KeepLeftStep
  <2>5. \A v, text, Known : Reads(v, list, text, Known) => ReadsExtent(v, e, text, Known)
    BY <2>1, <2>2 DEF Reads
  <2> QED
    BY <1>4, <2>1, <2>2, <2>4, <2>5
<1>5. \A k \in 0..Len(list) : Done(k)
  <2> HIDE DEF Done, Counts
  <2>1. PICK S : S = {k \in 0..Len(list) : Done(k)}
    OBVIOUS
  <2>2. 0 \in S /\ \A k \in 0..Len(list) : k \in S /\ k + 1 <= Len(list) => k + 1 \in S
    BY <1>1, <1>3, <1>4, <2>1
  <2>3. 0..Len(list) \subseteq S
    BY <1>1, <2>2, Stepwise
  <2> QED
    BY <2>1, <2>3
<1>6. \A k \in 0..Len(list) : k + 1 <= Len(list) => Counts(k)
  <2> HIDE DEF Done, Counts
  <2> QED
    BY <1>4, <1>5
<1>7. \A b : Count(kept[0], b) = 0
  BY <1>2, CountNone DEF Count
<1> QED
  BY <1>5, <1>6, <1>7 DEF LeftKept

RightKept(kept, list, to) ==
  /\ \A k \in 0..Len(list) :
       /\ Tiles(kept[k], to, Hi(to, Pos(list, 0, k)))
       /\ \A v, text, Known : Reads(v, list, text, Known) => Reads(v, kept[k], text, Known)
  /\ \A k \in 0..Len(list) : \A b : k + 1 <= Len(list) =>
       Count(kept[k + 1], b) = Count(kept[k], b) + One(b, RightOf(list[k + 1], to))
  /\ \A b : Count(kept[0], b) = 0

LEMMA AfterFact ==
  ASSUME NEW list, NEW n, Tiles(list, 0, n), NEW to \in Nat, CleanCut(to, n),
         NEW kept, kept = After(list, to)
  PROVE  RightKept(kept, list, to)
<1>1. Len(list) \in Nat /\ n \in Nat /\ \A i \in 0..Len(list) : Pos(list, 0, i) \in 0..n
  BY TilesOrder
<1>2. kept[0] = << >> /\ \A i \in 1..Len(list) : kept[i] = KeepRight(kept[i - 1], list[i], to)
  BY <1>1, AfterDef
<1> DEFINE Done(k) == /\ Tiles(kept[k], to, Hi(to, Pos(list, 0, k)))
                      /\ \A v, text, Known : Reads(v, list, text, Known)
                                                => Reads(v, kept[k], text, Known)
           Counts(k) == \A b : Count(kept[k + 1], b)
                               = Count(kept[k], b) + One(b, RightOf(list[k + 1], to))
<1>3. Done(0)
  <2>1. Hi(to, Pos(list, 0, 0)) = to /\ Tiles(<< >>, to, to)
    BY TilesEmpty DEF Pos, Hi
  <2>2. \A v, text, Known : Reads(v, << >>, text, Known)
    BY DEF Reads
  <2> QED
    BY <1>2, <2>1, <2>2
<1>4. ASSUME NEW k \in 0..Len(list), k + 1 <= Len(list), Done(k) PROVE Done(k + 1) /\ Counts(k)
  <2>1. PICK d, e : d = kept[k] /\ e = list[k + 1]
    OBVIOUS
  <2>2. /\ k + 1 \in 1..Len(list) /\ kept[k + 1] = KeepRight(d, e, to)
        /\ Good(e) /\ e.ls = Pos(list, 0, k) /\ Pos(list, 0, k + 1) = End(e) /\ End(e) <= n
    <3>1. k + 1 \in 1..Len(list) /\ k + 1 \in 0..Len(list) /\ k + 1 - 1 = k /\ k + 1 # 0
      BY <1>1, <1>4
    <3>2. Pos(list, 0, k + 1) = End(e)
      BY <2>1, <3>1 DEF Pos
    <3>3. Pos(list, 0, k + 1) \in 0..n
      BY <1>1, <3>1
    <3>4. Good(e) /\ e.ls = Pos(list, 0, k)
      BY <2>1, <3>1 DEF Tiles
    <3>5. End(e) <= n
      BY <1>1, <3>2, <3>3
    <3> QED
      BY <1>2, <2>1, <3>1, <3>2, <3>4, <3>5
  <2>3. Tiles(d, to, Hi(to, e.ls))
    BY <1>4, <2>1, <2>2
  <2>4. /\ Tiles(KeepRight(d, e, to), to, Hi(to, End(e)))
        /\ \A b : Count(KeepRight(d, e, to), b) = Count(d, b) + One(b, RightOf(e, to))
        /\ \A v, text, Known : Reads(v, d, text, Known) /\ ReadsExtent(v, e, text, Known)
                                  => Reads(v, KeepRight(d, e, to), text, Known)
    BY <1>1, <2>2, <2>3, KeepRightStep
  <2>5. \A v, text, Known : Reads(v, list, text, Known) => ReadsExtent(v, e, text, Known)
    BY <2>1, <2>2 DEF Reads
  <2> QED
    BY <1>4, <2>1, <2>2, <2>4, <2>5
<1>5. \A k \in 0..Len(list) : Done(k)
  <2> HIDE DEF Done, Counts
  <2>1. PICK S : S = {k \in 0..Len(list) : Done(k)}
    OBVIOUS
  <2>2. 0 \in S /\ \A k \in 0..Len(list) : k \in S /\ k + 1 <= Len(list) => k + 1 \in S
    BY <1>1, <1>3, <1>4, <2>1
  <2>3. 0..Len(list) \subseteq S
    BY <1>1, <2>2, Stepwise
  <2> QED
    BY <2>1, <2>3
<1>6. \A k \in 0..Len(list) : k + 1 <= Len(list) => Counts(k)
  <2> HIDE DEF Done, Counts
  <2> QED
    BY <1>4, <1>5
<1>7. \A b : Count(kept[0], b) = 0
  BY <1>2, CountNone DEF Count
<1> QED
  BY <1>5, <1>6, <1>7 DEF RightKept

Rest(O, B, A, list, k) ==
  [b \in Blocks |-> O[b] + Count(B, b) + Count(A, b) + Count(list, b) - CountTo(list, b, k)]

(* What is left of a list when from..to-1 is cut out of it. *)
IsCut(v, w, O, list, from, to, n, B, A) ==
  /\ Tiles(B, 0, Lo(from, n)) /\ Tiles(A, to, Hi(to, n))
  /\ Volume(w) /\ w.overflow = v.overflow
  /\ Balanced(w, [b \in Blocks |-> O[b] + Count(B, b) + Count(A, b)])
  /\ Keeps(v, w, [b \in Blocks |-> O[b] + Count(B, b) + Count(A, b)])
  /\ \A u, text, Known : Reads(u, list, text, Known)
                            => Reads(u, B, text, Known) /\ Reads(u, A, text, Known)

LEMMA CutFact ==
  ASSUME NEW list, NEW n, Tiles(list, 0, n), NEW from \in Nat, NEW to \in Nat, from < to,
         CleanCut(from, n), CleanCut(to, n), NEW v, Volume(v), NEW O, NEW C, Balanced(v, C),
         \A b \in Blocks : O[b] \in Nat /\ C[b] = O[b] + Count(list, b)
  PROVE  IsCut(v, FreeRange(v, list, from, to)[Len(list)], O, list, from, to, n,
               Before(list, from)[Len(list)], After(list, to)[Len(list)])
<1>1. Len(list) \in Nat /\ n \in Nat /\ \A i \in 0..Len(list) : Pos(list, 0, i) \in 0..n
  BY TilesOrder
<1>2. PICK L, R, w : L = Before(list, from) /\ R = After(list, to) /\ w = FreeRange(v, list, from, to)
  OBVIOUS
<1>3. /\ \A k \in 0..Len(list) :
            /\ Tiles(L[k], 0, Lo(from, Pos(list, 0, k)))
            /\ \A u, text, Known : Reads(u, list, text, Known) => Reads(u, L[k], text, Known)
      /\ \A k \in 0..Len(list) : \A b : k + 1 <= Len(list) =>
            Count(L[k + 1], b) = Count(L[k], b) + One(b, LeftOf(list[k + 1], from))
      /\ \A b : Count(L[0], b) = 0
  <2>1. LeftKept(L, list, from)
    BY <1>2, BeforeFact, Zenon
  <2> QED
    BY <2>1, Zenon DEF LeftKept
<1>4. /\ \A k \in 0..Len(list) :
            /\ Tiles(R[k], to, Hi(to, Pos(list, 0, k)))
            /\ \A u, text, Known : Reads(u, list, text, Known) => Reads(u, R[k], text, Known)
      /\ \A k \in 0..Len(list) : \A b : k + 1 <= Len(list) =>
            Count(R[k + 1], b) = Count(R[k], b) + One(b, RightOf(list[k + 1], to))
      /\ \A b : Count(R[0], b) = 0
  <2>1. RightKept(R, list, to)
    BY <1>2, AfterFact, Zenon
  <2> QED
    BY <2>1, Zenon DEF RightKept
<1>5. w[0] = v /\ \A i \in 1..Len(list) : w[i] = FreeBlocks(w[i - 1], PhysIn(list[i], from, to))
  BY <1>1, <1>2, FreeRangeDef
<1>6. \A k \in 0..Len(list) : \A b : /\ Count(L[k], b) \in Nat /\ Count(R[k], b) \in Nat
                                 /\ CountTo(list, b, k) \in Nat /\ Count(list, b) \in Nat
                                 /\ CountTo(list, b, k) <= Count(list, b)
  <2>1. \A k \in 0..Len(list) : Len(L[k]) \in Nat /\ Len(R[k]) \in Nat
    BY <1>3, <1>4 DEF Tiles
  <2> QED
    BY <1>1, <2>1, HoldingFinite, CountRest DEF Count
<1> DEFINE E(k) == Rest(O, L[k], R[k], list, k)
           Done(k) == Volume(w[k]) /\ w[k].overflow = v.overflow /\ Balanced(w[k], E(k)) /\ Keeps(v, w[k], E(k))
<1>7. ASSUME NEW k \in 0..Len(list), NEW b \in Blocks
      PROVE  /\ E(k)[b] = O[b] + Count(L[k], b) + Count(R[k], b) + Count(list, b) - CountTo(list, b, k)
             /\ E(k)[b] \in Nat
  BY <1>6 DEF Rest
<1>8. Done(0)
  <2>1. ASSUME NEW b \in Blocks PROVE E(0)[b] = C[b]
    <3>1. Count(L[0], b) = 0 /\ Count(R[0], b) = 0 /\ CountTo(list, b, 0) = 0 /\ Count(list, b) \in Nat
      BY <1>1, <1>3, <1>4, <1>6, CountNone
    <3> QED
      BY <1>1, <1>7, <3>1
  <2> QED
    BY <1>5, <2>1 DEF Balanced, Keeps
<1>9. ASSUME NEW k \in 0..Len(list), k + 1 <= Len(list), Done(k) PROVE Done(k + 1)
  <2>1. PICK e, S : e = list[k + 1] /\ S = PhysIn(e, from, to)
    OBVIOUS
  <2>2. /\ k + 1 \in 1..Len(list) /\ k + 1 \in 0..Len(list) /\ k \in Nat /\ Good(e) /\ End(e) <= n
        /\ w[k + 1] = FreeBlocks(w[k], S)
    <3>1. k + 1 \in 1..Len(list) /\ k + 1 \in 0..Len(list) /\ k + 1 - 1 = k /\ k + 1 # 0 /\ k \in Nat
      BY <1>1, <1>9
    <3>2. End(e) = Pos(list, 0, k + 1)
      BY <2>1, <3>1 DEF Pos
    <3>3. Pos(list, 0, k + 1) \in 0..n
      BY <1>1, <3>1
    <3> QED
      BY <1>1, <1>5, <2>1, <3>1, <3>2, <3>3 DEF Tiles
  <2>3. /\ S \subseteq Phys(e)
        /\ \A b : One(b, Phys(e)) = One(b, LeftOf(e, from)) + One(b, S) + One(b, RightOf(e, to))
    BY <1>1, <2>1, <2>2, PiecesFact
  <2>4. S \in SUBSET Blocks
    BY <2>2, <2>3, GoodPhys
  <2>5. \A b \in Blocks : E(k + 1)[b] = E(k)[b] - One(b, S)
    <3>1. SUFFICES ASSUME NEW b \in Blocks PROVE E(k + 1)[b] = E(k)[b] - One(b, S)
      OBVIOUS
    <3>2. /\ Count(L[k + 1], b) = Count(L[k], b) + One(b, LeftOf(e, from))
          /\ Count(R[k + 1], b) = Count(R[k], b) + One(b, RightOf(e, to))
          /\ CountTo(list, b, k + 1) = CountTo(list, b, k) + One(b, Phys(e))
      BY <1>3, <1>4, <1>9, <2>1, <2>2, CountStep
    <3>3. One(b, LeftOf(e, from)) \in Nat /\ One(b, RightOf(e, to)) \in Nat /\ One(b, S) \in Nat
      BY DEF One
    <3>4. One(b, Phys(e)) = One(b, LeftOf(e, from)) + One(b, S) + One(b, RightOf(e, to))
      BY <2>3
    <3>5. /\ E(k)[b] = O[b] + Count(L[k], b) + Count(R[k], b) + Count(list, b) - CountTo(list, b, k)
          /\ E(k + 1)[b] = O[b] + Count(L[k + 1], b) + Count(R[k + 1], b) + Count(list, b)
                             - CountTo(list, b, k + 1)
      BY <1>7, <2>2
    <3>6. /\ O[b] \in Nat /\ Count(L[k], b) \in Nat /\ Count(R[k], b) \in Nat
          /\ CountTo(list, b, k) \in Nat /\ Count(list, b) \in Nat
      BY <1>6
    <3> HIDE DEF E
    <3>7. PICK x \in Nat, y \in Nat, z \in Nat : x = One(b, LeftOf(e, from)) /\ y = One(b, RightOf(e, to)) /\ z = One(b, S)
      BY <3>3
    <3>8. PICK l \in Nat, r \in Nat, t \in Nat, c \in Nat, o \in Nat :
             /\ l = Count(L[k], b) /\ r = Count(R[k], b) /\ t = CountTo(list, b, k)
             /\ c = Count(list, b) /\ o = O[b]
      BY <3>6
    <3>9. E(k)[b] = o + l + r + c - t /\ E(k + 1)[b] = o + (l + x) + (r + y) + c - (t + (x + z + y))
      BY <3>2, <3>4, <3>5, <3>7, <3>8
    <3> QED
      <4>1. o + (l + x) + (r + y) + c - (t + (x + z + y)) = (o + l + r + c - t) - z
        BY SMTT(30)
      <4> QED
        BY <3>7, <3>9, <4>1, Zenon
  <2>6. ASSUME NEW b \in S PROVE E(k)[b] >= 1
    <3>1. b \in Phys(e) /\ b \in Blocks /\ k + 1 \in (k + 1)..Len(list)
      BY <2>2, <2>3, <2>4, <2>6
    <3>2. CountTo(list, b, k) + 1 <= Count(list, b)
      BY <1>1, <2>1, <3>1, CountRest
    <3>3. E(k)[b] = O[b] + Count(L[k], b) + Count(R[k], b) + Count(list, b) - CountTo(list, b, k)
      BY <1>7, <3>1
    <3>4. /\ O[b] \in Nat /\ Count(L[k], b) \in Nat /\ Count(R[k], b) \in Nat
          /\ CountTo(list, b, k) \in Nat /\ Count(list, b) \in Nat
      BY <1>6, <3>1
    <3> HIDE DEF E
    <3> QED
      BY <3>2, <3>3, <3>4
  <2> HIDE DEF E
  <2>7. /\ Volume(w[k + 1]) /\ Balanced(w[k + 1], E(k + 1)) /\ Keeps(w[k], w[k + 1], E(k + 1))
        /\ w[k + 1].overflow = w[k].overflow
    <3>1. PICK x, y, F, G : x = w[k] /\ y = w[k + 1] /\ F = E(k) /\ G = E(k + 1)
      OBVIOUS
    <3>2. /\ Volume(x) /\ Balanced(x, F) /\ (\A b \in S : F[b] >= 1)
          /\ (\A b \in Blocks : G[b] = F[b] - One(b, S)) /\ y = FreeBlocks(x, S)
      BY <1>9, <2>2, <2>5, <2>6, <3>1
    <3>3. Volume(y) /\ Balanced(y, G) /\ Keeps(x, y, G) /\ y.overflow = x.overflow
      BY <2>4, <3>2, FreeEffect
    <3> QED
      BY <3>1, <3>3
  <2>8. Keeps(v, w[k + 1], E(k + 1))
    <3>1. ASSUME NEW b \in Blocks, E(k + 1)[b] >= 1 PROVE w[k + 1].disk[b] = v.disk[b]
      <4>1. E(k)[b] \in Nat /\ One(b, S) \in Nat
        BY <1>7 DEF One
      <4>2. E(k)[b] >= 1
        BY <2>5, <3>1, <4>1
      <4> QED
        BY <1>9, <2>7, <3>1, <4>2 DEF Keeps
    <3> QED
      BY <3>1 DEF Keeps
  <2> QED
    BY <1>9, <2>7, <2>8
<1>10. Done(Len(list))
  <2> HIDE DEF Done
  <2>1. PICK S : S = {k \in 0..Len(list) : Done(k)}
    OBVIOUS
  <2>2. 0 \in S /\ \A k \in 0..Len(list) : k \in S /\ k + 1 <= Len(list) => k + 1 \in S
    BY <1>1, <1>8, <1>9, <2>1
  <2>3. 0..Len(list) \subseteq S
    BY <1>1, <2>2, Stepwise
  <2> QED
    BY <1>1, <2>1, <2>3
<1>11. PICK B, A, D : /\ B = L[Len(list)] /\ A = R[Len(list)]
                      /\ D = [b \in Blocks |-> O[b] + Count(B, b) + Count(A, b)]
  OBVIOUS
<1>12. \A b \in Blocks : E(Len(list))[b] = D[b]
  <2>1. SUFFICES ASSUME NEW b \in Blocks PROVE E(Len(list))[b] = D[b]
    OBVIOUS
  <2>2. PICK k : k = Len(list)
    OBVIOUS
  <2>3. E(k)[b] = O[b] + Count(B, b) + Count(A, b) + Count(list, b) - CountTo(list, b, k)
    BY <1>1, <1>7, <1>11, <2>2
  <2>4. /\ O[b] \in Nat /\ Count(B, b) \in Nat /\ Count(A, b) \in Nat /\ Count(list, b) \in Nat
        /\ CountTo(list, b, k) = Count(list, b)
    <3>1. k \in 0..Len(list) /\ B = L[k] /\ A = R[k]
      BY <1>1, <1>11, <2>2
    <3>2. Count(B, b) \in Nat /\ Count(A, b) \in Nat /\ Count(list, b) \in Nat
      BY <1>6, <3>1
    <3>3. CountTo(list, b, k) = Count(list, b)
      BY <2>2 DEF Count
    <3> QED
      BY <2>1, <3>2, <3>3
  <2>5. D[b] = O[b] + Count(B, b) + Count(A, b)
    BY <1>11
  <2> HIDE DEF E
  <2> QED
    BY <2>2, <2>3, <2>4, <2>5
<1>13. Balanced(w[Len(list)], D) /\ Keeps(v, w[Len(list)], D)
  <2> HIDE DEF E
  <2> QED
    BY <1>10, <1>12 DEF Balanced, Keeps
<1>14. Tiles(B, 0, Lo(from, n)) /\ Tiles(A, to, Hi(to, n))
  <2>1. Pos(list, 0, Len(list)) = n /\ Len(list) \in 0..Len(list)
    BY <1>1 DEF Tiles
  <2> QED
    BY <1>3, <1>4, <1>11, <2>1
<1>15. \A u, text, Known : Reads(u, list, text, Known) => Reads(u, B, text, Known) /\ Reads(u, A, text, Known)
  BY <1>1, <1>3, <1>4, <1>11
<1> HIDE DEF E
<1> QED
  BY <1>2, <1>10, <1>11, <1>13, <1>14, <1>15 DEF IsCut
-----------------------------------------------------------------------------
(* What write_extent_list stores, collect_all_extents finds again: inline   *)
(* extents lie one behind the other, and the overflow tree is in order.     *)

LEMMA InlineFact ==
  ASSUME NEW list, NEW n, Tiles(list, 0, n)
  PROVE  Inline(SlotsOf(list)) = [i \in 1..Lo(InlineSlots, Len(list)) |-> list[i]]
<1>1. Len(list) \in Nat /\ InlineSlots \in Nat
  BY ExtentsAssumption DEF Tiles
<1>2. PICK m \in Nat : m = Lo(InlineSlots, Len(list)) /\ m <= Len(list)
  BY <1>1 DEF Lo
<1>3. PICK s : s = SlotsOf(list)
  OBVIOUS
<1>4. s = [i \in 1..m |-> Slot(list[i])]
  BY <1>1, <1>2, <1>3, MinOfTwo DEF SlotsOf, InlineLimit, Lo
<1>5. Len(s) = m /\ \A i \in 1..m : s[i] = Slot(list[i])
  BY <1>4
<1>6. \A i \in 1..m : /\ i \in 1..Len(list) /\ Good(list[i]) /\ list[i].ls = Pos(list, 0, i - 1)
                      /\ s[i].lc = list[i].lc /\ s[i].ps = list[i].ps /\ s[i].pc = list[i].pc
  BY <1>1, <1>2, <1>5 DEF Tiles, Slot
<1>7. PICK end : end = LogicalEnd(s)
  OBVIOUS
<1>8. end[0] = 0 /\ \A i \in 1..m : end[i] = end[i - 1] + s[i].lc
  BY <1>5, <1>7, LogicalEndDef
<1>9. PICK S : S = {k \in 0..m : end[k] = Pos(list, 0, k)}
  OBVIOUS
<1>10. 0 \in S
  BY <1>8, <1>9 DEF Pos
<1>11. ASSUME NEW k \in 0..m, k \in S, k + 1 <= m PROVE k + 1 \in S
  <2>1. k + 1 \in 1..m /\ k + 1 \in 0..m /\ k + 1 - 1 = k /\ k + 1 # 0
    BY <1>2, <1>11
  <2>2. end[k + 1] = end[k] + list[k + 1].lc /\ end[k] = list[k + 1].ls
    BY <1>6, <1>8, <1>9, <1>11, <2>1
  <2>3. Pos(list, 0, k + 1) = list[k + 1].ls + list[k + 1].lc
    BY <2>1 DEF Pos, End
  <2> QED
    BY <1>9, <2>1, <2>2, <2>3
<1>12. 0..m \subseteq S
  BY <1>2, <1>10, <1>11, Stepwise
<1>13. ASSUME NEW i \in 1..m PROVE Extent(end[i - 1], s[i].lc, s[i].ps, s[i].pc) = list[i]
  <2>1. i - 1 \in 0..m
    BY <1>2, <1>13
  <2>2. end[i - 1] = list[i].ls
    BY <1>6, <1>9, <1>12, <1>13, <2>1
  <2>3. list[i] \in Extents
    BY <1>6, <1>13, GoodFields
  <2> QED
    BY <1>6, <1>13, <2>2, <2>3 DEF Extent, Extents
<1>14. Inline(s) = [i \in 1..m |-> Extent(end[i - 1], s[i].lc, s[i].ps, s[i].pc)]
  BY <1>5, <1>7 DEF Inline
<1>15. Inline(s) = [i \in 1..m |-> list[i]]
  BY <1>13, <1>14
<1> QED
  BY <1>2, <1>3, <1>15

(* A set of extents with different logical starts has one order. *)
LEMMA OrderFact ==
  ASSUME NEW c \in Nat, NEW M, M = [i \in 1..c |-> M[i]],
         \A i, j \in 1..c : i < j => M[i].ls < M[j].ls, \A i \in 1..c : M[i].ls \in Nat
  PROVE  InKeyOrder({M[i] : i \in 1..c}) = M
<1>1. PICK S : S = {M[i] : i \in 1..c}
  OBVIOUS
<1>2. \A i, j \in 1..c : M[i] = M[j] => i = j
  <2>1. ASSUME NEW i \in 1..c, NEW j \in 1..c, M[i] = M[j], i # j PROVE FALSE
    <3>1. i < j \/ j < i
      BY <2>1
    <3>2. M[i].ls < M[j].ls \/ M[j].ls < M[i].ls
      BY <3>1
    <3> QED
      BY <2>1, <3>2
  <2> QED
    BY <2>1
<1>3. M \in [1..c -> S]
  BY <1>1
<1>4. M \in Injection(1..c, S) /\ M \in Surjection(1..c, S)
  BY <1>1, <1>2, <1>3 DEF Injection, Surjection, IsInjective
<1>5. IsFiniteSet(1..c) /\ Cardinality(1..c) = c
  BY FS_Interval
<1>6. IsFiniteSet(S) /\ Cardinality(S) = c
  BY <1>4, <1>5, FS_Surjection
<1>7. PICK q : q = InKeyOrder(S)
  OBVIOUS
<1>8. q \in Injection(1..c, S) /\ \A i, j \in DOMAIN q : i < j => q[i].ls <= q[j].ls
  <2>1. \A i, j \in DOMAIN M : i < j => M[i].ls <= M[j].ls
    BY <1>3
  <2>2. \E x \in Injection(1..c, S) : \A i, j \in DOMAIN x : i < j => x[i].ls <= x[j].ls
    BY <1>4, <2>1
  <2>3. q = CHOOSE x \in Injection(1..c, S) : \A i, j \in DOMAIN x : i < j => x[i].ls <= x[j].ls
    BY <1>6, <1>7 DEF InKeyOrder
  <2> QED
    BY <2>2, <2>3
<1>9. q \in Surjection(1..c, S)
  BY <1>5, <1>6, <1>8, FS_Injection
<1>10. /\ q \in [1..c -> S] /\ \A i, j \in 1..c : i < j => q[i].ls <= q[j].ls
       /\ \A i, j \in 1..c : q[i] = q[j] => i = j
       /\ \A x \in S : \E i \in 1..c : q[i] = x
  BY <1>8, <1>9 DEF Injection, Surjection, IsInjective
<1>11. \A i \in 1..c : q[i] = M[i]
  <2>1. SUFFICES ASSUME NEW i0 \in 1..c, q[i0] # M[i0] PROVE FALSE
    OBVIOUS
  <2>2. PICK T : T = {i \in 1..c : q[i] # M[i]}
    OBVIOUS
  <2>3. T \in SUBSET Nat /\ T # {}
    BY <2>1, <2>2
  <2>4. PICK i \in T : \A k \in T : i <= k
    BY <2>3, LeastMember
  <2>5. i \in 1..c /\ q[i] # M[i] /\ \A k \in 1..c : k < i => q[k] = M[k]
    BY <2>2, <2>4
  <2>6. PICK k \in 1..c : q[i] = M[k]
    BY <1>1, <1>10, <2>5
  <2>7. PICK l \in 1..c : q[l] = M[i]
    BY <1>1, <1>10, <2>5
  <2>8. k > i
    <3>1. k # i
      BY <2>5, <2>6
    <3>2. ~(k < i)
      <4>1. SUFFICES ASSUME k < i PROVE FALSE
        OBVIOUS
      <4>2. q[k] = q[i]
        BY <2>5, <2>6, <4>1
      <4> QED
        BY <1>10, <2>5, <4>1, <4>2
    <3> QED
      BY <2>5, <3>1, <3>2
  <2>9. l > i
    <3>1. l # i
      BY <2>5, <2>7
    <3>2. ~(l < i)
      <4>1. SUFFICES ASSUME l < i PROVE FALSE
        OBVIOUS
      <4>2. M[l] = M[i]
        BY <2>5, <2>7, <4>1
      <4> QED
        BY <1>2, <2>5, <4>1, <4>2
    <3> QED
      BY <2>5, <3>1, <3>2
  <2>10. M[i].ls < M[k].ls /\ M[k].ls <= M[i].ls
    BY <1>10, <2>5, <2>6, <2>7, <2>8, <2>9
  <2>11. M[i].ls \in Nat /\ M[k].ls \in Nat
    BY <2>5
  <2> QED
    BY <2>10, <2>11
<1>12. q = M
  BY <1>3, <1>10, <1>11
<1> QED
  BY <1>1, <1>7, <1>12

LEMMA SameSequence ==
  ASSUME NEW X, NEW s \in Seq(X), NEW t \in Seq(X), Len(s) = Len(t),
         \A i \in 1..Len(s) : s[i] = t[i]
  PROVE  s = t
OBVIOUS

LEMMA ConcatAt ==
  ASSUME NEW X, NEW s \in Seq(X), NEW t \in Seq(X)
  PROVE  /\ s \o t \in Seq(X) /\ Len(s \o t) = Len(s) + Len(t)
         /\ \A i \in 1..Len(s) : (s \o t)[i] = s[i]
         /\ \A i \in 1..Len(t) : (s \o t)[Len(s) + i] = t[i]
OBVIOUS

LEMMA StoredFact ==
  ASSUME NEW list, NEW n, Tiles(list, 0, n)
  PROVE  Inline(SlotsOf(list)) \o InKeyOrder(OverflowOf(list)) = list
<1>1. Len(list) \in Nat /\ InlineSlots \in Nat /\ list \in Seq(Extents)
  BY ExtentsAssumption DEF Tiles
<1>2. PICK m \in Nat : m = Lo(InlineSlots, Len(list)) /\ m <= Len(list)
  BY <1>1 DEF Lo
<1>3. PICK c \in Nat : c = Len(list) - m
  BY <1>1, <1>2
<1>4. PICK M : M = [i \in 1..c |-> list[m + i]]
  OBVIOUS
<1>5. ASSUME NEW i \in 1..c PROVE m + i \in 1..Len(list) /\ M[i] = list[m + i] /\ M[i].ls \in Nat
  <2>1. m + i \in 1..Len(list) /\ M[i] = list[m + i]
    BY <1>1, <1>2, <1>3, <1>4, <1>5
  <2>2. Good(list[m + i])
    BY <2>1 DEF Tiles
  <2> QED
    BY <2>1, <2>2, GoodFields
<1>6. ASSUME NEW i \in 1..c, NEW j \in 1..c, i < j PROVE M[i].ls < M[j].ls
  <2>1. /\ M[i].ls = Pos(list, 0, m + i - 1) /\ M[j].ls = Pos(list, 0, m + j - 1)
    <3>1. /\ m + i \in 1..Len(list) /\ M[i] = list[m + i]
          /\ m + j \in 1..Len(list) /\ M[j] = list[m + j]
      BY <1>5, <1>6
    <3>2. \A k \in 1..Len(list) : list[k].ls = Pos(list, 0, k - 1)
      BY DEF Tiles
    <3>3. PICK x, y : x = m + i /\ y = m + j
      OBVIOUS
    <3>4. M[i].ls = Pos(list, 0, x - 1) /\ M[j].ls = Pos(list, 0, y - 1)
      BY <3>1, <3>2, <3>3
    <3> QED
      BY <3>3, <3>4
  <2>2. m + i - 1 \in 0..Len(list) /\ m + j - 1 \in 0..Len(list) /\ m + i - 1 < m + j - 1
    BY <1>1, <1>2, <1>3, <1>6
  <2> QED
    BY <2>1, <2>2, TilesOrder
<1>7. OverflowOf(list) = {M[i] : i \in 1..c}
  <2>1. OverflowOf(list) = {list[i] : i \in InlineSlots + 1 .. Len(list)}
    BY DEF OverflowOf, InlineLimit
  <2>2. CASE Len(list) <= InlineSlots
    <3>1. c = 0 /\ InlineSlots + 1 .. Len(list) = {}
      BY <1>1, <1>2, <1>3, <2>2 DEF Lo
    <3> QED
      BY <2>1, <3>1
  <2>3. CASE Len(list) > InlineSlots
    <3>1. m = InlineSlots
      BY <1>1, <1>2, <2>3 DEF Lo
    <3>2. ASSUME NEW i \in InlineSlots + 1 .. Len(list) PROVE i - m \in 1..c /\ list[i] = M[i - m]
      <4>1. i - m \in 1..c /\ m + (i - m) = i
        BY <1>1, <1>2, <1>3, <3>1, <3>2
      <4> QED
        BY <1>4, <4>1
    <3>3. \A i \in 1..c : m + i \in InlineSlots + 1 .. Len(list)
      BY <1>1, <1>3, <3>1
    <3>4. \A i \in 1..c : M[i] = list[m + i]
      BY <1>5
    <3>5. OverflowOf(list) \subseteq {M[i] : i \in 1..c}
      BY <2>1, <3>2
    <3>6. {M[i] : i \in 1..c} \subseteq OverflowOf(list)
      BY <2>1, <3>3, <3>4
    <3> QED
      BY <3>5, <3>6
  <2> QED
    BY <1>1, <2>2, <2>3
<1>8. InKeyOrder(OverflowOf(list)) = M
  <2>1. M = [i \in 1..c |-> M[i]]
    BY <1>4
  <2> QED
    BY <1>5, <1>6, <1>7, <2>1, OrderFact
<1>9. PICK I : I = Inline(SlotsOf(list)) /\ I = [i \in 1..m |-> list[i]]
  BY <1>2, InlineFact
<1>10. \A i \in 1..Len(list) : list[i] \in Extents
  BY <1>1
<1>11. I \in Seq(Extents) /\ Len(I) = m /\ \A i \in 1..m : I[i] = list[i]
  BY <1>1, <1>2, <1>9, <1>10
<1>12. M \in Seq(Extents) /\ Len(M) = c /\ \A i \in 1..c : M[i] = list[m + i]
  <2>1. \A i \in 1..c : M[i] = list[m + i] /\ M[i] \in Extents
    BY <1>5, <1>10, Zenon
  <2> QED
    BY <1>3, <1>4, <2>1
<1>13. PICK J : J = I \o M
  OBVIOUS
<1>14. J \in Seq(Extents) /\ Len(J) = m + c /\ Len(J) = Len(list)
  <2>1. J \in Seq(Extents) /\ Len(J) = Len(I) + Len(M)
    BY <1>11, <1>12, <1>13, ConcatAt, Zenon
  <2> QED
    BY <1>1, <1>2, <1>3, <1>11, <1>12, <2>1
<1>15. /\ \A i \in 1..m : J[i] = I[i]
       /\ \A i \in 1..c : J[m + i] = M[i]
  <2>1. /\ \A i \in 1..Len(I) : J[i] = I[i]
        /\ \A i \in 1..Len(M) : J[Len(I) + i] = M[i]
    <3>1. I \in Seq(Extents) /\ M \in Seq(Extents)
      BY <1>11, <1>12
    <3>2. /\ \A i \in 1..Len(I) : (I \o M)[i] = I[i]
          /\ \A i \in 1..Len(M) : (I \o M)[Len(I) + i] = M[i]
      BY <3>1
    <3> QED
      BY <1>13, <3>2, Zenon
  <2> QED
    BY <1>11, <1>12, <2>1
<1>16. ASSUME NEW i \in 1..Len(list) PROVE J[i] = list[i]
  <2>1. CASE i <= m
    <3>1. i \in 1..m
      BY <1>1, <1>2, <1>16, <2>1
    <3> QED
      BY <1>11, <1>15, <3>1
  <2>2. CASE ~(i <= m)
    <3>1. i - m \in 1..c /\ m + (i - m) = i
      BY <1>1, <1>2, <1>3, <1>16, <2>2
    <3>2. PICK k \in 1..c : m + k = i
      BY <3>1
    <3> QED
      BY <1>12, <1>15, <3>2
  <2> QED
    BY <2>1, <2>2
<1>17. I \o M = list
  BY <1>1, <1>13, <1>16, <1>14, SameSequence
<1> QED
  BY <1>8, <1>9, <1>17
-----------------------------------------------------------------------------
(* The inductive invariant: the extents of every file tile it, lie where    *)
(* the inode and the overflow tree say, and read as its text; a block has   *)
(* as many references as the extents of all files that hold it.             *)

HoldersOf(L, F, b) == UNION {{g} \X HoldingTo(L[g], b, Len(L[g])) : g \in F}
RefsOf(L, F, b) == Cardinality(HoldersOf(L, F, b))

FileOK(v, f, node, list, text) ==
  /\ node.live \in BOOLEAN /\ node.size \in 0..MaxSize
  /\ node = [live |-> node.live, size |-> node.size, slots |-> SlotsOf(list)]
  /\ ~node.live => node.size = 0
  /\ v.overflow[f] = OverflowOf(list)
  /\ Tiles(list, 0, node.size)
  /\ text \in [1..node.size -> Values] /\ Reads(v, list, text, Nat)

Lists == [f \in Files |-> Collect(vol, f)]

IInv ==
  /\ Volume(vol)
  /\ inode = [f \in Files |-> inode[f]] /\ content = [f \in Files |-> content[f]]
  /\ \A f \in Files : FileOK(vol, f, inode[f], Lists[f], content[f])
  /\ Balanced(vol, [b \in Blocks |-> RefsOf(Lists, Files, b)])
-----------------------------------------------------------------------------
(* References counted file by file.                                         *)

LEMMA HoldersFinite ==
  ASSUME NEW F, IsFiniteSet(F), NEW L, \A g \in F : Len(L[g]) \in Nat, NEW b
  PROVE  IsFiniteSet(HoldersOf(L, F, b)) /\ RefsOf(L, F, b) \in Nat
<1>1. PICK h : h = [g \in F |-> {g} \X HoldingTo(L[g], b, Len(L[g]))]
  OBVIOUS
<1>2. PICK T : T = {{g} \X HoldingTo(L[g], b, Len(L[g])) : g \in F}
  OBVIOUS
<1>3. h \in Surjection(F, T)
  BY <1>1, <1>2 DEF Surjection
<1>4. IsFiniteSet(T)
  BY <1>3, FS_Surjection
<1>5. ASSUME NEW X \in T PROVE IsFiniteSet(X)
  <2>1. PICK g \in F : X = {g} \X HoldingTo(L[g], b, Len(L[g]))
    BY <1>2, <1>5
  <2>2. IsFiniteSet(HoldingTo(L[g], b, Len(L[g]))) /\ IsFiniteSet({g})
    BY <2>1, HoldingFinite, FS_Singleton
  <2> QED
    BY <2>1, <2>2, FS_Product
<1>6. IsFiniteSet(UNION T)
  BY <1>4, <1>5, FS_UNION
<1>7. HoldersOf(L, F, b) = UNION T
  BY <1>2 DEF HoldersOf
<1> QED
  BY <1>6, <1>7, FS_CardinalityType DEF RefsOf

LEMMA RefsSplit ==
  ASSUME NEW F, IsFiniteSet(F), NEW L, \A g \in F : Len(L[g]) \in Nat, NEW b, NEW f \in F
  PROVE  RefsOf(L, F, b) = RefsOf(L, F \ {f}, b) + Count(L[f], b)
<1>1. PICK H : H = HoldingTo(L[f], b, Len(L[f]))
  OBVIOUS
<1>2. PICK R : R = HoldersOf(L, F \ {f}, b)
  OBVIOUS
<1>3. IsFiniteSet(H) /\ Cardinality(H) = Count(L[f], b) /\ Cardinality(H) \in Nat
  BY <1>1, HoldingFinite DEF Count, CountTo
<1>4. IsFiniteSet({f} \X H) /\ Cardinality({f} \X H) = Cardinality(H)
  <2>1. IsFiniteSet({f}) /\ Cardinality({f}) = 1
    BY FS_Singleton
  <2>2. IsFiniteSet({f} \X H) /\ Cardinality({f} \X H) = Cardinality({f}) * Cardinality(H)
    BY <1>3, <2>1, FS_Product, Zenon
  <2> QED
    BY <1>3, <2>1, <2>2
<1>5. IsFiniteSet(F \ {f})
  BY FS_Difference
<1>6. IsFiniteSet(R) /\ Cardinality(R) = RefsOf(L, F \ {f}, b) /\ Cardinality(R) \in Nat
  BY <1>2, <1>5, HoldersFinite DEF RefsOf
<1>7. HoldersOf(L, F, b) = R \cup ({f} \X H)
  <2>1. \A x : x \in HoldersOf(L, F, b)
                 <=> \E g \in F : x \in {g} \X HoldingTo(L[g], b, Len(L[g]))
    BY Zenon DEF HoldersOf
  <2>2. \A x : x \in R <=> \E g \in F \ {f} : x \in {g} \X HoldingTo(L[g], b, Len(L[g]))
    BY <1>2, Zenon DEF HoldersOf
  <2>3. \A x : x \in HoldersOf(L, F, b) <=> x \in R \/ x \in {f} \X H
    BY <1>1, <2>1, <2>2, Zenon
  <2> QED
    BY <2>3, Zenon
<1>8. R \cap ({f} \X H) = {}
  <2>1. \A x \in R : \E g \in F \ {f} : x[1] = g
    BY <1>2 DEF HoldersOf
  <2> QED
    BY <2>1
<1>9. Cardinality(R \cup ({f} \X H)) = Cardinality(R) + Cardinality({f} \X H) - Cardinality({})
  <2>1. PICK X : X = {f} \X H
    OBVIOUS
  <2>2. Cardinality(R \cup X) = Cardinality(R) + Cardinality(X) - Cardinality(R \cap X)
    BY <1>4, <1>6, <2>1, FS_Union, Zenon
  <2> QED
    BY <1>8, <2>1, <2>2, Zenon
<1> QED
  BY <1>3, <1>4, <1>6, <1>7, <1>9, FS_EmptySet DEF RefsOf

LEMMA RefsAgree ==
  ASSUME NEW F, NEW L, NEW M, \A g \in F : L[g] = M[g], NEW b
  PROVE  RefsOf(L, F, b) = RefsOf(M, F, b)
<1>1. \A g \in F : {g} \X HoldingTo(L[g], b, Len(L[g])) = {g} \X HoldingTo(M[g], b, Len(M[g]))
  OBVIOUS
<1>2. HoldersOf(L, F, b) = HoldersOf(M, F, b)
  BY <1>1 DEF HoldersOf
<1> QED
  BY <1>2 DEF RefsOf
-----------------------------------------------------------------------------
(* A call changes one file.  O counts the references of the other files.    *)

Others(f) == [b \in Blocks |-> RefsOf(Lists, Files \ {f}, b)]

FileState(v, f, node, list, text, O) ==
  /\ Volume(v) /\ FileOK(v, f, node, list, text)
  /\ Balanced(v, [b \in Blocks |-> O[b] + Count(list, b)])

(* The volume w, the inode and the text that a call leaves are right, and   *)
(* what other files hold is as it was.                                      *)
Outcome(f, w, node, text, O) ==
  /\ \E M : FileState(w, f, node, M, text, O)
  /\ Keeps(vol, w, O)
  /\ \A g \in Files \ {f} : w.overflow[g] = vol.overflow[g]

LEMMA CollectFact ==
  ASSUME NEW v, NEW f, NEW node, NEW M, NEW text, FileOK(v, f, node, M, text)
  PROVE  Inline(node.slots) \o InKeyOrder(v.overflow[f]) = M
<1>1. node.slots = SlotsOf(M) /\ v.overflow[f] = OverflowOf(M) /\ Tiles(M, 0, node.size)
  BY DEF FileOK
<1> QED
  BY <1>1, StoredFact, Zenon

LEMMA ReadyFact ==
  ASSUME IInv, NEW f \in Files
  PROVE  /\ FileState(vol, f, inode[f], Lists[f], content[f], Others(f))
         /\ \A b \in Blocks : Others(f)[b] \in Nat
         /\ \A g \in Files \ {f} : \A b \in Blocks : Count(Lists[g], b) >= 1 => Others(f)[b] >= 1
<1>1. IsFiniteSet(Files) /\ IsFiniteSet(Files \ {f})
  BY ExtentsAssumption, FS_Difference
<1>2. \A g \in Files : Len(Lists[g]) \in Nat
  BY DEF IInv, FileOK, Tiles
<1>3. \A b \in Blocks : Others(f)[b] = RefsOf(Lists, Files \ {f}, b)
  BY DEF Others
<1>4. \A b : RefsOf(Lists, Files \ {f}, b) \in Nat
  BY <1>1, <1>2, HoldersFinite
<1>5. \A b : RefsOf(Lists, Files, b) = RefsOf(Lists, Files \ {f}, b) + Count(Lists[f], b)
  BY <1>1, <1>2, RefsSplit
<1>6. [b \in Blocks |-> RefsOf(Lists, Files, b)] = [b \in Blocks |-> Others(f)[b] + Count(Lists[f], b)]
  BY <1>3, <1>5
<1>7. FileState(vol, f, inode[f], Lists[f], content[f], Others(f))
  BY <1>6 DEF IInv, FileState
<1>8. ASSUME NEW g \in Files \ {f}, NEW b \in Blocks, Count(Lists[g], b) >= 1
      PROVE  Others(f)[b] >= 1
  <2>1. RefsOf(Lists, Files \ {f}, b) = RefsOf(Lists, (Files \ {f}) \ {g}, b) + Count(Lists[g], b)
    BY <1>1, <1>2, <1>8, RefsSplit
  <2>2. IsFiniteSet((Files \ {f}) \ {g})
    BY <1>1, FS_Difference
  <2>3. RefsOf(Lists, (Files \ {f}) \ {g}, b) \in Nat /\ Count(Lists[g], b) \in Nat
    BY <1>2, <1>8, <2>2, HoldersFinite, HoldingFinite DEF Count
  <2> QED
    BY <1>3, <1>8, <2>1, <2>3
<1> QED
  BY <1>3, <1>4, <1>7, <1>8

LEMMA UpdateFact ==
  ASSUME IInv, NEW f \in Files, NEW node, NEW text, Outcome(f, vol', node, text, Others(f)),
         inode' = [inode EXCEPT ![f] = node], content' = [content EXCEPT ![f] = text]
  PROVE  IInv'
<1>1. PICK M : FileState(vol', f, node, M, text, Others(f))
  BY DEF Outcome
<1>2. Volume(vol') /\ Balanced(vol', [b \in Blocks |-> Others(f)[b] + Count(M, b)])
  BY <1>1 DEF FileState
<1>3. inode' = [g \in Files |-> inode'[g]] /\ content' = [g \in Files |-> content'[g]]
  BY DEF IInv
<1>4. inode'[f] = node /\ content'[f] = text /\ FileOK(vol', f, inode'[f], M, content'[f])
  BY <1>1 DEF IInv, FileState
<1>5. ASSUME NEW g \in Files \ {f} PROVE FileOK(vol', g, inode'[g], Lists[g], content'[g])
  <2>1. FileOK(vol, g, inode[g], Lists[g], content[g])
    BY <1>5 DEF IInv
  <2>2. inode'[g] = inode[g] /\ content'[g] = content[g] /\ vol'.overflow[g] = vol.overflow[g]
    BY <1>5 DEF IInv, Outcome
  <2>3. Tiles(Lists[g], 0, inode[g].size) /\ Reads(vol, Lists[g], content[g], Nat)
    BY <2>1 DEF FileOK
  <2>4. Keeps(vol, vol', Others(f))
    BY DEF Outcome
  <2>5. \A b \in Blocks : Count(Lists[g], b) >= 1 => Others(f)[b] >= 1
    BY <1>5, ReadyFact
  <2>6. Reads(vol', Lists[g], content[g], Nat)
    BY <2>3, <2>4, <2>5, ReadsKept
  <2> QED
    BY <2>1, <2>2, <2>6 DEF FileOK
<1>6. Lists'[f] = M
  <2>1. Lists'[f] = Inline(inode'[f].slots) \o InKeyOrder(vol'.overflow[f])
    BY DEF Lists, Collect
  <2> QED
    BY <1>4, <2>1, CollectFact
<1>7. ASSUME NEW g \in Files \ {f} PROVE Lists'[g] = Lists[g]
  <2>1. Lists'[g] = Inline(inode'[g].slots) \o InKeyOrder(vol'.overflow[g])
    BY <1>7 DEF Lists, Collect
  <2> QED
    BY <1>5, <1>7, <2>1, CollectFact
<1>8. \A g \in Files : FileOK(vol', g, inode'[g], Lists'[g], content'[g])
  BY <1>4, <1>5, <1>6, <1>7
<1>9. ASSUME NEW b \in Blocks PROVE RefsOf(Lists', Files, b) = Others(f)[b] + Count(M, b)
  <2>1. IsFiniteSet(Files) /\ \A g \in Files : Len(Lists'[g]) \in Nat
    BY <1>8, ExtentsAssumption DEF FileOK, Tiles
  <2>2. RefsOf(Lists', Files, b) = RefsOf(Lists', Files \ {f}, b) + Count(Lists'[f], b)
    BY <2>1, RefsSplit
  <2>3. RefsOf(Lists', Files \ {f}, b) = RefsOf(Lists, Files \ {f}, b)
    BY <1>7, RefsAgree
  <2> QED
    BY <1>6, <1>9, <2>2, <2>3 DEF Others
<1>10. [b \in Blocks |-> RefsOf(Lists', Files, b)] = [b \in Blocks |-> Others(f)[b] + Count(M, b)]
  BY <1>9
<1>11. Balanced(vol', [b \in Blocks |-> RefsOf(Lists', Files, b)])
  BY <1>2, <1>10
<1> QED
  BY <1>2, <1>3, <1>8, <1>11 DEF IInv

(* A volume that differs only in its overflow tree and its hint. *)
LEMMA SameDisk ==
  ASSUME NEW v, NEW w, w.disk = v.disk, w.bitmap = v.bitmap, w.refs = v.refs, NEW C, NEW D, NEW u
  PROVE  /\ Balanced(v, C) => Balanced(w, C)
         /\ Keeps(u, v, D) => Keeps(u, w, D)
         /\ \A list, text, Known : Reads(v, list, text, Known) => Reads(w, list, text, Known)
BY DEF Balanced, Keeps, Reads, ReadsExtent, ReadExtent

LEMMA OverflowType ==
  ASSUME NEW list, NEW n, Tiles(list, 0, n)
  PROVE  OverflowOf(list) \in SUBSET Extents
<1>1. Len(list) \in Nat /\ \A i \in 1..Len(list) : list[i] \in Extents
  BY DEF Tiles
<1>2. \A i \in InlineSlots + 1 .. Len(list) : i \in 1..Len(list)
  BY <1>1, ExtentsAssumption
<1> QED
  BY <1>1, <1>2 DEF OverflowOf, InlineLimit

LEMMA StoreFact ==
  ASSUME NEW f \in Files, NEW v, Volume(v), NEW O, NEW list, NEW node, NEW text,
         Tiles(list, 0, node.size), Balanced(v, [b \in Blocks |-> O[b] + Count(list, b)]),
         Reads(v, list, text, Nat), Keeps(vol, v, O), v.overflow = vol.overflow,
         node = [live |-> TRUE, size |-> node.size, slots |-> node.slots],
         node.size \in 0..MaxSize, text \in [1..node.size -> Values],
         NEW r, r = WriteExtentList(v, f, node, list)
  PROVE  Outcome(f, r.vol, r.node, text, O)
<1>1. PICK M : M = Coalesce(list)
  OBVIOUS
<1>2. Tiles(M, 0, node.size) /\ Reads(v, M, text, Nat) /\ \A b : Count(M, b) = Count(list, b)
  BY <1>1, CoalesceFact
<1>3. /\ r.vol = [v EXCEPT !.overflow[f] = OverflowOf(M)]
      /\ r.node = [node EXCEPT !.slots = SlotsOf(M)]
  BY <1>1 DEF WriteExtentList, Result
<1>4. OverflowOf(M) \in SUBSET Extents
  BY <1>2, OverflowType
<1>5. PICK w : w = r.vol
  OBVIOUS
<1>6. /\ Volume(w) /\ w.overflow[f] = OverflowOf(M) /\ w.disk = v.disk
      /\ w.bitmap = v.bitmap /\ w.refs = v.refs
      /\ \A g \in Files \ {f} : w.overflow[g] = vol.overflow[g]
  <2>1. PICK S \in SUBSET Extents : S = OverflowOf(M)
    BY <1>4
  <2>2. w = [v EXCEPT !.overflow[f] = S]
    BY <1>3, <1>5, <2>1
  <2>3. /\ Volume(w) /\ w.overflow[f] = S /\ w.disk = v.disk
        /\ w.bitmap = v.bitmap /\ w.refs = v.refs
        /\ \A g \in Files \ {f} : w.overflow[g] = v.overflow[g]
    BY <2>2 DEF Volume
  <2> QED
    BY <2>1, <2>3
<1>7. [b \in Blocks |-> O[b] + Count(list, b)] = [b \in Blocks |-> O[b] + Count(M, b)]
  BY <1>2
<1>8. Balanced(w, [b \in Blocks |-> O[b] + Count(M, b)]) /\ Keeps(vol, w, O)
  BY <1>6, <1>7, SameDisk
<1>9. Reads(w, M, text, Nat)
  BY <1>2, <1>6, SameDisk
<1>10. /\ r.node = [live |-> TRUE, size |-> node.size, slots |-> SlotsOf(M)]
       /\ r.node.live = TRUE /\ r.node.size = node.size /\ r.node.slots = SlotsOf(M)
  <2>1. PICK x, y : x = node.size /\ y = node.slots
    OBVIOUS
  <2>2. node = [live |-> TRUE, size |-> x, slots |-> y]
    BY <2>1
  <2>3. r.node = [live |-> TRUE, size |-> x, slots |-> SlotsOf(M)]
    BY <1>3, <2>2
  <2> QED
    BY <2>1, <2>3
<1>11. FileOK(w, f, r.node, M, text)
  BY <1>2, <1>6, <1>9, <1>10 DEF FileOK
<1>12. FileState(w, f, r.node, M, text, O)
  BY <1>6, <1>8, <1>11 DEF FileState
<1> QED
  BY <1>5, <1>6, <1>8, <1>12 DEF Outcome
-----------------------------------------------------------------------------
(* Reading: every block of a file lies in an extent, and a new extent reads *)
(* as what was written to its blocks.                                       *)

LEMMA CoverFact ==
  ASSUME NEW list, NEW c \in Nat, Tiles(list, 0, c), NEW lb \in Nat, lb < c
  PROVE  /\ Covering(list, lb) # {} /\ Covering(list, lb) \in SUBSET (1..Len(list))
         /\ \A i \in 1..Len(list) : i \in Covering(list, lb) <=> lb \in Span(list[i].ls, list[i].lc)
<1>1. Len(list) \in Nat /\ DOMAIN list = 1..Len(list)
  BY DEF Tiles
<1>2. PICK S : S = {k \in 0..Len(list) : Pos(list, 0, k) > lb}
  OBVIOUS
<1>3. Len(list) \in S
  BY <1>1, <1>2 DEF Tiles
<1>4. PICK m \in S : \A k \in S : m <= k
  <2>1. S \in SUBSET Nat /\ S # {}
    BY <1>2, <1>3
  <2> QED
    BY <2>1, LeastMember, Zenon
<1>5. m # 0
  BY <1>2, <1>4 DEF Pos
<1>6. m \in 1..Len(list) /\ m - 1 \in 0..Len(list) /\ m - 1 \notin S
  <2>1. m \in 0..Len(list)
    BY <1>2, <1>4
  <2>2. m \in 1..Len(list) /\ m - 1 \in 0..Len(list) /\ ~(m <= m - 1)
    BY <1>1, <1>5, <2>1
  <2> QED
    BY <1>4, <2>2
<1>7. Pos(list, 0, m - 1) \in Nat /\ Pos(list, 0, m - 1) <= lb
  <2>1. Pos(list, 0, m - 1) \in 0..c
    BY <1>6, TilesOrder
  <2> QED
    BY <1>2, <1>6, <2>1
<1>8. Good(list[m]) /\ list[m].ls <= lb /\ End(list[m]) > lb
  BY <1>2, <1>4, <1>5, <1>6, <1>7 DEF Tiles, Pos
<1>9. lb \in Span(list[m].ls, list[m].lc)
  BY <1>8, GoodFields DEF Span
<1> QED
  BY <1>1, <1>6, <1>9 DEF Covering

(* Reading does not depend on text and blocks outside the range tiled. *)
SameText(s, t, a, c, K, H) ==
  \A lb \in Nat : a <= lb /\ lb < c /\ lb \in H => lb \in K /\ s[lb + 1] = t[lb + 1]

LEMMA ReadsText ==
  ASSUME NEW list, NEW a \in Nat, NEW c, Tiles(list, a, c), NEW v, NEW s, NEW t, NEW K, NEW H,
         Reads(v, list, s, K), SameText(s, t, a, c, K, H)
  PROVE  Reads(v, list, t, H)
<1>1. SUFFICES ASSUME NEW i \in 1..Len(list), NEW lb \in Span(list[i].ls, list[i].lc), lb \in H
               PROVE  ReadExtent(v, list[i], lb) = t[lb + 1]
  BY DEF Reads, ReadsExtent
<1>2. Good(list[i]) /\ list[i].ls = Pos(list, a, i - 1) /\ i \in 1..Len(list) /\ Len(list) \in Nat
  BY <1>1 DEF Tiles
<1>3. End(list[i]) = Pos(list, a, i)
  BY <1>2 DEF Pos
<1>4. c \in Nat /\ Pos(list, a, i - 1) \in a..c /\ Pos(list, a, i) \in a..c
  BY <1>2, TilesOrder
<1>5. lb \in Nat /\ a <= lb /\ lb < c
  BY <1>1, <1>2, <1>3, <1>4, GoodFields DEF Span
<1>6. lb \in K /\ s[lb + 1] = t[lb + 1]
  BY <1>1, <1>5 DEF SameText
<1> QED
  BY <1>1, <1>6 DEF Reads, ReadsExtent

LEMMA InSpan ==
  ASSUME NEW a \in Nat, NEW k \in Nat, NEW p \in Nat, 1 <= k, k <= p
  PROVE  a + k - 1 \in Span(a, p) /\ (a + k - 1) - a + 1 = k
BY DEF Span

Stored(w, w2, e, C, text) ==
  /\ Good(e) /\ Volume(w2) /\ w2.overflow = w.overflow
  /\ Balanced(w2, [b \in Blocks |-> C[b] + One(b, Phys(e))])
  /\ Keeps(w, w2, C) /\ ReadsExtent(w2, e, text, Nat)

LEMMA GroupStored ==
  ASSUME NEW w, Volume(w), NEW C, Balanced(w, C), NEW s \in Nat, Aligned(s),
         NEW m \in 1..GroupBlocks, NEW data \in [1..m -> Values], NEW text,
         \A i \in 1..m : data[i] = text[s + i], NEW zip \in Zips,
         NEW image, image = Image(data, zip), NEW start, start = AllocStart(w, Len(image)), start # 0,
         NEW e, e = Extent(s, m, start, Len(image)),
         NEW w2, w2 = AllocAndWrite(w, start, image)
  PROVE  Stored(w, w2, e, C, text)
<1>1. /\ m \in Nat \ {0} /\ GroupBlocks \in Nat \ {0} /\ m <= GroupBlocks /\ NumBlocks \in Nat
      /\ Len(data) = m /\ DOMAIN data = 1..m
  BY ExtentsAssumption
<1>2. e.ls = s /\ e.lc = m /\ e.ps = start /\ e.pc = Len(image)
  BY DEF Extent
<1>3. PICK p \in Nat \ {0} : p = Len(image) /\ (p < GroupBlocks \/ p = m)
  <2>1. CASE Compresses(data, zip)
    <3>1. zip \in Nat \ {0} /\ zip < GroupBlocks
      BY <1>1, <2>1 DEF Compresses, Zips
    <3>2. Len(image) = zip
      BY <2>1, <3>1 DEF Image
    <3> QED
      BY <3>1, <3>2
  <2>2. CASE ~Compresses(data, zip)
    <3>1. image = [i \in 1..m |-> <<data[i]>>]
      BY <1>1, <2>2 DEF Image
    <3>2. Len(image) = m
      BY <1>1, <3>1
    <3> QED
      BY <1>1, <3>2
  <2> QED
    BY <2>1, <2>2
<1>4. /\ start \in Nat /\ start >= 1 /\ start + p - 1 <= NumBlocks
  BY <1>3, AllocFree
<1>5. e \in Extents
  BY <1>1, <1>3, <1>4 DEF Extent, Extents
<1>6. PICK S : S = Span(start, p)
  OBVIOUS
<1>7. PICK D : D = [b \in Blocks |-> C[b] + One(b, S)]
  OBVIOUS
<1>8. /\ Volume(w2) /\ Balanced(w2, D) /\ Keeps(w, w2, C) /\ w2.overflow = w.overflow
      /\ \A b \in S : w2.disk[b] = image[b - start + 1]
  BY <1>3, <1>6, <1>7, AllocEffect
<1>9. Phys(e) = S
  BY <1>2, <1>3, <1>6 DEF Phys
<1>10. Good(e) /\ ReadsExtent(w2, e, text, Nat)
  <2>1. CASE Compresses(data, zip)
    <3>1. zip \in Nat \ {0} /\ zip < GroupBlocks /\ m = GroupBlocks /\ Compression
      BY <1>1, <2>1 DEF Compresses, Zips
    <3>2. image = [i \in 1..zip |-> IF i = 1 THEN data ELSE <<>>]
      BY <2>1 DEF Image
    <3>3. p = zip /\ image[1] = data
      BY <1>3, <3>1, <3>2
    <3>4. ~Plain(e) /\ Good(e)
      BY <1>1, <1>2, <1>3, <1>4, <1>5, <3>1, <3>3 DEF Plain, Good
    <3>5. w2.disk[start] = data
      BY <1>3, <1>4, <1>6, <1>8, <3>3 DEF Span
    <3>6. ASSUME NEW lb \in Span(e.ls, e.lc) PROVE ReadExtent(w2, e, lb) = text[lb + 1]
      <4>1. lb \in Nat /\ lb - s + 1 \in 1..m /\ s + (lb - s + 1) = lb + 1
        BY <1>1, <1>2, <3>6 DEF Span
      <4>2. ReadExtent(w2, e, lb) = data[lb - s + 1]
        BY <1>1, <1>2, <3>4, <3>5 DEF ReadExtent
      <4> QED
        BY <4>1, <4>2
    <3> QED
      BY <3>4, <3>6 DEF ReadsExtent
  <2>2. CASE ~Compresses(data, zip)
    <3>1. image = [i \in 1..m |-> <<data[i]>>] /\ p = m
      BY <1>1, <1>3, <2>2 DEF Image
    <3>2. Plain(e) /\ Good(e)
      BY <1>1, <1>2, <1>3, <1>4, <1>5, <3>1 DEF Plain, Good
    <3>3. ASSUME NEW lb \in Span(e.ls, e.lc) PROVE ReadExtent(w2, e, lb) = text[lb + 1]
      <4>1. PICK k \in 1..m : k = lb - s + 1 /\ s + k = lb + 1
        BY <1>1, <1>2, <3>3 DEF Span
      <4>2. PICK b : b = start + (lb - s)
        OBVIOUS
      <4>3. b \in S /\ b - start + 1 = k
        <5>1. lb \in Nat /\ b = start + k - 1
          BY <1>1, <1>2, <1>4, <3>3, <4>1, <4>2 DEF Span
        <5> QED
          <6>1. k \in Nat /\ 1 <= k /\ k <= p /\ p \in Nat
            BY <1>1, <3>1, <4>1
          <6>2. start + k - 1 \in Span(start, p) /\ (start + k - 1) - start + 1 = k
            BY <1>4, <6>1, InSpan
          <6> QED
            BY <1>6, <5>1, <6>2
      <4>4. w2.disk[b] = image[k] /\ image[k] = <<data[k]>>
        <5>1. image[k] = <<data[k]>>
          BY <3>1, <4>1
        <5> QED
          BY <1>8, <4>3, <5>1
      <4>5. ReadExtent(w2, e, lb) = IF Len(w2.disk[b]) # 1 THEN "error" ELSE w2.disk[b][1]
        BY <1>2, <3>2, <4>2 DEF ReadExtent
      <4>6. PICK x : x = data[k]
        OBVIOUS
      <4>7. w2.disk[b] = <<x>> /\ Len(<<x>>) = 1 /\ <<x>>[1] = x
        BY <4>4, <4>6
      <4>8. ReadExtent(w2, e, lb) = x
        BY <4>5, <4>7
      <4> QED
        BY <4>1, <4>6, <4>8
    <3> QED
      BY <3>2, <3>3 DEF ReadsExtent
  <2> QED
    BY <2>1, <2>2
<1> QED
  BY <1>7, <1>8, <1>9, <1>10 DEF Stored
-----------------------------------------------------------------------------
(* Rewriting groups.  In the middle of a call the list tiles c blocks, and  *)
(* those in Known read as they will at the end.                             *)

Mid(v, list, O, text, c, Known) ==
  /\ Volume(v) /\ v.overflow = vol.overflow /\ Keeps(vol, v, O)
  /\ Tiles(list, 0, c) /\ Balanced(v, [b \in Blocks |-> O[b] + Count(list, b)])
  /\ Reads(v, list, text, Known)

LEMMA GroupEnds ==
  ASSUME NEW g \in Nat, NEW z \in Nat, NEW s, s = GroupStart(g), s < z, NEW t, t = GroupEnd(g, z)
  PROVE  /\ s \in Nat /\ t \in Nat /\ Aligned(s) /\ s < t /\ t <= z /\ t <= s + GroupBlocks
         /\ (Aligned(t) /\ t = s + GroupBlocks) \/ t = z
         /\ t = Lo(GroupStart(g + 1), z) /\ t - s \in 1..GroupBlocks
<1>1. GroupBlocks \in Nat \ {0}
  BY ExtentsAssumption
<1>2. s \in Nat /\ Aligned(s) /\ GroupStart(g + 1) = s + GroupBlocks
  BY GroupsAligned
<1>3. GroupStart(g + 1) \in Nat /\ Aligned(GroupStart(g + 1))
  BY GroupsAligned
<1>4. t = Lo(GroupStart(g + 1), z)
  BY <1>3, MinOfTwo DEF GroupEnd, GroupStart, Lo
<1> QED
  BY <1>1, <1>2, <1>3, <1>4 DEF Lo

(* The text has val where it is written, and the rest of it is there. *)
WrittenAs(text, z, off, n, val) ==
  \A lb \in Nat : lb < z /\ lb \in Span(off, n) => text[lb + 1] = val
OldKnown(s, z, off, n, c, K) ==
  \A lb \in Nat : lb < z /\ lb \notin Span(off, n) /\ s <= lb => lb < c /\ lb \in K

DataIs(data, m, text, s) == data \in [1..m -> Values] /\ \A i \in 1..m : data[i] = text[s + i]

LEMMA DataFact ==
  ASSUME NEW v, NEW list, NEW c \in Nat, Tiles(list, 0, c), NEW text, NEW K, Reads(v, list, text, K),
         NEW g \in Nat, NEW z \in Nat, NEW s, s = GroupStart(g), s < z, NEW m, m = GroupEnd(g, z) - s,
         text \in [1..z -> Values], NEW off, NEW n, NEW val,
         WrittenAs(text, z, off, n, val),
         OldKnown(s, z, off, n, c, K),
         NEW data, data = GroupData(v, list, g, z, off, n, val)
  PROVE  DataIs(data, m, text, s)
<1>1. s \in Nat /\ m \in Nat /\ s + m <= z
  BY GroupEnds
<1>2. data = [i \in 1..m |->
                LET lb == s + i - 1 IN
                IF lb \in Span(off, n) THEN val
                ELSE IF Covering(list, lb) = {} THEN "zero"
                     ELSE ReadExtent(v, list[Max(Covering(list, lb))], lb)]
  BY DEF GroupData
<1>3. ASSUME NEW i \in 1..m PROVE data[i] = text[s + i] /\ text[s + i] \in Values
  <2>1. PICK lb \in Nat : lb = s + i - 1 /\ lb + 1 = s + i /\ lb < z /\ s <= lb
    BY <1>1, <1>3
  <2>2. s + i \in 1..z
    BY <1>1, <1>3
  <2>3. data[i] = IF lb \in Span(off, n) THEN val
                  ELSE IF Covering(list, lb) = {} THEN "zero"
                       ELSE ReadExtent(v, list[Max(Covering(list, lb))], lb)
    BY <1>2, <1>3, <2>1
  <2>4. CASE lb \in Span(off, n)
    BY <2>1, <2>2, <2>3, <2>4 DEF WrittenAs
  <2>5. CASE lb \notin Span(off, n)
    <3>1. lb < c /\ lb \in K
      BY <2>1, <2>5 DEF OldKnown
    <3>2. /\ Covering(list, lb) # {} /\ Covering(list, lb) \in SUBSET (1..Len(list))
          /\ \A j \in 1..Len(list) : j \in Covering(list, lb) <=> lb \in Span(list[j].ls, list[j].lc)
      BY <3>1, CoverFact
    <3>3. Len(list) \in Nat /\ Covering(list, lb) \in SUBSET (0..Len(list))
      BY <3>2 DEF Tiles
    <3>4. PICK j : j = Max(Covering(list, lb))
      OBVIOUS
    <3>5. j \in Covering(list, lb)
      BY <3>2, <3>3, <3>4, MaxFact
    <3>6. j \in 1..Len(list) /\ lb \in Span(list[j].ls, list[j].lc)
      BY <3>2, <3>5
    <3>7. ReadExtent(v, list[j], lb) = text[lb + 1]
      BY <3>1, <3>6 DEF Reads, ReadsExtent
    <3>8. data[i] = ReadExtent(v, list[j], lb)
      BY <2>3, <2>5, <3>2, <3>4
    <3> QED
      BY <2>1, <2>2, <3>7, <3>8
  <2> QED
    BY <2>4, <2>5
<1> QED
  BY <1>2, <1>3 DEF DataIs

LEMMA SingleFact ==
  ASSUME NEW e, Good(e)
  PROVE  /\ Tiles(<<e>>, e.ls, End(e)) /\ \A b : Count(<<e>>, b) = One(b, Phys(e))
         /\ \A v, text, K : ReadsExtent(v, e, text, K) => Reads(v, <<e>>, text, K)
<1>1. <<e>> = Append(<< >>, e) /\ Len(<<e>>) = 1 /\ <<e>>[1] = e
  OBVIOUS
<1>2. Tiles(<< >>, e.ls, e.ls)
  BY TilesEmpty
<1>3. Tiles(<<e>>, e.ls, End(e))
  BY <1>1, <1>2, TilesAppend
<1>4. ASSUME NEW b PROVE Count(<<e>>, b) = One(b, Phys(e))
  <2>1. CountTo(<<e>>, b, 0 + 1) = CountTo(<<e>>, b, 0) + One(b, Phys(<<e>>[0 + 1]))
    BY CountStep
  <2>2. CountTo(<<e>>, b, 0) = 0
    BY CountNone
  <2>3. One(b, Phys(e)) \in Nat
    BY DEF One
  <2> QED
    BY <1>1, <2>1, <2>2, <2>3 DEF Count
<1> QED
  BY <1>1, <1>3, <1>4 DEF Reads

IsSplice(J, B, N, A) == J = B \o N \o A

LEMMA SpliceFact ==
  ASSUME NEW B, NEW N, NEW A, NEW s, NEW t, NEW h, Tiles(B, 0, s), Tiles(N, s, t), Tiles(A, t, h),
         NEW J, IsSplice(J, B, N, A)
  PROVE  /\ Tiles(J, 0, h)
         /\ \A b : Count(J, b) = Count(B, b) + Count(N, b) + Count(A, b)
         /\ \A v, text, K : Reads(v, B, text, K) /\ Reads(v, N, text, K) /\ Reads(v, A, text, K)
                               => Reads(v, J, text, K)
<1>1. PICK I : I = B \o N
  OBVIOUS
<1>2. Tiles(I, 0, t) /\ J = I \o A
  BY <1>1, TilesConcat DEF IsSplice
<1>3. B \in Seq(Extents) /\ N \in Seq(Extents) /\ A \in Seq(Extents) /\ I \in Seq(Extents)
  BY <1>2 DEF Tiles
<1>4. Tiles(J, 0, h)
  BY <1>2, TilesConcat
<1>5. \A b : Count(I, b) = Count(B, b) + Count(N, b)
  BY <1>1, <1>3, CountConcat
<1>6. \A b : Count(J, b) = Count(I, b) + Count(A, b)
  BY <1>2, <1>3, CountConcat
<1>7. ASSUME NEW v, NEW text, NEW K, Reads(v, B, text, K), Reads(v, N, text, K), Reads(v, A, text, K)
      PROVE  Reads(v, J, text, K)
  <2>1. Reads(v, I, text, K)
    BY <1>1, <1>3, <1>7, ReadsConcat
  <2> QED
    BY <1>2, <1>3, <1>7, <2>1, ReadsConcat
<1> QED
  BY <1>4, <1>5, <1>6, <1>7

LEMMA KeepsChain ==
  ASSUME NEW u, NEW v, NEW w, NEW O, NEW C, Keeps(u, v, O), Keeps(v, w, C),
         \A b \in Blocks : O[b] >= 1 => C[b] >= 1
  PROVE  Keeps(u, w, O)
BY DEF Keeps

LEMMA CountNat ==
  ASSUME NEW list, NEW a, NEW n, Tiles(list, a, n)
  PROVE  \A b : Count(list, b) \in Nat
<1>1. Len(list) \in Nat
  BY DEF Tiles
<1> QED
  BY <1>1, HoldingFinite DEF Count

(* What is known outside of s..t-1 afterwards was known before. *)
StaysKnown(H, K, s, t, z) ==
  \A lb \in Nat : lb \in H /\ lb < z /\ (lb < s \/ lb >= t) => lb \in K

LEMMA RewriteStep ==
  ASSUME NEW O, \A b \in Blocks : O[b] \in Nat, NEW v, NEW list, NEW text, NEW c \in Nat, NEW K,
         Mid(v, list, O, text, c, K), NEW g \in Nat, NEW z \in Nat, NEW s, s = GroupStart(g),
         NEW t, t = GroupEnd(g, z), s < z, s <= c, c <= z, text \in [1..z -> Values],
         NEW off, NEW n, NEW val, NEW zip \in Zips,
         WrittenAs(text, z, off, n, val),
         OldKnown(s, z, off, n, c, K),
         NEW H, StaysKnown(H, K, s, t, z),
         NEW r, r = [vol |-> v, list |-> list, failed |-> FALSE],
         NEW q, q = RewriteGroup(r, g, z, off, n, val, zip), ~q.failed
  PROVE  Mid(q.vol, q.list, O, text, Hi(t, c), H)
<1>1. /\ s \in Nat /\ t \in Nat /\ Aligned(s) /\ s < t /\ t <= z
      /\ (Aligned(t) /\ t = s + GroupBlocks) \/ t = z
  BY GroupEnds
<1>2. PICK m : m = t - s
  OBVIOUS
<1>3. m \in 1..GroupBlocks /\ m \in Nat /\ s + m = t
  <2>1. t - s \in 1..GroupBlocks /\ GroupBlocks \in Nat
    BY GroupEnds, ExtentsAssumption
  <2>2. s + (t - s) = t /\ t - s \in Nat
    BY <1>1
  <2> QED
    BY <1>2, <2>1, <2>2, Zenon
<1>4. PICK data : data = GroupData(v, list, g, z, off, n, val)
  OBVIOUS
<1>5. Tiles(list, 0, c) /\ Reads(v, list, text, K) /\ Volume(v)
  BY DEF Mid
<1>6. data \in [1..m -> Values] /\ \A i \in 1..m : data[i] = text[s + i]
  <2>1. m = GroupEnd(g, z) - s
    BY <1>2
  <2>2. DataIs(data, m, text, s)
    BY <1>4, <1>5, <2>1, DataFact, Zenon
  <2> QED
    BY <2>2 DEF DataIs
<1>7. Len(data) = m
  BY <1>3, <1>6
<1>8. PICK B, A : B = Before(list, s)[Len(list)] /\ A = After(list, t)[Len(list)]
  OBVIOUS
<1>9. PICK w : w = FreeRange(v, list, s, t)[Len(list)]
  OBVIOUS
<1>10. IsCut(v, w, O, list, s, t, c, B, A)
  <2>1. CleanCut(s, c) /\ CleanCut(t, c)
    BY <1>1 DEF CleanCut
  <2>2. PICK C : C = [b \in Blocks |-> O[b] + Count(list, b)]
    OBVIOUS
  <2>3. Balanced(v, C) /\ \A b \in Blocks : O[b] \in Nat /\ C[b] = O[b] + Count(list, b)
    BY <2>2 DEF Mid
  <2> QED
    BY <1>1, <1>5, <1>8, <1>9, <2>1, <2>3, CutFact
<1>11. PICK image : image = Image(data, zip)
  OBVIOUS
<1>12. PICK start : start = AllocStart(w, Len(image))
  OBVIOUS
<1>13. PICK e : e = Extent(s, m, start, Len(image))
  OBVIOUS
<1>14. PICK w2 : w2 = AllocAndWrite(w, start, image)
  OBVIOUS
<1>15. start # 0 /\ q.vol = w2 /\ q.list = B \o <<e>> \o A
  <2>1. r.vol = v /\ r.list = list /\ r.failed = FALSE
    OBVIOUS
  <2>2. Released(v, list, g, z) = w
    BY <1>9 DEF Released
  <2>3. Replace(list, s, t, <<e>>) = B \o <<e>> \o A
    BY <1>8 DEF Replace
  <2>4. q = IF r.failed \/ "error" \in ToSet(data) THEN [r EXCEPT !.failed = TRUE]
            ELSE IF start = 0 THEN [r EXCEPT !.vol = w, !.failed = TRUE]
            ELSE [r EXCEPT !.vol = w2, !.list = B \o <<e>> \o A]
    BY <1>4, <1>7, <1>11, <1>12, <1>13, <1>14, <2>1, <2>2, <2>3 DEF RewriteGroup
  <2>5. ~("error" \in ToSet(data)) /\ start # 0
    BY <2>4
  <2> QED
    BY <2>1, <2>4, <2>5
<1>16. PICK C : C = [b \in Blocks |-> O[b] + Count(B, b) + Count(A, b)]
  OBVIOUS
<1>17. Volume(w) /\ Balanced(w, C) /\ Keeps(v, w, C) /\ w.overflow = v.overflow
  BY <1>10, <1>16 DEF IsCut
<1>18. Stored(w, w2, e, C, text)
  <2>1. start # 0 /\ Aligned(s) /\ s \in Nat
    BY <1>1, <1>15
  <2> QED
    BY <1>3, <1>6, <1>11, <1>12, <1>13, <1>14, <1>17, <2>1, GroupStored, Zenon
<1>19. Tiles(B, 0, s) /\ Tiles(A, t, Hi(t, c))
  <2>1. Lo(s, c) = s
    BY <1>1 DEF Lo
  <2> QED
    BY <1>10, <2>1 DEF IsCut
<1>20. Good(e) /\ e.ls = s /\ End(e) = t
  <2>1. e.ls = s /\ e.lc = m
    BY <1>13 DEF Extent
  <2> QED
    BY <1>3, <1>18, <2>1 DEF Stored, End
<1>21. Tiles(<<e>>, s, t) /\ (\A b : Count(<<e>>, b) = One(b, Phys(e))) /\ Reads(w2, <<e>>, text, H)
  <2>1. ReadsExtent(w2, e, text, H)
    <3>1. ReadsExtent(w2, e, text, Nat) /\ \A lb \in Span(e.ls, e.lc) : lb \in Nat
      BY <1>18, <1>20, GoodFields DEF Stored, Span
    <3> QED
      BY <3>1 DEF ReadsExtent
  <2> QED
    BY <1>20, <2>1, SingleFact
<1>22. PICK J : J = q.list
  OBVIOUS
<1>23. /\ Tiles(J, 0, Hi(t, c))
       /\ \A b : Count(J, b) = Count(B, b) + Count(<<e>>, b) + Count(A, b)
       /\ Reads(w2, B, text, H) /\ Reads(w2, <<e>>, text, H) /\ Reads(w2, A, text, H)
              => Reads(w2, J, text, H)
  <2>1. PICK N : N = <<e>>
    OBVIOUS
  <2>2. IsSplice(J, B, N, A) /\ Tiles(N, s, t)
    BY <1>15, <1>21, <1>22, <2>1 DEF IsSplice
  <2>3. /\ Tiles(J, 0, Hi(t, c))
        /\ \A b : Count(J, b) = Count(B, b) + Count(N, b) + Count(A, b)
        /\ \A u, tx, Kn : Reads(u, B, tx, Kn) /\ Reads(u, N, tx, Kn) /\ Reads(u, A, tx, Kn)
                             => Reads(u, J, tx, Kn)
    BY <1>19, <2>2, SpliceFact, Zenon
  <2> QED
    BY <2>1, <2>3
<1>24. \A b \in Blocks : O[b] \in Nat /\ Count(A, b) \in Nat /\ Count(B, b) \in Nat
  BY <1>19, CountNat
<1>25. \A b \in Blocks : C[b] = O[b] + Count(B, b) + Count(A, b)
  BY <1>16
<1>26. Reads(w2, B, text, H) /\ Reads(w2, A, text, H)
  <2>1. Reads(v, B, text, K) /\ Reads(v, A, text, K)
    BY <1>5, <1>10 DEF IsCut
  <2>2. /\ \A b \in Blocks : Count(B, b) >= 1 => C[b] >= 1
        /\ \A b \in Blocks : Count(A, b) >= 1 => C[b] >= 1
    BY <1>24, <1>25
  <2>3. Keeps(w, w2, C) /\ Keeps(v, w, C)
    BY <1>17, <1>18 DEF Stored
  <2>4. Reads(w, B, text, K) /\ Reads(w, A, text, K)
    BY <1>19, <2>1, <2>2, <2>3, ReadsKept
  <2>5. Reads(w2, B, text, K) /\ Reads(w2, A, text, K)
    BY <1>19, <2>2, <2>3, <2>4, ReadsKept
  <2>6. Hi(t, c) \in Nat /\ Hi(t, c) <= z
    BY <1>1 DEF Hi
  <2>7. Reads(w2, B, text, H)
    <3>1. SameText(text, text, 0, s, K, H)
      BY <1>1 DEF StaysKnown, SameText
    <3> QED
      BY <1>19, <2>5, <3>1, ReadsText
  <2>8. Reads(w2, A, text, H)
    <3>1. SameText(text, text, t, Hi(t, c), K, H)
      BY <1>1, <2>6 DEF StaysKnown, SameText
    <3> QED
      BY <1>1, <1>19, <2>5, <3>1, ReadsText
  <2> QED
    BY <2>7, <2>8
<1>27. Reads(w2, J, text, H)
  BY <1>21, <1>23, <1>26
<1>28. Balanced(w2, [b \in Blocks |-> O[b] + Count(J, b)])
  <2>1. \A b \in Blocks : C[b] + One(b, Phys(e)) = O[b] + Count(J, b)
    <3> SUFFICES ASSUME NEW b \in Blocks PROVE C[b] + One(b, Phys(e)) = O[b] + Count(J, b)
      OBVIOUS
    <3>1. Count(J, b) = Count(B, b) + One(b, Phys(e)) + Count(A, b) /\ One(b, Phys(e)) \in Nat
      BY <1>21, <1>23 DEF One
    <3> QED
      BY <1>24, <1>25, <3>1
  <2>2. [b \in Blocks |-> C[b] + One(b, Phys(e))] = [b \in Blocks |-> O[b] + Count(J, b)]
    BY <2>1
  <2> QED
    BY <1>18, <2>2 DEF Stored
<1>29. Keeps(vol, w2, O)
  <2>1. \A b \in Blocks : O[b] >= 1 => C[b] >= 1
    BY <1>24, <1>25
  <2>2. Keeps(vol, v, O) /\ Keeps(v, w, C) /\ Keeps(w, w2, C)
    BY <1>17, <1>18 DEF Mid, Stored
  <2> QED
    BY <2>1, <2>2, KeepsChain
<1>30. Volume(w2) /\ w2.overflow = vol.overflow
  BY <1>17, <1>18 DEF Stored, Mid
<1> QED
  BY <1>15, <1>22, <1>23, <1>27, <1>28, <1>29, <1>30 DEF Mid

LEMMA GroupMono ==
  ASSUME NEW g \in Nat, NEW h \in Nat, g <= h
  PROVE  GroupStart(g) <= GroupStart(h)
<1>1. PICK d \in Nat : h = g + d
  <2>1. h - g \in Nat /\ h = g + (h - g)
    OBVIOUS
  <2> QED
    BY <2>1
<1>2. GroupBlocks \in Nat
  BY ExtentsAssumption
<1>3. (g + d) * GroupBlocks = g * GroupBlocks + d * GroupBlocks
  BY <1>2
<1>4. d * GroupBlocks \in Nat /\ g * GroupBlocks \in Nat
  BY <1>2
<1> QED
  BY <1>1, <1>3, <1>4 DEF GroupStart

(* The groups a write touches: the first holds off, the last off + n - 1. *)
LEMMA GroupsFact ==
  ASSUME NEW off \in Nat, NEW n \in Nat \ {0}, NEW F, F = FirstGroup(off), NEW N, N = NumGroups(off, n)
  PROVE  /\ F \in Nat /\ N \in Nat \ {0} /\ GroupStart(F) <= off
         /\ off < GroupStart(F) + GroupBlocks
         /\ GroupStart(F + N) >= off + n
         /\ \A i \in 0..N : i < N => F + i \in Nat /\ GroupStart(F + i) < off + n
<1>1. PICK x \in Nat : x = off + n - 1
  <2>1. off + n - 1 \in Nat
    OBVIOUS
  <2> QED
    BY <2>1
<1>2. PICK l : l = x \div GroupBlocks
  OBVIOUS
<1>3. F \in Nat /\ GroupStart(F) <= off /\ off < GroupStart(F) + GroupBlocks
  BY GroupOf DEF FirstGroup
<1>4. l \in Nat /\ GroupStart(l) <= x /\ x < GroupStart(l) + GroupBlocks
  BY <1>2, GroupOf
<1>5. N = l - F + 1
  BY <1>1, <1>2 DEF NumGroups
<1>6. /\ GroupStart(l) \in Nat /\ GroupStart(l + 1) = GroupStart(l) + GroupBlocks
      /\ GroupStart(F) \in Nat /\ GroupBlocks \in Nat
  BY <1>3, <1>4, GroupsAligned, ExtentsAssumption
<1>7. F <= l
  <2>1. ASSUME l + 1 <= F PROVE FALSE
    <3>1. GroupStart(l + 1) <= GroupStart(F)
      BY <1>3, <1>4, <2>1, GroupMono
    <3> QED
      BY <1>1, <1>3, <1>4, <1>6, <3>1
  <2> QED
    BY <1>3, <1>4, <2>1
<1>8. N \in Nat \ {0} /\ F + N = l + 1
  BY <1>3, <1>4, <1>5, <1>7
<1>9. GroupStart(F + N) >= off + n
  BY <1>1, <1>4, <1>6, <1>8
<1>10. ASSUME NEW i \in 0..N, i < N PROVE F + i \in Nat /\ GroupStart(F + i) < off + n
  <2>1. F + i \in Nat /\ F + i <= l
    BY <1>3, <1>4, <1>8, <1>10
  <2>2. GroupStart(F + i) <= GroupStart(l) /\ GroupStart(F + i) \in Nat
    BY <1>4, <2>1, GroupMono, GroupsAligned
  <2> QED
    BY <1>1, <1>4, <1>6, <2>1, <2>2
<1> QED
  BY <1>3, <1>8, <1>9, <1>10

IsRun(r, v, list, failed) == r = [vol |-> v, list |-> list, failed |-> failed] /\ failed \in BOOLEAN

LEMMA RewriteShape ==
  ASSUME NEW r, NEW v, NEW list, NEW failed, IsRun(r, v, list, failed),
         NEW g, NEW size, NEW off, NEW n, NEW val, NEW zip,
         NEW q, q = RewriteGroup(r, g, size, off, n, val, zip)
  PROVE  /\ IsRun(q, q.vol, q.list, q.failed)
         /\ failed => q.failed
<1>1. PICK data : data = GroupData(r.vol, r.list, g, size, off, n, val)
  OBVIOUS
<1>2. PICK w : w = Released(r.vol, r.list, g, size)
  OBVIOUS
<1>3. PICK start : start = AllocStart(w, Len(Image(data, zip)))
  OBVIOUS
<1>4. PICK w2 : w2 = AllocAndWrite(w, start, Image(data, zip))
  OBVIOUS
<1>5. PICK J : J = Replace(r.list, GroupStart(g), GroupEnd(g, size),
                           <<Extent(GroupStart(g), Len(data), start, Len(Image(data, zip)))>>)
  OBVIOUS
<1>6. q = IF r.failed \/ "error" \in ToSet(data) THEN [r EXCEPT !.failed = TRUE]
          ELSE IF start = 0 THEN [r EXCEPT !.vol = w, !.failed = TRUE]
          ELSE [r EXCEPT !.vol = w2, !.list = J]
  BY <1>1, <1>2, <1>3, <1>4, <1>5 DEF RewriteGroup
<1> QED
  BY <1>6 DEF IsRun

(* The blocks that a write leaves alone, and those before x. *)
KnownTo(off, n, x) == {lb \in Nat : lb \notin Span(off, n) \/ lb < x}

Progress(r, O, text, size, z, off, n, x) ==
  /\ IsRun(r, r.vol, r.list, r.failed)
  /\ ~r.failed => \E c \in Nat : /\ size <= c /\ c <= z /\ Lo(x, z) <= c
                                 /\ Mid(r.vol, r.list, O, text, c, KnownTo(off, n, x))

LEMMA HiFact ==
  ASSUME NEW x \in Nat, NEW y \in Nat, NEW z, z = Hi(x, y)
  PROVE  z \in Nat /\ x <= z /\ y <= z /\ (z = x \/ z = y)
BY DEF Hi

LEMMA RewriteProgress ==
  ASSUME NEW O, \A b \in Blocks : O[b] \in Nat, NEW text, NEW size \in Nat, NEW z \in Nat,
         NEW off \in Nat, NEW n \in Nat, NEW val, NEW zip \in Zips, NEW g \in Nat,
         text \in [1..z -> Values], WrittenAs(text, z, off, n, val), GroupStart(g) < z,
         \A lb \in Nat : lb < z /\ lb \notin Span(off, n) => lb < size,
         NEW r, Progress(r, O, text, size, z, off, n, GroupStart(g)),
         NEW q, q = RewriteGroup(r, g, z, off, n, val, zip)
  PROVE  Progress(q, O, text, size, z, off, n, GroupStart(g + 1))
<1>1. IsRun(r, r.vol, r.list, r.failed)
  BY DEF Progress
<1>2. IsRun(q, q.vol, q.list, q.failed) /\ (r.failed => q.failed)
  BY <1>1, RewriteShape
<1>3. ASSUME ~q.failed
      PROVE  \E c \in Nat : /\ size <= c /\ c <= z /\ Lo(GroupStart(g + 1), z) <= c
                            /\ Mid(q.vol, q.list, O, text, c, KnownTo(off, n, GroupStart(g + 1)))
  <2>1. PICK s, t : s = GroupStart(g) /\ t = GroupEnd(g, z)
    OBVIOUS
  <2>2. /\ s \in Nat /\ t \in Nat /\ s < t /\ t <= z /\ t <= s + GroupBlocks
        /\ t = s + GroupBlocks \/ t = z
        /\ t = Lo(GroupStart(g + 1), z) /\ GroupStart(g + 1) = s + GroupBlocks /\ GroupBlocks \in Nat
    <3>1. s = GroupStart(g) /\ t = GroupEnd(g, z) /\ s < z
      BY <2>1
    <3>2. /\ s \in Nat /\ t \in Nat /\ Aligned(s) /\ s < t /\ t <= z /\ t <= s + GroupBlocks
          /\ (Aligned(t) /\ t = s + GroupBlocks) \/ t = z
          /\ t = Lo(GroupStart(g + 1), z) /\ t - s \in 1..GroupBlocks
      BY <3>1, GroupEnds, Zenon
    <3>3. GroupStart(g + 1) = s + GroupBlocks /\ GroupBlocks \in Nat
      BY <3>1, GroupsAligned, ExtentsAssumption
    <3> QED
      BY <3>2, <3>3
  <2>3. PICK K : K = KnownTo(off, n, s)
    OBVIOUS
  <2>4. PICK c \in Nat : /\ size <= c /\ c <= z /\ Lo(s, z) <= c
                         /\ Mid(r.vol, r.list, O, text, c, K)
    BY <1>2, <1>3, <2>1, <2>3 DEF Progress
  <2>5. s <= c
    BY <2>1, <2>2, <2>4 DEF Lo
  <2>6. OldKnown(s, z, off, n, c, K)
    BY <2>3, <2>4 DEF OldKnown, KnownTo
  <2>7. PICK H : H = KnownTo(off, n, s + GroupBlocks)
    OBVIOUS
  <2>8. StaysKnown(H, K, s, t, z)
    BY <2>2, <2>3, <2>7 DEF KnownTo, StaysKnown
  <2>9. PICK v, list : v = r.vol /\ list = r.list
    OBVIOUS
  <2>10. r = [vol |-> v, list |-> list, failed |-> FALSE]
    BY <1>1, <1>2, <1>3, <2>9 DEF IsRun
  <2>11. Mid(v, list, O, text, c, K)
    BY <2>4, <2>9
  <2>12. Mid(q.vol, q.list, O, text, Hi(t, c), H)
    BY <1>3, <2>1, <2>4, <2>5, <2>6, <2>8, <2>10, <2>11, RewriteStep, Zenon
  <2>13. Hi(t, c) \in Nat /\ size <= Hi(t, c) /\ Hi(t, c) <= z /\ t <= Hi(t, c)
    BY <2>2, <2>4 DEF Hi
  <2>14. PICK d \in Nat : d = Hi(t, c) /\ size <= d /\ d <= z /\ Lo(GroupStart(g + 1), z) <= d
    BY <2>2, <2>13
  <2>15. Mid(q.vol, q.list, O, text, d, KnownTo(off, n, GroupStart(g + 1)))
    BY <2>2, <2>7, <2>12, <2>14
  <2> QED
    BY <2>14, <2>15
<1> QED
  BY <1>2, <1>3 DEF Progress

RestAs(text, old, size, off, n) ==
  \A lb \in Nat : lb < size /\ lb \notin Span(off, n) => text[lb + 1] = old[lb + 1]

LEMMA RewriteFact ==
  ASSUME NEW f, NEW O, \A b \in Blocks : O[b] \in Nat, NEW text, NEW old, NEW size \in Nat,
         NEW off \in Nat, NEW n \in Nat \ {0}, NEW val, NEW zip \in Zips, off <= size,
         NEW z, z = Hi(size, off + n), text \in [1..z -> Values], WrittenAs(text, z, off, n, val),
         RestAs(text, old, size, off, n),
         Mid(vol, Collect(vol, f), O, old, size, Nat),
         NEW r, r = Rewritten(f, z, off, n, val, zip)[NumGroups(off, n)], ~r.failed
  PROVE  Mid(r.vol, r.list, O, text, z, Nat)
<1>1. PICK F, N : F = FirstGroup(off) /\ N = NumGroups(off, n)
  OBVIOUS
<1>2. /\ F \in Nat /\ N \in Nat \ {0} /\ GroupStart(F) <= off
      /\ GroupStart(F + N) >= off + n
      /\ \A i \in 0..N : i < N => F + i \in Nat /\ GroupStart(F + i) < off + n
  BY <1>1, GroupsFact
<1>3. z \in Nat /\ size <= z /\ off + n <= z /\ (z = size \/ z = off + n)
  <2>1. off + n \in Nat
    OBVIOUS
  <2> QED
    BY <2>1, HiFact
<1>4. PICK R : R = Rewritten(f, z, off, n, val, zip)
  OBVIOUS
<1>5. /\ R[0] = [vol |-> vol, list |-> Collect(vol, f), failed |-> FALSE]
      /\ \A i \in 1..N : R[i] = RewriteGroup(R[i - 1], F + i - 1, z, off, n, val, zip)
  BY <1>1, <1>2, <1>4, RewrittenDef
<1>6. \A lb \in Nat : lb < z /\ lb \notin Span(off, n) => lb < size
  BY <1>3 DEF Span
<1>7. PICK S : S = {k \in 0..N : Progress(R[k], O, text, size, z, off, n, GroupStart(F + k))}
  OBVIOUS
<1>8. 0 \in S
  <2>1. GroupStart(F) \in Nat /\ F + 0 = F
    BY <1>2, GroupsAligned
  <2>2. PICK x : x = GroupStart(F)
    OBVIOUS
  <2>3. Lo(x, z) <= size /\ size <= size /\ size <= z
    BY <1>2, <1>3, <2>1, <2>2 DEF Lo
  <2>4. Reads(vol, Collect(vol, f), old, Nat) /\ Tiles(Collect(vol, f), 0, size)
    BY DEF Mid
  <2>5. SameText(old, text, 0, size, Nat, KnownTo(off, n, x))
    BY <1>2, <2>1, <2>2 DEF KnownTo, Span, SameText, RestAs
  <2>6. Reads(vol, Collect(vol, f), text, KnownTo(off, n, x))
    BY <2>4, <2>5, ReadsText
  <2>7. Mid(vol, Collect(vol, f), O, text, size, KnownTo(off, n, x))
    BY <2>6 DEF Mid
  <2>8. R[0].vol = vol /\ R[0].list = Collect(vol, f) /\ R[0].failed = FALSE
    BY <1>5
  <2>9. IsRun(R[0], R[0].vol, R[0].list, R[0].failed)
    BY <1>5, <2>8 DEF IsRun
  <2>10. Progress(R[0], O, text, size, z, off, n, x)
    BY <2>3, <2>7, <2>8, <2>9 DEF Progress
  <2> QED
    BY <1>2, <1>7, <2>1, <2>2, <2>10
<1>9. ASSUME NEW k \in 0..N, k \in S, k + 1 <= N PROVE k + 1 \in S
  <2>1. k + 1 \in 1..N /\ k + 1 \in 0..N /\ k + 1 - 1 = k /\ k < N /\ F + (k + 1) - 1 = F + k
    BY <1>2, <1>9
  <2>2. PICK g \in Nat : g = F + k /\ GroupStart(g) < z /\ F + (k + 1) = g + 1
    <3>1. F + k \in Nat /\ GroupStart(F + k) < off + n
      BY <1>2, <2>1
    <3>2. PICK g \in Nat : g = F + k
      BY <3>1
    <3>3. GroupStart(g) \in Nat /\ GroupStart(g) < off + n
      BY <3>1, <3>2, GroupsAligned
    <3>4. GroupStart(g) < z
      BY <1>3, <3>3
    <3> QED
      BY <1>2, <1>9, <3>2, <3>4
  <2>3. R[k + 1] = RewriteGroup(R[k], g, z, off, n, val, zip)
    BY <1>5, <2>1, <2>2
  <2>4. Progress(R[k], O, text, size, z, off, n, GroupStart(g))
    BY <1>7, <1>9, <2>2
  <2>5. Progress(R[k + 1], O, text, size, z, off, n, GroupStart(g + 1))
    BY <1>3, <1>6, <2>2, <2>3, <2>4, RewriteProgress
  <2> QED
    BY <1>7, <2>1, <2>2, <2>5
<1>10. N \in S
  <2>1. N \in Nat /\ N \in 0..N
    BY <1>2
  <2>2. 0..N \subseteq S
    BY <1>8, <1>9, <2>1, Stepwise
  <2> QED
    BY <2>1, <2>2
<1>11. r = R[N] /\ Progress(r, O, text, size, z, off, n, GroupStart(F + N))
  BY <1>1, <1>4, <1>7, <1>10
<1>12. PICK y \in Nat : y = GroupStart(F + N) /\ y >= off + n
  <2>1. F + N \in Nat
    BY <1>2
  <2>2. GroupStart(F + N) \in Nat
    BY <2>1, GroupsAligned, Zenon
  <2> QED
    BY <1>2, <2>2
<1>13. PICK c \in Nat : /\ size <= c /\ c <= z /\ Lo(y, z) <= c
                        /\ Mid(r.vol, r.list, O, text, c, KnownTo(off, n, y))
  BY <1>11, <1>12 DEF Progress
<1>14. c = z
  BY <1>3, <1>12, <1>13 DEF Lo
<1>15. Nat \subseteq KnownTo(off, n, y)
  BY <1>12 DEF KnownTo, Span
<1>16. Reads(r.vol, r.list, text, Nat)
  BY <1>13, <1>15 DEF Mid, Reads, ReadsExtent
<1> QED
  BY <1>13, <1>14, <1>16 DEF Mid
-----------------------------------------------------------------------------
(* Appending groups.                                                        *)

ToSlots(M, J, slots, e) ==
  SlotsOf(J) = Append(slots, Slot(e)) /\ OverflowOf(J) = OverflowOf(M)
ToOverflow(M, J, slots, e) ==
  SlotsOf(J) = slots /\ OverflowOf(J) = {d \in OverflowOf(M) : d.ls # e.ls} \cup {e}

LEMMA SlotsAppend ==
  ASSUME NEW M, NEW c, Tiles(M, 0, c), NEW e, Good(e), e.ls = c, NEW J, J = Append(M, e),
         NEW slots, slots = SlotsOf(M)
  PROVE  IF Len(slots) < InlineSlots THEN ToSlots(M, J, slots, e) ELSE ToOverflow(M, J, slots, e)
<1>1. M \in Seq(Extents) /\ e \in Extents /\ InlineSlots \in Nat
  BY GoodFields, ExtentsAssumption DEF Tiles
<1>2. PICK k \in Nat : k = Len(M)
  BY <1>1
<1>3. Len(J) = k + 1 /\ J[k + 1] = e /\ \A i \in 1..k : J[i] = M[i]
  BY <1>1, <1>2
<1>4. slots = [i \in 1..Lo(InlineSlots, k) |-> Slot(M[i])] /\ Lo(InlineSlots, k) \in Nat
  BY <1>1, <1>2, MinOfTwo DEF SlotsOf, InlineLimit, Lo
<1>5. Len(slots) = Lo(InlineSlots, k)
  BY <1>4
<1>6. SlotsOf(J) = [i \in 1..Lo(InlineSlots, k + 1) |-> Slot(J[i])]
  <2>1. PICK x \in Nat : x = k + 1
    OBVIOUS
  <2>2. Min({InlineSlots, x}) = Lo(InlineSlots, x)
    BY <1>1, MinOfTwo DEF Lo
  <2>3. SlotsOf(J) = [i \in 1..Min({InlineSlots, x}) |-> Slot(J[i])]
    BY <1>3, <2>1 DEF SlotsOf, InlineLimit
  <2> QED
    BY <2>1, <2>2, <2>3
<1>7. /\ OverflowOf(J) = {J[i] : i \in InlineSlots + 1 .. k + 1}
      /\ OverflowOf(M) = {M[i] : i \in InlineSlots + 1 .. k}
  BY <1>2, <1>3 DEF OverflowOf, InlineLimit
<1>8. CASE k < InlineSlots
  <2>1. Lo(InlineSlots, k) = k /\ Lo(InlineSlots, k + 1) = k + 1
    BY <1>1, <1>2, <1>8 DEF Lo
  <2>2. slots = [i \in 1..k |-> Slot(M[i])] /\ Len(slots) = k
    BY <1>4, <1>5, <2>1
  <2>3. PICK a : a = Append(slots, Slot(e))
    OBVIOUS
  <2>4. /\ a = [i \in 1..(k + 1) |-> a[i]] /\ a[k + 1] = Slot(e)
        /\ \A i \in 1..k : a[i] = Slot(M[i])
    <3>1. PICK X : X = {Slot(M[i]) : i \in 1..k} \cup {Slot(e)}
      OBVIOUS
    <3>2. PICK x \in X : x = Slot(e)
      BY <3>1
    <3>3. slots \in Seq(X) /\ \A i \in 1..k : slots[i] = Slot(M[i])
      <4>1. \A i \in 1..k : Slot(M[i]) \in X
        BY <3>1
      <4> QED
        BY <1>2, <2>2, <4>1
    <3>4. /\ a = [i \in 1..(k + 1) |-> a[i]] /\ a[k + 1] = x
          /\ \A i \in 1..k : a[i] = slots[i]
      BY <1>2, <2>2, <2>3, <3>2, <3>3
    <3> QED
      BY <3>2, <3>3, <3>4
  <2>5. SlotsOf(J) = [i \in 1..(k + 1) |-> Slot(J[i])]
    BY <1>6, <2>1
  <2>6. \A i \in 1..(k + 1) : a[i] = Slot(J[i])
    <3>1. \A i \in 1..(k + 1) : i \in 1..k \/ i = k + 1
      BY <1>2
    <3> QED
      BY <1>3, <2>4, <3>1, Zenon
  <2>7. a = SlotsOf(J)
    BY <2>4, <2>5, <2>6
  <2>8. InlineSlots + 1 .. k + 1 = {} /\ InlineSlots + 1 .. k = {}
    BY <1>1, <1>2, <1>8
  <2> QED
    BY <1>1, <1>2, <1>7, <1>8, <2>2, <2>3, <2>7, <2>8 DEF ToSlots
<1>9. CASE ~(k < InlineSlots)
  <2>1. Lo(InlineSlots, k) = InlineSlots /\ Lo(InlineSlots, k + 1) = InlineSlots
    BY <1>1, <1>2, <1>9 DEF Lo
  <2>2. \A i \in 1..InlineSlots : i \in 1..k
    BY <1>1, <1>2, <1>9
  <2>3. SlotsOf(J) = slots
    BY <1>3, <1>4, <1>6, <2>1, <2>2
  <2>4. \A i \in 1..k : M[i].ls # e.ls
    <3> SUFFICES ASSUME NEW i \in 1..k PROVE M[i].ls # e.ls
      OBVIOUS
    <3>1. M[i].ls = Pos(M, 0, i - 1) /\ i - 1 \in 0..k /\ k \in 0..k /\ i - 1 < k
      BY <1>2 DEF Tiles
    <3>2. Pos(M, 0, k) = c
      BY <1>2 DEF Tiles
    <3>3. Pos(M, 0, i - 1) < Pos(M, 0, k) /\ Pos(M, 0, i - 1) \in 0..c /\ c \in Nat
      BY <1>2, <3>1, TilesOrder
    <3> QED
      BY <3>1, <3>2, <3>3
  <2>5. \A i \in InlineSlots + 1 .. k : i \in 1..k
    BY <1>1, <1>2
  <2>6. {d \in OverflowOf(M) : d.ls # e.ls} = OverflowOf(M)
    BY <1>7, <2>4, <2>5
  <2>7. InlineSlots + 1 .. k + 1 = (InlineSlots + 1 .. k) \cup {k + 1}
    BY <1>1, <1>2, <1>9
  <2>8. \A i \in InlineSlots + 1 .. k : J[i] = M[i]
    BY <1>3, <2>5
  <2>9. OverflowOf(J) = OverflowOf(M) \cup {e}
    <3>1. \A x : x \in OverflowOf(M) <=> \E i \in InlineSlots + 1 .. k : x = J[i]
      BY <1>7, <2>8
    <3>2. \A x : x \in OverflowOf(J)
                   <=> (\E i \in InlineSlots + 1 .. k : x = J[i]) \/ x = J[k + 1]
      BY <1>7, <2>7, Zenon
    <3>3. \A x : x \in OverflowOf(J) <=> x \in OverflowOf(M) \/ x = e
      BY <1>3, <3>1, <3>2, Zenon
    <3> QED
      BY <3>3, Zenon
  <2> QED
    BY <1>1, <1>5, <2>1, <2>3, <2>6, <2>9 DEF ToOverflow
<1> QED
  BY <1>8, <1>9

AppMid(v, f, node, M, O, text, c, z) ==
  /\ Volume(v) /\ Keeps(vol, v, O) /\ v.overflow[f] = OverflowOf(M)
  /\ \A g \in Files \ {f} : v.overflow[g] = vol.overflow[g]
  /\ node = [live |-> TRUE, size |-> z, slots |-> SlotsOf(M)]
  /\ Tiles(M, 0, c) /\ Balanced(v, [b \in Blocks |-> O[b] + Count(M, b)])
  /\ Reads(v, M, text, Nat)

LEMMA AppendStep ==
  ASSUME NEW f \in Files, NEW O, \A b \in Blocks : O[b] \in Nat, NEW v, NEW node, NEW M, NEW text,
         NEW g \in Nat, NEW z \in Nat, NEW s, s = GroupStart(g), s < z, NEW t, t = GroupEnd(g, z),
         AppMid(v, f, node, M, O, text, s, z), text \in [1..z -> Values],
         NEW off \in Nat, NEW n \in Nat, NEW val, NEW zip \in Zips, WrittenAs(text, z, off, n, val),
         off <= s, z = off + n,
         NEW r, r = Result(v, node, FALSE),
         NEW q, q = AppendGroup(r, f, g, off, n, val, zip), ~q.failed
  PROVE  \E J : AppMid(q.vol, f, q.node, J, O, text, t, z)
<1>1. s \in Nat /\ t \in Nat /\ Aligned(s) /\ s < t /\ t <= z
  BY GroupEnds
<1>2. PICK m : m = t - s
  OBVIOUS
<1>3. m \in 1..GroupBlocks /\ m \in Nat /\ s + m = t
  <2>1. t - s \in 1..GroupBlocks /\ GroupBlocks \in Nat
    BY GroupEnds, ExtentsAssumption
  <2>2. s + (t - s) = t /\ t - s \in Nat
    BY <1>1
  <2> QED
    BY <1>2, <2>1, <2>2, Zenon
<1>4. PICK data : data = GroupData(v, << >>, g, z, off, n, val)
  OBVIOUS
<1>5. data \in [1..m -> Values] /\ \A i \in 1..m : data[i] = text[s + i]
  <2>1. m = GroupEnd(g, z) - s
    BY <1>2
  <2>2. PICK N : N = << >>
    OBVIOUS
  <2>3. Tiles(N, 0, 0) /\ Reads(v, N, text, Nat) /\ 0 \in Nat
    BY <2>2, TilesEmpty DEF Reads
  <2>4. OldKnown(s, z, off, n, 0, Nat)
    BY <1>1 DEF OldKnown, Span
  <2>5. data = GroupData(v, N, g, z, off, n, val)
    BY <1>4, <2>2
  <2>6. DataIs(data, m, text, s)
    BY <2>1, <2>3, <2>4, <2>5, DataFact, Zenon
  <2> QED
    BY <2>6 DEF DataIs
<1>6. Len(data) = m
  BY <1>3, <1>5
<1>7. PICK image : image = Image(data, zip)
  OBVIOUS
<1>8. PICK start : start = AllocStart(v, Len(image))
  OBVIOUS
<1>9. PICK w : w = AllocAndWrite(v, start, image)
  OBVIOUS
<1>10. PICK e : e = Extent(s, m, start, Len(image))
  OBVIOUS
<1>11. PICK slots : slots = node.slots
  OBVIOUS
<1>12. PICK u : u = [w EXCEPT !.overflow[f] = {d \in @ : d.ls # e.ls} \cup {e}]
  OBVIOUS
<1>13. node = [live |-> TRUE, size |-> z, slots |-> SlotsOf(M)] /\ slots = SlotsOf(M)
  BY <1>11 DEF AppMid
<1>14. r.vol = v /\ r.node = node /\ r.failed = FALSE /\ r.node.size = z /\ r.node.slots = slots
  BY <1>13 DEF Result
<1>15. q = IF start = 0 THEN [r EXCEPT !.failed = TRUE]
           ELSE IF Len(slots) < InlineSlots
                THEN Result(w, [node EXCEPT !.slots = Append(@, Slot(e))], FALSE)
                ELSE Result(u, node, FALSE)
  <2>1. /\ data = GroupData(r.vol, << >>, g, r.node.size, off, n, val)
        /\ start = AllocStart(r.vol, Len(image)) /\ w = AllocAndWrite(r.vol, start, image)
        /\ e = Extent(GroupStart(g), Len(data), start, Len(image))
    BY <1>4, <1>6, <1>8, <1>9, <1>10, <1>14
  <2>2. PICK x : x = [r.node EXCEPT !.slots = Append(@, Slot(e))]
    OBVIOUS
  <2>3. q = IF r.failed \/ start = 0 THEN [r EXCEPT !.failed = TRUE]
            ELSE IF Len(r.node.slots) < InlineSlots THEN Result(w, x, FALSE)
            ELSE Result(u, r.node, FALSE)
    BY <1>7, <1>12, <2>1, <2>2 DEF AppendGroup
  <2>4. x = [node EXCEPT !.slots = Append(@, Slot(e))]
    BY <1>14, <2>2
  <2> QED
    BY <1>14, <2>3, <2>4
<1>16. start # 0
  BY <1>15 DEF Result
<1>17. PICK C : C = [b \in Blocks |-> O[b] + Count(M, b)]
  OBVIOUS
<1>18. Volume(v) /\ Balanced(v, C) /\ Tiles(M, 0, s) /\ Reads(v, M, text, Nat)
  BY <1>17 DEF AppMid
<1>19. Stored(v, w, e, C, text)
  BY <1>1, <1>3, <1>5, <1>7, <1>8, <1>9, <1>10, <1>16, <1>18, GroupStored, Zenon
<1>20. Good(e) /\ e.ls = s /\ End(e) = t /\ e \in Extents
  <2>1. e.ls = s /\ e.lc = m
    BY <1>10 DEF Extent
  <2>2. Good(e)
    BY <1>19 DEF Stored
  <2> QED
    BY <1>3, <2>1, <2>2, GoodFields DEF End
<1>21. PICK J : J = Append(M, e)
  OBVIOUS
<1>22. Tiles(J, 0, t)
  BY <1>18, <1>20, <1>21, TilesAppend
<1>23. M \in Seq(Extents)
  BY <1>18 DEF Tiles
<1>24. \A b : Count(J, b) = Count(M, b) + One(b, Phys(e))
  BY <1>20, <1>21, <1>23, CountAppend
<1>25. \A b \in Blocks : C[b] = O[b] + Count(M, b) /\ O[b] \in Nat /\ Count(M, b) \in Nat
  BY <1>17, <1>18, CountNat
<1>26. Balanced(w, [b \in Blocks |-> O[b] + Count(J, b)])
  <2>1. \A b \in Blocks : C[b] + One(b, Phys(e)) = O[b] + Count(J, b)
    BY <1>24, <1>25 DEF One
  <2>2. [b \in Blocks |-> C[b] + One(b, Phys(e))] = [b \in Blocks |-> O[b] + Count(J, b)]
    BY <2>1
  <2> QED
    BY <1>19, <2>2 DEF Stored
<1>27. Reads(w, J, text, Nat)
  <2>1. \A b \in Blocks : Count(M, b) >= 1 => C[b] >= 1
    BY <1>25
  <2>2. Keeps(v, w, C) /\ ReadsExtent(w, e, text, Nat)
    BY <1>19 DEF Stored
  <2>3. Reads(w, M, text, Nat)
    BY <1>18, <2>1, <2>2, ReadsKept
  <2> QED
    BY <1>20, <1>21, <1>23, <2>2, <2>3, ReadsAppend
<1>28. Keeps(vol, w, O)
  <2>1. \A b \in Blocks : O[b] >= 1 => C[b] >= 1
    BY <1>25
  <2>2. Keeps(vol, v, O) /\ Keeps(v, w, C)
    BY <1>19 DEF AppMid, Stored
  <2> QED
    BY <2>1, <2>2, KeepsChain
<1>29. /\ Volume(w) /\ w.overflow[f] = OverflowOf(M)
       /\ \A h \in Files \ {f} : w.overflow[h] = vol.overflow[h]
  BY <1>19 DEF AppMid, Stored
<1>30. OverflowOf(J) \in SUBSET Extents
  BY <1>22, OverflowType
<1>31. CASE Len(slots) < InlineSlots
  <2>1. q.vol = w /\ q.node = [node EXCEPT !.slots = Append(@, Slot(e))]
    <3>1. PICK x : x = [node EXCEPT !.slots = Append(@, Slot(e))]
      OBVIOUS
    <3>2. q = Result(w, x, FALSE)
      BY <1>15, <1>16, <1>31, <3>1
    <3>3. q.vol = w /\ q.node = x
      BY <3>2 DEF Result
    <3> QED
      BY <3>1, <3>3
  <2>2. SlotsOf(J) = Append(slots, Slot(e)) /\ OverflowOf(J) = OverflowOf(M)
    <3>1. ToSlots(M, J, slots, e)
      BY <1>13, <1>18, <1>20, <1>21, <1>31, SlotsAppend, Zenon
    <3> QED
      BY <3>1 DEF ToSlots
  <2>3. q.node = [live |-> TRUE, size |-> z, slots |-> SlotsOf(J)]
    BY <1>11, <1>13, <2>1, <2>2
  <2> QED
    BY <1>22, <1>26, <1>27, <1>28, <1>29, <2>1, <2>2, <2>3 DEF AppMid
<1>32. CASE ~(Len(slots) < InlineSlots)
  <2>1. q.vol = u /\ q.node = node
    BY <1>15, <1>16, <1>32 DEF Result
  <2>2. SlotsOf(J) = slots /\ OverflowOf(J) = {d \in OverflowOf(M) : d.ls # e.ls} \cup {e}
    <3>1. ToOverflow(M, J, slots, e)
      BY <1>13, <1>18, <1>20, <1>21, <1>32, SlotsAppend, Zenon
    <3> QED
      BY <3>1 DEF ToOverflow
  <2>3. u = [w EXCEPT !.overflow[f] = OverflowOf(J)]
    BY <1>12, <1>29, <2>2 DEF Volume
  <2>4. PICK S \in SUBSET Extents : S = OverflowOf(J)
    BY <1>30
  <2>5. /\ Volume(u) /\ u.overflow[f] = S /\ u.disk = w.disk /\ u.bitmap = w.bitmap
        /\ u.refs = w.refs /\ \A h \in Files \ {f} : u.overflow[h] = w.overflow[h]
    <3>1. u = [w EXCEPT !.overflow[f] = S]
      BY <2>3, <2>4
    <3> QED
      BY <1>29, <3>1 DEF Volume
  <2>6. Balanced(u, [b \in Blocks |-> O[b] + Count(J, b)]) /\ Keeps(vol, u, O)
    BY <1>26, <1>28, <2>5, SameDisk
  <2>7. Reads(u, J, text, Nat)
    BY <1>27, <2>5, SameDisk
  <2>8. u.overflow[f] = OverflowOf(J) /\ \A h \in Files \ {f} : u.overflow[h] = vol.overflow[h]
    BY <1>29, <2>4, <2>5
  <2>9. q.node = [live |-> TRUE, size |-> z, slots |-> SlotsOf(J)]
    BY <1>13, <2>1, <2>2
  <2> QED
    BY <1>22, <2>1, <2>5, <2>6, <2>7, <2>8, <2>9 DEF AppMid
<1> QED
  BY <1>31, <1>32

(* A write that appends without a gap starts a new group. *)
LEMMA AppendStarts ==
  ASSUME NEW node, NEW size \in Nat, node.size = size, NEW off \in Nat, off <= size, IsAppend(node, off)
  PROVE  off = size /\ GroupStart(FirstGroup(off)) = off
<1>1. off = size
  BY DEF IsAppend
<1>2. GroupBlocks \in Nat \ {0} /\ size + GroupBlocks - 1 \in Nat
  BY ExtentsAssumption
<1>3. PICK q \in Nat : /\ q = size \div GroupBlocks /\ GroupStart(q) <= size /\ GroupStart(q) \in Nat
  BY GroupOf, GroupsAligned
<1>4. q = FirstGroup(off)
  BY <1>1, <1>3 DEF FirstGroup
<1>5. CASE size = 0
  BY <1>1, <1>3, <1>4, <1>5
<1>6. CASE size # 0
  <2>1. PICK p \in Nat : /\ p = (size + GroupBlocks - 1) \div GroupBlocks /\ GroupStart(p) \in Nat
                         /\ size + GroupBlocks - 1 < GroupStart(p) + GroupBlocks
    BY <1>2, GroupOf, GroupsAligned
  <2>2. q >= p
    BY <1>1, <1>3, <1>6, <2>1 DEF IsAppend
  <2>3. GroupStart(p) <= GroupStart(q)
    BY <2>2, GroupMono
  <2> QED
    BY <1>1, <1>2, <1>3, <1>4, <2>1, <2>3
<1> QED
  BY <1>5, <1>6

IsRes(r, v, node, failed) == r = Result(v, node, failed) /\ failed \in BOOLEAN

LEMMA AppendShape ==
  ASSUME NEW r, IsRes(r, r.vol, r.node, r.failed), NEW f, NEW g, NEW off, NEW n, NEW val, NEW zip,
         NEW q, q = AppendGroup(r, f, g, off, n, val, zip)
  PROVE  IsRes(q, q.vol, q.node, q.failed) /\ (r.failed => q.failed)
<1>1. PICK data : data = GroupData(r.vol, << >>, g, r.node.size, off, n, val)
  OBVIOUS
<1>2. PICK start : start = AllocStart(r.vol, Len(Image(data, zip)))
  OBVIOUS
<1>3. PICK w : w = AllocAndWrite(r.vol, start, Image(data, zip))
  OBVIOUS
<1>4. PICK e : e = Extent(GroupStart(g), Len(data), start, Len(Image(data, zip)))
  OBVIOUS
<1>5. PICK x : x = [r.node EXCEPT !.slots = Append(@, Slot(e))]
  OBVIOUS
<1>6. PICK u : u = [w EXCEPT !.overflow[f] = {d \in @ : d.ls # e.ls} \cup {e}]
  OBVIOUS
<1>7. q = IF r.failed \/ start = 0 THEN [r EXCEPT !.failed = TRUE]
          ELSE IF Len(r.node.slots) < InlineSlots THEN Result(w, x, FALSE)
          ELSE Result(u, r.node, FALSE)
  BY <1>1, <1>2, <1>3, <1>4, <1>5, <1>6 DEF AppendGroup
<1>8. PICK a, b, c : a = r.vol /\ b = r.node /\ c = r.failed
  OBVIOUS
<1>9. r = [vol |-> a, node |-> b, failed |-> c] /\ c \in BOOLEAN
  BY <1>8 DEF IsRes, Result
<1>10. \/ q = [vol |-> a, node |-> b, failed |-> TRUE]
       \/ ~c /\ q = [vol |-> w, node |-> x, failed |-> FALSE]
       \/ ~c /\ q = [vol |-> u, node |-> b, failed |-> FALSE]
  BY <1>7, <1>8, <1>9 DEF Result
<1>11. CASE q = [vol |-> a, node |-> b, failed |-> TRUE]
  BY <1>11 DEF IsRes, Result
<1>12. CASE ~c /\ q = [vol |-> w, node |-> x, failed |-> FALSE]
  BY <1>8, <1>12 DEF IsRes, Result
<1>13. CASE ~c /\ q = [vol |-> u, node |-> b, failed |-> FALSE]
  BY <1>8, <1>13 DEF IsRes, Result
<1> QED
  BY <1>10, <1>11, <1>12, <1>13

AppendProgress(r, f, O, text, z, x) ==
  /\ IsRes(r, r.vol, r.node, r.failed)
  /\ ~r.failed => \E M : AppMid(r.vol, f, r.node, M, O, text, Lo(x, z), z)

LEMMA AppendFact ==
  ASSUME NEW f \in Files, NEW O, \A b \in Blocks : O[b] \in Nat, NEW list, NEW old,
         NEW size, size = inode[f].size, FileState(vol, f, inode[f], list, old, O), inode[f].live,
         NEW off \in Nat, NEW n \in Nat \ {0}, NEW val, NEW zip \in Zips, off <= size,
         IsAppend(inode[f], off),
         NEW z, z = Hi(size, off + n), z <= MaxSize,
         NEW text, text \in [1..z -> Values], WrittenAs(text, z, off, n, val),
         RestAs(text, old, size, off, n),
         NEW r, r = Appended(f, off, n, val, zip)[NumGroups(off, n)], ~r.failed
  PROVE  Outcome(f, r.vol, r.node, text, O)
<1>1. PICK F, N : F = FirstGroup(off) /\ N = NumGroups(off, n)
  OBVIOUS
<1>2. /\ F \in Nat /\ N \in Nat \ {0} /\ GroupStart(F) <= off
      /\ GroupStart(F + N) >= off + n
      /\ \A i \in 0..N : i < N => F + i \in Nat /\ GroupStart(F + i) < off + n
  BY <1>1, GroupsFact
<1>3. size \in Nat
  BY ExtentsAssumption DEF FileState, FileOK
<1>4. off = size /\ GroupStart(F) = off
  BY <1>1, <1>3, AppendStarts
<1>5. z \in Nat /\ z = off + n /\ size < z
  <2>1. off + n \in Nat /\ off + n > size
    BY <1>4
  <2> QED
    BY <1>3, <2>1 DEF Hi
<1>6. PICK R : R = Appended(f, off, n, val, zip)
  OBVIOUS
<1>7. /\ R[0] = Result(vol, Grown(inode[f], off + n), FALSE)
      /\ \A i \in 1..N : R[i] = AppendGroup(R[i - 1], f, F + i - 1, off, n, val, zip)
  <2>1. NumGroups(off, n) \in Nat
    BY <1>1, <1>2
  <2>2. AppendRun(R, f, off, n, val, zip)
    BY <1>6, <2>1, AppendedDef, Zenon
  <2> QED
    BY <1>1, <2>2 DEF AppendRun
<1>8. PICK S : S = {k \in 0..N : AppendProgress(R[k], f, O, text, z, GroupStart(F + k))}
  OBVIOUS
<1>9. 0 \in S
  <2>1. PICK node : node = Grown(inode[f], off + n)
    OBVIOUS
  <2>2. inode[f] = [live |-> TRUE, size |-> size, slots |-> SlotsOf(list)]
    BY DEF FileState, FileOK
  <2>3. node = [live |-> TRUE, size |-> z, slots |-> SlotsOf(list)]
    <3>1. z > size /\ off + n = z
      BY <1>3, <1>5
    <3>2. PICK x : x = inode[f]
      OBVIOUS
    <3>3. x = [live |-> TRUE, size |-> size, slots |-> SlotsOf(list)] /\ node = Grown(x, z)
      BY <2>1, <2>2, <3>1, <3>2
    <3> QED
      BY <3>1, <3>3 DEF Grown
  <2>4. Reads(vol, list, old, Nat) /\ Tiles(list, 0, size)
    BY DEF FileState, FileOK
  <2>5. SameText(old, text, 0, size, Nat, Nat)
    BY <1>4 DEF Span, SameText, RestAs
  <2>6. Reads(vol, list, text, Nat)
    BY <2>4, <2>5, ReadsText
  <2>7. AppMid(vol, f, node, list, O, text, size, z)
    BY <2>3, <2>4, <2>6 DEF AppMid, FileState, FileOK, Keeps
  <2>8. Lo(GroupStart(F), z) = size /\ F + 0 = F
    BY <1>2, <1>3, <1>4, <1>5 DEF Lo
  <2>9. R[0].vol = vol /\ R[0].node = node /\ R[0].failed = FALSE
    BY <1>7, <2>1 DEF Result
  <2>10. IsRes(R[0], R[0].vol, R[0].node, R[0].failed)
    BY <1>7, <2>1, <2>9 DEF IsRes
  <2>11. AppendProgress(R[0], f, O, text, z, GroupStart(F))
    BY <2>7, <2>8, <2>9, <2>10 DEF AppendProgress
  <2> QED
    BY <1>2, <1>8, <2>8, <2>11
<1>10. ASSUME NEW k \in 0..N, k \in S, k + 1 <= N PROVE k + 1 \in S
  <2>1. k + 1 \in 1..N /\ k + 1 \in 0..N /\ k + 1 - 1 = k /\ k < N /\ F + (k + 1) - 1 = F + k
    BY <1>2, <1>10
  <2>2. PICK g \in Nat : g = F + k /\ F + (k + 1) = g + 1
    BY <1>2, <2>1
  <2>3. PICK s, t : s = GroupStart(g) /\ t = GroupEnd(g, z)
    OBVIOUS
  <2>4. s \in Nat /\ s < z /\ off <= s
    <3>1. s < off + n
      BY <1>2, <2>1, <2>2, <2>3
    <3>2. GroupStart(F) <= GroupStart(g) /\ GroupStart(g) \in Nat
      <4>1. F \in Nat /\ F <= g
        BY <1>2, <2>1, <2>2
      <4> QED
        BY <4>1, GroupMono, GroupsAligned, Zenon
    <3> QED
      BY <1>4, <1>5, <2>3, <3>1, <3>2
  <2>5. t = Lo(GroupStart(g + 1), z)
    BY <1>5, <2>3, <2>4, GroupEnds
  <2>6. R[k + 1] = AppendGroup(R[k], f, g, off, n, val, zip)
    BY <1>7, <2>1, <2>2
  <2>7. AppendProgress(R[k], f, O, text, z, s)
    BY <1>8, <1>10, <2>2, <2>3
  <2>8. PICK p, q : p = R[k] /\ q = R[k + 1]
    OBVIOUS
  <2>9. IsRes(p, p.vol, p.node, p.failed)
    BY <2>7, <2>8 DEF AppendProgress
  <2>10. IsRes(q, q.vol, q.node, q.failed) /\ (p.failed => q.failed)
    BY <2>6, <2>8, <2>9, AppendShape
  <2>11. ASSUME ~q.failed PROVE \E J : AppMid(q.vol, f, q.node, J, O, text, t, z)
    <3>1. Lo(s, z) = s
      BY <1>5, <2>4 DEF Lo
    <3>2. PICK M : AppMid(p.vol, f, p.node, M, O, text, s, z)
      BY <2>7, <2>8, <2>10, <2>11, <3>1 DEF AppendProgress
    <3>3. PICK v, node : v = p.vol /\ node = p.node
      OBVIOUS
    <3>4. p = Result(v, node, FALSE) /\ AppMid(v, f, node, M, O, text, s, z)
      BY <2>9, <2>10, <2>11, <3>2, <3>3 DEF IsRes
    <3>5. q = AppendGroup(p, f, g, off, n, val, zip)
      BY <2>6, <2>8
    <3>6. n \in Nat /\ z \in Nat /\ z = off + n /\ s < z /\ off <= s
      BY <1>5, <2>4
    <3> QED
      BY <2>3, <2>11, <3>4, <3>5, <3>6, AppendStep, Zenon
  <2>12. AppendProgress(q, f, O, text, z, GroupStart(g + 1))
    BY <2>5, <2>10, <2>11 DEF AppendProgress
  <2> QED
    BY <1>8, <2>1, <2>2, <2>8, <2>12
<1>11. N \in S
  <2>1. N \in Nat /\ N \in 0..N
    BY <1>2
  <2>2. 0..N \subseteq S
    BY <1>9, <1>10, <2>1, Stepwise
  <2> QED
    BY <2>1, <2>2
<1>12. r = R[N] /\ AppendProgress(r, f, O, text, z, GroupStart(F + N))
  BY <1>1, <1>6, <1>8, <1>11
<1>13. Lo(GroupStart(F + N), z) = z
  <2>1. F + N \in Nat
    BY <1>2
  <2>2. GroupStart(F + N) \in Nat
    BY <2>1, GroupsAligned, Zenon
  <2> QED
    BY <1>2, <1>5, <2>2 DEF Lo
<1>14. PICK M : AppMid(r.vol, f, r.node, M, O, text, z, z)
  BY <1>12, <1>13 DEF AppendProgress
<1>15. r.node.size = z /\ r.node.live = TRUE /\ z \in 0..MaxSize
  BY <1>5, <1>14, ExtentsAssumption DEF AppMid
<1>16. FileState(r.vol, f, r.node, M, text, O)
  BY <1>14, <1>15 DEF AppMid, FileState, FileOK
<1> QED
  BY <1>14, <1>16 DEF AppMid, Outcome

IsNode(node, size, slots) == node = [live |-> TRUE, size |-> size, slots |-> slots]

LEMMA GrownFact ==
  ASSUME NEW node, NEW size \in Nat, NEW slots, IsNode(node, size, slots), NEW end \in Nat
  PROVE  IsNode(Grown(node, end), Hi(size, end), slots)
<1>1. PICK x : x = IF end > node.size THEN end ELSE node.size
  OBVIOUS
<1>2. x = Hi(size, end)
  BY <1>1 DEF Hi, IsNode
<1>3. Grown(node, end) = [node EXCEPT !.size = x]
  BY <1>1 DEF Grown
<1> QED
  BY <1>2, <1>3 DEF IsNode

(* obmafs3_write_file_data, on either path. *)
LEMMA WriteFact ==
  ASSUME NEW f \in Files, NEW O, \A b \in Blocks : O[b] \in Nat, NEW list, list = Collect(vol, f),
         NEW old, NEW size, size = inode[f].size, FileState(vol, f, inode[f], list, old, O),
         inode[f].live, NEW off \in Nat, NEW n \in Nat \ {0}, NEW val, NEW zip \in Zips, off <= size,
         off + n <= MaxSize, NEW z, z = Hi(size, off + n),
         NEW text, text \in [1..z -> Values], WrittenAs(text, z, off, n, val),
         RestAs(text, old, size, off, n),
         NEW r, r = WriteData(f, off, n, val, zip), ~r.failed
  PROVE  Outcome(f, r.vol, r.node, text, O)
<1>1. size \in Nat /\ size <= MaxSize /\ MaxSize \in Nat /\ off + n \in Nat
  BY ExtentsAssumption DEF FileState, FileOK
<1>2. z \in Nat /\ z <= MaxSize /\ z \in 0..MaxSize
  <2>1. z \in Nat /\ size <= z /\ off + n <= z /\ (z = size \/ z = off + n)
    <3>1. PICK x \in Nat, y \in Nat : x = size /\ y = off + n
      BY <1>1
    <3>2. z = Hi(x, y)
      BY <3>1
    <3>3. z \in Nat /\ x <= z /\ y <= z /\ (z = x \/ z = y)
      BY <3>2, HiFact
    <3> QED
      BY <3>1, <3>3
  <2> QED
    BY <1>1, <2>1
<1>3. CASE IsAppend(inode[f], off)
  <2>1. r = Appended(f, off, n, val, zip)[NumGroups(off, n)]
    BY <1>3 DEF WriteData
  <2> QED
    BY <1>2, <1>3, <2>1, AppendFact, Zenon
<1>4. CASE ~IsAppend(inode[f], off)
  <2>1. inode[f] = [live |-> TRUE, size |-> size, slots |-> SlotsOf(list)]
    BY DEF FileState, FileOK
  <2>2. PICK node : node = Grown(inode[f], off + n)
    OBVIOUS
  <2>3. node = [live |-> TRUE, size |-> z, slots |-> SlotsOf(list)]
    <3>1. IsNode(inode[f], size, SlotsOf(list))
      BY <2>1 DEF IsNode
    <3>2. IsNode(node, Hi(size, off + n), SlotsOf(list))
      BY <1>1, <2>2, <3>1, GrownFact, Zenon
    <3> QED
      BY <3>2 DEF IsNode
  <2>4. node.size = z /\ node.slots = SlotsOf(list)
    BY <2>3
  <2>5. PICK q : q = Rewritten(f, z, off, n, val, zip)[NumGroups(off, n)]
    OBVIOUS
  <2>6. r = IF q.failed THEN Result(q.vol, node, TRUE) ELSE WriteExtentList(q.vol, f, node, q.list)
    BY <1>4, <2>2, <2>4, <2>5 DEF WriteData
  <2>7. ~q.failed
    BY <2>6 DEF Result
  <2>8. Mid(vol, Collect(vol, f), O, old, size, Nat)
    BY DEF Mid, FileState, FileOK, Keeps
  <2>9. Mid(q.vol, q.list, O, text, z, Nat)
    BY <1>1, <2>5, <2>7, <2>8, RewriteFact, Zenon
  <2>10. PICK v, L : v = q.vol /\ L = q.list
    OBVIOUS
  <2>11. /\ Volume(v) /\ Tiles(L, 0, node.size) /\ Balanced(v, [b \in Blocks |-> O[b] + Count(L, b)])
         /\ Reads(v, L, text, Nat) /\ Keeps(vol, v, O) /\ v.overflow = vol.overflow
    BY <2>4, <2>9, <2>10 DEF Mid
  <2>12. /\ node = [live |-> TRUE, size |-> node.size, slots |-> node.slots]
         /\ node.size \in 0..MaxSize /\ text \in [1..node.size -> Values]
    BY <1>2, <2>3, <2>4
  <2>13. r = WriteExtentList(v, f, node, L)
    BY <2>6, <2>7, <2>10
  <2> QED
    BY <2>11, <2>12, <2>13, StoreFact, Zenon
<1> QED
  BY <1>3, <1>4
-----------------------------------------------------------------------------
(* Truncation.                                                              *)

LEMMA LogicalEndFact ==
  ASSUME NEW list, NEW n, Tiles(list, 0, n)
  PROVE  LogicalEnd(list)[Len(list)] = n
<1>1. PICK m \in Nat : m = Len(list)
  BY DEF Tiles
<1>2. PICK end : end = LogicalEnd(list)
  OBVIOUS
<1>3. end[0] = 0 /\ \A i \in 1..m : end[i] = end[i - 1] + list[i].lc
  BY <1>1, <1>2, LogicalEndDef
<1>4. PICK S : S = {k \in 0..m : end[k] = Pos(list, 0, k)}
  OBVIOUS
<1>5. 0 \in S
  BY <1>3, <1>4 DEF Pos
<1>6. ASSUME NEW k \in 0..m, k \in S, k + 1 <= m PROVE k + 1 \in S
  <2>1. k + 1 \in 1..m /\ k + 1 \in 0..m /\ k + 1 - 1 = k /\ k + 1 # 0
    BY <1>1, <1>6
  <2>2. end[k + 1] = end[k] + list[k + 1].lc /\ end[k] = Pos(list, 0, k)
    BY <1>3, <1>4, <1>6, <2>1
  <2>3. list[k + 1].ls = Pos(list, 0, k)
    BY <1>1, <2>1 DEF Tiles
  <2>4. Pos(list, 0, k + 1) = list[k + 1].ls + list[k + 1].lc
    BY <2>1 DEF Pos, End
  <2> QED
    BY <1>4, <2>1, <2>2, <2>3, <2>4
<1>7. m \in 0..m /\ 0..m \subseteq S
  <2>1. 0..m \subseteq S
    BY <1>5, <1>6, Stepwise
  <2> QED
    BY <1>1, <2>1
<1>8. end[m] = Pos(list, 0, m)
  BY <1>4, <1>7
<1> QED
  BY <1>1, <1>2, <1>8 DEF Tiles

(* How many extents behind the first k hold a block. *)
Behind(list, b, k) == Count(list, b) - CountTo(list, b, k)

LEMMA BehindFact ==
  ASSUME NEW list, Len(list) \in Nat, NEW k \in Nat, k + 1 <= Len(list), NEW b
  PROVE  /\ Behind(list, b, k) \in Nat /\ Behind(list, b, k + 1) \in Nat
         /\ Behind(list, b, k + 1) = Behind(list, b, k) - One(b, Phys(list[k + 1]))
         /\ b \in Phys(list[k + 1]) => Behind(list, b, k) >= 1
<1>1. k \in 0..Len(list) /\ k + 1 \in 0..Len(list) /\ k + 1 \in (k + 1)..Len(list)
  OBVIOUS
<1>2. CountTo(list, b, k) \in Nat /\ CountTo(list, b, k + 1) \in Nat /\ Count(list, b) \in Nat
  BY HoldingFinite DEF Count
<1>3. CountTo(list, b, k + 1) = CountTo(list, b, k) + One(b, Phys(list[k + 1]))
  BY CountStep
<1>4. CountTo(list, b, k + 1) <= Count(list, b)
  BY <1>1, CountRest
<1>5. One(b, Phys(list[k + 1])) \in Nat /\ (b \in Phys(list[k + 1]) => One(b, Phys(list[k + 1])) = 1)
  BY DEF One
<1> QED
  BY <1>2, <1>3, <1>4, <1>5 DEF Behind

CutMid(v, kept, pos, O, list, old, keep, k) ==
  /\ Volume(v) /\ v.overflow = vol.overflow
  /\ pos = Lo(keep, Pos(list, 0, k)) /\ Tiles(kept, 0, pos)
  /\ Balanced(v, [b \in Blocks |-> O[b] + Count(kept, b) + Behind(list, b, k)])
  /\ Keeps(vol, v, [b \in Blocks |-> O[b] + Behind(list, b, k)])
  /\ Reads(v, kept, old, Nat)

HeldBehind(O, list, k, X) == \A b \in Blocks : O[b] + Behind(list, b, k) >= 1 => X[b] >= 1
HeldIs(D, O, J, list, k) == \A b \in Blocks : D[b] = O[b] + Count(J, b) + Behind(list, b, k)

(* Where a step leads when it keeps J and leaves w. *)
LEMMA CutStays ==
  ASSUME NEW O, \A b \in Blocks : O[b] \in Nat, NEW list, Len(list) \in Nat, NEW k \in Nat,
         k + 1 <= Len(list), NEW old, NEW keep, NEW v, NEW kept, NEW pos,
         CutMid(v, kept, pos, O, list, old, keep, k),
         NEW w, Volume(w), w.overflow = v.overflow, NEW X, Keeps(v, w, X),
         HeldBehind(O, list, k + 1, X),
         NEW J, NEW at, at = Lo(keep, Pos(list, 0, k + 1)), Tiles(J, 0, at),
         NEW D, Balanced(w, D), HeldIs(D, O, J, list, k + 1),
         Reads(w, J, old, Nat)
  PROVE  CutMid(w, J, at, O, list, old, keep, k + 1)
<1>1. \A b \in Blocks : One(b, Phys(list[k + 1])) \in Nat
  BY DEF One
<1>2. \A b \in Blocks : /\ Behind(list, b, k) \in Nat /\ Behind(list, b, k + 1) \in Nat
                        /\ Behind(list, b, k + 1) <= Behind(list, b, k)
  BY <1>1, BehindFact
<1>3. Keeps(vol, v, [b \in Blocks |-> O[b] + Behind(list, b, k)])
  BY DEF CutMid
<1>4. Keeps(vol, w, [b \in Blocks |-> O[b] + Behind(list, b, k + 1)])
  BY <1>2, <1>3 DEF Keeps, HeldBehind
<1>5. Balanced(w, [b \in Blocks |-> O[b] + Count(J, b) + Behind(list, b, k + 1)])
  BY DEF Balanced, HeldIs
<1> QED
  BY <1>4, <1>5 DEF CutMid

Trades(kept, J, whole, S) ==
  \A b \in Blocks : /\ Count(kept, b) \in Nat /\ Count(J, b) \in Nat
                    /\ Count(J, b) + One(b, S) = Count(kept, b) + One(b, whole)

Freed(C, D, S) == (\A b \in S : C[b] >= 1) /\ \A b \in Blocks : D[b] = C[b] - One(b, S)
Held(J, D) == \A b \in Blocks : Count(J, b) >= 1 => D[b] >= 1

CutEffect(C, D, S, O, J, list, k) ==
  /\ HeldIs(D, O, J, list, k) /\ HeldBehind(O, list, k, D) /\ Freed(C, D, S) /\ Held(J, D)

(* The counts when a step frees S of the extent it handles. *)
LEMMA CutCounts ==
  ASSUME NEW O, \A b \in Blocks : O[b] \in Nat, NEW list, Len(list) \in Nat, NEW k \in Nat,
         k + 1 <= Len(list), NEW kept, NEW C, HeldIs(C, O, kept, list, k), NEW S \in SUBSET Blocks,
         NEW e, e = list[k + 1], S \subseteq Phys(e), NEW J, Trades(kept, J, Phys(e), S),
         NEW D, D = [b \in Blocks |-> C[b] - One(b, S)]
  PROVE  CutEffect(C, D, S, O, J, list, k + 1)
<1>1. ASSUME NEW b \in Blocks
      PROVE  /\ D[b] = C[b] - One(b, S) /\ D[b] = O[b] + Count(J, b) + Behind(list, b, k + 1)
             /\ b \in S => C[b] >= 1
             /\ O[b] + Behind(list, b, k + 1) >= 1 => D[b] >= 1
             /\ Count(J, b) >= 1 => D[b] >= 1
  <2>1. PICK o \in Nat, c \in Nat, j \in Nat : o = O[b] /\ c = Count(kept, b) /\ j = Count(J, b)
    BY <1>1 DEF Trades
  <2>2. PICK x \in Nat, y \in Nat : x = Behind(list, b, k) /\ y = Behind(list, b, k + 1)
    BY BehindFact
  <2>3. PICK s \in Nat, h \in Nat : s = One(b, S) /\ h = One(b, Phys(e))
    BY DEF One
  <2>4. y = x - h /\ (b \in Phys(e) => x >= 1)
    BY <2>2, <2>3, BehindFact
  <2>5. j + s = c + h
    BY <1>1, <2>1, <2>3 DEF Trades
  <2>6. PICK a : a = C[b] /\ a = o + c + x
    BY <1>1, <2>1, <2>2 DEF HeldIs
  <2>7. D[b] = a - s
    BY <1>1, <2>3, <2>6
  <2>8. D[b] = o + j + y /\ (b \in S => a >= 1)
    BY <2>4, <2>5, <2>6, <2>7
  <2>9. (o + y >= 1 => o + j + y >= 1) /\ (j >= 1 => o + j + y >= 1)
    OBVIOUS
  <2> QED
    BY <2>1, <2>2, <2>3, <2>6, <2>7, <2>8, <2>9, Zenon
<1> QED
  BY <1>1 DEF CutEffect, HeldIs, HeldBehind, Freed, Held

LEMMA CutStep ==
  ASSUME NEW O, \A b \in Blocks : O[b] \in Nat, NEW list, NEW n \in Nat, Tiles(list, 0, n),
         NEW old, Reads(vol, list, old, Nat), old \in [1..n -> Values], NEW keep \in Nat,
         NEW k \in Nat, k + 1 <= Len(list), NEW v, NEW kept, NEW pos,
         CutMid(v, kept, pos, O, list, old, keep, k),
         NEW r, r = [vol |-> v, list |-> kept, pos |-> pos, failed |-> FALSE],
         NEW q, q = CutExtent(r, list[k + 1], keep), ~q.failed
  PROVE  CutMid(q.vol, q.list, q.pos, O, list, old, keep, k + 1)
<1>1. Len(list) \in Nat /\ k + 1 \in 1..Len(list) /\ k + 1 - 1 = k /\ k \in 0..Len(list)
      /\ k + 1 \in 0..Len(list) /\ k + 1 # 0
  BY DEF Tiles
<1>2. PICK e : e = list[k + 1]
  OBVIOUS
<1>3. Good(e) /\ e.ls = Pos(list, 0, k) /\ End(e) = Pos(list, 0, k + 1)
  BY <1>1, <1>2 DEF Tiles, Pos
<1>4. /\ e \in Extents /\ e.ls \in Nat /\ e.lc \in Nat \ {0} /\ e.ps \in Nat \ {0} /\ e.pc \in Nat \ {0}
      /\ End(e) = e.ls + e.lc /\ End(e) \in Nat /\ e.ls < End(e) /\ End(e) <= n
  <2>1. Pos(list, 0, k + 1) \in 0..n
    BY <1>1, TilesOrder
  <2> QED
    BY <1>3, <2>1, GoodFields
<1>5. pos = Lo(keep, e.ls) /\ Tiles(kept, 0, pos) /\ Volume(v) /\ Reads(v, kept, old, Nat)
  BY <1>3 DEF CutMid
<1>6. PICK C : C = [b \in Blocks |-> O[b] + Count(kept, b) + Behind(list, b, k)]
  OBVIOUS
<1>7. Balanced(v, C) /\ HeldIs(C, O, kept, list, k)
  BY <1>6 DEF CutMid, HeldIs
<1>8. /\ Phys(e) \in SUBSET Blocks /\ kept \in Seq(Extents)
      /\ \A b \in Blocks : One(b, Phys(e)) \in Nat
  BY <1>3, <1>5, GoodPhys DEF One, Tiles
<1>9. \A b \in Blocks : /\ Behind(list, b, k) \in Nat /\ Behind(list, b, k + 1) \in Nat
                        /\ Behind(list, b, k + 1) = Behind(list, b, k) - One(b, Phys(e))
                        /\ b \in Phys(e) => Behind(list, b, k) >= 1
                        /\ O[b] \in Nat /\ Count(kept, b) \in Nat
  BY <1>1, <1>2, <1>5, BehindFact, CountNat
<1>10. ReadsExtent(v, e, old, Nat)
  <2>1. \A b \in Phys(e) : v.disk[b] = vol.disk[b]
    BY <1>8, <1>9 DEF CutMid, Keeps
  <2>2. ReadsExtent(vol, e, old, Nat)
    BY <1>1, <1>2 DEF Reads
  <2> QED
    BY <1>3, <2>1, <2>2, ReadKept DEF ReadsExtent
<1>11. r.vol = v /\ r.list = kept /\ r.pos = pos /\ r.failed = FALSE
  OBVIOUS
<1>12. CASE End(e) <= keep
  <2>1. pos = e.ls /\ pos + e.lc = End(e) /\ Lo(keep, End(e)) = End(e)
    BY <1>4, <1>5, <1>12 DEF Lo
  <2>2. q = [r EXCEPT !.pos = End(e), !.list = Append(kept, e)]
    BY <1>2, <1>11, <1>12, <2>1 DEF CutExtent
  <2>3. q.vol = v /\ q.list = Append(kept, e) /\ q.pos = End(e)
    BY <1>11, <2>2
  <2>4. PICK J : J = Append(kept, e)
    OBVIOUS
  <2>5. Tiles(J, 0, End(e))
    BY <1>3, <1>5, <2>1, <2>4, TilesAppend
  <2>6. \A b \in Blocks : Count(J, b) = Count(kept, b) + One(b, Phys(e))
    BY <1>4, <1>8, <2>4, CountAppend
  <2>7. \A b \in Blocks : C[b] = O[b] + Count(J, b) + Behind(list, b, k + 1)
    BY <1>7, <1>8, <1>9, <2>6 DEF HeldIs
  <2>8. Reads(v, J, old, Nat)
    BY <1>4, <1>5, <1>8, <1>10, <2>4, ReadsAppend
  <2>9. Keeps(v, v, C) /\ \A b \in Blocks : O[b] + Behind(list, b, k + 1) >= 1 => C[b] >= 1
    <3>1. \A b \in Blocks : Count(J, b) \in Nat
      BY <1>8, <1>9, <2>6
    <3> QED
      BY <1>9, <2>7, <3>1 DEF Keeps
  <2>10. CutMid(v, J, End(e), O, list, old, keep, k + 1)
    <3>1. HeldBehind(O, list, k + 1, C) /\ HeldIs(C, O, J, list, k + 1)
      BY <2>7, <2>9 DEF HeldBehind, HeldIs
    <3>2. End(e) = Lo(keep, Pos(list, 0, k + 1)) /\ v.overflow = v.overflow
      BY <1>3, <2>1
    <3> QED
      BY <1>1, <1>5, <1>7, <2>5, <2>8, <2>9, <3>1, <3>2, CutStays, Zenon
  <2> QED
    BY <2>3, <2>4, <2>10
<1>13. CASE ~(End(e) <= keep) /\ keep <= e.ls
  <2>1. pos = keep /\ pos + e.lc > keep /\ Lo(keep, End(e)) = keep
    BY <1>4, <1>5, <1>13 DEF Lo
  <2>2. PICK w : w = FreeBlocks(v, Phys(e))
    OBVIOUS
  <2>3. q = [r EXCEPT !.vol = w]
    <3>1. PICK to : to = r.pos + e.lc /\ ~(to <= keep) /\ r.pos >= keep
      BY <1>4, <1>11, <2>1
    <3>2. q = [r EXCEPT !.vol = FreeBlocks(@, Span(e.ps, e.pc))]
      BY <1>2, <1>11, <3>1 DEF CutExtent
    <3> QED
      BY <1>11, <2>2, <3>2 DEF Phys
  <2>4. q.vol = w /\ q.list = kept /\ q.pos = keep
    BY <1>11, <2>1, <2>3
  <2>5. PICK D : D = [b \in Blocks |-> C[b] - One(b, Phys(e))]
    OBVIOUS
  <2>6. Trades(kept, kept, Phys(e), Phys(e))
    BY <1>8, <1>9 DEF Trades
  <2>7. /\ HeldIs(D, O, kept, list, k + 1) /\ HeldBehind(O, list, k + 1, D)
        /\ Freed(C, D, Phys(e)) /\ Held(kept, D)
    <3>1. PICK S : S = Phys(e)
      OBVIOUS
    <3>2. S \in SUBSET Blocks /\ S \subseteq Phys(e) /\ Trades(kept, kept, Phys(e), S)
          /\ D = [b \in Blocks |-> C[b] - One(b, S)]
      BY <1>8, <2>5, <2>6, <3>1
    <3>3. CutEffect(C, D, S, O, kept, list, k + 1)
      BY <1>1, <1>2, <1>7, <3>2, CutCounts, Zenon
    <3> QED
      BY <3>1, <3>3 DEF CutEffect
  <2>8. Volume(w) /\ Balanced(w, D) /\ Keeps(v, w, D) /\ w.overflow = v.overflow
    BY <1>5, <1>7, <1>8, <2>2, <2>7, FreeEffect DEF Freed
  <2>10. Reads(w, kept, old, Nat)
    BY <1>5, <2>7, <2>8, ReadsKept DEF Held
  <2>11. CutMid(w, kept, keep, O, list, old, keep, k + 1)
    <3>1. HeldBehind(O, list, k + 1, D) /\ HeldIs(D, O, kept, list, k + 1)
      BY <2>7
    <3>2. keep = Lo(keep, Pos(list, 0, k + 1)) /\ Tiles(kept, 0, keep)
      BY <1>3, <1>5, <2>1
    <3> QED
      BY <1>1, <2>8, <2>10, <3>1, <3>2, CutStays, Zenon
  <2> QED
    BY <2>4, <2>11
<1>14. CASE ~(End(e) <= keep) /\ e.ls < keep /\ Plain(e)
  <2>1. /\ pos = e.ls /\ ~(pos + e.lc <= keep) /\ ~(pos >= keep) /\ Lo(keep, End(e)) = keep
        /\ keep < End(e) /\ e.lc = e.pc
    BY <1>4, <1>5, <1>14 DEF Lo, Plain
  <2>2. PICK S : S = Span(e.ps + (keep - e.ls), e.pc - (keep - e.ls))
    OBVIOUS
  <2>3. PICK w : w = FreeBlocks(v, S)
    OBVIOUS
  <2>4. PICK p : p = LeftPart(e, keep)
    OBVIOUS
  <2>5. q = [r EXCEPT !.vol = w, !.list = Append(kept, p), !.pos = keep]
    BY <1>2, <1>11, <1>14, <2>1, <2>2, <2>3, <2>4 DEF CutExtent, LeftPart
  <2>6. q.vol = w /\ q.list = Append(kept, p) /\ q.pos = keep
    BY <1>11, <2>5
  <2>7. /\ Good(p) /\ p.ls = e.ls /\ End(p) = keep /\ Phys(p) = Span(e.ps, keep - e.ls)
        /\ ReadsExtent(v, p, old, Nat) /\ p \in Extents
    BY <1>3, <1>10, <1>14, <2>1, <2>4, LeftPartFact, GoodFields
  <2>8. S \subseteq Phys(e) /\ \A b : One(b, Phys(e)) = One(b, Phys(p)) + One(b, S)
    <3>1. PICK x \in Nat : x = keep - e.ls /\ x <= e.pc
      BY <1>4, <2>1
    <3>2. PICK s \in Nat, c \in Nat : s = e.ps /\ c = e.pc
      BY <1>4
    <3>3. Parts(s, x, c, c)
      BY <3>1, <3>2, ThreeParts
    <3>4. s + c .. s + c - 1 = {} /\ s + x + (c - x) - 1 = s + c - 1
      <4>1. PICK z \in Nat : z = s + c
        OBVIOUS
      <4>2. z .. z - 1 = {}
        BY <4>1
      <4>3. s + x + (c - x) - 1 = s + c - 1
        BY <3>1
      <4> QED
        BY <4>1, <4>2, <4>3
    <3>5. S = s + x .. s + c - 1 /\ Phys(e) = s .. s + c - 1 /\ Phys(p) = s .. s + x - 1
      BY <2>2, <2>7, <3>1, <3>2, <3>4 DEF Span, Phys
    <3>6. \A b : One(b, {}) = 0 /\ One(b, Phys(p)) \in Nat /\ One(b, S) \in Nat
      BY DEF One
    <3> QED
      BY <3>3, <3>4, <3>5, <3>6 DEF Parts
  <2>9. PICK J : J = Append(kept, p)
    OBVIOUS
  <2>10. Tiles(J, 0, keep)
    BY <1>5, <2>1, <2>7, <2>9, TilesAppend
  <2>11. \A b \in Blocks : Count(J, b) = Count(kept, b) + One(b, Phys(p))
    BY <1>8, <2>7, <2>9, CountAppend
  <2>12. PICK D : D = [b \in Blocks |-> C[b] - One(b, S)]
    OBVIOUS
  <2>13. \A b \in Blocks : One(b, Phys(p)) \in Nat /\ One(b, S) \in Nat
    BY DEF One
  <2>14. S \in SUBSET Blocks /\ Trades(kept, J, Phys(e), S)
    <3>1. ASSUME NEW b \in Blocks
          PROVE  /\ Count(kept, b) \in Nat /\ Count(J, b) \in Nat
                 /\ Count(J, b) + One(b, S) = Count(kept, b) + One(b, Phys(e))
      <4>1. PICK c \in Nat, x \in Nat, y \in Nat : c = Count(kept, b) /\ x = One(b, Phys(p)) /\ y = One(b, S)
        BY <1>9, <2>13
      <4>2. Count(J, b) = c + x /\ One(b, Phys(e)) = x + y
        BY <2>8, <2>11, <4>1
      <4>3. c + x \in Nat /\ c + x + y = c + (x + y)
        OBVIOUS
      <4> QED
        BY <4>1, <4>2, <4>3, Zenon
    <3> QED
      BY <1>8, <2>8, <3>1 DEF Trades
  <2>15. /\ HeldIs(D, O, J, list, k + 1) /\ HeldBehind(O, list, k + 1, D)
         /\ Freed(C, D, S) /\ Held(J, D)
    <3>1. CutEffect(C, D, S, O, J, list, k + 1)
      BY <1>1, <1>2, <1>7, <2>8, <2>12, <2>14, CutCounts, Zenon
    <3> QED
      BY <3>1 DEF CutEffect
  <2>16. Volume(w) /\ Balanced(w, D) /\ Keeps(v, w, D) /\ w.overflow = v.overflow
    BY <1>5, <1>7, <2>3, <2>14, <2>15, FreeEffect DEF Freed
  <2>18. Reads(v, J, old, Nat)
    BY <1>5, <1>8, <2>7, <2>9, ReadsAppend
  <2>19. Reads(w, J, old, Nat)
    BY <2>10, <2>15, <2>16, <2>18, ReadsKept DEF Held
  <2>20. CutMid(w, J, keep, O, list, old, keep, k + 1)
    <3>1. HeldBehind(O, list, k + 1, D) /\ HeldIs(D, O, J, list, k + 1)
      BY <2>15
    <3>2. keep = Lo(keep, Pos(list, 0, k + 1))
      BY <1>3, <2>1
    <3> QED
      BY <1>1, <2>10, <2>16, <2>19, <3>1, <3>2, CutStays, Zenon
  <2> QED
    BY <2>6, <2>9, <2>20
<1>15. CASE ~(End(e) <= keep) /\ e.ls < keep /\ ~Plain(e)
  <2>1. /\ pos = e.ls /\ ~(pos + e.lc <= keep) /\ ~(pos >= keep) /\ Lo(keep, End(e)) = keep
        /\ keep < End(e)
    BY <1>4, <1>5, <1>15 DEF Lo
  <2>2. e.lc = GroupBlocks /\ Aligned(e.ls) /\ GroupBlocks \in Nat
    BY <1>3, <1>15, ExtentsAssumption DEF Good
  <2>3. PICK m \in 1..GroupBlocks : m = keep - e.ls /\ e.ls + m = keep /\ e.ls + m <= n /\ m <= e.lc
    <3>1. PICK s \in Nat, c \in Nat : s = e.ls /\ c = e.lc /\ c = GroupBlocks
      BY <1>4, <2>2
    <3>2. s < keep /\ keep < s + c /\ s + c <= n
      BY <1>4, <1>15, <2>1, <3>1
    <3>3. keep - s \in 1..GroupBlocks /\ s + (keep - s) = keep /\ keep <= n /\ keep - s <= c
      BY <3>1, <3>2
    <3> QED
      BY <3>1, <3>3
  <2>4. PICK data : data = [i \in 1..m |-> old[e.ls + i]]
    OBVIOUS
  <2>5. data \in [1..m -> Values] /\ \A i \in 1..m : data[i] = old[e.ls + i]
    <3>1. \A i \in 1..m : e.ls + i \in 1..n
      <4>1. PICK s \in Nat : s = e.ls /\ s + m <= n /\ m \in Nat
        BY <1>4, <2>2, <2>3
      <4>2. \A i \in 1..m : s + i \in 1..n
        BY <4>1
      <4> QED
        BY <4>1, <4>2
    <3> QED
      BY <2>4, <3>1
  <2>6. PICK image : image = Image(data, 0)
    OBVIOUS
  <2>7. image = [i \in 1..m |-> <<ReadExtent(v, e, pos + i - 1)>>] /\ Len(image) = m
    <3>1. image = [i \in 1..m |-> <<data[i]>>]
      BY <2>5, <2>6 DEF Image, Compresses
    <3>2. ASSUME NEW i \in 1..m PROVE ReadExtent(v, e, pos + i - 1) = data[i]
      <4>1. PICK lb \in Nat : lb = pos + i - 1 /\ lb + 1 = e.ls + i /\ lb \in Span(e.ls, e.lc)
        <5>1. PICK s \in Nat, c \in Nat : s = e.ls /\ c = e.lc /\ m <= c /\ pos = s /\ m \in Nat
          BY <1>4, <2>1, <2>2, <2>3
        <5>2. s + i - 1 \in Nat /\ s + i - 1 + 1 = s + i /\ s + i - 1 \in Span(s, c)
          <6>1. i \in Nat /\ 1 <= i /\ i <= c
            BY <3>2, <5>1
          <6> QED
            BY <6>1 DEF Span
        <5> QED
          BY <5>1, <5>2
      <4>2. ReadExtent(v, e, lb) = old[lb + 1]
        BY <1>10, <4>1 DEF ReadsExtent
      <4> QED
        BY <2>5, <3>2, <4>1, <4>2
    <3>3. m \in Nat
      BY <2>2, <2>3
    <3> QED
      BY <3>1, <3>2, <3>3
  <2>8. PICK w : w = FreeBlocks(v, Phys(e))
    OBVIOUS
  <2>9. PICK start : start = AllocStart(w, Len(image))
    OBVIOUS
  <2>10. PICK u : u = AllocAndWrite(w, start, image)
    OBVIOUS
  <2>11. PICK p : p = Extent(e.ls, m, start, Len(image))
    OBVIOUS
  <2>12. q = IF <<"error">> \in ToSet(image) THEN [r EXCEPT !.failed = TRUE]
             ELSE IF start = 0 THEN [r EXCEPT !.vol = w, !.failed = TRUE]
             ELSE [r EXCEPT !.vol = u, !.list = Append(kept, p), !.pos = keep]
    BY <1>2, <1>11, <1>15, <2>1, <2>3, <2>7, <2>8, <2>9, <2>10, <2>11 DEF CutExtent, Phys
  <2>13. start # 0 /\ q.vol = u /\ q.list = Append(kept, p) /\ q.pos = keep
    BY <1>11, <2>12
  <2>14. PICK D : D = [b \in Blocks |-> C[b] - One(b, Phys(e))]
    OBVIOUS
  <2>15. Trades(kept, kept, Phys(e), Phys(e))
    BY <1>8, <1>9 DEF Trades
  <2>16. /\ HeldIs(D, O, kept, list, k + 1) /\ HeldBehind(O, list, k + 1, D)
         /\ Freed(C, D, Phys(e)) /\ Held(kept, D)
    <3>1. PICK S : S = Phys(e)
      OBVIOUS
    <3>2. S \in SUBSET Blocks /\ S \subseteq Phys(e) /\ Trades(kept, kept, Phys(e), S)
          /\ D = [b \in Blocks |-> C[b] - One(b, S)]
      BY <1>8, <2>14, <2>15, <3>1
    <3>3. CutEffect(C, D, S, O, kept, list, k + 1)
      BY <1>1, <1>2, <1>7, <3>2, CutCounts, Zenon
    <3> QED
      BY <3>1, <3>3 DEF CutEffect
  <2>17. Volume(w) /\ Balanced(w, D) /\ Keeps(v, w, D) /\ w.overflow = v.overflow
    BY <1>5, <1>7, <1>8, <2>8, <2>16, FreeEffect DEF Freed
  <2>18. Stored(w, u, p, D, old)
    <3>1. 0 \in Zips
      BY ExtentsAssumption DEF Zips
    <3>2. PICK s \in Nat : s = e.ls
      BY <1>4
    <3>3. Aligned(s) /\ p = Extent(s, m, start, Len(image)) /\ \A i \in 1..m : data[i] = old[s + i]
      BY <2>2, <2>5, <2>11, <3>2
    <3>4. m \in 1..GroupBlocks /\ data \in [1..m -> Values]
      BY <2>3, <2>5
    <3> QED
      BY <3>4, <2>6, <2>9, <2>10, <2>13, <2>17, <3>1, <3>3, GroupStored, Zenon
  <2>19. Good(p) /\ p.ls = e.ls /\ End(p) = keep /\ p \in Extents /\ ReadsExtent(u, p, old, Nat)
    <3>1. p.ls = e.ls /\ p.lc = m
      BY <2>11 DEF Extent
    <3> QED
      BY <2>3, <2>18, <3>1, GoodFields DEF Stored, End
  <2>20. PICK J : J = Append(kept, p)
    OBVIOUS
  <2>21. Tiles(J, 0, keep)
    BY <1>5, <2>1, <2>19, <2>20, TilesAppend
  <2>22. \A b \in Blocks : Count(J, b) = Count(kept, b) + One(b, Phys(p)) /\ One(b, Phys(p)) \in Nat
    BY <1>8, <2>19, <2>20, CountAppend DEF One
  <2>23. PICK E : E = [b \in Blocks |-> D[b] + One(b, Phys(p))]
    OBVIOUS
  <2>24. Volume(u) /\ Balanced(u, E) /\ Keeps(w, u, D) /\ u.overflow = v.overflow
    BY <2>17, <2>18, <2>23 DEF Stored
  <2>25. \A b \in Blocks : E[b] = O[b] + Count(J, b) + Behind(list, b, k + 1)
    <3>1. SUFFICES ASSUME NEW b \in Blocks
                   PROVE  E[b] = O[b] + Count(J, b) + Behind(list, b, k + 1)
      OBVIOUS
    <3>2. PICK o \in Nat, c \in Nat, y \in Nat, h \in Nat :
             o = O[b] /\ c = Count(kept, b) /\ y = Behind(list, b, k + 1) /\ h = One(b, Phys(p))
      BY <1>9, <2>22, <3>1
    <3>3. D[b] = o + c + y /\ E[b] = D[b] + h /\ Count(J, b) = c + h
      BY <2>16, <2>22, <2>23, <3>1, <3>2 DEF HeldIs
    <3>4. (o + c + y) + h = o + (c + h) + y
      OBVIOUS
    <3> QED
      BY <3>2, <3>3, <3>4
  <2>27. Keeps(v, u, D)
    BY <2>17, <2>24, KeepsChain
  <2>28. Reads(u, kept, old, Nat)
    BY <1>5, <2>16, <2>27, ReadsKept DEF Held
  <2>29. Reads(u, J, old, Nat)
    BY <1>8, <2>19, <2>20, <2>28, ReadsAppend
  <2>30. CutMid(u, J, keep, O, list, old, keep, k + 1)
    <3>1. HeldBehind(O, list, k + 1, D) /\ HeldIs(E, O, J, list, k + 1)
      BY <2>16, <2>25 DEF HeldIs
    <3>2. keep = Lo(keep, Pos(list, 0, k + 1))
      BY <1>3, <2>1
    <3> QED
      BY <1>1, <2>21, <2>24, <2>27, <2>29, <3>1, <3>2, CutStays, Zenon
  <2> QED
    BY <2>13, <2>20, <2>30
<1> QED
  BY <1>4, <1>12, <1>13, <1>14, <1>15

IsCutRun(r, v, kept, pos, failed) ==
  r = [vol |-> v, list |-> kept, pos |-> pos, failed |-> failed] /\ failed \in BOOLEAN

LEMMA CutShape ==
  ASSUME NEW r, IsCutRun(r, r.vol, r.list, r.pos, r.failed), NEW e, NEW keep,
         NEW q, q = CutExtent(r, e, keep)
  PROVE  IsCutRun(q, q.vol, q.list, q.pos, q.failed) /\ (r.failed => q.failed)
<1>1. PICK to : to = r.pos + e.lc
  OBVIOUS
<1>2. PICK same : same = IF r.failed THEN r.list ELSE Append(r.list, e)
  OBVIOUS
<1>3. PICK gone : gone = FreeBlocks(r.vol, Span(e.ps, e.pc))
  OBVIOUS
<1>4. PICK left : left = keep - r.pos
  OBVIOUS
<1>5. PICK image : image = [i \in 1..left |-> <<ReadExtent(r.vol, e, r.pos + i - 1)>>]
  OBVIOUS
<1>6. PICK start : start = AllocStart(gone, left)
  OBVIOUS
<1>7. PICK tail : tail = FreeBlocks(r.vol, Span(e.ps + left, e.pc - left))
  OBVIOUS
<1>8. PICK put : put = AllocAndWrite(gone, start, image)
  OBVIOUS
<1>9. PICK A : A = Append(r.list, Extent(e.ls, left, e.ps, left))
  OBVIOUS
<1>10. PICK B : B = Append(r.list, Extent(e.ls, left, start, left))
  OBVIOUS
<1>11. q = IF r.failed \/ to <= keep THEN [r EXCEPT !.pos = to, !.list = same]
           ELSE IF r.pos >= keep THEN [r EXCEPT !.vol = gone]
           ELSE IF Plain(e) THEN [r EXCEPT !.vol = tail, !.list = A, !.pos = keep]
           ELSE IF <<"error">> \in ToSet(image) THEN [r EXCEPT !.failed = TRUE]
           ELSE IF start = 0 THEN [r EXCEPT !.vol = gone, !.failed = TRUE]
           ELSE [r EXCEPT !.vol = put, !.list = B, !.pos = keep]
  BY <1>1, <1>2, <1>3, <1>4, <1>5, <1>6, <1>7, <1>8, <1>9, <1>10 DEF CutExtent
<1>12. PICK a, b, c, d : a = r.vol /\ b = r.list /\ c = r.pos /\ d = r.failed
  OBVIOUS
<1>13. r = [vol |-> a, list |-> b, pos |-> c, failed |-> d] /\ d \in BOOLEAN
  BY <1>12 DEF IsCutRun
<1>14. PICK v, l, p, x : /\ q = [vol |-> v, list |-> l, pos |-> p, failed |-> x]
                         /\ x \in BOOLEAN /\ (d => x)
  <2>1. CASE d \/ to <= keep
    <3>1. q = [vol |-> a, list |-> same, pos |-> to, failed |-> d]
      BY <1>11, <1>12, <1>13, <2>1
    <3> QED
      BY <1>13, <3>1
  <2>2. CASE ~d /\ ~(to <= keep) /\ c >= keep
    <3>1. q = [vol |-> gone, list |-> b, pos |-> c, failed |-> d]
      BY <1>11, <1>12, <1>13, <2>2
    <3> QED
      BY <1>13, <3>1
  <2>3. CASE ~d /\ ~(to <= keep) /\ ~(c >= keep) /\ Plain(e)
    <3>1. q = [vol |-> tail, list |-> A, pos |-> keep, failed |-> d]
      BY <1>11, <1>12, <1>13, <2>3
    <3> QED
      BY <1>13, <3>1
  <2>4. CASE ~d /\ ~(to <= keep) /\ ~(c >= keep) /\ ~Plain(e)
            /\ <<"error">> \notin ToSet(image) /\ start = 0
    <3>1. q = [vol |-> gone, list |-> b, pos |-> c, failed |-> TRUE]
      BY <1>11, <1>12, <1>13, <2>4
    <3> QED
      BY <3>1
  <2>5. CASE ~d /\ ~(to <= keep) /\ ~(c >= keep) /\ ~Plain(e)
            /\ <<"error">> \notin ToSet(image) /\ start # 0
    <3>1. q = [vol |-> put, list |-> B, pos |-> keep, failed |-> d]
      BY <1>11, <1>12, <1>13, <2>5
    <3> QED
      BY <1>13, <3>1
  <2>6. CASE ~d /\ ~(to <= keep) /\ ~(c >= keep) /\ ~Plain(e)
            /\ <<"error">> \in ToSet(image)
    <3>1. q = [vol |-> a, list |-> b, pos |-> c, failed |-> TRUE]
      BY <1>11, <1>12, <1>13, <2>6
    <3> QED
      BY <3>1
  <2> QED
    BY <2>1, <2>2, <2>3, <2>4, <2>5, <2>6
<1>15. q.vol = v /\ q.list = l /\ q.pos = p /\ q.failed = x
  BY <1>14
<1> QED
  BY <1>12, <1>14, <1>15 DEF IsCutRun

CutProgress(r, O, list, old, keep, k) ==
  /\ IsCutRun(r, r.vol, r.list, r.pos, r.failed)
  /\ ~r.failed => CutMid(r.vol, r.list, r.pos, O, list, old, keep, k)

LEMMA CutGoesOn ==
  ASSUME NEW O, \A b \in Blocks : O[b] \in Nat, NEW list, NEW n \in Nat, Tiles(list, 0, n),
         NEW old, Reads(vol, list, old, Nat), old \in [1..n -> Values], NEW keep \in Nat,
         NEW k \in Nat, k + 1 <= Len(list), NEW r, CutProgress(r, O, list, old, keep, k),
         NEW q, q = CutExtent(r, list[k + 1], keep)
  PROVE  CutProgress(q, O, list, old, keep, k + 1)
<1>1. IsCutRun(q, q.vol, q.list, q.pos, q.failed) /\ (r.failed => q.failed)
  BY CutShape DEF CutProgress
<1>2. ASSUME ~q.failed PROVE CutMid(q.vol, q.list, q.pos, O, list, old, keep, k + 1)
  <2>1. PICK v, kept, pos : v = r.vol /\ kept = r.list /\ pos = r.pos
    OBVIOUS
  <2>2. ~r.failed /\ r.failed \in BOOLEAN /\ r.failed = FALSE
    BY <1>1, <1>2 DEF CutProgress, IsCutRun
  <2>3. r = [vol |-> v, list |-> kept, pos |-> pos, failed |-> FALSE]
    BY <2>1, <2>2 DEF CutProgress, IsCutRun
  <2>4. CutMid(v, kept, pos, O, list, old, keep, k)
    BY <2>1, <2>2 DEF CutProgress
  <2> QED
    BY <1>2, <2>3, <2>4, CutStep, Zenon
<1> QED
  BY <1>1, <1>2 DEF CutProgress

LEMMA ResizedFact ==
  ASSUME NEW x, NEW size, NEW slots, IsNode(x, size, slots), NEW keep
  PROVE  IsNode([x EXCEPT !.size = keep], keep, slots)
<1>1. x = [live |-> TRUE, size |-> size, slots |-> slots]
  BY DEF IsNode
<1>2. PICK y : y = [x EXCEPT !.size = keep]
  OBVIOUS
<1>3. y = [live |-> TRUE, size |-> keep, slots |-> slots]
  BY <1>1, <1>2
<1> QED
  BY <1>2, <1>3 DEF IsNode

(* obmafs3_truncate_file_blocks. *)
LEMMA TruncateFact ==
  ASSUME NEW f \in Files, NEW O, \A b \in Blocks : O[b] \in Nat, NEW list, list = Collect(vol, f),
         NEW old, NEW size, size = inode[f].size, FileState(vol, f, inode[f], list, old, O),
         inode[f].live, NEW keep \in Nat, keep < size, NEW text, text = SubSeq(old, 1, keep),
         NEW r, r = TruncateBlocks(f, keep), ~r.failed
  PROVE  Outcome(f, r.vol, r.node, text, O)
<1>1. /\ size \in Nat /\ size <= MaxSize /\ MaxSize \in Nat /\ Tiles(list, 0, size) /\ Volume(vol)
      /\ old \in [1..size -> Values] /\ Reads(vol, list, old, Nat)
      /\ Balanced(vol, [b \in Blocks |-> O[b] + Count(list, b)])
      /\ IsNode(inode[f], size, SlotsOf(list))
  BY ExtentsAssumption DEF FileState, FileOK, IsNode
<1>2. PICK N \in Nat : N = Len(list)
  BY <1>1 DEF Tiles
<1>3. PICK R : R = CutAt(list, keep)
  OBVIOUS
<1>4. /\ R[0] = [vol |-> vol, list |-> << >>, pos |-> 0, failed |-> FALSE]
      /\ \A i \in 1..N : R[i] = CutExtent(R[i - 1], list[i], keep)
  <2>1. Len(list) \in Nat
    BY <1>2
  <2>2. CutRun(R, list, keep)
    BY <1>3, <2>1, CutAtDef, Zenon
  <2> QED
    BY <1>2, <2>2 DEF CutRun
<1>5. PICK S : S = {k \in 0..N : CutProgress(R[k], O, list, old, keep, k)}
  OBVIOUS
<1>6. 0 \in S
  <2>1. R[0].vol = vol /\ R[0].list = << >> /\ R[0].pos = 0 /\ R[0].failed = FALSE
    BY <1>4
  <2>2. IsCutRun(R[0], R[0].vol, R[0].list, R[0].pos, R[0].failed)
    BY <1>4, <2>1 DEF IsCutRun
  <2>3. Tiles(<< >>, 0, 0) /\ 0 = Lo(keep, Pos(list, 0, 0))
    BY TilesEmpty DEF Lo, Pos
  <2>4. \A b : Count(<< >>, b) = 0 /\ CountTo(list, b, 0) = 0 /\ Count(list, b) \in Nat
    BY <1>1, CountNone, CountNat DEF Count
  <2>5. \A b \in Blocks : O[b] + Count(<< >>, b) + Behind(list, b, 0) = O[b] + Count(list, b)
    BY <2>4 DEF Behind
  <2>6. Balanced(vol, [b \in Blocks |-> O[b] + Count(<< >>, b) + Behind(list, b, 0)])
    BY <1>1, <2>5 DEF Balanced
  <2>7. Keeps(vol, vol, [b \in Blocks |-> O[b] + Behind(list, b, 0)]) /\ Reads(vol, << >>, old, Nat)
    BY DEF Keeps, Reads
  <2>8. CutMid(vol, << >>, 0, O, list, old, keep, 0)
    BY <1>1, <2>3, <2>6, <2>7 DEF CutMid
  <2>9. CutProgress(R[0], O, list, old, keep, 0)
    BY <2>1, <2>2, <2>8 DEF CutProgress
  <2> QED
    BY <1>5, <2>9
<1>7. ASSUME NEW k \in 0..N, k \in S, k + 1 <= N PROVE k + 1 \in S
  <2>1. k + 1 \in 1..N /\ k + 1 \in 0..N /\ k + 1 - 1 = k /\ k \in Nat /\ k + 1 <= Len(list)
    BY <1>2, <1>7
  <2>2. R[k + 1] = CutExtent(R[k], list[k + 1], keep)
    BY <1>4, <2>1
  <2>3. CutProgress(R[k], O, list, old, keep, k)
    BY <1>5, <1>7
  <2>4. CutProgress(R[k + 1], O, list, old, keep, k + 1)
    BY <1>1, <2>1, <2>2, <2>3, CutGoesOn, Zenon
  <2> QED
    BY <1>5, <2>1, <2>4
<1>8. CutProgress(R[N], O, list, old, keep, N)
  <2>1. 0..N \subseteq S
    BY <1>6, <1>7, Stepwise
  <2>2. N \in 0..N
    OBVIOUS
  <2> QED
    BY <1>5, <2>1, <2>2
<1>9. PICK node : node = [inode[f] EXCEPT !.size = keep]
  OBVIOUS
<1>10. PICK q : q = R[N]
  OBVIOUS
<1>11. r = IF q.failed THEN Result(q.vol, inode[f], TRUE) ELSE WriteExtentList(q.vol, f, node, q.list)
  <2>1. ~(keep >= LogicalEnd(list)[Len(list)])
    <3>1. LogicalEnd(list)[Len(list)] = size
      BY <1>1, LogicalEndFact
    <3> QED
      BY <1>1, <3>1
  <2> QED
    BY <1>2, <1>3, <1>9, <1>10, <2>1 DEF TruncateBlocks
<1>12. ~q.failed
  BY <1>11 DEF Result
<1>13. PICK v, J, p : v = q.vol /\ J = q.list /\ p = q.pos
  OBVIOUS
<1>14. CutMid(v, J, p, O, list, old, keep, N)
  BY <1>8, <1>10, <1>12, <1>13 DEF CutProgress
<1>15. p = keep
  BY <1>1, <1>2, <1>14 DEF CutMid, Tiles, Lo
<1>16. node = [live |-> TRUE, size |-> keep, slots |-> SlotsOf(list)]
  <2>1. IsNode(node, keep, SlotsOf(list))
    BY <1>1, <1>9, ResizedFact, Zenon
  <2> QED
    BY <2>1 DEF IsNode
<1>17. /\ node.size = keep /\ node.slots = SlotsOf(list)
       /\ node = [live |-> TRUE, size |-> node.size, slots |-> node.slots]
  BY <1>16
<1>18. node.size \in 0..MaxSize
  BY <1>1, <1>17
<1>19. text \in [1..node.size -> Values] /\ \A i \in 1..keep : text[i] = old[i]
  <2>1. text = [i \in 1..keep |-> old[i]]
    <3>1. old \in Seq(Values) /\ Len(old) = size
      BY <1>1
    <3> QED
      BY <3>1, <1>1
  <2>2. \A i \in 1..keep : i \in 1..size
    BY <1>1
  <2>3. \A i \in 1..keep : old[i] \in Values /\ text[i] = old[i]
    BY <1>1, <2>1, <2>2
  <2>4. text \in [1..keep -> Values]
    BY <2>1, <2>3
  <2> QED
    BY <1>17, <2>3, <2>4
<1>20. \A b \in Blocks : Behind(list, b, N) = 0 /\ O[b] \in Nat /\ Count(J, b) \in Nat
  BY <1>1, <1>2, <1>14, CountNat DEF Behind, Count, CutMid
<1>21. Balanced(v, [b \in Blocks |-> O[b] + Count(J, b)]) /\ Keeps(vol, v, O)
  <2>1. \A b \in Blocks : /\ O[b] + Count(J, b) + Behind(list, b, N) = O[b] + Count(J, b)
                          /\ O[b] + Behind(list, b, N) = O[b]
    BY <1>20
  <2> QED
    BY <1>14, <2>1 DEF CutMid, Balanced, Keeps
<1>22. Reads(v, J, text, Nat)
  <2>1. Tiles(J, 0, keep) /\ Reads(v, J, old, Nat)
    BY <1>14, <1>15 DEF CutMid
  <2>2. SameText(old, text, 0, keep, Nat, Nat)
    BY <1>19 DEF SameText
  <2> QED
    BY <2>1, <2>2, ReadsText
<1>23. Volume(v) /\ v.overflow = vol.overflow /\ Tiles(J, 0, node.size)
  BY <1>14, <1>15, <1>17 DEF CutMid
<1>24. r = WriteExtentList(v, f, node, J)
  BY <1>11, <1>12, <1>13
<1> QED
  BY <1>17, <1>18, <1>19, <1>21, <1>22, <1>23, <1>24, StoreFact, Zenon
-----------------------------------------------------------------------------
(* Clones.                                                                  *)

LEMMA AlignedShift ==
  ASSUME NEW x \in Nat, NEW y \in Nat, NEW z \in Nat, Aligned(x), Aligned(y), Aligned(z), y <= x
  PROVE  Aligned(z + (x - y))
<1>1. GroupBlocks \in Nat /\ GroupBlocks >= 1
  BY ExtentsAssumption
<1>2. PICK p \in Int, q \in Int, r \in Int :
         x = p * GroupBlocks /\ y = q * GroupBlocks /\ z = r * GroupBlocks
  <2>1. x \div GroupBlocks \in Int /\ y \div GroupBlocks \in Int /\ z \div GroupBlocks \in Int
    BY <1>1
  <2>2. /\ x = (x \div GroupBlocks) * GroupBlocks /\ y = (y \div GroupBlocks) * GroupBlocks
        /\ z = (z \div GroupBlocks) * GroupBlocks
    BY <1>1 DEF Aligned
  <2> QED
    BY <2>1, <2>2
<1>3. z + (x - y) = (r + (p - q)) * GroupBlocks
  BY <1>1, <1>2
<1>4. PICK m \in Int : m = r + (p - q)
  OBVIOUS
<1>5. (m * GroupBlocks) % GroupBlocks = 0
  BY <1>1
<1> QED
  BY <1>3, <1>4, <1>5 DEF Aligned

(* t has at to..to+n-1 what s has at from..from+n-1. *)
CopiedText(t, s, from, to, n) == \A i \in Nat : i < n => t[to + i + 1] = s[from + i + 1]

(* p is what lies at first..last-1 of e, for position at. *)
Copies(p, e, at, first, last) ==
  /\ Good(p) /\ p.ls = at /\ End(p) = at + (last - first) /\ Phys(p) \subseteq Phys(e)
  /\ \A v, s, t : ReadsExtent(v, e, s, Nat) /\ CopiedText(t, s, first, at, last - first)
                    => ReadsExtent(v, p, t, Nat)

LEMMA CopyPlain ==
  ASSUME NEW e, Good(e), Plain(e), NEW first \in Nat, NEW last \in Nat, NEW at \in Nat,
         e.ls <= first, first < last, last <= End(e), NEW n, n = last - first,
         NEW p, p = Extent(at, n, e.ps + (first - e.ls), n)
  PROVE  Copies(p, e, at, first, last)
<1>1. PICK ls \in Nat, lc \in Nat, ps \in Nat : ls = e.ls /\ lc = e.lc /\ ps = e.ps /\ e.pc = lc
                                               /\ End(e) = ls + lc /\ ps >= 1 /\ ps + lc - 1 <= NumBlocks
  BY GoodFields DEF Plain
<1>2. PICK d \in Nat : d = first - ls /\ n \in Nat /\ n >= 1 /\ d + n <= lc /\ NumBlocks \in Nat
  BY <1>1, ExtentsAssumption
<1>3. PICK q \in Nat : q = ps + d /\ q >= 1 /\ q + n - 1 <= NumBlocks
  BY <1>1, <1>2
<1>4. /\ p \in Extents /\ p.ls = at /\ p.lc = n /\ p.ps = q /\ p.pc = n /\ End(p) = at + n
  BY <1>1, <1>2, <1>3 DEF Extent, Extents, End
<1>5. Good(p) /\ Plain(p)
  BY <1>2, <1>3, <1>4 DEF Good, Plain
<1>6. Phys(p) \subseteq Phys(e)
  <2>1. Phys(p) = q .. q + n - 1 /\ Phys(e) = ps .. ps + lc - 1
    BY <1>1, <1>4 DEF Phys, Span
  <2> QED
    BY <1>2, <1>3, <2>1
<1>7. ASSUME NEW v, NEW s, NEW t, ReadsExtent(v, e, s, Nat), CopiedText(t, s, first, at, n)
      PROVE  ReadsExtent(v, p, t, Nat)
  <2>1. SUFFICES ASSUME NEW lb \in Span(p.ls, p.lc), lb \in Nat
                 PROVE  ReadExtent(v, p, lb) = t[lb + 1]
    BY DEF ReadsExtent
  <2>2. PICK i \in Nat : i = lb - at /\ i < n /\ lb + 1 = at + i + 1
    BY <1>2, <1>4, <2>1 DEF Span
  <2>3. PICK x \in Nat : x = first + i /\ x \in Span(ls, lc) /\ x + 1 = first + i + 1
    BY <1>1, <1>2, <2>2 DEF Span
  <2>4. p.ps + (lb - p.ls) = e.ps + (x - e.ls)
    BY <1>1, <1>2, <1>3, <1>4, <2>2, <2>3
  <2>5. ReadExtent(v, p, lb) = ReadExtent(v, e, x)
    BY <1>5, <2>4 DEF ReadExtent
  <2>6. ReadExtent(v, e, x) = s[x + 1]
    BY <1>1, <1>7, <2>3 DEF ReadsExtent
  <2>7. t[at + i + 1] = s[first + i + 1]
    BY <1>7, <2>2 DEF CopiedText
  <2> QED
    BY <2>2, <2>3, <2>5, <2>6, <2>7
<1> QED
  BY <1>4, <1>5, <1>6, <1>7 DEF Copies

LEMMA CopyWhole ==
  ASSUME NEW e, Good(e), ~Plain(e), NEW at \in Nat, Aligned(at), NEW first, first = e.ls,
         NEW last, last = End(e), NEW p, p = Extent(at, e.lc, e.ps, e.pc)
  PROVE  Copies(p, e, at, first, last)
<1>1. PICK ls \in Nat, lc \in Nat, ps \in Nat, pc \in Nat :
         ls = e.ls /\ lc = e.lc /\ ps = e.ps /\ pc = e.pc /\ End(e) = ls + lc
  BY GoodFields
<1>2. lc >= 1 /\ pc >= 1 /\ ps >= 1 /\ ps + pc - 1 <= NumBlocks
      /\ Compression /\ lc = GroupBlocks /\ Aligned(ls) /\ pc < lc /\ lc # pc
  BY <1>1 DEF Good, Plain
<1>3. p = [ls |-> at, lc |-> lc, ps |-> ps, pc |-> pc]
  BY <1>1 DEF Extent
<1>4. p \in Extents /\ p.ls = at /\ p.lc = lc /\ p.ps = ps /\ p.pc = pc
  BY <1>3 DEF Extents
<1>5. Good(p) /\ ~Plain(p) /\ End(p) = at + lc /\ Phys(p) = Phys(e)
  BY <1>1, <1>2, <1>4 DEF Good, Plain, Phys, End
<1>6. last - first = lc
  BY <1>1
<1>7. ASSUME NEW v, NEW s, NEW t, ReadsExtent(v, e, s, Nat), CopiedText(t, s, first, at, lc)
      PROVE  ReadsExtent(v, p, t, Nat)
  <2>1. SUFFICES ASSUME NEW lb \in Span(at, lc), lb \in Nat
                 PROVE  ReadExtent(v, p, lb) = t[lb + 1]
    BY <1>4 DEF ReadsExtent
  <2>2. PICK i \in Nat : i = lb - at /\ i < lc /\ lb + 1 = at + i + 1
    BY <2>1 DEF Span
  <2>3. PICK x \in Nat : x = ls + i /\ x \in Span(ls, lc) /\ x + 1 = ls + i + 1 /\ x - ls = i
    BY <2>2 DEF Span
  <2>4. lb - p.ls + 1 = x - e.ls + 1
    BY <1>1, <1>4, <2>2, <2>3
  <2>5. ReadExtent(v, p, lb) = ReadExtent(v, e, x)
    BY <1>1, <1>4, <1>5, <2>4 DEF ReadExtent
  <2>6. ReadExtent(v, e, x) = s[x + 1]
    BY <1>1, <1>7, <2>3 DEF ReadsExtent
  <2>7. t[at + i + 1] = s[ls + i + 1]
    BY <1>1, <1>7, <2>2 DEF CopiedText
  <2> QED
    BY <2>2, <2>3, <2>5, <2>6, <2>7
<1> QED
  BY <1>4, <1>5, <1>6, <1>7 DEF Copies

Clamp(from, to, x) == Hi(from, Lo(to, x))

LEMMA ClampFact ==
  ASSUME NEW from \in Nat, NEW to \in Nat, from < to, NEW a \in Nat
  PROVE  Clamp(from, to, a) \in from..to
BY DEF Clamp, Hi, Lo

CloneMid(v, J, list, from, to, dst, T, text, k) ==
  /\ Volume(v) /\ v.overflow = vol.overflow /\ v.disk = vol.disk
  /\ Tiles(J, dst, dst + (Clamp(from, to, Pos(list, 0, k)) - from))
  /\ Balanced(v, [b \in Blocks |-> T[b] + Count(J, b)])
  /\ Reads(vol, J, text, Nat)

(* A clone of from..to-1 to dst cuts no group. *)
CutsNone(from, to, dst) == Compression => Aligned(from) /\ Aligned(to) /\ Aligned(dst)

(* A copy of a part of e is appended, and its blocks shared. *)
LEMMA ShareStep ==
  ASSUME NEW T, \A b \in Blocks : T[b] \in Nat, NEW v, NEW J, NEW list, NEW from \in Nat, NEW to,
         NEW dst \in Nat, NEW text, NEW k, CloneMid(v, J, list, from, to, dst, T, text, k),
         NEW e, Good(e), \A b \in Phys(e) : T[b] >= 1, NEW s, ReadsExtent(vol, e, s, Nat),
         NEW first \in Nat, first = Clamp(from, to, Pos(list, 0, k)), from <= first,
         NEW last \in Nat, last = Clamp(from, to, Pos(list, 0, k + 1)), first < last,
         NEW at, at = dst + (first - from), NEW p, Copies(p, e, at, first, last),
         CopiedText(text, s, first, at, last - first)
  PROVE  CloneMid(ShareBlocks(v, Phys(p)), Append(J, p), list, from, to, dst, T, text, k + 1)
<1>1. PICK w : w = ShareBlocks(v, Phys(p))
  OBVIOUS
<1>2. PICK L : L = Append(J, p)
  OBVIOUS
<1>3. /\ Volume(v) /\ v.overflow = vol.overflow /\ v.disk = vol.disk /\ Tiles(J, dst, at)
      /\ Reads(vol, J, text, Nat)
  BY DEF CloneMid
<1>4. PICK C : C = [b \in Blocks |-> T[b] + Count(J, b)]
  OBVIOUS
<1>5. Balanced(v, C)
  BY <1>4 DEF CloneMid
<1>6. /\ Good(p) /\ p.ls = at /\ Phys(p) \subseteq Phys(e) /\ Phys(p) \in SUBSET Blocks /\ p \in Extents
      /\ ReadsExtent(vol, p, text, Nat) /\ End(p) = at + (last - first)
  BY GoodPhys, GoodFields DEF Copies
<1>7. Tiles(L, dst, dst + (last - from))
  <2>1. at + (last - first) = dst + (last - from)
    OBVIOUS
  <2>2. Tiles(L, dst, End(p))
    BY <1>2, <1>3, <1>6, TilesAppend
  <2> QED
    BY <1>6, <2>1, <2>2
<1>8. J \in Seq(Extents) /\ \A b : Count(J, b) \in Nat
  BY <1>3, CountNat DEF Tiles
<1>9. \A b : Count(L, b) = Count(J, b) + One(b, Phys(p)) /\ One(b, Phys(p)) \in Nat
  BY <1>2, <1>6, <1>8, CountAppend DEF One
<1>10. PICK D : D = [b \in Blocks |-> T[b] + Count(L, b)]
  OBVIOUS
<1>11. (\A b \in Phys(p) : C[b] >= 1) /\ \A b \in Blocks : D[b] = C[b] + One(b, Phys(p))
  <2>1. ASSUME NEW b \in Blocks PROVE D[b] = C[b] + One(b, Phys(p)) /\ (b \in Phys(p) => C[b] >= 1)
    <3>1. PICK t \in Nat, c \in Nat, o \in Nat : t = T[b] /\ c = Count(J, b) /\ o = One(b, Phys(p))
      BY <1>8, <1>9
    <3>2. C[b] = t + c /\ D[b] = t + (c + o) /\ (b \in Phys(p) => t >= 1)
      BY <1>4, <1>6, <1>9, <1>10, <2>1, <3>1
    <3>3. t + (c + o) = (t + c) + o /\ (t >= 1 => t + c >= 1)
      OBVIOUS
    <3> QED
      BY <3>1, <3>2, <3>3
  <2> QED
    BY <1>6, <2>1
<1>12. Volume(w) /\ Balanced(w, D) /\ w.disk = v.disk /\ w.overflow = v.overflow
  <2>1. PICK S : S = Phys(p)
    OBVIOUS
  <2> QED
    BY <1>1, <1>3, <1>5, <1>6, <1>11, <2>1, ShareEffect
<1>13. Reads(vol, L, text, Nat)
  BY <1>2, <1>3, <1>6, <1>8, ReadsAppend
<1> QED
  BY <1>1, <1>2, <1>3, <1>7, <1>10, <1>12, <1>13 DEF CloneMid

LEMMA CloneStep ==
  ASSUME NEW T, \A b \in Blocks : T[b] \in Nat, NEW v, NEW J, NEW list, NEW n \in Nat,
         Tiles(list, 0, n), Held(list, T), NEW from \in Nat, NEW to \in Nat, from < to,
         NEW dst \in Nat, CutsNone(from, to, dst), NEW text, NEW s, Reads(vol, list, s, Nat),
         CopiedText(text, s, from, dst, to - from), NEW k \in Nat, k + 1 <= Len(list),
         CloneMid(v, J, list, from, to, dst, T, text, k),
         NEW r, IsRun(r, v, J, FALSE), NEW q, q = CloneExtent(r, list[k + 1], from, to, dst - from)
  PROVE  IsRun(q, q.vol, q.list, FALSE) /\ CloneMid(q.vol, q.list, list, from, to, dst, T, text, k + 1)
<1>1. Len(list) \in Nat /\ k + 1 \in 1..Len(list) /\ k + 1 - 1 = k /\ k + 1 # 0
  BY DEF Tiles
<1>2. PICK e : e = list[k + 1]
  OBVIOUS
<1>3. Good(e) /\ e.ls = Pos(list, 0, k) /\ End(e) = Pos(list, 0, k + 1)
  BY <1>1, <1>2 DEF Tiles, Pos
<1>4. PICK ls \in Nat, lc \in Nat, end \in Nat :
         ls = e.ls /\ lc = e.lc /\ end = End(e) /\ end = ls + lc /\ ls < end
  BY <1>3, GoodFields
<1>5. PICK first, last : first = Clamp(from, to, ls) /\ last = Clamp(from, to, end)
  OBVIOUS
<1>6. /\ first \in from..to /\ last \in from..to /\ first \in Nat /\ last \in Nat
      /\ from <= first /\ last <= to
  <2>1. first \in from..to /\ last \in from..to
    BY <1>4, <1>5, ClampFact
  <2> QED
    BY <2>1
<1>7. r.vol = v /\ r.list = J /\ r.failed = FALSE /\ r = [vol |-> v, list |-> J, failed |-> FALSE]
  BY DEF IsRun
<1>8. CASE ~Overlaps(e, from, to)
  <2>1. q = r
    BY <1>2, <1>8 DEF CloneExtent
  <2>2. first = last
    <3>1. ~(ls < to /\ end > from)
      BY <1>4, <1>8 DEF Overlaps
    <3> QED
      <4>1. ls < end
        BY <1>4
      <4>2. CASE ls >= to
        <5>1. Lo(to, ls) = to /\ Lo(to, end) = to
          BY <4>1, <4>2 DEF Lo
        <5> QED
          BY <1>5, <5>1 DEF Clamp
      <4>3. CASE end <= from
        <5>1. Lo(to, ls) = ls /\ Lo(to, end) = end
          BY <4>1, <4>3 DEF Lo
        <5>2. Hi(from, ls) = from /\ Hi(from, end) = from
          BY <4>1, <4>3 DEF Hi
        <5> QED
          BY <1>5, <5>1, <5>2 DEF Clamp
      <4> QED
        BY <3>1, <4>2, <4>3
  <2>3. Clamp(from, to, Pos(list, 0, k)) = Clamp(from, to, Pos(list, 0, k + 1))
    BY <1>3, <1>4, <1>5, <2>2
  <2> QED
    BY <1>7, <2>1, <2>3 DEF IsRun, CloneMid
<1>9. CASE Overlaps(e, from, to)
  <2>1. ls < to /\ end > from
    BY <1>4, <1>9 DEF Overlaps
  <2>2. /\ first = Hi(ls, from) /\ last = Lo(end, to)
        /\ ls <= first /\ first < last /\ last <= end
    <3>1. first = Hi(ls, from) /\ ls <= first
      BY <1>4, <1>5, <2>1 DEF Clamp, Hi, Lo
    <3>2. last = Lo(end, to) /\ last <= end
      BY <1>4, <1>5, <2>1 DEF Clamp, Hi, Lo
    <3>3. first < last
      BY <1>4, <2>1, <3>1, <3>2 DEF Hi, Lo
    <3> QED
      BY <3>1, <3>2, <3>3
  <2>3. Max({e.ls, from}) = first /\ Min({End(e), to}) = last
    <3>1. Max({ls, from}) = first
      BY <2>2, MaxOfTwo DEF Hi
    <3>2. Min({end, to}) = last
      BY <2>1, <2>2, MinOfTwo DEF Lo
    <3> QED
      BY <1>4, <3>1, <3>2
  <2>4. PICK m : m = last - first
    OBVIOUS
  <2>5. PICK at \in Nat : at = dst + (first - from) /\ first + (dst - from) = at
    BY <1>6
  <2>6. \A b \in Phys(e) : T[b] >= 1
    <3>1. Phys(e) \in SUBSET Blocks
      BY <1>3, GoodPhys
    <3>2. \A b \in Phys(e) : Count(list, b) >= 1
      BY <1>1, <1>2, CountHeld
    <3> QED
      BY <3>1, <3>2 DEF Held
  <2>7. ReadsExtent(vol, e, s, Nat)
    BY <1>1, <1>2 DEF Reads
  <2>8. CopiedText(text, s, first, at, last - first)
    <3>1. SUFFICES ASSUME NEW i \in Nat, i < last - first
                   PROVE  text[at + i + 1] = s[first + i + 1]
      BY DEF CopiedText
    <3>2. PICK j \in Nat : j = i + (first - from)
      BY <1>6
    <3>3. j < to - from /\ dst + j + 1 = at + i + 1 /\ from + j + 1 = first + i + 1
      BY <1>6, <2>5, <3>1, <3>2
    <3>4. text[dst + j + 1] = s[from + j + 1]
      BY <3>3 DEF CopiedText
    <3> QED
      BY <3>3, <3>4
  <2>9. first = Clamp(from, to, Pos(list, 0, k)) /\ last = Clamp(from, to, Pos(list, 0, k + 1))
    BY <1>3, <1>4, <1>5
  <2>10. ASSUME NEW p, Copies(p, e, at, first, last), NEW w, w = ShareBlocks(v, Phys(p)),
                NEW L, L = Append(J, p), q = [r EXCEPT !.vol = w, !.list = L]
         PROVE  IsRun(q, q.vol, q.list, FALSE) /\ CloneMid(q.vol, q.list, list, from, to, dst, T, text, k + 1)
    <3>1. CloneMid(w, L, list, from, to, dst, T, text, k + 1)
      BY <1>3, <1>6, <2>2, <2>5, <2>6, <2>7, <2>8, <2>9, <2>10, ShareStep
    <3>2. q = [vol |-> w, list |-> L, failed |-> FALSE]
      BY <1>7, <2>10
    <3>3. q.vol = w /\ q.list = L
      BY <3>2
    <3> QED
      BY <3>1, <3>2, <3>3 DEF IsRun
  <2>11. CASE Plain(e)
    <3>1. PICK p : p = Extent(at, m, e.ps + (first - e.ls), m)
      OBVIOUS
    <3>2. Copies(p, e, at, first, last)
      BY <1>3, <1>4, <1>6, <2>2, <2>4, <2>11, <3>1, CopyPlain
    <3>3. Phys(p) = Span(e.ps + (first - e.ls), m)
      BY <3>1 DEF Phys, Extent
    <3>4. PICK w, L : w = ShareBlocks(v, Phys(p)) /\ L = Append(J, p)
      OBVIOUS
    <3>5. q = [r EXCEPT !.vol = w, !.list = L]
      BY <1>2, <1>7, <1>9, <2>3, <2>4, <2>5, <2>11, <3>1, <3>3, <3>4 DEF CloneExtent
    <3> QED
      BY <2>10, <3>2, <3>4, <3>5
  <2>12. CASE ~Plain(e)
    <3>1. Compression /\ lc = GroupBlocks /\ Aligned(ls) /\ Aligned(from) /\ Aligned(to) /\ Aligned(dst)
      BY <1>3, <1>4, <2>12 DEF Good, CutsNone
    <3>2. GroupBlocks \in Nat
      BY ExtentsAssumption
    <3>3. from <= ls /\ end <= to
      <4>1. CASE ls < from
        <5>1. ls + GroupBlocks <= from
          BY <3>1, <4>1, AlignedGap
        <5> QED
          BY <1>4, <2>1, <3>1, <3>2, <5>1
      <4>2. CASE ~(ls < from)
        <5>1. ls + GroupBlocks <= to
          BY <2>1, <3>1, AlignedGap
        <5> QED
          BY <1>4, <3>1, <3>2, <4>2, <5>1
      <4> QED
        BY <4>1, <4>2
    <3>4. first = ls /\ last = end /\ m = lc
      <4>1. first = ls
        BY <2>2, <3>3 DEF Hi
      <4>2. last = end
        BY <2>2, <3>3 DEF Lo
      <4>3. end - ls = lc
        <5>1. end = ls + lc
          BY <1>4
        <5> QED
          BY <5>1
      <4> QED
        BY <2>4, <4>1, <4>2, <4>3
    <3>5. Aligned(at)
      BY <2>5, <3>1, <3>3, <3>4, AlignedShift
    <3>6. PICK p : p = Extent(at, e.lc, e.ps, e.pc)
      OBVIOUS
    <3>7. Copies(p, e, at, first, last)
      BY <1>3, <1>4, <2>12, <3>4, <3>5, <3>6, CopyWhole
    <3>8. Phys(p) = Span(e.ps, e.pc) /\ p = Extent(at, m, e.ps, e.pc)
      BY <1>4, <3>4, <3>6 DEF Phys, Extent
    <3>9. PICK w, L : w = ShareBlocks(v, Phys(p)) /\ L = Append(J, p)
      OBVIOUS
    <3>10. q = [r EXCEPT !.vol = w, !.list = L]
      BY <1>2, <1>4, <1>7, <1>9, <2>3, <2>4, <2>5, <2>12, <3>4, <3>8, <3>9 DEF CloneExtent
    <3> QED
      BY <2>10, <3>7, <3>9, <3>10
  <2> QED
    BY <2>11, <2>12
<1> QED
  BY <1>8, <1>9

CloneProgress(r, list, from, to, dst, T, text, k) ==
  IsRun(r, r.vol, r.list, FALSE) /\ CloneMid(r.vol, r.list, list, from, to, dst, T, text, k)

LEMMA ClonedFact ==
  ASSUME NEW T, \A b \in Blocks : T[b] \in Nat, Volume(vol), Balanced(vol, T), NEW list, NEW n \in Nat,
         Tiles(list, 0, n), Held(list, T), NEW from \in Nat, NEW to \in Nat, from < to, to <= n,
         NEW dst \in Nat, CutsNone(from, to, dst), NEW text, NEW s, Reads(vol, list, s, Nat),
         CopiedText(text, s, from, dst, to - from), NEW shift, shift = dst - from,
         NEW r, r = Cloned(list, from, to, shift)[Len(list)]
  PROVE  CloneProgress(r, list, from, to, dst, T, text, Len(list))
<1>1. PICK N \in Nat : N = Len(list) /\ N \in 0..N
  BY DEF Tiles
<1>2. PICK R : R = Cloned(list, from, to, shift)
  OBVIOUS
<1>3. CloneRun(R, list, from, to, shift)
  <2>1. Len(list) \in Nat
    BY <1>1
  <2> QED
    BY <1>2, <2>1, ClonedDef, Zenon
<1>4. PICK S : S = {k \in 0..N : CloneProgress(R[k], list, from, to, dst, T, text, k)}
  OBVIOUS
<1>5. 0 \in S
  <2>1. R[0] = [vol |-> vol, list |-> << >>, failed |-> FALSE]
    BY <1>3 DEF CloneRun
  <2>2. R[0].vol = vol /\ R[0].list = << >> /\ IsRun(R[0], vol, << >>, FALSE)
    BY <2>1 DEF IsRun
  <2>3. Clamp(from, to, Pos(list, 0, 0)) = from /\ dst + (from - from) = dst
    BY DEF Clamp, Hi, Lo, Pos
  <2>4. Tiles(<< >>, dst, dst + (Clamp(from, to, Pos(list, 0, 0)) - from))
    BY <2>3, TilesEmpty
  <2>5. \A b \in Blocks : T[b] + Count(<< >>, b) = T[b]
    BY CountNone DEF Count
  <2>6. Balanced(vol, [b \in Blocks |-> T[b] + Count(<< >>, b)])
    BY <2>5 DEF Balanced
  <2>7. Reads(vol, << >>, text, Nat)
    BY DEF Reads
  <2>8. CloneMid(vol, << >>, list, from, to, dst, T, text, 0)
    BY <2>4, <2>6, <2>7 DEF CloneMid
  <2>9. CloneProgress(R[0], list, from, to, dst, T, text, 0)
    BY <2>2, <2>8 DEF CloneProgress
  <2> QED
    BY <1>1, <1>4, <2>9
<1>6. ASSUME NEW k \in 0..N, k \in S, k + 1 <= N PROVE k + 1 \in S
  <2>1. k + 1 \in 1..N /\ k + 1 \in 0..N /\ k + 1 - 1 = k /\ k \in Nat /\ k + 1 <= Len(list)
    BY <1>1, <1>6
  <2>2. R[k + 1] = CloneExtent(R[k], list[k + 1], from, to, dst - from)
    BY <1>1, <1>3, <2>1 DEF CloneRun
  <2>3. CloneProgress(R[k], list, from, to, dst, T, text, k)
    BY <1>4, <1>6
  <2>4. PICK v, J, q : v = R[k].vol /\ J = R[k].list /\ q = R[k + 1]
    OBVIOUS
  <2>5. IsRun(R[k], v, J, FALSE) /\ CloneMid(v, J, list, from, to, dst, T, text, k)
    BY <2>3, <2>4 DEF CloneProgress
  <2>6. IsRun(q, q.vol, q.list, FALSE) /\ CloneMid(q.vol, q.list, list, from, to, dst, T, text, k + 1)
    BY <2>1, <2>2, <2>4, <2>5, CloneStep
  <2> QED
    BY <1>4, <2>1, <2>4, <2>6 DEF CloneProgress
<1>7. 0..N \subseteq S
  BY <1>5, <1>6, Stepwise
<1> QED
  BY <1>1, <1>2, <1>4, <1>7

(* obmafs3_clone_file_range, when it cuts no group. *)
LEMMA CloneFact ==
  ASSUME NEW f \in Files, NEW O, \A b \in Blocks : O[b] \in Nat, NEW old, old = Collect(vol, f),
         NEW ot, NEW size, size = inode[f].size, FileState(vol, f, inode[f], old, ot, O),
         inode[f].live, NEW src, NEW list, list = Collect(vol, src), NEW c \in Nat, Tiles(list, 0, c),
         NEW s, Reads(vol, list, s, Nat), Held(list, O),
         NEW soff \in Nat, NEW doff \in Nat, NEW n \in Nat \ {0}, soff + n <= c, doff <= size,
         doff + n <= MaxSize, CutsNone(soff, soff + n, doff), CutsNone(doff, doff + n, doff),
         NEW z, z = Hi(size, doff + n), NEW text, text \in [1..z -> Values],
         CopiedText(text, s, soff, doff, n), RestAs(text, ot, size, doff, n),
         NEW r, r = CloneRange(src, soff, f, doff, n)
  PROVE  Outcome(f, r.vol, r.node, text, O)
<1>1. /\ size \in Nat /\ size <= MaxSize /\ MaxSize \in Nat /\ Tiles(old, 0, size) /\ Volume(vol)
      /\ Reads(vol, old, ot, Nat) /\ Balanced(vol, [b \in Blocks |-> O[b] + Count(old, b)])
      /\ IsNode(inode[f], size, SlotsOf(old))
  BY ExtentsAssumption DEF FileState, FileOK, IsNode
<1>2. PICK from \in Nat, to \in Nat, at \in Nat, top \in Nat :
         /\ from = soff /\ to = soff + n /\ at = doff /\ top = doff + n
         /\ from < to /\ to - from = n /\ at < top /\ at + (to - from) = top
  OBVIOUS
<1>3. z \in Nat /\ z <= MaxSize /\ z \in 0..MaxSize /\ z = Hi(top, size) /\ Lo(at, size) = at
  BY <1>1, <1>2 DEF Hi, Lo
<1>4. PICK T : T = [b \in Blocks |-> O[b] + Count(old, b)]
  OBVIOUS
<1>5. \A b : Count(old, b) \in Nat
  BY <1>1, CountNat
<1>6. Balanced(vol, T) /\ Held(list, T) /\ \A b \in Blocks : T[b] \in Nat
  BY <1>1, <1>4, <1>5 DEF Held
<1>7. PICK q : q = Cloned(list, from, to, at - from)[Len(list)]
  OBVIOUS
<1>8. CloneProgress(q, list, from, to, at, T, text, Len(list))
  <2>1. PICK shift : shift = at - from
    OBVIOUS
  <2>2. to <= c /\ CutsNone(from, to, at) /\ CopiedText(text, s, from, at, to - from)
    BY <1>2
  <2>3. q = Cloned(list, from, to, shift)[Len(list)]
    BY <1>7, <2>1
  <2> QED
    BY <1>1, <1>2, <1>6, <2>1, <2>2, <2>3, ClonedFact, Zenon
<1>9. PICK v, J : v = q.vol /\ J = q.list
  OBVIOUS
<1>10. /\ q.failed = FALSE /\ Volume(v) /\ v.overflow = vol.overflow /\ v.disk = vol.disk
       /\ Balanced(v, [b \in Blocks |-> T[b] + Count(J, b)]) /\ Reads(vol, J, text, Nat)
       /\ Tiles(J, at, at + (Clamp(from, to, Pos(list, 0, Len(list))) - from))
  BY <1>8, <1>9 DEF CloneProgress, CloneMid, IsRun
<1>11. Tiles(J, at, top)
  <2>1. Pos(list, 0, Len(list)) = c
    BY DEF Tiles
  <2>2. Clamp(from, to, c) = to
    BY <1>2 DEF Clamp, Hi, Lo
  <2> QED
    BY <1>2, <1>10, <2>1, <2>2
<1>12. PICK w : w = FreeRange(v, old, at, top)[Len(old)]
  OBVIOUS
<1>13. PICK B, A : B = Before(old, at)[Len(old)] /\ A = After(old, top)[Len(old)]
  OBVIOUS
<1>14. PICK O2 : O2 = [b \in Blocks |-> O[b] + Count(J, b)]
  OBVIOUS
<1>15. PICK C : C = [b \in Blocks |-> O2[b] + Count(old, b)]
  OBVIOUS
<1>16. \A b : Count(J, b) \in Nat
  BY <1>11, CountNat
<1>17. Balanced(v, C) /\ \A b \in Blocks : O2[b] \in Nat /\ C[b] = O2[b] + Count(old, b)
  <2>1. \A b \in Blocks : O2[b] \in Nat /\ C[b] = O2[b] + Count(old, b) /\ C[b] = T[b] + Count(J, b)
    BY <1>4, <1>5, <1>14, <1>15, <1>16
  <2> QED
    BY <1>10, <2>1 DEF Balanced
<1>18. IsCut(v, w, O2, old, at, top, size, B, A)
  <2>1. CleanCut(at, size) /\ CleanCut(top, size)
    BY <1>2 DEF CutsNone, CleanCut
  <2> QED
    BY <1>1, <1>2, <1>10, <1>12, <1>13, <1>17, <2>1, CutFact
<1>19. /\ Tiles(B, 0, at) /\ Tiles(A, top, z) /\ Volume(w) /\ w.overflow = v.overflow
       /\ Balanced(w, [b \in Blocks |-> O2[b] + Count(B, b) + Count(A, b)])
       /\ Keeps(v, w, [b \in Blocks |-> O2[b] + Count(B, b) + Count(A, b)])
       /\ Reads(v, B, ot, Nat) /\ Reads(v, A, ot, Nat)
  <2>1. Reads(v, old, ot, Nat)
    <3>1. \A e, lb : ReadExtent(v, e, lb) = ReadExtent(vol, e, lb)
      BY <1>10 DEF ReadExtent
    <3>2. Reads(vol, old, ot, Nat)
      BY <1>1
    <3> QED
      BY <3>1, <3>2 DEF Reads, ReadsExtent
  <2> QED
    BY <1>3, <1>18, <2>1 DEF IsCut
<1>20. Reads(v, B, text, Nat) /\ Reads(v, A, text, Nat) /\ Reads(v, J, text, Nat)
  <2>1. SameText(ot, text, 0, at, Nat, Nat)
    <3>1. \A lb \in Nat : lb < at => lb < size /\ lb \notin Span(doff, n)
      BY <1>1, <1>2 DEF Span
    <3> QED
      BY <3>1 DEF SameText, RestAs
  <2>2. SameText(ot, text, top, z, Nat, Nat)
    BY <1>1, <1>2, <1>3 DEF SameText, RestAs, Span, Hi
  <2>3. Reads(v, J, text, Nat)
    BY <1>10 DEF Reads, ReadsExtent, ReadExtent
  <2> QED
    BY <1>2, <1>19, <2>1, <2>2, <2>3, ReadsText
<1>21. PICK X : X = [b \in Blocks |-> O2[b] + Count(B, b) + Count(A, b)]
  OBVIOUS
<1>22. \A b : Count(B, b) \in Nat /\ Count(A, b) \in Nat
  BY <1>19, CountNat
<1>23. /\ Held(B, X) /\ Held(A, X) /\ Held(J, X) /\ Keeps(v, w, X)
       /\ \A b \in Blocks : O[b] >= 1 => X[b] >= 1
  <2>1. \A b \in Blocks : X[b] = O[b] + Count(J, b) + Count(B, b) + Count(A, b)
    BY <1>14, <1>21
  <2>2. ASSUME NEW b \in Blocks
        PROVE  O[b] >= 1 \/ Count(J, b) >= 1 \/ Count(B, b) >= 1 \/ Count(A, b) >= 1 => X[b] >= 1
    <3>1. PICK o \in Nat, j \in Nat, k \in Nat, a \in Nat :
             o = O[b] /\ j = Count(J, b) /\ k = Count(B, b) /\ a = Count(A, b)
      BY <1>16, <1>22, <2>2
    <3>2. X[b] = o + j + k + a
      BY <2>1, <2>2, <3>1
    <3>3. o >= 1 \/ j >= 1 \/ k >= 1 \/ a >= 1 => o + j + k + a >= 1
      OBVIOUS
    <3> QED
      BY <3>1, <3>2, <3>3, Zenon
  <2> QED
    BY <1>19, <1>21, <2>2 DEF Held
<1>24. Reads(w, B, text, Nat) /\ Reads(w, A, text, Nat) /\ Reads(w, J, text, Nat)
  BY <1>11, <1>19, <1>20, <1>23, ReadsKept DEF Held
<1>25. PICK L : IsSplice(L, B, J, A)
  BY DEF IsSplice
<1>26. /\ Tiles(L, 0, z) /\ Reads(w, L, text, Nat)
       /\ \A b : Count(L, b) = Count(B, b) + Count(J, b) + Count(A, b)
  BY <1>11, <1>19, <1>24, <1>25, SpliceFact
<1>27. Balanced(w, [b \in Blocks |-> O[b] + Count(L, b)])
  <2>1. \A b \in Blocks : O[b] + Count(L, b) = O2[b] + Count(B, b) + Count(A, b)
    BY <1>14, <1>16, <1>22, <1>26
  <2> QED
    BY <1>19, <2>1 DEF Balanced
<1>28. Keeps(vol, w, O) /\ w.overflow = vol.overflow
  BY <1>10, <1>19, <1>23 DEF Keeps
<1>29. PICK node : node = Grown(inode[f], top)
  OBVIOUS
<1>30. IsNode(node, z, SlotsOf(old))
  <2>1. IsNode(node, Hi(size, top), SlotsOf(old))
    BY <1>1, <1>29, GrownFact, Zenon
  <2> QED
    BY <1>2, <2>1
<1>31. node.size = z /\ node = [live |-> TRUE, size |-> node.size, slots |-> node.slots]
  BY <1>30 DEF IsNode
<1>32. r = WriteExtentList(w, f, node, L)
  <2>1. L = Replace(old, at, top, J)
    BY <1>13, <1>25 DEF IsSplice, Replace
  <2> QED
    BY <1>2, <1>7, <1>9, <1>10, <1>12, <1>29, <2>1 DEF CloneRange
<1>33. /\ Tiles(L, 0, node.size) /\ node.size \in 0..MaxSize /\ text \in [1..node.size -> Values]
  BY <1>3, <1>26, <1>31
<1> QED
  BY <1>19, <1>26, <1>27, <1>28, <1>31, <1>32, <1>33, StoreFact, Zenon
-----------------------------------------------------------------------------
(* Deletion and creation.                                                   *)

LEMMA EmptyFact ==
  /\ SlotsOf(<< >>) = << >> /\ OverflowOf(<< >>) = {}
  /\ \A v, text : Reads(v, << >>, text, Nat)
  /\ Tiles(<< >>, 0, 0) /\ (\A b : Count(<< >>, b) = 0)
  /\ << >> \in [1..0 -> Values]
<1>1. InlineLimit \in Nat /\ Len(<< >>) = 0
  BY ExtentsAssumption DEF InlineLimit
<1>2. Min({InlineLimit, 0}) = 0
  BY <1>1, MinOfTwo
<1>3. SlotsOf(<< >>) = << >>
  <2>1. PICK s : s = [i \in 1..0 |-> Slot(<< >>[i])]
    OBVIOUS
  <2>2. SlotsOf(<< >>) = s
    BY <1>1, <1>2, <2>1 DEF SlotsOf
  <2>3. s \in [1..0 -> {}]
    BY <2>1
  <2>4. s \in Seq({}) /\ Len(s) = 0
    BY <2>3
  <2> QED
    BY <2>2, <2>4
<1>4. InlineLimit + 1 .. 0 = {}
  BY <1>1
<1>5. OverflowOf(<< >>) = {}
  BY <1>1, <1>4 DEF OverflowOf
<1>6. \A v, text : Reads(v, << >>, text, Nat)
  BY DEF Reads
<1>7. Tiles(<< >>, 0, 0) /\ \A b : Count(<< >>, b) = 0
  BY TilesEmpty, CountNone DEF Count
<1>8. << >> \in [1..0 -> Values]
  OBVIOUS
<1> QED
  BY <1>3, <1>5, <1>6, <1>7, <1>8

(* A file without blocks has an empty extent list. *)
LEMMA EmptyTiles ==
  ASSUME NEW list, Tiles(list, 0, 0)
  PROVE  list = << >>
<1>1. PICK N \in Nat : N = Len(list) /\ list \in Seq(Extents)
  BY DEF Tiles
<1>2. N = 0
  <2>1. SUFFICES ASSUME N > 0 PROVE FALSE
    BY <1>1
  <2>2. Pos(list, 0, 0) < Pos(list, 0, N)
    BY <1>1, <2>1, TilesOrder
  <2> QED
    BY <1>1, <2>2 DEF Tiles, Pos
<1>3. << >> \in Seq(Extents) /\ Len(<< >>) = 0 /\ Len(list) = 0 /\ 1..Len(list) = {}
  BY <1>1, <1>2
<1> QED
  BY <1>1, <1>3, SameSequence

LEMMA CreateFact ==
  ASSUME NEW f \in Files, NEW O, NEW list, NEW text, FileState(vol, f, inode[f], list, text, O),
         ~inode[f].live
  PROVE  Outcome(f, vol, NewInode, << >>, O)
<1>1. Tiles(list, 0, 0)
  BY DEF FileState, FileOK
<1>2. list = << >>
  BY <1>1, EmptyTiles
<1>3. vol.overflow[f] = OverflowOf(<< >>)
  BY <1>2 DEF FileState, FileOK
<1>4. /\ NewInode.live = TRUE /\ NewInode.size = 0
      /\ NewInode = [live |-> NewInode.live, size |-> NewInode.size, slots |-> SlotsOf(<< >>)]
  BY EmptyFact DEF NewInode
<1>5. 0 \in 0..MaxSize
  BY ExtentsAssumption
<1>6. FileOK(vol, f, NewInode, << >>, << >>)
  BY <1>3, <1>4, <1>5, EmptyFact DEF FileOK
<1>7. FileState(vol, f, NewInode, << >>, << >>, O)
  BY <1>2, <1>6 DEF FileState
<1> QED
  BY <1>7 DEF Outcome, Keeps

FreeMid(v, O, list, k) ==
  /\ Volume(v) /\ v.overflow = vol.overflow
  /\ Balanced(v, [b \in Blocks |-> O[b] + Behind(list, b, k)])
  /\ Keeps(vol, v, [b \in Blocks |-> O[b] + Behind(list, b, k)])

LEMMA FreeStep ==
  ASSUME NEW O, \A b \in Blocks : O[b] \in Nat, NEW list, NEW n, Tiles(list, 0, n),
         NEW k \in Nat, k + 1 <= Len(list), NEW v, FreeMid(v, O, list, k),
         NEW w, w = FreeBlocks(v, Span(list[k + 1].ps, list[k + 1].pc))
  PROVE  FreeMid(w, O, list, k + 1)
<1>1. Len(list) \in Nat /\ k + 1 \in 1..Len(list)
  BY DEF Tiles
<1>2. PICK e, S : e = list[k + 1] /\ S = Phys(e)
  OBVIOUS
<1>3. S \in SUBSET Blocks /\ w = FreeBlocks(v, S)
  <2>1. Good(e)
    BY <1>1, <1>2 DEF Tiles
  <2> QED
    BY <1>2, <2>1, GoodPhys DEF Phys
<1>4. PICK C, D : /\ C = [b \in Blocks |-> O[b] + Behind(list, b, k)]
                  /\ D = [b \in Blocks |-> O[b] + Behind(list, b, k + 1)]
  OBVIOUS
<1>5. ASSUME NEW b \in Blocks
      PROVE  /\ D[b] = C[b] - One(b, S) /\ (b \in S => C[b] >= 1)
             /\ D[b] >= 1 => C[b] >= 1
  <2>1. PICK o \in Nat, x \in Nat, y \in Nat, h \in Nat :
           o = O[b] /\ x = Behind(list, b, k) /\ y = Behind(list, b, k + 1) /\ h = One(b, S)
    BY <1>1, <1>5, BehindFact DEF One
  <2>2. y = x - h /\ (b \in S => x >= 1)
    BY <1>1, <1>2, <2>1, BehindFact
  <2>3. C[b] = o + x /\ D[b] = o + y
    BY <1>4, <1>5, <2>1
  <2>4. o + y = (o + x) - h /\ (x >= 1 => o + x >= 1) /\ (o + y >= 1 => o + x >= 1)
    BY <2>2
  <2> QED
    BY <2>1, <2>2, <2>3, <2>4, Zenon
<1>6. Volume(v) /\ Balanced(v, C) /\ Keeps(vol, v, C) /\ v.overflow = vol.overflow
  BY <1>4 DEF FreeMid
<1>7. Volume(w) /\ Balanced(w, D) /\ Keeps(v, w, D) /\ w.overflow = v.overflow
  BY <1>3, <1>5, <1>6, FreeEffect
<1>8. Keeps(vol, w, D)
  BY <1>5, <1>6, <1>7 DEF Keeps
<1> QED
  BY <1>4, <1>6, <1>7, <1>8 DEF FreeMid

LEMMA FreeAllFact ==
  ASSUME NEW O, \A b \in Blocks : O[b] \in Nat, NEW list, NEW n, Tiles(list, 0, n), Volume(vol),
         Balanced(vol, [b \in Blocks |-> O[b] + Count(list, b)]),
         NEW w, w = FreeAll(vol, list)[Len(list)]
  PROVE  Volume(w) /\ Balanced(w, O) /\ Keeps(vol, w, O) /\ w.overflow = vol.overflow
<1>1. PICK N \in Nat : N = Len(list) /\ N \in 0..N
  BY DEF Tiles
<1>2. PICK R : R = FreeAll(vol, list)
  OBVIOUS
<1>3. FreeRun(R, vol, list)
  <2>1. Len(list) \in Nat
    BY <1>1
  <2> QED
    BY <1>2, <2>1, FreeAllDef, Zenon
<1>4. PICK S : S = {k \in 0..N : FreeMid(R[k], O, list, k)}
  OBVIOUS
<1>5. \A b : Count(list, b) \in Nat /\ Behind(list, b, 0) = Count(list, b) /\ Behind(list, b, N) = 0
  <2>1. \A b : Count(list, b) \in Nat /\ CountTo(list, b, 0) = 0 /\ CountTo(list, b, N) = Count(list, b)
    BY <1>1, CountNat, CountNone DEF Count
  <2> QED
    BY <2>1 DEF Behind
<1>6. 0 \in S
  <2>1. R[0] = vol
    BY <1>3 DEF FreeRun
  <2>2. FreeMid(vol, O, list, 0)
    BY <1>5 DEF FreeMid, Balanced, Keeps
  <2> QED
    BY <1>1, <1>4, <2>1, <2>2
<1>7. ASSUME NEW k \in 0..N, k \in S, k + 1 <= N PROVE k + 1 \in S
  <2>1. k + 1 \in 1..N /\ k + 1 \in 0..N /\ k + 1 - 1 = k /\ k \in Nat /\ k + 1 <= Len(list)
    BY <1>1, <1>7
  <2>2. R[k + 1] = FreeBlocks(R[k], Span(list[k + 1].ps, list[k + 1].pc))
    BY <1>1, <1>3, <2>1 DEF FreeRun
  <2>3. FreeMid(R[k], O, list, k)
    BY <1>4, <1>7
  <2>4. FreeMid(R[k + 1], O, list, k + 1)
    BY <2>1, <2>2, <2>3, FreeStep
  <2> QED
    BY <1>4, <2>1, <2>4
<1>8. 0..N \subseteq S
  BY <1>6, <1>7, Stepwise
<1>9. FreeMid(w, O, list, N)
  BY <1>1, <1>2, <1>4, <1>8
<1>10. \A b \in Blocks : O[b] + Behind(list, b, N) = O[b]
  BY <1>5
<1> QED
  BY <1>9, <1>10 DEF FreeMid, Balanced, Keeps

(* obmafs3_fuse_unlink of a file that shares no block. *)
LEMMA UnlinkFact ==
  ASSUME NEW f \in Files, NEW O, \A b \in Blocks : O[b] \in Nat, NEW list, list = Collect(vol, f),
         NEW text, FileState(vol, f, inode[f], list, text, O), ~Shares(f),
         NEW u, u = InodeDelete(FreeFileBlocks(vol, f), f)
  PROVE  Outcome(f, u, Absent, << >>, O)
<1>1. PICK n \in Nat : n = inode[f].size /\ Tiles(list, 0, n)
  BY DEF FileState, FileOK
<1>2. /\ Volume(vol) /\ Balanced(vol, [b \in Blocks |-> O[b] + Count(list, b)])
      /\ inode[f].slots = SlotsOf(list)
  BY DEF FileState, FileOK
<1>3. PICK N \in Nat : N = Len(list) /\ list \in Seq(Extents)
  BY <1>1 DEF Tiles
<1>4. \A i \in 1..N : \A b \in Phys(list[i]) : b \in Blocks /\ O[b] = 0
  <2>1. SUFFICES ASSUME NEW i \in 1..N, NEW b \in Phys(list[i]) PROVE b \in Blocks /\ O[b] = 0
    OBVIOUS
  <2>2. Good(list[i]) /\ i \in 1..Len(list)
    BY <1>1, <1>3, <2>1 DEF Tiles
  <2>3. b \in Blocks
    BY <2>1, <2>2, GoodPhys
  <2>4. ~(vol.refs[b] > 1)
    <3>1. list[i] \in ToSet(list)
      BY <1>3, <2>2 DEF ToSet
    <3> QED
      BY <2>1, <2>3, <3>1 DEF Shares, Phys
  <2>5. PICK o \in Nat, c \in Nat : o = O[b] /\ c = Count(list, b) /\ c >= 1
    BY <1>1, <1>3, <2>1, <2>2, <2>3, CountNat, CountHeld
  <2>6. vol.refs[b] \in Nat /\ (b \in vol.bitmap => o + c = vol.refs[b]) /\ (b \notin vol.bitmap => o + c = 0)
    BY <1>2, <2>3, <2>5 DEF Balanced, Volume
  <2> QED
    BY <2>3, <2>4, <2>5, <2>6
<1>5. PICK v : v = FreeAll(vol, list)[Len(list)]
  OBVIOUS
<1>6. Volume(v) /\ Balanced(v, O) /\ Keeps(vol, v, O) /\ v.overflow = vol.overflow
  BY <1>1, <1>2, <1>5, FreeAllFact
<1>7. PICK w : w = FreeFileBlocks(vol, f)
  OBVIOUS
<1>8. w = [v EXCEPT !.overflow[f] = {}]
  BY <1>5, <1>7 DEF FreeFileBlocks
<1>9. PICK S : S = UNION {Span(s.ps, s.pc) : s \in ToSet(inode[f].slots)}
  OBVIOUS
<1>10. \A b \in S : b \in Blocks /\ O[b] = 0
  <2>1. SUFFICES ASSUME NEW s \in ToSet(SlotsOf(list)), NEW b \in Span(s.ps, s.pc)
                 PROVE  b \in Blocks /\ O[b] = 0
    BY <1>2, <1>9
  <2>2. PICK m \in Nat : m = Min({InlineLimit, Len(list)}) /\ m <= N
    <3>1. InlineLimit \in Nat
      BY ExtentsAssumption DEF InlineLimit
    <3>2. Min({InlineLimit, N}) = IF InlineLimit <= N THEN InlineLimit ELSE N
      BY <3>1, MinOfTwo
    <3> QED
      BY <1>3, <3>1, <3>2
  <2>3. SlotsOf(list) = [i \in 1..m |-> Slot(list[i])]
    BY <2>2 DEF SlotsOf
  <2>4. PICK i \in 1..m : s = Slot(list[i])
    BY <2>1, <2>3 DEF ToSet
  <2>5. i \in 1..N /\ s.ps = list[i].ps /\ s.pc = list[i].pc
    BY <2>2, <2>4 DEF Slot
  <2> QED
    BY <1>4, <2>1, <2>5 DEF Phys
<1>11. u = [w EXCEPT !.bitmap = @ \ S, !.disk = [b \in Blocks |-> IF b \in S THEN << >> ELSE @[b]]]
  BY <1>7, <1>9 DEF InodeDelete
<1>12. PICK bm, hint, refs, over, disk :
          /\ v = [bitmap |-> bm, hint |-> hint, refs |-> refs, overflow |-> over, disk |-> disk]
          /\ bm \in SUBSET Blocks /\ hint \in 1..(NumBlocks + 1) /\ refs \in [Blocks -> Nat]
          /\ over \in [Files -> SUBSET Extents]
  BY <1>6 DEF Volume
<1>13. v.bitmap = bm /\ v.hint = hint /\ v.refs = refs /\ v.overflow = over /\ v.disk = disk
  BY <1>12
<1>14. PICK ov2, d2 : /\ ov2 = [over EXCEPT ![f] = {}]
                      /\ d2 = [b \in Blocks |-> IF b \in S THEN << >> ELSE disk[b]]
  OBVIOUS
<1>15. w = [bitmap |-> bm, hint |-> hint, refs |-> refs, overflow |-> ov2, disk |-> disk]
  BY <1>8, <1>12, <1>14
<1>16. u = [bitmap |-> bm \ S, hint |-> hint, refs |-> refs, overflow |-> ov2, disk |-> d2]
  <2>1. w.bitmap = bm /\ w.disk = disk
    BY <1>15
  <2>2. u = [w EXCEPT !.bitmap = bm \ S, !.disk = d2]
    BY <1>11, <1>14, <2>1
  <2> QED
    BY <1>15, <2>2
<1>17. u.bitmap = bm \ S /\ u.hint = hint /\ u.refs = refs /\ u.overflow = ov2 /\ u.disk = d2
  BY <1>16
<1>18. bm \ S = bm
  <2>1. \A b \in S : b \notin bm
    BY <1>6, <1>10, <1>13 DEF Balanced
  <2> QED
    BY <2>1
<1>19. Volume(u)
  <2>1. ov2 \in [Files -> SUBSET Extents]
    BY <1>12, <1>14
  <2> QED
    BY <1>12, <1>16, <1>17, <1>18, <2>1 DEF Volume
<1>20. Balanced(u, [b \in Blocks |-> O[b] + Count(<< >>, b)])
  <2>1. \A b \in Blocks : O[b] + Count(<< >>, b) = O[b]
    BY EmptyFact
  <2>2. Balanced(u, O)
    BY <1>6, <1>13, <1>17, <1>18 DEF Balanced
  <2> QED
    BY <2>1, <2>2 DEF Balanced
<1>21. Keeps(vol, u, O)
  <2>1. \A b \in Blocks : O[b] >= 1 => b \notin S
    BY <1>10
  <2> QED
    BY <1>6, <1>13, <1>14, <1>17, <2>1 DEF Keeps
<1>22. \A g \in Files \ {f} : u.overflow[g] = vol.overflow[g]
  BY <1>6, <1>12, <1>13, <1>14, <1>17
<1>23. u.overflow[f] = OverflowOf(<< >>)
  BY <1>12, <1>14, <1>17, EmptyFact
<1>24. /\ Absent.live = FALSE /\ Absent.size = 0
       /\ Absent = [live |-> Absent.live, size |-> Absent.size, slots |-> SlotsOf(<< >>)]
  BY EmptyFact DEF Absent
<1>25. 0 \in 0..MaxSize
  BY ExtentsAssumption
<1>26. FileOK(u, f, Absent, << >>, << >>)
  BY <1>23, <1>24, <1>25, EmptyFact DEF FileOK
<1>27. FileState(u, f, Absent, << >>, << >>, O)
  BY <1>19, <1>20, <1>26 DEF FileState
<1> QED
  BY <1>21, <1>22, <1>27 DEF Outcome
-----------------------------------------------------------------------------
(* What a file should read as after a call.                                 *)

LEMMA PaddedFact ==
  ASSUME NEW size \in Nat, NEW text \in [1..size -> Values], NEW n \in Nat, NEW z, z = Hi(size, n),
         NEW p, p = Padded(text, n)
  PROVE  /\ p \in [1..z -> Values] /\ DOMAIN p = 1..z
         /\ \A i \in 1..z : p[i] = IF i <= size THEN text[i] ELSE "zero"
<1>1. Len(text) = size /\ z \in Nat
  BY HiFact
<1>2. Max({n, size}) = z
  <2>1. Max({n, size}) = IF n <= size THEN size ELSE n
    BY MaxOfTwo
  <2> QED
    BY <2>1 DEF Hi
<1>3. p = [i \in 1..z |-> IF i <= size THEN text[i] ELSE "zero"]
  BY <1>1, <1>2 DEF Padded
<1>4. \A i \in 1..z : (IF i <= size THEN text[i] ELSE "zero") \in Values
  <2>1. \A i \in 1..z : i <= size => i \in 1..size
    BY <1>1
  <2> QED
    BY <2>1, ExtentsAssumption
<1> QED
  BY <1>3, <1>4

Overlaid(t, z, text, size, off, new, n) ==
  /\ t \in [1..z -> Values] /\ RestAs(t, text, size, off, n)
  /\ \A i \in Nat : i < n => t[off + i + 1] = new[i + 1]

LEMMA OverlayFact ==
  ASSUME NEW size \in Nat, NEW text \in [1..size -> Values], NEW off \in Nat, NEW n \in Nat \ {0},
         NEW new \in [1..n -> Values], NEW z, z = Hi(size, off + n), NEW t, t = Overlay(text, off, new)
  PROVE  Overlaid(t, z, text, size, off, new, n)
<1>1. PICK to \in Nat : to = off + n /\ Len(new) = n
  OBVIOUS
<1>2. z \in Nat /\ size <= z /\ to <= z
  BY <1>1, HiFact
<1>3. PICK p : p = Padded(text, to)
  OBVIOUS
<1>4. /\ p \in [1..z -> Values] /\ DOMAIN p = 1..z
      /\ \A i \in 1..z : p[i] = IF i <= size THEN text[i] ELSE "zero"
  BY <1>1, <1>3, PaddedFact
<1>5. t = [i \in 1..z |-> IF i - 1 \in Span(off, n) THEN new[i - off] ELSE p[i]]
  BY <1>1, <1>3, <1>4 DEF Overlay
<1>6. t \in [1..z -> Values]
  <2>1. \A i \in 1..z : i - 1 \in Span(off, n) => i - off \in 1..n
    BY <1>2 DEF Span
  <2>2. \A i \in 1..z : (IF i - 1 \in Span(off, n) THEN new[i - off] ELSE p[i]) \in Values
    BY <1>4, <2>1
  <2> QED
    BY <1>5, <2>2
<1>7. RestAs(t, text, size, off, n)
  <2>1. SUFFICES ASSUME NEW lb \in Nat, lb < size, lb \notin Span(off, n)
                 PROVE  t[lb + 1] = text[lb + 1]
    BY DEF RestAs
  <2>2. PICK i \in 1..z : i = lb + 1 /\ i - 1 = lb /\ i <= size
    BY <1>2, <2>1
  <2> QED
    BY <1>4, <1>5, <2>1, <2>2
<1>8. ASSUME NEW i \in Nat, i < n PROVE t[off + i + 1] = new[i + 1]
  <2>1. PICK j \in 1..z : j = off + i + 1 /\ j - 1 \in Span(off, n) /\ j - off = i + 1
    BY <1>1, <1>2, <1>8 DEF Span
  <2> QED
    BY <1>5, <2>1
<1> QED
  BY <1>6, <1>7, <1>8 DEF Overlaid
-----------------------------------------------------------------------------
(* The calls.                                                               *)

LEMMA FinishFact ==
  ASSUME IInv, Risks = {}, NEW f \in Files, NEW r, NEW text, Finish(f, r, text),
         ~r.failed => Outcome(f, r.vol, r.node, text, Others(f))
  PROVE  IInv'
<1>1. ~r.failed /\ vol' = r.vol /\ inode' = [inode EXCEPT ![f] = r.node]
      /\ content' = [content EXCEPT ![f] = text]
  BY DEF Finish
<1>2. PICK node : node = r.node
  OBVIOUS
<1>3. Outcome(f, vol', node, text, Others(f))
  BY <1>1, <1>2
<1> QED
  BY <1>1, <1>2, <1>3, UpdateFact

Ready(f, list, size, text, O) ==
  /\ list = Collect(vol, f) /\ size = inode[f].size /\ size \in Nat /\ size <= MaxSize
  /\ text = content[f] /\ text \in [1..size -> Values] /\ O = Others(f)
  /\ FileState(vol, f, inode[f], list, text, O) /\ \A b \in Blocks : O[b] \in Nat

LEMMA AllReady ==
  ASSUME IInv, NEW f \in Files
  PROVE  Ready(f, Collect(vol, f), inode[f].size, content[f], Others(f))
<1>1. Lists[f] = Collect(vol, f)
  BY DEF Lists
<1>2. /\ FileState(vol, f, inode[f], Lists[f], content[f], Others(f))
      /\ \A b \in Blocks : Others(f)[b] \in Nat
  BY ReadyFact
<1>3. /\ inode[f].size \in Nat /\ inode[f].size <= MaxSize
      /\ content[f] \in [1..inode[f].size -> Values]
  BY <1>2, ExtentsAssumption DEF FileState, FileOK
<1> QED
  BY <1>1, <1>2, <1>3 DEF Ready

LEMMA CreateSafe ==
  ASSUME IInv, NEW f \in Files, Create(f)
  PROVE  IInv'
<1>1. PICK list, size, text, O : Ready(f, list, size, text, O)
  BY AllReady
<1>2. Outcome(f, vol, NewInode, << >>, O)
  BY <1>1, CreateFact DEF Ready, Create
<1>3. Outcome(f, vol', NewInode, << >>, Others(f))
  BY <1>1, <1>2 DEF Ready, Create
<1> QED
  BY <1>3, UpdateFact DEF Create

LEMMA UnlinkSafe ==
  ASSUME IInv, Risks = {}, NEW f \in Files, Unlink(f)
  PROVE  IInv'
<1>1. PICK list, size, text, O : Ready(f, list, size, text, O)
  BY AllReady
<1>2. PICK u : u = InodeDelete(FreeFileBlocks(vol, f), f) /\ u = vol' /\ ~Shares(f)
  BY DEF Unlink
<1>3. Outcome(f, u, Absent, << >>, O)
  <2>1. list = Collect(vol, f) /\ FileState(vol, f, inode[f], list, text, O)
        /\ \A b \in Blocks : O[b] \in Nat
    BY <1>1 DEF Ready
  <2> QED
    BY <1>2, <2>1, UnlinkFact, Zenon
<1>4. Outcome(f, vol', Absent, << >>, Others(f))
  BY <1>1, <1>2, <1>3 DEF Ready
<1> QED
  BY <1>4, UpdateFact DEF Unlink

LEMMA WriteSafe ==
  ASSUME IInv, Risks = {}, NEW f \in Files, NEW off \in Offsets, NEW n \in Lengths,
         NEW val \in Values, NEW zip \in Zips, Write(f, off, n, val, zip)
  PROVE  IInv'
<1>1. PICK list, size, old, O : Ready(f, list, size, old, O)
  BY AllReady
<1>2. /\ list = Collect(vol, f) /\ size = inode[f].size /\ size \in Nat /\ old \in [1..size -> Values]
      /\ FileState(vol, f, inode[f], list, old, O) /\ \A b \in Blocks : O[b] \in Nat
      /\ old = content[f] /\ O = Others(f)
  BY <1>1 DEF Ready
<1>3. off \in Nat /\ n \in Nat \ {0}
  BY ExtentsAssumption DEF Offsets, Lengths
<1>4. inode[f].live /\ off + n <= MaxSize /\ off <= size
  BY <1>2 DEF Write
<1>5. PICK new : new = [i \in 1..n |-> val]
  OBVIOUS
<1>6. new \in [1..n -> Values] /\ \A i \in 1..n : new[i] = val
  BY <1>5
<1>7. PICK z, text : z = Hi(size, off + n) /\ text = Overlay(old, off, new)
  OBVIOUS
<1>8. /\ text \in [1..z -> Values] /\ RestAs(text, old, size, off, n)
      /\ \A i \in Nat : i < n => text[off + i + 1] = new[i + 1]
  <2>1. Overlaid(text, z, old, size, off, new, n)
    BY <1>2, <1>3, <1>6, <1>7, OverlayFact, Zenon
  <2> QED
    BY <2>1 DEF Overlaid
<1>9. WrittenAs(text, z, off, n, val)
  <2>1. SUFFICES ASSUME NEW lb \in Nat, lb \in Span(off, n) PROVE text[lb + 1] = val
    BY DEF WrittenAs
  <2>2. PICK i \in Nat : i = lb - off /\ i < n /\ off + i + 1 = lb + 1 /\ i + 1 \in 1..n
    BY <1>3, <2>1 DEF Span
  <2> QED
    BY <1>6, <1>8, <2>2
<1>10. PICK r : r = WriteData(f, off, n, val, zip)
  OBVIOUS
<1>11. ASSUME ~r.failed PROVE Outcome(f, r.vol, r.node, text, O)
  BY <1>2, <1>3, <1>4, <1>7, <1>8, <1>9, <1>10, <1>11, WriteFact, Zenon
<1>12. Finish(f, r, text)
  BY <1>2, <1>5, <1>7, <1>10 DEF Write
<1> QED
  BY <1>2, <1>11, <1>12, FinishFact

LEMMA TruncateSafe ==
  ASSUME IInv, Risks = {}, NEW f \in Files, NEW n \in Offsets \cup Lengths, NEW zip \in Zips,
         Truncate(f, n, zip)
  PROVE  IInv'
<1>1. PICK list, size, old, O : Ready(f, list, size, old, O)
  BY AllReady
<1>2. /\ list = Collect(vol, f) /\ size = inode[f].size /\ size \in Nat /\ old \in [1..size -> Values]
      /\ FileState(vol, f, inode[f], list, old, O) /\ \A b \in Blocks : O[b] \in Nat
      /\ old = content[f] /\ O = Others(f)
  BY <1>1 DEF Ready
<1>3. n \in Nat /\ n <= MaxSize
  BY ExtentsAssumption DEF Offsets, Lengths
<1>4. inode[f].live /\ n # size
  BY <1>2 DEF Truncate
<1>5. CASE n > size
  <2>1. PICK m \in Nat \ {0} : m = n - size /\ size + m = n
    BY <1>2, <1>3, <1>5
  <2>2. PICK z, text : z = Hi(size, n) /\ text = Padded(old, n)
    OBVIOUS
  <2>3. z = n /\ z = Hi(size, size + m)
    BY <1>2, <1>3, <1>5, <2>1, <2>2 DEF Hi
  <2>4. /\ text \in [1..z -> Values]
        /\ \A i \in 1..z : text[i] = IF i <= size THEN old[i] ELSE "zero"
    BY <1>2, <1>3, <2>2, PaddedFact
  <2>5. \A lb \in Nat : lb < z => lb + 1 \in 1..z
    BY <1>3, <2>3
  <2>6. WrittenAs(text, z, size, m, "zero")
    <3>1. SUFFICES ASSUME NEW lb \in Nat, lb < z, lb \in Span(size, m) PROVE text[lb + 1] = "zero"
      BY DEF WrittenAs
    <3>2. ~(lb + 1 <= size)
      BY <1>2, <2>1, <3>1 DEF Span
    <3> QED
      BY <2>4, <2>5, <3>1, <3>2
  <2>7. RestAs(text, old, size, size, m)
    <3>1. SUFFICES ASSUME NEW lb \in Nat, lb < size PROVE text[lb + 1] = old[lb + 1]
      BY DEF RestAs
    <3>2. lb + 1 <= size /\ lb < z
      BY <1>2, <1>3, <1>5, <2>3, <3>1
    <3> QED
      BY <2>4, <2>5, <3>1, <3>2
  <2>8. PICK r : r = WriteData(f, size, m, "zero", zip)
    OBVIOUS
  <2>9. ASSUME ~r.failed PROVE Outcome(f, r.vol, r.node, text, O)
    <3>1. size <= size /\ size + m <= MaxSize
      BY <1>2, <1>3, <2>1
    <3> QED
      BY <1>2, <1>4, <2>3, <2>4, <2>6, <2>7, <2>8, <2>9, <3>1, WriteFact, Zenon
  <2>10. Finish(f, r, text)
    BY <1>2, <1>5, <2>1, <2>2, <2>8 DEF Truncate
  <2> QED
    BY <1>2, <2>9, <2>10, FinishFact
<1>6. CASE ~(n > size)
  <2>1. n < size
    BY <1>2, <1>3, <1>4, <1>6
  <2>2. PICK text, r : text = SubSeq(old, 1, n) /\ r = TruncateBlocks(f, n)
    OBVIOUS
  <2>3. ASSUME ~r.failed PROVE Outcome(f, r.vol, r.node, text, O)
    BY <1>2, <1>3, <1>4, <2>1, <2>2, <2>3, TruncateFact, Zenon
  <2>4. Finish(f, r, text)
    BY <1>2, <1>6, <2>2 DEF Truncate
  <2> QED
    BY <1>2, <2>3, <2>4, FinishFact
<1> QED
  BY <1>5, <1>6

LEMMA CloneSafe ==
  ASSUME IInv, Risks = {}, NEW src \in Files, NEW f \in Files, NEW soff \in Offsets,
         NEW doff \in Offsets, NEW n \in Lengths, Clone(src, soff, f, doff, n)
  PROVE  IInv'
<1>1. PICK old, size, ot, O : Ready(f, old, size, ot, O)
  BY AllReady
<1>2. /\ old = Collect(vol, f) /\ size = inode[f].size /\ size \in Nat /\ ot \in [1..size -> Values]
      /\ FileState(vol, f, inode[f], old, ot, O) /\ \A b \in Blocks : O[b] \in Nat
      /\ ot = content[f] /\ O = Others(f)
  BY <1>1 DEF Ready
<1>3. PICK list, c, s, P : Ready(src, list, c, s, P)
  BY AllReady
<1>4. /\ list = Collect(vol, src) /\ c = inode[src].size /\ c \in Nat /\ s \in [1..c -> Values]
      /\ s = content[src] /\ Tiles(list, 0, c) /\ Reads(vol, list, s, Nat)
  BY <1>3 DEF Ready, FileState, FileOK
<1>5. soff \in Nat /\ doff \in Nat /\ n \in Nat \ {0} /\ GroupBlocks \in Nat \ {0}
  BY ExtentsAssumption DEF Offsets, Lengths
<1>6. /\ inode[f].live /\ src # f /\ soff + n <= c /\ doff + n <= MaxSize /\ doff <= size
      /\ Compression => ~CutsGroups(soff, doff, n)
  BY <1>2, <1>4 DEF Clone
<1>7. Held(list, O)
  <2>1. src \in Files \ {f} /\ Lists[src] = list
    BY <1>4, <1>6 DEF Lists
  <2> QED
    BY <1>2, <2>1, ReadyFact DEF Held
<1>8. CutsNone(soff, soff + n, doff) /\ CutsNone(doff, doff + n, doff)
  <2>1. SUFFICES ASSUME Compression
                 PROVE  Aligned(soff) /\ Aligned(soff + n) /\ Aligned(doff) /\ Aligned(doff + n)
    BY DEF CutsNone
  <2>2. Aligned(soff) /\ Aligned(doff) /\ Aligned(n) /\ Aligned(0)
    BY <1>5, <1>6, <2>1 DEF CutsGroups, Aligned
  <2>3. Aligned(soff + (n - 0)) /\ Aligned(doff + (n - 0))
    BY <1>5, <2>2, AlignedShift
  <2>4. soff + (n - 0) = soff + n /\ doff + (n - 0) = doff + n
    BY <1>5
  <2> QED
    BY <2>2, <2>3, <2>4
<1>9. PICK new : new = SubSeq(s, soff + 1, soff + n)
  OBVIOUS
<1>10. new \in [1..n -> Values] /\ \A i \in Nat : i < n => new[i + 1] = s[soff + i + 1]
  <2>1. new = [i \in 1..n |-> s[soff + i]]
    <3>1. s \in Seq(Values) /\ Len(s) = c
      BY <1>4
    <3>2. (soff + n) - (soff + 1) + 1 = n /\ \A i \in 1..n : (soff + 1) + i - 1 = soff + i
      BY <1>5
    <3>3. new = [i \in 1..((soff + n) - (soff + 1) + 1) |-> s[(soff + 1) + i - 1]]
      BY <1>5, <1>6, <1>9, <3>1
    <3> QED
      BY <3>2, <3>3
  <2>2. \A i \in 1..n : soff + i \in 1..c
    BY <1>4, <1>5, <1>6
  <2>3. \A i \in Nat : i < n => i + 1 \in 1..n /\ soff + (i + 1) = soff + i + 1
    BY <1>5
  <2>4. \A i \in 1..n : s[soff + i] \in Values
    BY <1>4, <2>2
  <2> QED
    BY <2>1, <2>3, <2>4
<1>11. PICK z, text : z = Hi(size, doff + n) /\ text = Overlay(ot, doff, new)
  OBVIOUS
<1>12. /\ text \in [1..z -> Values] /\ RestAs(text, ot, size, doff, n)
       /\ \A i \in Nat : i < n => text[doff + i + 1] = new[i + 1]
  <2>1. Overlaid(text, z, ot, size, doff, new, n)
    BY <1>2, <1>5, <1>10, <1>11, OverlayFact, Zenon
  <2> QED
    BY <2>1 DEF Overlaid
<1>13. CopiedText(text, s, soff, doff, n)
  BY <1>10, <1>12 DEF CopiedText
<1>14. PICK r : r = CloneRange(src, soff, f, doff, n)
  OBVIOUS
<1>15. Outcome(f, r.vol, r.node, text, O)
  BY <1>2, <1>4, <1>5, <1>6, <1>7, <1>8, <1>11, <1>12, <1>13, <1>14, CloneFact, Zenon
<1>16. Finish(f, r, text)
  BY <1>2, <1>4, <1>9, <1>11, <1>14 DEF Clone
<1> QED
  BY <1>2, <1>15, <1>16, FinishFact
-----------------------------------------------------------------------------
(* The invariant is inductive.                                              *)

LEMMA InitIInv ==
  ASSUME Init
  PROVE  IInv
<1>1. \A f \in Files : inode[f] = Absent /\ content[f] = << >>
  BY DEF Init
<1>2. /\ vol.overflow = [f \in Files |-> {}] /\ vol.bitmap = {} /\ vol.hint = 1
      /\ vol.refs = [b \in Blocks |-> 1] /\ vol.disk = [b \in Blocks |-> << >>]
  BY DEF Init
<1>3. Volume(vol)
  <2>1. 1 \in 1..(NumBlocks + 1)
    BY ExtentsAssumption
  <2>2. /\ vol.bitmap \in SUBSET Blocks /\ vol.hint \in 1..(NumBlocks + 1)
        /\ vol.refs \in [Blocks -> Nat] /\ vol.overflow \in [Files -> SUBSET Extents]
    BY <1>2, <2>1
  <2>3. vol = [bitmap |-> vol.bitmap, hint |-> vol.hint, refs |-> vol.refs,
               overflow |-> vol.overflow, disk |-> vol.disk]
    BY <1>2 DEF Init
  <2> QED
    BY <2>2, <2>3 DEF Volume
<1>4. \A f \in Files : FileOK(vol, f, inode[f], << >>, content[f])
  <2>1. SUFFICES ASSUME NEW f \in Files PROVE FileOK(vol, f, Absent, << >>, << >>)
    BY <1>1
  <2>2. /\ Absent.live = FALSE /\ Absent.size = 0
        /\ Absent = [live |-> Absent.live, size |-> Absent.size, slots |-> SlotsOf(<< >>)]
    BY EmptyFact DEF Absent
  <2>3. 0 \in 0..MaxSize
    BY ExtentsAssumption
  <2>4. vol.overflow[f] = OverflowOf(<< >>)
    BY <1>2, EmptyFact
  <2> QED
    BY <2>2, <2>3, <2>4, EmptyFact DEF FileOK
<1>5. \A f \in Files : Lists[f] = << >>
  BY <1>4, CollectFact DEF Lists, Collect
<1>6. \A b : RefsOf(Lists, Files, b) = 0
  <2>1. SUFFICES ASSUME NEW b PROVE RefsOf(Lists, Files, b) = 0
    OBVIOUS
  <2>2. \A g \in Files : HoldingTo(Lists[g], b, Len(Lists[g])) = {}
    BY <1>5 DEF HoldingTo
  <2>3. HoldersOf(Lists, Files, b) = {}
    BY <2>2 DEF HoldersOf
  <2> QED
    BY <2>3, FS_EmptySet DEF RefsOf
<1>7. Balanced(vol, [b \in Blocks |-> RefsOf(Lists, Files, b)])
  BY <1>2, <1>6 DEF Balanced
<1>8. inode = [f \in Files |-> inode[f]] /\ content = [f \in Files |-> content[f]]
  BY DEF Init
<1> QED
  BY <1>3, <1>4, <1>5, <1>7, <1>8 DEF IInv

LEMMA NextIInv ==
  ASSUME IInv, Risks = {}, [Next]_vars
  PROVE  IInv'
<1>1. CASE UNCHANGED vars
  BY <1>1 DEF vars, IInv, Lists, Collect, RefsOf, HoldersOf
<1>2. CASE Next
  <2>1. PICK f \in Files :
           \/ Create(f) \/ Unlink(f)
           \/ \E off \in Offsets, n \in Lengths, val \in Values, zip \in Zips :
                 Write(f, off, n, val, zip)
           \/ \E n \in Offsets \cup Lengths, zip \in Zips : Truncate(f, n, zip)
           \/ \E g \in Files, soff \in Offsets, doff \in Offsets, n \in Lengths :
                 Clone(f, soff, g, doff, n)
    BY <1>2 DEF Next
  <2>2. CASE Create(f)
    BY <2>2, CreateSafe
  <2>3. CASE Unlink(f)
    BY <2>3, UnlinkSafe
  <2>4. CASE \E off \in Offsets, n \in Lengths, val \in Values, zip \in Zips :
                Write(f, off, n, val, zip)
    BY <2>4, WriteSafe
  <2>5. CASE \E n \in Offsets \cup Lengths, zip \in Zips : Truncate(f, n, zip)
    BY <2>5, TruncateSafe
  <2>6. CASE \E g \in Files, soff \in Offsets, doff \in Offsets, n \in Lengths :
                Clone(f, soff, g, doff, n)
    BY <2>6, CloneSafe
  <2> QED
    BY <2>1, <2>2, <2>3, <2>4, <2>5, <2>6
<1> QED
  BY <1>1, <1>2
-----------------------------------------------------------------------------
(* What the invariant says of files and blocks.                             *)

LEMMA FileFields ==
  ASSUME IInv, NEW f \in Files
  PROVE  \E list, size :
            /\ list = Collect(vol, f) /\ size = inode[f].size /\ size \in Nat /\ size <= MaxSize
            /\ Tiles(list, 0, size) /\ content[f] \in [1..size -> Values]
            /\ Reads(vol, list, content[f], Nat) /\ inode[f].live \in BOOLEAN
            /\ inode[f].slots = SlotsOf(list)
<1>1. FileOK(vol, f, inode[f], Collect(vol, f), content[f])
  BY DEF IInv, Lists
<1> QED
  BY <1>1, ExtentsAssumption DEF FileOK

LEMMA TypeFromInv == IInv => TypeOK
<1>1. SUFFICES ASSUME IInv PROVE TypeOK
  OBVIOUS
<1>2. Volume(vol) /\ NumBlocks \in Nat /\ MaxSize \in Nat
  BY <1>1, ExtentsAssumption DEF IInv
<1>3. ASSUME NEW f \in Files
      PROVE  /\ inode[f].live \in BOOLEAN /\ inode[f].size \in 0..MaxSize
             /\ inode[f].slots \in SlotSeqs /\ vol.overflow[f] \subseteq Extents
  <2>1. PICK list, size :
           /\ list = Collect(vol, f) /\ size = inode[f].size /\ size \in Nat /\ size <= MaxSize
           /\ Tiles(list, 0, size) /\ inode[f].live \in BOOLEAN /\ inode[f].slots = SlotsOf(list)
    BY <1>1, <1>3, FileFields
  <2>2. PICK N \in Nat, k \in Nat : N = Len(list) /\ k = Min({InlineLimit, Len(list)})
                                    /\ k <= N /\ k <= InlineSlots /\ InlineSlots \in Nat
    <3>1. PICK x \in Nat : x = Len(list)
      BY <2>1 DEF Tiles
    <3>2. InlineLimit \in Nat /\ InlineLimit = InlineSlots
      BY ExtentsAssumption DEF InlineLimit
    <3>3. Min({InlineLimit, x}) = IF InlineLimit <= x THEN InlineLimit ELSE x
      BY <3>2, MinOfTwo
    <3> QED
      BY <3>1, <3>2, <3>3
  <2>3. SlotsOf(list) = [i \in 1..k |-> Slot(list[i])]
    BY <2>2 DEF SlotsOf
  <2>4. ASSUME NEW i \in 1..k
        PROVE  Slot(list[i]) \in [lc : 1..MaxSize, ps : Blocks, pc : 1..MaxSize]
    <3>1. PICK e : e = list[i]
      OBVIOUS
    <3>2. i \in 1..Len(list) /\ i \in 0..Len(list) /\ i # 0
      BY <2>2, <2>4
    <3>3. Good(e) /\ End(e) = Pos(list, 0, i)
      BY <2>1, <3>1, <3>2 DEF Tiles, Pos
    <3>4. End(e) \in 0..size
      BY <2>1, <3>2, <3>3, TilesOrder
    <3>5. PICK ls \in Nat, lc \in Nat, ps \in Nat, pc \in Nat :
             /\ ls = e.ls /\ lc = e.lc /\ ps = e.ps /\ pc = e.pc
             /\ lc >= 1 /\ pc >= 1 /\ ps >= 1 /\ ls + lc <= size /\ ps + pc - 1 <= NumBlocks
      <4>1. /\ e.ls \in Nat /\ e.lc \in Nat \ {0} /\ e.ps \in Nat \ {0} /\ e.pc \in Nat \ {0}
            /\ End(e) = e.ls + e.lc /\ e.ps + e.pc - 1 <= NumBlocks
        BY <3>3, GoodFields
      <4>2. e.ls + e.lc <= size
        BY <2>1, <3>4, <4>1
      <4>3. e.lc >= 1 /\ e.pc >= 1 /\ e.ps >= 1
        BY <4>1
      <4> QED
        BY <4>1, <4>2, <4>3, Zenon
    <3>6. pc <= lc
      BY <3>3, <3>5 DEF Good, Plain
    <3>7. lc \in 1..MaxSize /\ pc \in 1..MaxSize /\ ps \in Blocks
      BY <1>2, <2>1, <3>5, <3>6 DEF Blocks
    <3> QED
      BY <3>1, <3>5, <3>7 DEF Slot
  <2>5. SlotsOf(list) \in SlotSeqs
    <3>1. k \in 0..InlineSlots
      BY <2>2
    <3>2. SlotsOf(list) \in [1..k -> [lc : 1..MaxSize, ps : Blocks, pc : 1..MaxSize]]
      BY <2>3, <2>4
    <3> QED
      BY <3>1, <3>2 DEF SlotSeqs
  <2>6. vol.overflow[f] \subseteq Extents
    BY <1>2, <1>3 DEF Volume
  <2> QED
    BY <1>2, <2>1, <2>5, <2>6
<1>4. vol.bitmap \subseteq Blocks /\ vol.hint \in 1..NumBlocks + 1 /\ vol.refs \in [Blocks -> Nat]
  BY <1>2 DEF Volume
<1> QED
  BY <1>3, <1>4 DEF TypeOK

LEMMA ReadsFromInv == IInv => ReadsBack
<1>1. SUFFICES ASSUME IInv, NEW f \in Files
               PROVE  [i \in 1..inode[f].size |-> ReadBlock(f, i - 1)] = content[f]
  BY DEF ReadsBack
<1>2. PICK list, size :
         /\ list = Collect(vol, f) /\ size = inode[f].size /\ size \in Nat
         /\ Tiles(list, 0, size) /\ content[f] \in [1..size -> Values]
         /\ Reads(vol, list, content[f], Nat)
  BY <1>1, FileFields
<1>3. ASSUME NEW i \in 1..size PROVE ReadBlock(f, i - 1) = content[f][i]
  <2>1. PICK lb \in Nat : lb = i - 1 /\ lb < size /\ lb + 1 = i
    BY <1>2, <1>3
  <2>2. /\ Covering(list, lb) # {} /\ Covering(list, lb) \in SUBSET (1..Len(list))
        /\ \A j \in 1..Len(list) : j \in Covering(list, lb) <=> lb \in Span(list[j].ls, list[j].lc)
    BY <1>2, <2>1, CoverFact
  <2>3. PICK j \in 1..Len(list) : j = Min(Covering(list, lb)) /\ lb \in Span(list[j].ls, list[j].lc)
    <3>1. Covering(list, lb) \in SUBSET Nat
      BY <2>2
    <3>2. Min(Covering(list, lb)) \in Covering(list, lb)
      BY <2>2, <3>1, MinFact
    <3> QED
      BY <2>2, <3>2
  <2>4. ReadBlock(f, lb) = ReadExtent(vol, list[j], lb)
    BY <1>2, <2>2, <2>3 DEF ReadBlock
  <2>5. ReadExtent(vol, list[j], lb) = content[f][lb + 1]
    BY <1>2, <2>1, <2>3 DEF Reads, ReadsExtent
  <2> QED
    BY <2>1, <2>4, <2>5
<1> QED
  BY <1>2, <1>3

LEMMA CountsFromInv == IInv => ReferencesCounted
<1>1. SUFFICES ASSUME IInv, NEW b \in Blocks
               PROVE  Cardinality(Holders(b)) = IF b \in vol.bitmap THEN vol.refs[b] ELSE 0
  BY DEF ReferencesCounted
<1>2. \A f \in Files : HoldingTo(Lists[f], b, Len(Lists[f])) = Holding(Collect(vol, f), b)
  BY DEF Lists, HoldingTo, Holding, Phys
<1>3. HoldersOf(Lists, Files, b) = Holders(b)
  BY <1>2 DEF HoldersOf, Holders
<1>4. Balanced(vol, [c \in Blocks |-> RefsOf(Lists, Files, c)])
  BY <1>1 DEF IInv
<1> QED
  BY <1>1, <1>3, <1>4 DEF Balanced, RefsOf

LEMMA SizesFromInv == IInv => SizeCovered
<1>1. SUFFICES ASSUME IInv, NEW f \in Files
               PROVE  LogicalEnd(Collect(vol, f))[Len(Collect(vol, f))] = inode[f].size
  BY DEF SizeCovered
<1>2. Tiles(Collect(vol, f), 0, inode[f].size)
  BY <1>1, FileFields
<1> QED
  BY <1>2, LogicalEndFact

LEMMA GroupsFromInv == IInv => CompressedAreGroups
<1>1. SUFFICES ASSUME IInv, NEW f \in Files, NEW e \in ToSet(Collect(vol, f)), ~Plain(e)
               PROVE  e.ls % GroupBlocks = 0 /\ e.lc = GroupBlocks
  BY DEF CompressedAreGroups
<1>2. PICK list : list = Collect(vol, f) /\ list \in Seq(Extents)
                  /\ \A i \in 1..Len(list) : Good(list[i])
  BY <1>1, FileFields DEF Tiles
<1>3. PICK i \in 1..Len(list) : e = list[i]
  BY <1>1, <1>2 DEF ToSet
<1>4. Good(e)
  BY <1>2, <1>3
<1> QED
  BY <1>1, <1>4 DEF Good, Aligned
-----------------------------------------------------------------------------
(* The theorems.  Risks = {} leaves out the four uses that the code does    *)
(* not survive: a write behind the end of a file, a clone that cuts         *)
(* compression groups, deleting a file that shares blocks, and running out  *)
(* of space.                                                                *)

(* Every state that calls leave satisfies the invariant. *)
THEOREM InvariantHolds ==
  ASSUME Risks = {}
  PROVE  Spec => []IInv
<1>1. Init => IInv
  BY InitIInv
<1>2. IInv /\ [Next]_vars => IInv'
  BY NextIInv
<1> QED
  BY <1>1, <1>2, PTL DEF Spec

(* The inode, its inline extents, the bitmap, the hint, the reference tree  *)
(* and the overflow tree keep their types, whatever calls are made          *)
(* (struct inode_record, bitmap.c, refcount.c).                             *)
THEOREM TypesAlwaysKept ==
  ASSUME Risks = {}
  PROVE  Spec => []TypeOK
<1>1. IInv => TypeOK
  BY TypeFromInv
<1> QED
  BY <1>1, InvariantHolds, PTL

(* A file always reads as what was written to it: group rewrites, appends,  *)
(* truncations and clones of any number of files never lose, misplace or    *)
(* leak a block (obmafs3_read_file_data, obmafs3_write_file_data,           *)
(* obmafs3_truncate_file_blocks, obmafs3_clone_file_range in block.c).      *)
THEOREM FilesAlwaysReadBack ==
  ASSUME Risks = {}
  PROVE  Spec => []ReadsBack
<1>1. IInv => ReadsBack
  BY ReadsFromInv
<1> QED
  BY <1>1, InvariantHolds, PTL

(* The reference count of an allocated block is the number of extents that  *)
(* hold it, over all files, and a block is allocated exactly when some      *)
(* extent holds it (refcount.c, free_single_phys_block in block.c).         *)
THEOREM ReferencesAlwaysCounted ==
  ASSUME Risks = {}
  PROVE  Spec => []ReferencesCounted
<1>1. IInv => ReferencesCounted
  BY CountsFromInv
<1> QED
  BY <1>1, InvariantHolds, PTL

(* The extents of a file cover exactly its size (write_extent_list and      *)
(* write_file_data_append in block.c, the check in fsck_extents.c).         *)
THEOREM SizesAlwaysCovered ==
  ASSUME Risks = {}
  PROVE  Spec => []SizeCovered
<1>1. IInv => SizeCovered
  BY SizesFromInv
<1> QED
  BY <1>1, InvariantHolds, PTL

(* A compressed extent is always a whole, aligned group, so that no rewrite *)
(* meets one that straddles groups (obmafs3_write_file_data in block.c).    *)
THEOREM CompressedAlwaysGroups ==
  ASSUME Risks = {}
  PROVE  Spec => []CompressedAreGroups
<1>1. IInv => CompressedAreGroups
  BY GroupsFromInv
<1> QED
  BY <1>1, InvariantHolds, PTL
=============================================================================
