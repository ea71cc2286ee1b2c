--------------------------- MODULE MetaStoreProofs ---------------------------
(***************************************************************************)
(* The indexes of the metadata hold what the values say, and queries       *)
(* answer what the values say, for any number of images, keys, values,     *)
(* user-defined indexes and failed writes.  Of the tree under the reverse  *)
(* index the proofs use that it acts as a set of keys (TreeActsAsSet).     *)
(***************************************************************************)
EXTENDS MetaStore, FiniteSetTheorems, TLAPS

AllPairs == Inodes \X MetaKeys
NumImages == Cardinality(Inodes)

(* The entries and the numbers that the values m of the pairs in S give.    *)
EntrySet(m, S) == {EntryKey(p[2], m[p[1]][p[2]], p[1]) : p \in S}
NumberSet(m, S) == UNION {Number(p[2], m[p[1]][p[2]], p[1]) : p \in S}

(* Two assignments of values that agree on the pairs of S.                  *)
SameOn(m, n, S) == \A p \in S : n[p[1]][p[2]] = m[p[1]][p[2]]

(* Every pair of S has a value. *)
Valued(m, S) == S \subseteq AllPairs /\ \A p \in S : m[p[1]][p[2]] \in DOMAIN Values
-----------------------------------------------------------------------------
LEMMA DivMod ==
  ASSUME NEW b \in Nat, b > 0, NEW q \in Nat, NEW r \in Nat, r < b
  PROVE  (q * b + r) \div b = q /\ (q * b + r) % b = r
<1>1. PICK x \in Nat : x = q * b + r
  OBVIOUS
<1>2. PICK d \in Int, m \in Int : d = x \div b /\ m = x % b /\ x = b * d + m /\ 0 <= m /\ m < b
  BY <1>1
<1>3. ~(d < q)
  <2>1. SUFFICES ASSUME d + 1 <= q PROVE FALSE
    BY <1>2
  <2>2. b * (d + 1) <= b * q
    BY <2>1
  <2> QED
    BY <1>1, <1>2, <2>2
<1>4. ~(q < d)
  <2>1. SUFFICES ASSUME q + 1 <= d PROVE FALSE
    BY <1>2
  <2>2. b * (q + 1) <= b * d
    BY <2>1
  <2> QED
    BY <1>1, <1>2, <2>2
<1>5. d = q
  BY <1>2, <1>3, <1>4
<1> QED
  BY <1>1, <1>2, <1>5

LEMMA Sizes ==
  /\ NumImages \in Nat /\ NumImages > 0 /\ Len(Values) \in Nat /\ Len(Values) > 0
  /\ DOMAIN Values = 1..Len(Values) /\ Inodes = 1..NumImages /\ MetaKeys \subseteq Nat \ {0}
  /\ PerOwner = Len(Values) * NumImages
<1>1. NumImages \in Nat /\ Cardinality(MetaKeys) \in Nat
  BY MetaAssumption, FS_CardinalityType DEF NumImages
<1>2. Len(Values) \in Nat /\ DOMAIN Values = 1..Len(Values)
  BY MetaAssumption
<1>3. Inodes = 1..NumImages /\ MetaKeys \subseteq Nat \ {0}
  BY <1>1, MetaAssumption DEF NumImages
<1>4. PerOwner = Len(Values) * NumImages /\ PerOwner # 0
  BY MetaAssumption, TreeAssumption DEF NumImages
<1>5. NumImages # 0 /\ Len(Values) # 0
  BY <1>1, <1>2, <1>4
<1> QED
  BY <1>1, <1>2, <1>3, <1>4, <1>5

LEMMA EntryDecode ==
  ASSUME NEW k \in MetaKeys, NEW v \in DOMAIN Values, NEW i \in Inodes
  PROVE  LET e == EntryKey(k, v, i)
         IN  Owner(e) = k - 1 /\ EntryValue(e) = v /\ EntryInode(e) = i
<1>1. PICK n \in Nat, w \in Nat : /\ n = NumImages /\ w = Len(Values) /\ n > 0 /\ w > 0
                                  /\ PerOwner = w * n
  BY Sizes
<1>2. PICK a \in Nat, b \in Nat, c \in Nat : k = a + 1 /\ v = b + 1 /\ i = c + 1 /\ b < w /\ c < n
  <2>1. k \in Nat /\ k > 0 /\ v \in 1..w /\ i \in 1..n
    BY <1>1, Sizes
  <2>2. k - 1 \in Nat /\ v - 1 \in Nat /\ i - 1 \in Nat /\ v - 1 < w /\ i - 1 < n
    BY <1>1, <2>1
  <2> QED
    BY <2>1, <2>2
<1>3. PICK x \in Nat : x = b * n + c /\ x < w * n
  <2>1. (b + 1) * n <= w * n
    BY <1>1, <1>2
  <2>2. b * n + c < (b + 1) * n
    BY <1>1, <1>2
  <2> QED
    BY <2>1, <2>2
<1>4. PICK p \in Nat : p = w * n /\ p > 0 /\ p = PerOwner
  BY <1>1, <1>3
<1>5. PICK e : e = EntryKey(k, v, i)
  OBVIOUS
<1>6. e - 1 = a * p + x
  <2>1. e = (a * p + 1) + b * n + (c + 1) - 1
    <3>1. FirstKey(k - 1) = a * p + 1 /\ v - 1 = b /\ Cardinality(Inodes) = n
      BY <1>1, <1>2, <1>4 DEF FirstKey, NumImages
    <3> QED
      BY <1>2, <1>5, <3>1 DEF EntryKey
  <2>2. a * p \in Nat /\ b * n \in Nat
    OBVIOUS
  <2> QED
    BY <1>3, <2>1, <2>2
<1>7. (e - 1) \div p = a /\ (e - 1) % p = x
  BY <1>3, <1>4, <1>6, DivMod
<1>8. x \div n = b
  BY <1>1, <1>2, <1>3, DivMod
<1>9. (e - 1) % n = c
  <2>1. PICK y \in Nat : y = a * w + b
    OBVIOUS
  <2>2. a * (w * n) = (a * w) * n
    OBVIOUS
  <2>3. (a * w + b) * n = (a * w) * n + b * n
    OBVIOUS
  <2>4. e - 1 = y * n + c
    BY <1>3, <1>4, <1>6, <2>1, <2>2, <2>3
  <2> QED
    BY <1>1, <1>2, <2>4, DivMod
<1>10. Owner(e) = k - 1
  BY <1>2, <1>4, <1>7 DEF Owner
<1>11. EntryValue(e) = v
  BY <1>1, <1>2, <1>4, <1>7, <1>8 DEF EntryValue, NumImages
<1>12. EntryInode(e) = i
  BY <1>1, <1>2, <1>9 DEF EntryInode, NumImages
<1> QED
  BY <1>5, <1>10, <1>11, <1>12

LEMMA NumberShape ==
  ASSUME NEW k, NEW v, NEW i, NEW e \in Number(k, v, i)
  PROVE  /\ is_numeric_value(v) /\ e = <<k, Values[v].whole.num, i>>
         /\ e[1] = k /\ e[2] = Values[v].whole.num /\ e[3] = i
BY DEF Number
LEMMA PairFields ==
  ASSUME NEW p \in AllPairs
  PROVE  p = <<p[1], p[2]>> /\ p[1] \in Inodes /\ p[2] \in MetaKeys
BY DEF AllPairs

(* A pair that is not in a set shares no entry with it, and no number.      *)
LEMMA EntryApart ==
  ASSUME NEW m, NEW p \in AllPairs, NEW x \in AllPairs, p # x,
         m[p[1]][p[2]] \in DOMAIN Values, NEW v \in DOMAIN Values
  PROVE  EntryKey(p[2], m[p[1]][p[2]], p[1]) # EntryKey(x[2], v, x[1])
<1>1. p = <<p[1], p[2]>> /\ x = <<x[1], x[2]>> /\ p[1] \in Inodes /\ x[1] \in Inodes
      /\ p[2] \in MetaKeys /\ x[2] \in MetaKeys
  BY PairFields
<1>2. PICK d, e : d = EntryKey(p[2], m[p[1]][p[2]], p[1]) /\ e = EntryKey(x[2], v, x[1])
  OBVIOUS
<1>3. Owner(d) = p[2] - 1 /\ EntryInode(d) = p[1] /\ Owner(e) = x[2] - 1 /\ EntryInode(e) = x[1]
  BY <1>1, <1>2, EntryDecode
<1>4. p[2] \in Nat /\ x[2] \in Nat
  BY <1>1, Sizes
<1>5. ASSUME d = e PROVE FALSE
  <2>1. p[2] - 1 = x[2] - 1 /\ p[1] = x[1]
    BY <1>3, <1>5
  <2>2. p[2] = x[2]
    BY <1>4, <2>1
  <2> QED
    BY <1>1, <2>1, <2>2
<1> QED
  BY <1>2, <1>5

LEMMA NumberApart ==
  ASSUME NEW p \in AllPairs, NEW x \in AllPairs, p # x, NEW v, NEW w, NEW e \in Number(p[2], v, p[1])
  PROVE  e \notin Number(x[2], w, x[1])
<1>1. e[1] = p[2] /\ e[3] = p[1]
  BY NumberShape
<1>2. ASSUME e \in Number(x[2], w, x[1]) PROVE FALSE
  <2>1. e[1] = x[2] /\ e[3] = x[1]
    BY <1>2, NumberShape
  <2> QED
    BY <1>1, <2>1, PairFields
<1> QED
  BY <1>2

LEMMA EntriesSame ==
  ASSUME NEW m, NEW n, NEW S, SameOn(m, n, S)
  PROVE  EntrySet(n, S) = EntrySet(m, S)
<1>1. \A p \in S : EntryKey(p[2], n[p[1]][p[2]], p[1]) = EntryKey(p[2], m[p[1]][p[2]], p[1])
  BY DEF SameOn
<1> QED
  BY <1>1 DEF EntrySet

LEMMA NumbersSame ==
  ASSUME NEW m, NEW n, NEW S, SameOn(m, n, S)
  PROVE  NumberSet(n, S) = NumberSet(m, S)
<1>1. \A p \in S : Number(p[2], n[p[1]][p[2]], p[1]) = Number(p[2], m[p[1]][p[2]], p[1])
  BY DEF SameOn
<1>2. ASSUME NEW e PROVE e \in NumberSet(n, S) <=> e \in NumberSet(m, S)
  <2>1. e \in NumberSet(n, S) <=> \E p \in S : e \in Number(p[2], n[p[1]][p[2]], p[1])
    BY DEF NumberSet
  <2>2. e \in NumberSet(m, S) <=> \E p \in S : e \in Number(p[2], m[p[1]][p[2]], p[1])
    BY DEF NumberSet
  <2> QED
    BY <1>1, <2>1, <2>2
<1> QED
  BY <1>2

(* Taking the value of a pair out of a set of entries or numbers, and       *)
(* putting it in.                                                           *)
EntryMoves(m, S, i, k, x) ==
  /\ m[i][k] \in DOMAIN Values => EntrySet(m, S) \ {EntryKey(k, m[i][k], i)} = EntrySet(m, S \ {x})
  /\ EntrySet(m, S \cup {x}) = EntrySet(m, S \ {x}) \cup {EntryKey(k, m[i][k], i)}

NumberMoves(m, S, i, k, x) ==
  /\ NumberSet(m, S) \ Number(k, m[i][k], i) = NumberSet(m, S \ {x})
  /\ NumberSet(m, S \cup {x}) = NumberSet(m, S \ {x}) \cup Number(k, m[i][k], i)

LEMMA EntryOut ==
  ASSUME NEW m, NEW S, Valued(m, S), NEW i \in Inodes, NEW k \in MetaKeys, NEW x, x = <<i, k>>
  PROVE  EntryMoves(m, S, i, k, x)
<1>1. x \in AllPairs /\ x[1] = i /\ x[2] = k
  BY DEF AllPairs
<1>2. PICK d : d = EntryKey(k, m[i][k], i)
  OBVIOUS
<1>3. ASSUME m[i][k] \in DOMAIN Values
      PROVE  EntrySet(m, S) \ {d} = EntrySet(m, S \ {x})
  <2>1. ASSUME NEW p \in S \ {x} PROVE EntryKey(p[2], m[p[1]][p[2]], p[1]) # d
    <3>1. p \in AllPairs /\ m[p[1]][p[2]] \in DOMAIN Values
      BY <2>1 DEF Valued
    <3>2. EntryKey(p[2], m[p[1]][p[2]], p[1]) # EntryKey(x[2], m[i][k], x[1])
      BY <1>1, <1>3, <2>1, <3>1, EntryApart
    <3> QED
      BY <1>1, <1>2, <3>2
  <2>2. ASSUME x \in S PROVE EntryKey(x[2], m[x[1]][x[2]], x[1]) = d
    BY <1>1, <1>2
  <2> QED
    BY <2>1, <2>2 DEF EntrySet
<1>4. EntrySet(m, S \cup {x}) = EntrySet(m, S \ {x}) \cup {d}
  <2>1. EntryKey(x[2], m[x[1]][x[2]], x[1]) = d
    BY <1>1, <1>2
  <2> QED
    BY <2>1 DEF EntrySet
<1> QED
  BY <1>2, <1>3, <1>4 DEF EntryMoves

LEMMA NumberOut ==
  ASSUME NEW m, NEW S, S \subseteq AllPairs, NEW i \in Inodes, NEW k \in MetaKeys, NEW x, x = <<i, k>>
  PROVE  NumberMoves(m, S, i, k, x)
<1>1. x \in AllPairs /\ x[1] = i /\ x[2] = k
  BY DEF AllPairs
<1>2. PICK N : N = Number(k, m[i][k], i)
  OBVIOUS
<1>3. ASSUME NEW e, NEW T PROVE e \in NumberSet(m, T) <=> \E p \in T : e \in Number(p[2], m[p[1]][p[2]], p[1])
  BY DEF NumberSet
<1>4. ASSUME NEW p \in S \ {x}, NEW e \in Number(p[2], m[p[1]][p[2]], p[1]) PROVE e \notin N
  <2>1. e \notin Number(x[2], m[i][k], x[1])
    BY <1>1, <1>4, NumberApart
  <2> QED
    BY <1>1, <1>2, <2>1
<1>5. Number(x[2], m[x[1]][x[2]], x[1]) = N
  BY <1>1, <1>2
<1>6. NumberSet(m, S) \ N = NumberSet(m, S \ {x})
  <2>1. ASSUME NEW e
        PROVE  (e \in NumberSet(m, S) /\ e \notin N) <=> e \in NumberSet(m, S \ {x})
    BY <1>3, <1>4, <1>5
  <2> QED
    BY <2>1
<1>7. NumberSet(m, S \cup {x}) = NumberSet(m, S \ {x}) \cup N
  <2>1. ASSUME NEW e
        PROVE  e \in NumberSet(m, S \cup {x}) <=> (e \in NumberSet(m, S \ {x}) \/ e \in N)
    BY <1>3, <1>5
  <2> QED
    BY <2>1
<1> QED
  BY <1>2, <1>6, <1>7 DEF NumberMoves

(* Numbers read from the entries of a tree. *)
NumbersFrom(E) == UNION {Number(Owner(e) + 1, EntryValue(e), EntryInode(e)) : e \in E}

LEMMA NumbersOfKeys ==
  ASSUME NEW recs
  PROVE  NumbersOf(recs) = NumbersFrom(Keys(recs))
<1>1. ASSUME NEW x PROVE x \in NumbersOf(recs) <=> x \in NumbersFrom(Keys(recs))
  <2>1. x \in NumbersOf(recs) <=> \E r \in Range(recs) :
            x \in Number(Owner(r.key) + 1, EntryValue(r.key), EntryInode(r.key))
    BY DEF NumbersOf
  <2>2. x \in NumbersFrom(Keys(recs)) <=> \E e \in Keys(recs) :
            x \in Number(Owner(e) + 1, EntryValue(e), EntryInode(e))
    BY DEF NumbersFrom
  <2>3. \A r \in Range(recs) : r.key \in Keys(recs)
    BY DEF Keys
  <2>4. \A e \in Keys(recs) : \E r \in Range(recs) : e = r.key
    BY DEF Keys
  <2> QED
    BY <2>1, <2>2, <2>3, <2>4
<1> QED
  BY <1>1

LEMMA EntryFields ==
  ASSUME NEW m, NEW S, Valued(m, S), NEW p \in S, NEW e, e = EntryKey(p[2], m[p[1]][p[2]], p[1])
  PROVE  Owner(e) = p[2] - 1 /\ Owner(e) + 1 = p[2] /\ EntryValue(e) = m[p[1]][p[2]] /\ EntryInode(e) = p[1]
<1>1. p[1] \in Inodes /\ p[2] \in MetaKeys /\ m[p[1]][p[2]] \in DOMAIN Values
  BY PairFields DEF Valued
<1>2. Owner(e) = p[2] - 1 /\ EntryValue(e) = m[p[1]][p[2]] /\ EntryInode(e) = p[1]
  BY <1>1, EntryDecode
<1>3. PICK k \in Nat : k = p[2]
  BY <1>1, Sizes
<1>4. k - 1 + 1 = k
  OBVIOUS
<1> QED
  BY <1>2, <1>3, <1>4

LEMMA NumbersFromEntries ==
  ASSUME NEW m, NEW S, Valued(m, S)
  PROVE  NumbersFrom(EntrySet(m, S)) = NumberSet(m, S)
<1>1. ASSUME NEW x PROVE x \in NumbersFrom(EntrySet(m, S)) <=> x \in NumberSet(m, S)
  <2>1. x \in NumbersFrom(EntrySet(m, S)) <=> \E e \in EntrySet(m, S) :
            x \in Number(Owner(e) + 1, EntryValue(e), EntryInode(e))
    BY DEF NumbersFrom
  <2>2. x \in NumberSet(m, S) <=> \E p \in S : x \in Number(p[2], m[p[1]][p[2]], p[1])
    BY DEF NumberSet
  <2>3. \A p \in S : \E e \in EntrySet(m, S) : e = EntryKey(p[2], m[p[1]][p[2]], p[1])
    BY DEF EntrySet
  <2>4. \A e \in EntrySet(m, S) : \E p \in S : e = EntryKey(p[2], m[p[1]][p[2]], p[1])
    BY DEF EntrySet
  <2>5. \A p \in S : \A e : e = EntryKey(p[2], m[p[1]][p[2]], p[1]) =>
            Number(Owner(e) + 1, EntryValue(e), EntryInode(e)) = Number(p[2], m[p[1]][p[2]], p[1])
    BY EntryFields
  <2> QED
    BY <2>1, <2>2, <2>3, <2>4, <2>5
<1> QED
  BY <1>1
-----------------------------------------------------------------------------
(* The inductive invariant: types, agreement, the values a key takes, and   *)
(* a numeric index that is empty before the first mount creates it.         *)

UserRecords == [type : {"numeric", "string"}, recs : SUBSET (MetaKeys \X (MinNum..MaxNum) \X Inodes)]

IInv ==
  /\ TypeOK /\ IndexesAgree
  /\ \A i \in Inodes, k \in MetaKeys : meta[i][k] # 0 => meta[i][k] \in Takes[k]
  /\ ~numlba => num = {}
  /\ \A k \in DOMAIN uidx : uidx[k] \in UserRecords

(* What a change of the value of x leaves alone. *)
Elsewhere(x) ==
  /\ meta' \in [Inodes -> [MetaKeys -> 0..Len(Values)]]
  /\ SameOn(meta, meta', AllPairs \ {x})
  /\ \A i \in Inodes, k \in MetaKeys : meta'[i][k] # 0 => meta'[i][k] \in Takes[k]
  /\ unindexed' \subseteq AllPairs /\ numlba' = numlba

LEMMA IndexedValued ==
  ASSUME TypeOK
  PROVE  /\ Indexed \subseteq AllPairs /\ Valued(meta, Indexed)
         /\ {Entry(p) : p \in Indexed} = EntrySet(meta, Indexed)
         /\ \A S : NumbersSet(S) = NumberSet(meta, S)
<1>1. Indexed \subseteq AllPairs
  BY DEF Indexed, AllPairs
<1>2. ASSUME NEW p \in Indexed PROVE meta[p[1]][p[2]] \in DOMAIN Values
  <2>1. p[1] \in Inodes /\ p[2] \in MetaKeys /\ meta[p[1]][p[2]] # 0
    BY <1>1, <1>2, PairFields DEF Indexed
  <2>2. meta[p[1]] \in [MetaKeys -> 0..Len(Values)]
    BY <2>1 DEF TypeOK
  <2>3. meta[p[1]][p[2]] \in 0..Len(Values)
    BY <2>1, <2>2
  <2> QED
    BY <2>1, <2>3, Sizes
<1> QED
  BY <1>1, <1>2 DEF Valued, EntrySet, Entry, NumbersSet, NumberSet

LEMMA IndexedValuedNext ==
  ASSUME TypeOK'
  PROVE  /\ Indexed' \subseteq AllPairs /\ Valued(meta', Indexed')
         /\ {Entry(p) : p \in Indexed}' = EntrySet(meta', Indexed')
         /\ \A S : NumbersSet(S)' = NumberSet(meta', S)
<1>1. Indexed' \subseteq AllPairs
  BY DEF Indexed, AllPairs
<1>2. ASSUME NEW p \in Indexed' PROVE meta'[p[1]][p[2]] \in DOMAIN Values
  <2>1. p[1] \in Inodes /\ p[2] \in MetaKeys /\ meta'[p[1]][p[2]] # 0
    BY <1>1, <1>2, PairFields DEF Indexed
  <2>2. meta'[p[1]] \in [MetaKeys -> 0..Len(Values)]
    BY <2>1 DEF TypeOK
  <2>3. meta'[p[1]][p[2]] \in 0..Len(Values)
    BY <2>1, <2>2
  <2> QED
    BY <2>1, <2>3, Sizes
<1> QED
  BY <1>1, <1>2 DEF Valued, EntrySet, Entry, NumbersSet, NumberSet

LEMMA NumbersTyped ==
  ASSUME NEW m, NEW S, Valued(m, S)
  PROVE  NumberSet(m, S) \subseteq MetaKeys \X (MinNum..MaxNum) \X Inodes
<1>1. SUFFICES ASSUME NEW e \in NumberSet(m, S) PROVE e \in MetaKeys \X (MinNum..MaxNum) \X Inodes
  OBVIOUS
<1>2. PICK p \in S : e \in Number(p[2], m[p[1]][p[2]], p[1])
  BY DEF NumberSet
<1>3. p[1] \in Inodes /\ p[2] \in MetaKeys /\ m[p[1]][p[2]] \in DOMAIN Values
  BY PairFields DEF Valued
<1>4. e = <<p[2], Values[m[p[1]][p[2]]].whole.num, p[1]>>
  BY <1>2, NumberShape
<1>5. Values[m[p[1]][p[2]]].whole.num \in MinNum..MaxNum
  BY <1>3, ValuesAssumption
<1> QED
  BY <1>3, <1>4, <1>5

(* Agreement in terms of the sets above.                                    *)
Agrees(m, S, held, lba, numbers, users) ==
  /\ held = EntrySet(m, S)
  /\ lba => numbers = NumberSet(m, S)
  /\ \A k \in DOMAIN users : users[k].type = "numeric" =>
        users[k].recs = NumberSet(m, {p \in S : p[2] = k})

LEMMA AgreesIs ==
  ASSUME TypeOK
  PROVE  IndexesAgree <=> Agrees(meta, Indexed, Keys(AllRecords(midx)), numlba, num, uidx)
BY IndexedValued DEF IndexesAgree, Agrees

LEMMA AgreesIsNext ==
  ASSUME TypeOK'
  PROVE  IndexesAgree' <=> Agrees(meta', Indexed', Keys(AllRecords(midx')), numlba', num', uidx')
BY IndexedValuedNext DEF IndexesAgree, Agrees

(* A state that agrees and whose other parts have their types is one of the *)
(* invariant.                                                               *)
LEMMA InvFromParts ==
  ASSUME meta' \in [Inodes -> [MetaKeys -> 0..Len(Values)]], unindexed' \subseteq AllPairs,
         numlba' \in BOOLEAN,
         \A i \in Inodes, k \in MetaKeys : meta'[i][k] # 0 => meta'[i][k] \in Takes[k],
         ~numlba' => num' = {},
         DOMAIN uidx' \subseteq MetaKeys, \A k \in DOMAIN uidx' : uidx'[k] \in UserRecords,
         NEW S, S = Indexed', Valued(meta', S),
         Agrees(meta', S, Keys(AllRecords(midx')), numlba', num', uidx')
  PROVE  IInv'
<1>1. num' \subseteq MetaKeys \X (MinNum..MaxNum) \X Inodes
  <2>1. CASE numlba'
    BY <2>1, NumbersTyped DEF Agrees
  <2>2. CASE ~numlba'
    BY <2>2
  <2> QED
    BY <2>1, <2>2
<1>2. \A k \in DOMAIN uidx' : uidx'[k].recs \subseteq MetaKeys \X (MinNum..MaxNum) \X Inodes
  BY DEF UserRecords
<1>3. TypeOK'
  BY <1>1, <1>2 DEF TypeOK, AllPairs
<1>4. IndexesAgree'
  BY <1>3, AgreesIsNext
<1> QED
  BY <1>3, <1>4 DEF IInv
-----------------------------------------------------------------------------
(* metadata_put and metadata_delete first take the old value out.           *)

LEMMA OldValue ==
  ASSUME IInv, NEW i \in Inodes, NEW k \in MetaKeys, NEW x, x = <<i, k>>
  PROVE  /\ x \in AllPairs /\ x[1] = i /\ x[2] = k /\ Entry(x) = EntryKey(k, meta[i][k], i)
         /\ meta[i][k] \in 0..Len(Values) /\ (meta[i][k] # 0 => meta[i][k] \in DOMAIN Values)
         /\ (meta[i][k] = 0 => x \notin Indexed) /\ Valued(meta, Indexed) /\ Indexed \in SUBSET AllPairs
         /\ Agrees(meta, Indexed, Keys(AllRecords(midx)), numlba, num, uidx)
<1>1. x \in AllPairs /\ x[1] = i /\ x[2] = k
  BY DEF AllPairs
<1>2. meta[i] \in [MetaKeys -> 0..Len(Values)] /\ meta[i][k] \in 0..Len(Values)
  BY DEF IInv, TypeOK
<1>3. meta[i][k] # 0 => meta[i][k] \in DOMAIN Values
  BY <1>2, Sizes
<1>4. meta[i][k] = 0 => x \notin Indexed
  BY <1>1 DEF Indexed
<1>5. TypeOK /\ IndexesAgree
  BY DEF IInv
<1>6. Valued(meta, Indexed) /\ Indexed \in SUBSET AllPairs
  BY <1>5, IndexedValued
<1>7. Agrees(meta, Indexed, Keys(AllRecords(midx)), numlba, num, uidx)
  BY <1>5, AgreesIs
<1> QED
  BY <1>1, <1>2, <1>3, <1>4, <1>6, <1>7 DEF Entry

UsersTyped(users) == DOMAIN users \subseteq MetaKeys /\ \A z \in DOMAIN users : users[z] \in UserRecords

LEMMA MidxTaken ==
  ASSUME IInv, TreeActsAsSet, NEW i \in Inodes, NEW k \in MetaKeys, NEW x, x = <<i, k>>
  PROVE  Keys(AllRecords(MidxWithout(k, meta[i][k], i))) = EntrySet(meta, Indexed \ {x})
<1>1. PICK held : held = Keys(AllRecords(midx)) /\ held = EntrySet(meta, Indexed)
  BY OldValue DEF Agrees
<1>2. Keys(AllRecords(MidxWithout(k, meta[i][k], i)))
         = held \ (IF meta[i][k] = 0 THEN {} ELSE {Entry(x)})
  BY <1>1 DEF TreeActsAsSet
<1>3. CASE meta[i][k] = 0
  <2>1. Indexed \ {x} = Indexed
    BY <1>3, OldValue
  <2> QED
    BY <1>1, <1>2, <1>3, <2>1
<1>4. CASE meta[i][k] # 0
  <2>1. /\ x \in AllPairs /\ x[1] = i /\ x[2] = k /\ Entry(x) = EntryKey(k, meta[i][k], i)
        /\ meta[i][k] \in DOMAIN Values /\ Valued(meta, Indexed)
    BY <1>4, OldValue
  <2>2. EntrySet(meta, Indexed) \ {EntryKey(k, meta[i][k], i)} = EntrySet(meta, Indexed \ {x})
    <3>1. EntryMoves(meta, Indexed, i, k, x)
      BY <2>1, EntryOut
    <3> QED
      BY <2>1, <3>1 DEF EntryMoves
  <2> QED
    BY <1>1, <1>2, <1>4, <2>1, <2>2
<1> QED
  BY <1>3, <1>4

LEMMA NumTaken ==
  ASSUME IInv, NEW i \in Inodes, NEW k \in MetaKeys, NEW x, x = <<i, k>>
  PROVE  /\ numlba => NumWithout(k, meta[i][k], i) = NumberSet(meta, Indexed \ {x})
         /\ ~numlba => NumWithout(k, meta[i][k], i) = {}
<1>1. /\ x \in AllPairs /\ x[1] = i /\ x[2] = k /\ Indexed \in SUBSET AllPairs
      /\ numlba => num = NumberSet(meta, Indexed)
  BY OldValue DEF Agrees
<1>2. CASE ~numlba
  BY <1>2 DEF IInv, NumWithout
<1>3. CASE numlba /\ meta[i][k] = 0
  <2>1. Indexed \ {x} = Indexed
    BY <1>3, OldValue
  <2> QED
    BY <1>1, <1>3, <2>1 DEF NumWithout
<1>4. CASE numlba /\ meta[i][k] # 0
  <2>1. NumberSet(meta, Indexed) \ Number(k, meta[i][k], i) = NumberSet(meta, Indexed \ {x})
    <3>1. NumberMoves(meta, Indexed, i, k, x)
      BY <1>1, NumberOut
    <3> QED
      BY <3>1 DEF NumberMoves
  <2> QED
    BY <1>1, <1>4, <2>1 DEF NumWithout
<1> QED
  BY <1>2, <1>3, <1>4

OfKey(S, k) == {p \in S : p[2] = k}

LEMMA UsersTaken ==
  ASSUME IInv, NEW i \in Inodes, NEW k \in MetaKeys, NEW x, x = <<i, k>>,
         NEW users, users = UidxWithout(k, meta[i][k], i)
  PROVE  /\ DOMAIN users = DOMAIN uidx /\ UsersTyped(users)
         /\ \A z \in DOMAIN users : users[z].type = uidx[z].type
         /\ \A z \in DOMAIN users : users[z].type = "numeric" =>
               users[z].recs = NumberSet(meta, OfKey(Indexed \ {x}, z))
<1>1. /\ x \in AllPairs /\ x[1] = i /\ x[2] = k /\ Indexed \in SUBSET AllPairs
      /\ \A z \in DOMAIN uidx : uidx[z].type = "numeric" => uidx[z].recs = NumberSet(meta, OfKey(Indexed, z))
  BY OldValue DEF Agrees, OfKey
<1>2. UsersTyped(uidx)
  BY DEF IInv, TypeOK, UsersTyped
<1>3. \A z : z # k => OfKey(Indexed \ {x}, z) = OfKey(Indexed, z)
  BY <1>1 DEF OfKey
<1>4. OfKey(Indexed \ {x}, k) = OfKey(Indexed, k) \ {x}
  BY DEF OfKey
<1>5. CASE meta[i][k] = 0
  <2>1. Indexed \ {x} = Indexed /\ users = uidx
    BY <1>5, OldValue DEF UidxWithout
  <2> QED
    BY <1>1, <1>2, <2>1
<1>6. CASE meta[i][k] # 0 /\ ~user_index_find(k)
  <2>1. users = uidx
    BY <1>6 DEF UidxWithout
  <2>2. \A z \in DOMAIN uidx : uidx[z].type = "numeric" => z # k
    BY <1>6 DEF user_index_find
  <2> QED
    BY <1>1, <1>2, <1>3, <2>1, <2>2
<1>7. CASE meta[i][k] # 0 /\ user_index_find(k)
  <2>1. PICK N : N = Number(k, meta[i][k], i)
    OBVIOUS
  <2>2. users = [uidx EXCEPT ![k].recs = @ \ N] /\ k \in DOMAIN uidx /\ uidx[k].type = "numeric"
    BY <1>7, <2>1 DEF UidxWithout, user_index_find
  <2>3. PICK R : R = uidx[k].recs
    OBVIOUS
  <2>4. uidx[k] = [type |-> "numeric", recs |-> R]
        /\ R \subseteq MetaKeys \X (MinNum..MaxNum) \X Inodes
    BY <1>2, <2>2, <2>3 DEF UsersTyped, UserRecords
  <2>5. users[k] = [type |-> "numeric", recs |-> R \ N] /\ DOMAIN users = DOMAIN uidx
        /\ \A z \in DOMAIN uidx : z # k => users[z] = uidx[z]
    BY <2>2, <2>3, <2>4
  <2>6. UsersTyped(users)
    <3>1. users[k] \in UserRecords
      BY <2>4, <2>5 DEF UserRecords
    <3> QED
      BY <1>2, <2>5, <3>1 DEF UsersTyped
  <2>7. R = NumberSet(meta, OfKey(Indexed, k))
    BY <1>1, <2>2, <2>3
  <2>8. R \ N = NumberSet(meta, OfKey(Indexed, k) \ {x})
    <3>1. PICK T : T = OfKey(Indexed, k) /\ T \subseteq AllPairs
      BY <1>1 DEF OfKey
    <3>2. NumberSet(meta, T) \ Number(k, meta[i][k], i) = NumberSet(meta, T \ {x})
      <4>1. NumberMoves(meta, T, i, k, x)
        BY <3>1, NumberOut
      <4> QED
        BY <4>1 DEF NumberMoves
    <3> QED
      BY <2>1, <2>7, <3>1, <3>2
  <2>9. users[k].recs = NumberSet(meta, OfKey(Indexed \ {x}, k)) /\ users[k].type = "numeric"
    BY <1>4, <2>5, <2>8
  <2>10. \A z \in DOMAIN users : users[z].type = uidx[z].type
    BY <2>2, <2>5, <2>9
  <2>11. \A z \in DOMAIN users : z # k => (users[z].type = "numeric" =>
               users[z].recs = NumberSet(meta, OfKey(Indexed \ {x}, z)))
    BY <1>1, <1>3, <2>5
  <2> QED
    BY <2>5, <2>6, <2>9, <2>10, <2>11
<1> QED
  BY <1>5, <1>6, <1>7

LEMMA AgreesElsewhere ==
  ASSUME NEW m, NEW n, NEW S, SameOn(m, n, S), NEW held, NEW lba, NEW numbers, NEW users,
         Agrees(m, S, held, lba, numbers, users)
  PROVE  Agrees(n, S, held, lba, numbers, users)
<1>1. EntrySet(n, S) = EntrySet(m, S) /\ NumberSet(n, S) = NumberSet(m, S)
  BY EntriesSame, NumbersSame
<1>2. \A k : NumberSet(n, {p \in S : p[2] = k}) = NumberSet(m, {p \in S : p[2] = k})
  <2>1. SUFFICES ASSUME NEW k
                 PROVE  NumberSet(n, {p \in S : p[2] = k}) = NumberSet(m, {p \in S : p[2] = k})
    OBVIOUS
  <2>2. SameOn(m, n, {p \in S : p[2] = k})
    BY DEF SameOn
  <2> QED
    BY <2>2, NumbersSame
<1> QED
  BY <1>1, <1>2 DEF Agrees

LEMMA Dropped ==
  ASSUME IInv, TreeActsAsSet, NEW i \in Inodes, NEW k \in MetaKeys, NEW x, x = <<i, k>>,
         Elsewhere(x), Indexed' = Indexed \ {x}, midx' = MidxWithout(k, meta[i][k], i),
         num' = NumWithout(k, meta[i][k], i), uidx' = UidxWithout(k, meta[i][k], i)
  PROVE  IInv'
<1>1. PICK S : S = Indexed \ {x}
  OBVIOUS
<1>2. Valued(meta, S) /\ S \subseteq AllPairs \ {x}
  BY <1>1, OldValue DEF Valued
<1>3. SameOn(meta, meta', S) /\ Valued(meta', S)
  BY <1>2 DEF Elsewhere, SameOn, Valued
<1>4. UsersTyped(uidx') /\ \A z \in DOMAIN uidx' : uidx'[z].type = "numeric" =>
                              uidx'[z].recs = NumberSet(meta, {p \in S : p[2] = z})
  <2>1. PICK users : users = UidxWithout(k, meta[i][k], i) /\ users = uidx'
    OBVIOUS
  <2> QED
    <3>1. \A z : OfKey(Indexed \ {x}, z) = {p \in S : p[2] = z}
      BY <1>1 DEF OfKey
    <3>2. UsersTyped(users) /\ \A z \in DOMAIN users : users[z].type = "numeric" =>
               users[z].recs = NumberSet(meta, OfKey(Indexed \ {x}, z))
      BY <2>1, UsersTaken
    <3> QED
      BY <2>1, <3>1, <3>2
<1>5. Agrees(meta, S, Keys(AllRecords(midx')), numlba', num', uidx')
  <2>1. Keys(AllRecords(midx')) = EntrySet(meta, S)
    BY <1>1, MidxTaken
  <2>2. numlba' => num' = NumberSet(meta, S)
    BY <1>1, NumTaken DEF Elsewhere
  <2> QED
    BY <1>4, <2>1, <2>2 DEF Agrees
<1>6. Agrees(meta', S, Keys(AllRecords(midx')), numlba', num', uidx')
  BY <1>3, <1>5, AgreesElsewhere
<1>7. ~numlba' => num' = {}
  BY NumTaken DEF Elsewhere
<1>8. numlba' \in BOOLEAN
  BY DEF Elsewhere, IInv, TypeOK
<1> QED
  BY <1>1, <1>3, <1>4, <1>6, <1>7, <1>8, InvFromParts DEF Elsewhere, UsersTyped

(* The new value goes into every index there is. *)
LEMMA Entered ==
  ASSUME IInv, TreeActsAsSet, NEW i \in Inodes, NEW k \in MetaKeys, NEW x, x = <<i, k>>,
         NEW v \in Takes[k], NEW users, users = UidxWithout(k, meta[i][k], i),
         Elsewhere(x), meta'[i][k] = v, Indexed' = (Indexed \ {x}) \cup {x},
         midx' = midx_tree_put(MidxWithout(k, meta[i][k], i), Rec(EntryKey(k, v, i), 0)).t,
         num' = IF numlba THEN NumWithout(k, meta[i][k], i) \cup Number(k, v, i)
                ELSE NumWithout(k, meta[i][k], i),
         uidx' = IF user_index_find(k) THEN [users EXCEPT ![k].recs = @ \cup Number(k, v, i)]
                 ELSE users
  PROVE  IInv'
<1>1. PICK S : S = Indexed \ {x}
  OBVIOUS
<1>2. Valued(meta, S) /\ S \subseteq AllPairs \ {x} /\ x \in AllPairs /\ x[1] = i /\ x[2] = k
  BY <1>1, OldValue DEF Valued
<1>3. SameOn(meta, meta', S) /\ Valued(meta', S)
  BY <1>2 DEF Elsewhere, SameOn, Valued
<1>4. v \in DOMAIN Values
  BY MetaAssumption
<1>5. PICK T : T = S \cup {x} /\ T = Indexed' /\ S \ {x} = S
  BY <1>1
<1>6. Valued(meta', T)
  BY <1>2, <1>3, <1>4, <1>5 DEF Valued
<1>7. PICK N, e : N = Number(k, v, i) /\ e = EntryKey(k, v, i)
  OBVIOUS
<1>8. EntrySet(meta', T) = EntrySet(meta, S) \cup {e}
  <2>1. EntryMoves(meta', S, i, k, x)
    BY <1>3, EntryOut
  <2>2. EntrySet(meta', S) = EntrySet(meta, S)
    BY <1>3, EntriesSame
  <2> QED
    BY <1>5, <1>7, <2>1, <2>2 DEF EntryMoves
<1>9. ASSUME NEW U, U \subseteq S
      PROVE  NumberSet(meta', U) = NumberSet(meta, U) /\ NumberSet(meta', U \cup {x}) = NumberSet(meta, U) \cup N
  <2>1. SameOn(meta, meta', U) /\ U \subseteq AllPairs /\ U \ {x} = U
    BY <1>2, <1>3, <1>9 DEF SameOn
  <2>2. NumberSet(meta', U) = NumberSet(meta, U)
    BY <2>1, NumbersSame
  <2>3. NumberMoves(meta', U, i, k, x)
    BY <2>1, NumberOut
  <2>4. NumberSet(meta', U \cup {x}) = NumberSet(meta', U \ {x}) \cup Number(k, meta'[i][k], i)
    BY <2>3 DEF NumberMoves
  <2> QED
    BY <1>7, <2>1, <2>2, <2>4
<1>10. Keys(AllRecords(midx')) = EntrySet(meta', T)
  <2>1. PICK kept : kept = Keys(AllRecords(midx)) \ (IF meta[i][k] = 0 THEN {} ELSE {Entry(<<i, k>>)})
    OBVIOUS
  <2>2. Keys(AllRecords(MidxWithout(k, meta[i][k], i))) = kept
    BY <2>1 DEF TreeActsAsSet
  <2>3. Keys(AllRecords(midx')) = kept \cup {e}
    BY <1>7, <2>1 DEF TreeActsAsSet
  <2>4. kept = EntrySet(meta, S)
    BY <1>1, <2>2, MidxTaken
  <2> QED
    BY <1>8, <2>3, <2>4
<1>11. numlba' => num' = NumberSet(meta', T)
  <2>1. numlba => num' = NumberSet(meta, S) \cup N
    BY <1>1, <1>7, NumTaken
  <2> QED
    BY <1>5, <1>9, <2>1 DEF Elsewhere
<1>12. ~numlba' => num' = {}
  BY NumTaken DEF Elsewhere
<1>13. /\ DOMAIN users = DOMAIN uidx /\ UsersTyped(users)
       /\ \A z \in DOMAIN users : users[z].type = uidx[z].type
       /\ \A z \in DOMAIN users : users[z].type = "numeric" => users[z].recs = NumberSet(meta, OfKey(S, z))
  BY <1>1, UsersTaken
<1>14. \A z : OfKey(S, z) \subseteq S /\ (z # k => OfKey(T, z) = OfKey(S, z)) /\ OfKey(T, k) = OfKey(S, k) \cup {x}
  BY <1>2, <1>5 DEF OfKey
<1>15. /\ UsersTyped(uidx')
       /\ \A z \in DOMAIN uidx' : uidx'[z].type = "numeric" => uidx'[z].recs = NumberSet(meta', OfKey(T, z))
  <2>1. CASE ~user_index_find(k)
    <3>1. uidx' = users
      BY <2>1
    <3>2. \A z \in DOMAIN users : users[z].type = "numeric" => z # k
      BY <1>13, <2>1 DEF user_index_find
    <3>3. \A z \in DOMAIN users : users[z].type = "numeric" => users[z].recs = NumberSet(meta', OfKey(T, z))
      BY <1>9, <1>13, <1>14, <3>2
    <3> QED
      BY <1>13, <3>1, <3>3
  <2>2. CASE user_index_find(k)
    <3>1. k \in DOMAIN users /\ users[k].type = "numeric" /\ uidx' = [users EXCEPT ![k].recs = @ \cup N]
      BY <1>7, <1>13, <2>2 DEF user_index_find
    <3>2. PICK R : R = users[k].recs
      OBVIOUS
    <3>3. users[k] = [type |-> "numeric", recs |-> R]
          /\ R \subseteq MetaKeys \X (MinNum..MaxNum) \X Inodes
      BY <1>13, <3>1, <3>2 DEF UsersTyped, UserRecords
    <3>4. uidx'[k] = [type |-> "numeric", recs |-> R \cup N] /\ DOMAIN uidx' = DOMAIN users
          /\ \A z \in DOMAIN users : z # k => uidx'[z] = users[z]
      BY <3>1, <3>2, <3>3
    <3>5. R \cup N = NumberSet(meta', OfKey(T, k))
      BY <1>9, <1>13, <1>14, <3>1, <3>2
    <3>6. N \subseteq MetaKeys \X (MinNum..MaxNum) \X Inodes
      <4>1. NumberSet(meta', T) \subseteq MetaKeys \X (MinNum..MaxNum) \X Inodes
        BY <1>6, NumbersTyped
      <4> QED
        BY <1>5, <1>9, <4>1
    <3>7. UsersTyped(uidx')
      <4>1. uidx'[k] \in UserRecords
        BY <3>3, <3>4, <3>6 DEF UserRecords
      <4> QED
        BY <1>13, <3>4, <4>1 DEF UsersTyped
    <3>8. uidx'[k].recs = NumberSet(meta', OfKey(T, k))
      BY <3>4, <3>5
    <3>9. \A z \in DOMAIN users : z # k /\ users[z].type = "numeric" =>
                users[z].recs = NumberSet(meta', OfKey(T, z))
      BY <1>9, <1>13, <1>14
    <3> QED
      BY <3>4, <3>7, <3>8, <3>9
  <2> QED
    BY <2>1, <2>2
<1>16. Agrees(meta', T, Keys(AllRecords(midx')), numlba', num', uidx')
  BY <1>10, <1>11, <1>15 DEF Agrees, OfKey
<1>17. numlba' \in BOOLEAN
  BY DEF Elsewhere, IInv, TypeOK
<1> QED
  BY <1>5, <1>6, <1>12, <1>15, <1>16, <1>17, InvFromParts DEF Elsewhere, UsersTyped

LEMMA PutElsewhere ==
  ASSUME IInv, NEW i \in Inodes, NEW k \in MetaKeys, NEW x, x = <<i, k>>, NEW v,
         v = 0 \/ v \in Takes[k],
         meta' = meta \/ meta' = [meta EXCEPT ![i][k] = v], numlba' = numlba,
         unindexed' = unindexed \ {x} \/ unindexed' = unindexed \cup {x}
  PROVE  /\ Elsewhere(x)
         /\ meta' # meta => meta'[i][k] = v
         /\ x \in unindexed' \/ meta'[i][k] = 0 => Indexed' = Indexed \ {x}
         /\ x \notin unindexed' /\ meta'[i][k] # 0 => Indexed' = (Indexed \ {x}) \cup {x}
<1>1. /\ meta \in [Inodes -> [MetaKeys -> 0..Len(Values)]] /\ x \in AllPairs /\ x[1] = i /\ x[2] = k
      /\ unindexed \subseteq AllPairs
      /\ \A a \in Inodes, b \in MetaKeys : meta[a][b] # 0 => meta[a][b] \in Takes[b]
  BY OldValue DEF IInv, TypeOK, AllPairs
<1>2. v \in 0..Len(Values)
  BY MetaAssumption, Sizes
<1>3. meta' \in [Inodes -> [MetaKeys -> 0..Len(Values)]] /\ (meta' # meta => meta'[i][k] = v)
  <2>1. CASE meta' = meta
    BY <1>1, <2>1
  <2>2. CASE meta' = [meta EXCEPT ![i][k] = v]
    BY <1>1, <1>2, <2>2
  <2> QED
    BY <2>1, <2>2
<1>4. ASSUME NEW a \in Inodes, NEW b \in MetaKeys, a # i \/ b # k
      PROVE  meta'[a][b] = meta[a][b]
  BY <1>1, <1>4
<1>5. SameOn(meta, meta', AllPairs \ {x})
  <2>1. SUFFICES ASSUME NEW p \in AllPairs \ {x} PROVE meta'[p[1]][p[2]] = meta[p[1]][p[2]]
    BY DEF SameOn
  <2>2. p = <<p[1], p[2]>> /\ p[1] \in Inodes /\ p[2] \in MetaKeys
    BY PairFields
  <2>3. p[1] # i \/ p[2] # k
    BY <2>2
  <2> QED
    BY <1>4, <2>2, <2>3
<1>6. \A a \in Inodes, b \in MetaKeys : meta'[a][b] # 0 => meta'[a][b] \in Takes[b]
  BY <1>1, <1>3, <1>4
<1>7. Elsewhere(x)
  BY <1>1, <1>3, <1>5, <1>6 DEF Elsewhere
<1>8. \A p \in AllPairs \ {x} : p \in Indexed' <=> p \in Indexed
  <2>1. \A p \in AllPairs \ {x} : (p \in unindexed' <=> p \in unindexed) /\ meta'[p[1]][p[2]] = meta[p[1]][p[2]]
    BY <1>5 DEF SameOn
  <2> QED
    BY <2>1 DEF Indexed, AllPairs
<1>9. x \in Indexed' <=> (meta'[i][k] # 0 /\ x \notin unindexed')
  BY <1>1 DEF Indexed, AllPairs
<1>10. Indexed \subseteq AllPairs /\ Indexed' \subseteq AllPairs
  BY DEF Indexed, AllPairs
<1> QED
  BY <1>3, <1>7, <1>8, <1>9, <1>10

LEMMA TakenValue ==
  ASSUME NEW k \in MetaKeys, NEW v \in Takes[k]
  PROVE  v \in DOMAIN Values /\ v # 0
<1>1. Takes[k] \subseteq DOMAIN Values
  BY MetaAssumption
<1>2. DOMAIN Values = 1..Len(Values) /\ Len(Values) \in Nat
  BY Sizes
<1>3. v \in 1..Len(Values)
  BY <1>1, <1>2
<1> QED
  BY <1>2, <1>3

LEMMA PutKeeps ==
  ASSUME IInv, TreeActsAsSet, NEW i \in Inodes, NEW k \in MetaKeys, NEW v \in Takes[k],
         NEW fails \in {"", "value", "index"}, metadata_put(i, k, v, fails), numlba' = numlba
  PROVE  IInv'
<1>1. PICK x : x = <<i, k>>
  OBVIOUS
<1>2. /\ meta' = (IF fails = "value" THEN meta ELSE [meta EXCEPT ![i][k] = v])
      /\ unindexed' = IF fails = "" THEN unindexed \ {x} ELSE unindexed \cup {x}
  BY <1>1 DEF metadata_put
<1>3. v \in DOMAIN Values /\ v # 0
  BY TakenValue
<1>4. /\ Elsewhere(x)
      /\ x \in unindexed' \/ meta'[i][k] = 0 => Indexed' = Indexed \ {x}
      /\ x \notin unindexed' /\ meta'[i][k] # 0 => Indexed' = (Indexed \ {x}) \cup {x}
  BY <1>1, <1>2, PutElsewhere
<1>5. CASE fails = ""
  <2>1. meta'[i][k] = v
    BY <1>2, <1>5 DEF IInv, TypeOK
  <2>2. Indexed' = (Indexed \ {x}) \cup {x}
    BY <1>2, <1>3, <1>4, <1>5, <2>1
  <2>3. PICK users : users = UidxWithout(k, meta[i][k], i)
    OBVIOUS
  <2>4. /\ midx' = midx_tree_put(MidxWithout(k, meta[i][k], i), Rec(EntryKey(k, v, i), 0)).t
        /\ num' = IF numlba THEN NumWithout(k, meta[i][k], i) \cup Number(k, v, i)
                  ELSE NumWithout(k, meta[i][k], i)
        /\ uidx' = IF user_index_find(k) THEN [users EXCEPT ![k].recs = @ \cup Number(k, v, i)]
                   ELSE users
    BY <1>5, <2>3 DEF metadata_put
  <2> QED
    BY <1>1, <1>4, <2>1, <2>2, <2>3, <2>4, Entered
<1>6. CASE fails # ""
  <2>1. Indexed' = Indexed \ {x}
    BY <1>2, <1>4, <1>6
  <2>2. /\ midx' = MidxWithout(k, meta[i][k], i) /\ num' = NumWithout(k, meta[i][k], i)
        /\ uidx' = UidxWithout(k, meta[i][k], i)
    BY <1>6 DEF metadata_put
  <2> QED
    BY <1>1, <1>4, <2>1, <2>2, Dropped
<1> QED
  BY <1>5, <1>6

LEMMA DeleteKeeps ==
  ASSUME IInv, TreeActsAsSet, NEW i \in Inodes, NEW k \in MetaKeys, metadata_delete(i, k), numlba' = numlba
  PROVE  IInv'
<1>1. PICK x : x = <<i, k>>
  OBVIOUS
<1>2. meta' = [meta EXCEPT ![i][k] = 0] /\ unindexed' = unindexed \ {x}
  BY <1>1 DEF metadata_delete
<1>3. meta'[i][k] = 0
  BY <1>2 DEF IInv, TypeOK
<1>4. Elsewhere(x) /\ Indexed' = Indexed \ {x}
  BY <1>1, <1>2, <1>3, PutElsewhere
<1>5. /\ midx' = MidxWithout(k, meta[i][k], i) /\ num' = NumWithout(k, meta[i][k], i)
      /\ uidx' = UidxWithout(k, meta[i][k], i)
  BY DEF metadata_delete
<1> QED
  BY <1>1, <1>4, <1>5, Dropped

(* A step that leaves the values alone. *)
LEMMA SameValues ==
  ASSUME IInv, meta' = meta, unindexed' = unindexed, numlba' \in BOOLEAN,
         ~numlba' => num' = {}, UsersTyped(uidx'),
         Keys(AllRecords(midx')) = EntrySet(meta, Indexed),
         numlba' => num' = NumberSet(meta, Indexed),
         \A z \in DOMAIN uidx' : uidx'[z].type = "numeric" => uidx'[z].recs = NumberSet(meta, OfKey(Indexed, z))
  PROVE  IInv'
<1>1. Indexed' = Indexed
  BY DEF Indexed
<1>2. TypeOK
  BY DEF IInv
<1>3. Valued(meta, Indexed)
  BY <1>2, IndexedValued
<1>4. Agrees(meta, Indexed, Keys(AllRecords(midx')), numlba', num', uidx')
  BY DEF Agrees, OfKey
<1>5. /\ meta \in [Inodes -> [MetaKeys -> 0..Len(Values)]] /\ unindexed \subseteq AllPairs
      /\ \A i \in Inodes, k \in MetaKeys : meta[i][k] # 0 => meta[i][k] \in Takes[k]
  BY DEF IInv, TypeOK, AllPairs
<1> QED
  BY <1>1, <1>3, <1>4, <1>5, InvFromParts DEF UsersTyped

(* What the invariant says of the indexes. *)
LEMMA IndexesHold ==
  ASSUME IInv
  PROVE  /\ Keys(AllRecords(midx)) = EntrySet(meta, Indexed) /\ Valued(meta, Indexed)
         /\ numlba => num = NumberSet(meta, Indexed)
         /\ ~numlba => num = {}
         /\ numlba \in BOOLEAN /\ UsersTyped(uidx)
         /\ \A z \in DOMAIN uidx : uidx[z].type = "numeric" => uidx[z].recs = NumberSet(meta, OfKey(Indexed, z))
<1>1. TypeOK /\ IndexesAgree
  BY DEF IInv
<1>2. Agrees(meta, Indexed, Keys(AllRecords(midx)), numlba, num, uidx) /\ Valued(meta, Indexed)
  BY <1>1, AgreesIs, IndexedValued
<1> QED
  BY <1>1, <1>2 DEF Agrees, OfKey, IInv, TypeOK, UsersTyped

LEMMA RemountKeeps ==
  ASSUME IInv, TreeActsAsSet, Remount
  PROVE  IInv'
<1>1. /\ midx' = HeaderRead(midx) /\ meta' = meta /\ unindexed' = unindexed /\ uidx' = uidx
  BY DEF Remount
<1>2. Keys(AllRecords(midx')) = EntrySet(meta, Indexed)
  BY <1>1, IndexesHold DEF TreeActsAsSet
<1>3. NumbersOf(AllRecords(midx)) = NumberSet(meta, Indexed)
  BY IndexesHold, NumbersOfKeys, NumbersFromEntries
<1>4. numlba' \in BOOLEAN /\ (~numlba' => num' = {}) /\ (numlba' => num' = NumberSet(meta, Indexed))
  <2>1. CASE midx.mem.root = 0
    BY <2>1, IndexesHold DEF Remount, numidx_build
  <2>2. CASE midx.mem.root # 0
    <3>1. numlba' = TRUE /\ num' = num \cup NumbersOf(AllRecords(midx))
      BY <2>2 DEF Remount, numidx_build
    <3> QED
      BY <1>3, <3>1, IndexesHold
  <2> QED
    BY <2>1, <2>2
<1> QED
  BY <1>1, <1>2, <1>4, IndexesHold, SameValues

LEMMA CreateKeeps ==
  ASSUME IInv, TreeActsAsSet, ~LargeBuilds, NEW k \in MetaKeys, NEW type \in {"numeric", "string"},
         CreateIndex(k, type)
  PROVE  IInv'
<1>1. PICK found : found = IF type = "numeric" THEN NumbersOf(EntriesOf(k, LeafForKey(k))) ELSE {}
  OBVIOUS
<1>2. /\ k \notin DOMAIN uidx /\ meta' = meta /\ unindexed' = unindexed /\ numlba' = numlba
      /\ num' = num /\ midx' = midx
      /\ LeafForKey(k) = Descend(midx, FirstKey(k - 1)).leaf
      /\ uidx' = [x \in DOMAIN uidx \cup {k} |-> IF x = k THEN [type |-> type, recs |-> found] ELSE uidx[x]]
  BY <1>1 DEF CreateIndex
<1>3. PICK T : T = OfKey(Indexed, k)
  OBVIOUS
<1>4. Valued(meta, T)
  BY <1>3, IndexesHold DEF Valued, OfKey
<1>5. Keys(KeyEntries(k)) = EntrySet(meta, T)
  <2>1. Keys(KeyEntries(k)) = {e \in EntrySet(meta, Indexed) : Owner(e) = k - 1}
    BY IndexesHold DEF TreeActsAsSet
  <2>2. ASSUME NEW p \in Indexed
        PROVE  Owner(EntryKey(p[2], meta[p[1]][p[2]], p[1])) = k - 1 <=> p[2] = k
    <3>1. Valued(meta, Indexed)
      BY IndexesHold
    <3>2. Owner(EntryKey(p[2], meta[p[1]][p[2]], p[1])) = p[2] - 1
      BY <3>1, EntryFields
    <3>3. p[2] \in Nat /\ k \in Nat
      BY <3>1, PairFields, Sizes DEF Valued
    <3> QED
      BY <3>2, <3>3
  <2>3. {e \in EntrySet(meta, Indexed) : Owner(e) = k - 1} = EntrySet(meta, T)
    BY <1>3, <2>2 DEF EntrySet, OfKey
  <2> QED
    BY <2>1, <2>3
<1>6. type = "numeric" => found = NumberSet(meta, T)
  <2>1. KeyEntries(k) = EntriesOf(k, LeafForKey(k))
    BY <1>2 DEF KeyEntries
  <2>2. NumbersOf(KeyEntries(k)) = NumberSet(meta, T)
    BY <1>4, <1>5, NumbersOfKeys, NumbersFromEntries
  <2> QED
    BY <1>1, <2>1, <2>2
<1>7. [type |-> type, recs |-> found] \in UserRecords
  <2>1. found \subseteq MetaKeys \X (MinNum..MaxNum) \X Inodes
    <3>1. CASE type = "numeric"
      BY <1>4, <1>6, <3>1, NumbersTyped
    <3>2. CASE type # "numeric"
      BY <1>1, <3>2
    <3> QED
      BY <3>1, <3>2
  <2> QED
    BY <2>1 DEF UserRecords
<1>8. DOMAIN uidx' = DOMAIN uidx \cup {k} /\ uidx'[k] = [type |-> type, recs |-> found]
      /\ \A z \in DOMAIN uidx : uidx'[z] = uidx[z]
  BY <1>2
<1>9. UsersTyped(uidx')
  BY <1>7, <1>8, IndexesHold DEF UsersTyped
<1>10. \A z \in DOMAIN uidx' : uidx'[z].type = "numeric" => uidx'[z].recs = NumberSet(meta, OfKey(Indexed, z))
  BY <1>3, <1>6, <1>8, IndexesHold
<1> QED
  BY <1>2, <1>9, <1>10, IndexesHold, SameValues

LEMMA DropKeeps ==
  ASSUME IInv, NEW k \in MetaKeys, DropIndex(k)
  PROVE  IInv'
<1>1. /\ meta' = meta /\ unindexed' = unindexed /\ numlba' = numlba /\ num' = num /\ midx' = midx
      /\ uidx' = [x \in DOMAIN uidx \ {k} |-> uidx[x]]
  BY DEF DropIndex
<1>2. DOMAIN uidx' \subseteq DOMAIN uidx /\ \A z \in DOMAIN uidx' : uidx'[z] = uidx[z]
  BY <1>1
<1>3. UsersTyped(uidx')
  BY <1>2, IndexesHold DEF UsersTyped
<1> QED
  BY <1>1, <1>2, <1>3, IndexesHold, SameValues

LEMMA InitIInv == ASSUME TreeActsAsSet, Init PROVE IInv
<1>1. \A i \in Inodes, k \in MetaKeys : meta[i][k] = 0
  BY DEF Init
<1>2. Indexed = {}
  <2>1. \A p \in AllPairs : meta[p[1]][p[2]] = 0
    BY <1>1, PairFields
  <2> QED
    BY <2>1 DEF Indexed, AllPairs
<1>3. AllRecords(midx) = << >>
  BY DEF Init, EmptyTree, EmptyHeader, AllRecords
<1>4. Keys(AllRecords(midx)) = {}
  BY <1>3 DEF Keys, Range
<1>5. TypeOK
  <2>1. meta \in [Inodes -> [MetaKeys -> 0..Len(Values)]]
    <3>1. 0 \in 0..Len(Values)
      BY Sizes
    <3> QED
      BY <3>1 DEF Init
  <2>2. DOMAIN uidx = {} /\ num = {} /\ unindexed = {} /\ numlba \in BOOLEAN
    BY DEF Init
  <2> QED
    BY <2>1, <2>2 DEF TypeOK
<1>6. IndexesAgree
  BY <1>2, <1>4 DEF IndexesAgree, Init
<1> QED
  BY <1>1, <1>5, <1>6 DEF IInv, Init

LEMMA NextIInv ==
  ASSUME ~LargeBuilds, IInv, TreeActsAsSet, [Next]_vars
  PROVE  IInv'
<1>1. ASSUME NEW i \in Inodes, NEW k \in MetaKeys, NEW v \in Takes[k],
             SetMetadata(i, k, v) \/ SetMetadataFails(i, k, v)
      PROVE  IInv'
  <2>1. PICK fails \in {"", "value", "index"} : metadata_put(i, k, v, fails) /\ numlba' = numlba
    BY <1>1 DEF SetMetadata, SetMetadataFails
  <2> QED
    BY <1>1, <2>1, PutKeeps
<1>2. ASSUME NEW i \in Inodes, NEW k \in MetaKeys, DeleteMetadata(i, k) PROVE IInv'
  <2>1. metadata_delete(i, k) /\ numlba' = numlba
    BY <1>2 DEF DeleteMetadata
  <2> QED
    BY <1>2, <2>1, DeleteKeeps
<1>3. ASSUME NEW x \in UserIndexes, CreateIndex(x[1], x[2]) PROVE IInv'
  <2>1. PICK k \in MetaKeys, type \in {"numeric", "string"} : k = x[1] /\ type = x[2]
    BY MetaAssumption
  <2> QED
    BY <1>3, <2>1, CreateKeeps
<1>4. ASSUME NEW k \in MetaKeys, DropIndex(k) PROVE IInv'
  BY <1>4, DropKeeps
<1>5. CASE Remount
  BY <1>5, RemountKeeps
<1>6. CASE UNCHANGED vars
  <2>1. /\ meta' = meta /\ midx' = midx /\ numlba' = numlba /\ num' = num /\ uidx' = uidx
        /\ unindexed' = unindexed
    BY <1>6 DEF vars
  <2> QED
    BY <2>1, IndexesHold, SameValues
<1> QED
  BY <1>1, <1>2, <1>3, <1>4, <1>5, <1>6 DEF Next

(* However values are set, replaced and deleted, puts fail half way,       *)
(* indexes are created and dropped and the volume is remounted             *)
(* (metadata.c:788-878, 1582-1711), the reverse, the numeric and every    *)
(* user-defined index keep exactly the entries of the values set without   *)
(* an error, for any number of images, keys and values.  The theorem rests *)
(* on the reverse index's tree acting as a set, and on no index being      *)
(* built for a key whose entries span leaves.                              *)
THEOREM IndexesFollow ==
  ASSUME ~LargeBuilds
  PROVE  Spec /\ []TreeActsAsSet => []IndexesSound
<1>1. TreeActsAsSet /\ Init => IInv
  BY InitIInv
<1>2. TreeActsAsSet /\ IInv /\ [Next]_vars => IInv'
  BY NextIInv
<1>3. TreeActsAsSet /\ IInv => IndexesSound
  BY DEF IInv, IndexesSound
<1> QED
  BY <1>1, <1>2, <1>3, PTL DEF Spec
-----------------------------------------------------------------------------
(* Queries.  The pairs of a filter's key, and the images it takes.          *)
Named(f) == {p \in Indexed : f.key = 0 \/ f.key = p[2]}
Taking(f) == {i \in Inodes : Satisfies(i, f)}

(* A value satisfies a filter if the scan's comparison says so.             *)
LEMMA SatisfiesIs ==
  ASSUME NEW i, NEW f
  PROVE  Satisfies(i, f) <=>
           \E p \in Named(f) : p[1] = i /\ filter_value_matches(p[2], meta[p[1]][p[2]], f)
<1>1. ASSUME NEW p, p[1] = i
      PROVE  filter_value_matches(p[2], meta[p[1]][p[2]], f) <=>
               LET subs == Range(SubValues(p[2], meta[i][p[2]]))
               IN  IF f.op = "notequal" THEN {s \in subs : ~filter_single_value_matches(s, f)} = {}
                   ELSE {s \in subs : filter_single_value_matches(s, f)} # {}
  <2>1. PICK subs : subs = Range(SubValues(p[2], meta[i][p[2]]))
    OBVIOUS
  <2>2. (\A s \in subs : filter_single_value_matches(s, f)) <=>
          {s \in subs : ~filter_single_value_matches(s, f)} = {}
    OBVIOUS
  <2>3. (\E s \in subs : filter_single_value_matches(s, f)) <=>
          {s \in subs : filter_single_value_matches(s, f)} # {}
    OBVIOUS
  <2> QED
    BY <1>1, <2>1, <2>2, <2>3 DEF filter_value_matches
<1> QED
  BY <1>1 DEF Satisfies, Named

LEMMA ScanKeys ==
  ASSUME IInv, TreeActsAsSet, NEW f, f.key \in MetaKeys \cup {0}
  PROVE  Keys(ScanEntries(f)) = EntrySet(meta, Named(f))
<1>1. PICK held : held = Keys(AllRecords(midx)) /\ held = EntrySet(meta, Indexed) /\ Valued(meta, Indexed)
  BY IndexesHold
<1>2. CASE f.key = 0
  <2>1. Named(f) = Indexed
    BY <1>2 DEF Named
  <2> QED
    BY <1>1, <1>2, <2>1 DEF ScanEntries
<1>3. CASE f.key # 0
  <2>1. PICK k \in MetaKeys : k = f.key
    BY <1>3
  <2>2. Keys(ScanEntries(f)) = {e \in held : Owner(e) = k - 1}
    BY <1>1, <1>3, <2>1 DEF ScanEntries, TreeActsAsSet, KeyEntries
  <2>3. ASSUME NEW p \in Indexed, NEW e, e = EntryKey(p[2], meta[p[1]][p[2]], p[1])
        PROVE  Owner(e) = k - 1 <=> p \in Named(f)
    <3>1. Owner(e) = p[2] - 1 /\ p[2] \in MetaKeys
      <4>1. p \in AllPairs
        BY <1>1 DEF Valued
      <4>2. Owner(e) = p[2] - 1
        BY <1>1, <2>3, EntryFields
      <4> QED
        BY <4>1, <4>2, PairFields
    <3>2. p[2] \in Int /\ k \in Int
      <4>1. MetaKeys \subseteq Nat
        BY Sizes
      <4>2. MetaKeys \subseteq Int
        BY <4>1
      <4> QED
        BY <3>1, <4>2
    <3>3. Owner(e) = k - 1 <=> p[2] = k
      BY <3>1, <3>2
    <3>4. p \in Named(f) <=> p[2] = k
      BY <1>3, <2>1 DEF Named
    <3> QED
      BY <3>3, <3>4
  <2>4. ASSUME NEW e PROVE e \in {x \in held : Owner(x) = k - 1} <=> e \in EntrySet(meta, Named(f))
    <3>1. e \in held <=> \E p \in Indexed : e = EntryKey(p[2], meta[p[1]][p[2]], p[1])
      BY <1>1 DEF EntrySet
    <3>2. e \in EntrySet(meta, Named(f)) <=> \E p \in Named(f) : e = EntryKey(p[2], meta[p[1]][p[2]], p[1])
      BY DEF EntrySet
    <3>3. Named(f) \subseteq Indexed
      BY DEF Named
    <3> QED
      BY <2>3, <3>1, <3>2, <3>3
  <2> QED
    BY <2>2, <2>4
<1> QED
  BY <1>2, <1>3

(* The scan of the reverse index finds the images that satisfy the filter.  *)
LEMMA ScanFinds ==
  ASSUME IInv, TreeActsAsSet, NEW f, f.key \in MetaKeys \cup {0}
  PROVE  {EntryInode(e.key) : e \in {x \in Range(ScanEntries(f)) :
             filter_value_matches(Owner(x.key) + 1, EntryValue(x.key), f)}} = Taking(f)
<1>1. PICK K : K = Keys(ScanEntries(f)) /\ K = EntrySet(meta, Named(f))
  BY ScanKeys
<1>2. Named(f) \subseteq Indexed /\ Valued(meta, Indexed)
  BY IndexesHold DEF Named
<1>3. ASSUME NEW p \in Named(f), NEW e, e = EntryKey(p[2], meta[p[1]][p[2]], p[1])
      PROVE  Owner(e) + 1 = p[2] /\ EntryValue(e) = meta[p[1]][p[2]] /\ EntryInode(e) = p[1] /\ p[1] \in Inodes
  <2>1. p \in AllPairs /\ p \in Indexed
    BY <1>2 DEF Valued
  <2>2. Owner(e) + 1 = p[2] /\ EntryValue(e) = meta[p[1]][p[2]] /\ EntryInode(e) = p[1]
    BY <1>2, <1>3, <2>1, EntryFields
  <2> QED
    BY <2>1, <2>2, PairFields
<1>4. PICK found : found = {EntryInode(e.key) : e \in {x \in Range(ScanEntries(f)) :
             filter_value_matches(Owner(x.key) + 1, EntryValue(x.key), f)}}
  OBVIOUS
<1>5. ASSUME NEW i PROVE i \in found <=> i \in Taking(f)
  <2>1. i \in found <=> \E e \in K : i = EntryInode(e) /\ filter_value_matches(Owner(e) + 1, EntryValue(e), f)
    BY <1>1, <1>4 DEF Keys
  <2>2. \A e : e \in K <=> \E p \in Named(f) : e = EntryKey(p[2], meta[p[1]][p[2]], p[1])
    BY <1>1 DEF EntrySet
  <2>3. i \in found <=> \E p \in Named(f) : i = p[1] /\ filter_value_matches(p[2], meta[p[1]][p[2]], f)
    BY <1>3, <2>1, <2>2
  <2>4. i \in found => i \in Inodes
    BY <1>3, <2>3
  <2> QED
    BY <2>3, <2>4, SatisfiesIs DEF Taking
<1> QED
  BY <1>4, <1>5

(* A value that is an integer is one line; its number decides the filter.   *)
LEMMA NumericLine ==
  ASSUME NEW k, NEW v \in DOMAIN Values, is_numeric_value(v)
  PROVE  Range(SubValues(k, v)) = {Values[v].whole} /\ Values[v].whole.num \in MinNum..MaxNum
<1>1. Values[v].subs = <<Values[v].whole>> /\ Values[v].whole.num \in MinNum..MaxNum
  BY ValuesAssumption
<1>2. SubValues(k, v) = <<Values[v].whole>>
  BY <1>1 DEF SubValues
<1> QED
  BY <1>1, <1>2 DEF Range

LEMMA RangeRight ==
  ASSUME NEW f, f.key # 0, RangeOf(f) # << >>, Indexable(f), NEW s, s.num \in MinNum..MaxNum
  PROVE  filter_single_value_matches(s, f) <=> RangeOf(f)[1] <= s.num /\ s.num <= RangeOf(f)[2]
<1>1. MinNum \in Int /\ MaxNum \in Int
  BY ValuesAssumption
<1>2. /\ f.low \in MinNum..MaxNum /\ f.high \in MinNum..MaxNum
      /\ (f.op = "num>" => f.low < MaxNum) /\ (f.op = "num<" => f.low > MinNum)
  BY DEF Indexable
<1>3. f.op \in {"num=", "num>", "num<", "num>=", "num<=", "numbetween"}
  BY DEF RangeOf
<1>4. CASE f.op = "num="
  BY <1>1, <1>2, <1>4 DEF RangeOf, filter_single_value_matches
<1>5. CASE f.op = "num>"
  <2>1. RangeOf(f) = <<f.low + 1, MaxNum>>
    BY <1>2, <1>5 DEF RangeOf
  <2>2. filter_single_value_matches(s, f) <=> s.num > f.low
    BY <1>5 DEF filter_single_value_matches
  <2> QED
    BY <1>1, <1>2, <2>1, <2>2
<1>6. CASE f.op = "num<"
  <2>1. RangeOf(f) = <<MinNum, f.low - 1>>
    BY <1>2, <1>6 DEF RangeOf
  <2>2. filter_single_value_matches(s, f) <=> s.num < f.low
    BY <1>6 DEF filter_single_value_matches
  <2> QED
    BY <1>1, <1>2, <2>1, <2>2
<1>7. CASE f.op = "num>="
  BY <1>1, <1>2, <1>7 DEF RangeOf, filter_single_value_matches
<1>8. CASE f.op = "num<="
  BY <1>1, <1>2, <1>8 DEF RangeOf, filter_single_value_matches
<1>9. CASE f.op = "numbetween"
  BY <1>1, <1>2, <1>9 DEF RangeOf, filter_single_value_matches
<1> QED
  BY <1>3, <1>4, <1>5, <1>6, <1>7, <1>8, <1>9

(* What an index of numbers gives for a range is what the filter takes.     *)
LEMMA IndexFinds ==
  ASSUME IInv, NEW f, f.key \in MetaKeys, f.key # 0, RangeOf(f) # << >>, Indexable(f),
         NEW S, S = Indexed \/ S = OfKey(Indexed, f.key)
  PROVE  CollectRange(NumberSet(meta, S), f.key, RangeOf(f)) = Taking(f)
<1>1. PICK k, r : k \in MetaKeys /\ k = f.key /\ r = RangeOf(f)
  OBVIOUS
<1>2. Valued(meta, Indexed) /\ Named(f) \subseteq Indexed /\ Indexed \subseteq AllPairs
  BY IndexesHold DEF Named, Valued
<1>3. \A p \in Indexed : p \in Named(f) <=> p[2] = k
  BY <1>1 DEF Named
<1>4. \A p : (p \in S /\ p[2] = k) <=> p \in Named(f)
  BY <1>1, <1>2, <1>3 DEF OfKey
<1>5. ASSUME NEW p \in Named(f)
      PROVE  /\ p[1] \in Inodes /\ p[2] = k /\ meta[p[1]][p[2]] \in DOMAIN Values
             /\ meta[p[1]][p[2]] \in Takes[k]
  <2>1. p \in AllPairs /\ p \in Indexed /\ p[2] = k /\ meta[p[1]][p[2]] \in DOMAIN Values
    BY <1>2, <1>3 DEF Valued
  <2>2. p[1] \in Inodes
    BY <2>1, PairFields
  <2>3. meta[p[1]][p[2]] # 0
    BY <2>1 DEF Indexed
  <2>4. p[2] \in MetaKeys
    BY <1>1, <2>1
  <2>5. meta[p[1]][p[2]] \in Takes[p[2]]
    BY <2>2, <2>3, <2>4 DEF IInv
  <2> QED
    BY <2>1, <2>2, <2>5
<1>6. ASSUME NEW p \in Named(f), NEW v, v = meta[p[1]][p[2]]
      PROVE  filter_value_matches(p[2], v, f) <=>
               is_numeric_value(v) /\ r[1] <= Values[v].whole.num /\ Values[v].whole.num <= r[2]
  <2>1. v \in DOMAIN Values /\ v \in Takes[k] /\ p[2] = k
    BY <1>5, <1>6
  <2>2. f.op # "notequal"
    BY DEF RangeOf
  <2>3. filter_value_matches(p[2], v, f) <=>
          \E s \in Range(SubValues(k, v)) : filter_single_value_matches(s, f)
    BY <2>1, <2>2 DEF filter_value_matches
  <2>4. CASE is_numeric_value(v)
    <3>1. Range(SubValues(k, v)) = {Values[v].whole} /\ Values[v].whole.num \in MinNum..MaxNum
      BY <2>1, <2>4, NumericLine
    <3>2. filter_single_value_matches(Values[v].whole, f) <=>
            r[1] <= Values[v].whole.num /\ Values[v].whole.num <= r[2]
      BY <1>1, <3>1, RangeRight
    <3> QED
      BY <2>3, <2>4, <3>1, <3>2
  <2>5. CASE ~is_numeric_value(v)
    <3>1. \A s \in Range(SubValues(k, v)) : ~filter_single_value_matches(s, f)
      BY <1>1, <2>1, <2>5 DEF Indexable
    <3> QED
      BY <2>3, <2>5, <3>1
  <2> QED
    BY <2>4, <2>5
<1>7. PICK found : found = CollectRange(NumberSet(meta, S), k, r)
  OBVIOUS
<1>8. ASSUME NEW i PROVE i \in found <=> i \in Taking(f)
  <2>1. i \in found <=> \E e \in NumberSet(meta, S) : e[1] = k /\ r[1] <= e[2] /\ e[2] <= r[2] /\ i = e[3]
    BY <1>7 DEF CollectRange
  <2>2. \A e : e \in NumberSet(meta, S) <=> \E p \in S : e \in Number(p[2], meta[p[1]][p[2]], p[1])
    BY DEF NumberSet
  <2>3. ASSUME i \in found PROVE i \in Taking(f)
    <3>1. PICK e \in NumberSet(meta, S) : e[1] = k /\ r[1] <= e[2] /\ e[2] <= r[2] /\ i = e[3]
      BY <2>1, <2>3
    <3>2. PICK p \in S : e \in Number(p[2], meta[p[1]][p[2]], p[1])
      BY <2>2, <3>1
    <3>3. PICK v : v = meta[p[1]][p[2]]
      OBVIOUS
    <3>4. is_numeric_value(v) /\ e[1] = p[2] /\ e[2] = Values[v].whole.num /\ e[3] = p[1]
      BY <3>2, <3>3, NumberShape
    <3>5. p \in Named(f)
      BY <1>4, <3>1, <3>4
    <3>6. filter_value_matches(p[2], v, f) /\ p[1] = i /\ i \in Inodes
      BY <1>5, <1>6, <3>1, <3>3, <3>4, <3>5
    <3> QED
      BY <3>3, <3>5, <3>6, SatisfiesIs DEF Taking
  <2>4. ASSUME i \in Taking(f) PROVE i \in found
    <3>1. PICK p \in Named(f) : p[1] = i /\ filter_value_matches(p[2], meta[p[1]][p[2]], f)
      BY <2>4, SatisfiesIs DEF Taking
    <3>2. PICK v : v = meta[p[1]][p[2]]
      OBVIOUS
    <3>3. is_numeric_value(v) /\ r[1] <= Values[v].whole.num /\ Values[v].whole.num <= r[2]
      BY <1>6, <3>1, <3>2
    <3>4. PICK e : e = <<p[2], Values[v].whole.num, p[1]>>
      OBVIOUS
    <3>5. e \in Number(p[2], v, p[1])
      BY <3>3, <3>4 DEF Number
    <3>6. e[1] = p[2] /\ e[2] = Values[v].whole.num /\ e[3] = p[1]
      BY <3>4
    <3>7. p \in S /\ p[2] = k
      BY <1>4
    <3>8. e \in NumberSet(meta, S)
      BY <2>2, <3>2, <3>5, <3>7
    <3> QED
      BY <2>1, <3>1, <3>3, <3>6, <3>7, <3>8
  <2> QED
    BY <2>3, <2>4
<1> QED
  BY <1>1, <1>7, <1>8

(* Whichever way a filter is answered, it takes the images whose values     *)
(* satisfy it.                                                              *)
LEMMA CollectFinds ==
  ASSUME IInv, TreeActsAsSet, NEW f, f.key \in MetaKeys \cup {0}, Indexable(f)
  PROVE  midx_collect_matching(f) = Taking(f)
<1>1. CASE midx.mem.root = 0
  <2>1. Keys(AllRecords(midx)) = {}
    BY <1>1 DEF AllRecords, Keys, Range
  <2>2. EntrySet(meta, Indexed) = {}
    BY <2>1, IndexesHold
  <2>3. Indexed = {}
    BY <2>2 DEF EntrySet
  <2>4. Taking(f) = {}
    BY <2>3 DEF Taking, Satisfies
  <2> QED
    BY <1>1, <2>4 DEF midx_collect_matching
<1>2. CASE midx.mem.root # 0
  <2>1. CASE f.key # 0 /\ RangeOf(f) # << >> /\ user_index_find(f.key) /\ uidx[f.key].recs # {}
    <3>1. uidx[f.key].recs = NumberSet(meta, OfKey(Indexed, f.key))
      BY <2>1, IndexesHold DEF user_index_find
    <3>2. midx_collect_matching(f) = CollectRange(uidx[f.key].recs, f.key, RangeOf(f))
      BY <1>2, <2>1 DEF midx_collect_matching
    <3> QED
      BY <2>1, <3>1, <3>2, IndexFinds
  <2>2. CASE /\ ~(f.key # 0 /\ RangeOf(f) # << >> /\ user_index_find(f.key) /\ uidx[f.key].recs # {})
             /\ f.key # 0 /\ RangeOf(f) # << >> /\ numlba /\ num # {}
    <3>1. num = NumberSet(meta, Indexed)
      BY <2>2, IndexesHold
    <3>2. midx_collect_matching(f) = CollectRange(num, f.key, RangeOf(f))
      BY <1>2, <2>2 DEF midx_collect_matching
    <3> QED
      BY <2>2, <3>1, <3>2, IndexFinds
  <2>3. CASE /\ ~(f.key # 0 /\ RangeOf(f) # << >> /\ user_index_find(f.key) /\ uidx[f.key].recs # {})
             /\ ~(f.key # 0 /\ RangeOf(f) # << >> /\ numlba /\ num # {})
    <3>1. midx_collect_matching(f) =
            {EntryInode(e.key) : e \in {x \in Range(ScanEntries(f)) :
               filter_value_matches(Owner(x.key) + 1, EntryValue(x.key), f)}}
      BY <1>2, <2>3 DEF midx_collect_matching
    <3> QED
      BY <3>1, ScanFinds
  <2> QED
    BY <2>1, <2>2, <2>3
<1> QED
  BY <1>1, <1>2

LEMMA AnyFinds ==
  ASSUME IInv, TreeActsAsSet
  PROVE  midx_collect_matching(AnyEntry) = {i \in Inodes : Described(i)}
<1>1. PICK f : f = AnyEntry
  OBVIOUS
<1>2. f.key = 0 /\ f.op = "exists"
  BY <1>1 DEF AnyEntry
<1>3. midx_collect_matching(f) = Taking(f)
  BY <1>2, CollectFinds DEF Indexable
<1>4. ASSUME NEW p \in Named(f) PROVE filter_value_matches(p[2], meta[p[1]][p[2]], f)
  <2>1. PICK v \in DOMAIN Values : v = meta[p[1]][p[2]]
    BY IndexesHold DEF Valued, Named
  <2>2. PICK s : s \in Range(SubValues(p[2], v))
    <3>1. Values[v].subs # << >> /\ Values[v].subs \in Seq(Range(Values[v].subs))
      BY ValuesAssumption
    <3>2. 1 \in DOMAIN Values[v].subs
      BY <3>1
    <3>3. 1 \in DOMAIN SubValues(p[2], v)
      BY <3>2 DEF SubValues
    <3> QED
      BY <3>3 DEF Range
  <2>3. filter_single_value_matches(s, f)
    BY <1>2 DEF filter_single_value_matches
  <2> QED
    BY <1>2, <2>1, <2>2, <2>3 DEF filter_value_matches
<1>5. Named(f) = Indexed
  BY <1>2 DEF Named
<1>6. \A i : Satisfies(i, f) <=> Described(i)
  BY <1>4, <1>5, SatisfiesIs DEF Described
<1> QED
  BY <1>1, <1>3, <1>6 DEF Taking

(* An image is taken by a filter, by a negated one too.                     *)
Holding(i, f) == IF f.negate THEN Described(i) /\ ~Satisfies(i, f) ELSE Satisfies(i, f)

LEMMA FilterFinds ==
  ASSUME IInv, TreeActsAsSet, NEW f, f.key \in MetaKeys \cup {0}, Indexable(f)
  PROVE  FilterSet(f) = {i \in Inodes : Holding(i, f)}
<1>1. midx_collect_matching(f) = Taking(f)
  BY CollectFinds
<1>2. midx_collect_matching(AnyEntry) = {i \in Inodes : Described(i)}
  BY AnyFinds
<1> QED
  BY <1>1, <1>2 DEF FilterSet, Taking, Holding

(* Combining the images of several filters is combining what they ask.      *)
SetsOf(G, J) == {G[j] : j \in J}
Votes(G, J, how) ==
  {i \in Inodes : IF how = "and" THEN \A j \in J : i \in G[j] ELSE \E j \in J : i \in G[j]}

LEMMA Combined ==
  ASSUME NEW J, J # {}, NEW G, \A j \in J : G[j] \subseteq Inodes, NEW how
  PROVE  idset_combine(SetsOf(G, J), how) = Votes(G, J, how)
<1>1. \A i : i \in UNION SetsOf(G, J) <=> \E j \in J : i \in G[j]
  BY DEF SetsOf
<1>2. \A i : (\A s \in SetsOf(G, J) : i \in s) <=> \A j \in J : i \in G[j]
  BY DEF SetsOf
<1>3. CASE how = "and"
  BY <1>1, <1>2, <1>3 DEF idset_combine, Votes
<1>4. CASE how # "and"
  BY <1>1, <1>4 DEF idset_combine, Votes
<1> QED
  BY <1>3, <1>4

(* The filters of a group, and whether an image is taken by a group.        *)
GroupOf(q, g) == {j \in DOMAIN q.filters : q.filters[j].group = g}
InGroupOf(i, q, g) ==
  IF q.combine[g + 1] = "and" THEN \A j \in GroupOf(q, g) : Holding(i, q.filters[j])
  ELSE \E j \in GroupOf(q, g) : Holding(i, q.filters[j])
ResultOf(q, g) == idset_combine({FilterSet(q.filters[j]) : j \in GroupOf(q, g)}, q.combine[g + 1])

LEMMA GroupFinds ==
  ASSUME IInv, TreeActsAsSet, NEW q, QuerySuited(q), NEW g, GroupOf(q, g) # {}
  PROVE  ResultOf(q, g) = {i \in Inodes : InGroupOf(i, q, g)}
<1>1. PICK J, G : J = GroupOf(q, g) /\ G = [j \in J |-> FilterSet(q.filters[j])]
  OBVIOUS
<1>2. \A j \in J : G[j] = {i \in Inodes : Holding(i, q.filters[j])}
  <2>1. SUFFICES ASSUME NEW j \in J PROVE G[j] = {i \in Inodes : Holding(i, q.filters[j])}
    OBVIOUS
  <2>2. q.filters[j].key \in MetaKeys \cup {0} /\ Indexable(q.filters[j])
    BY <1>1 DEF GroupOf, QuerySuited
  <2>3. PICK f : f = q.filters[j]
    OBVIOUS
  <2>4. FilterSet(f) = {i \in Inodes : Holding(i, f)}
    BY <2>2, <2>3, FilterFinds
  <2>5. G[j] = FilterSet(f)
    BY <1>1, <2>3
  <2> QED
    BY <2>3, <2>4, <2>5
<1>3. {FilterSet(q.filters[j]) : j \in J} = SetsOf(G, J)
  BY <1>1 DEF SetsOf
<1>4. PICK how : how = q.combine[g + 1]
  OBVIOUS
<1>5. idset_combine(SetsOf(G, J), how) = Votes(G, J, how)
  <2>1. J # {} /\ \A j \in J : G[j] \subseteq Inodes
    BY <1>1, <1>2
  <2> QED
    BY <2>1, Combined
<1>6. \A i \in Inodes, j \in J : i \in G[j] <=> Holding(i, q.filters[j])
  BY <1>2
<1>7. ResultOf(q, g) = idset_combine(SetsOf(G, J), how)
  BY <1>1, <1>3, <1>4 DEF ResultOf
<1>8. \A i \in Inodes : InGroupOf(i, q, g) <=>
        IF how = "and" THEN \A j \in J : i \in G[j] ELSE \E j \in J : i \in G[j]
  BY <1>1, <1>4, <1>6 DEF InGroupOf
<1> QED
  BY <1>5, <1>7, <1>8 DEF Votes

LEMMA QueryFinds ==
  ASSUME IInv, TreeActsAsSet, NEW q, QuerySuited(q)
  PROVE  query_collect_ids(q) = {i \in Inodes : Answers(i, q)}
<1>1. query_collect_ids(q) =
        IF GroupOf(q, 0) # {} /\ GroupOf(q, 1) # {}
        THEN idset_combine({ResultOf(q, 0), ResultOf(q, 1)}, q.group_combine)
        ELSE IF GroupOf(q, 0) # {} THEN ResultOf(q, 0) ELSE ResultOf(q, 1)
  BY DEF query_collect_ids, GroupOf, ResultOf
<1>2. PICK both : both = {g \in {0, 1} : GroupOf(q, g) # {}}
  OBVIOUS
<1>3. \A i : Answers(i, q) <=>
        IF q.group_combine = "and" THEN \A g \in both : InGroupOf(i, q, g)
        ELSE \E g \in both : InGroupOf(i, q, g)
  BY <1>2 DEF Answers, GroupOf, InGroupOf, Holding
<1>4. 0 \in both \/ 1 \in both
  <2>1. PICK j \in DOMAIN q.filters : q.filters[j].group \in {0, 1}
    BY DEF QuerySuited
  <2> QED
    BY <1>2, <2>1 DEF GroupOf
<1>5. \A g \in both : ResultOf(q, g) = {i \in Inodes : InGroupOf(i, q, g)}
  BY <1>2, GroupFinds
<1>6. CASE 0 \in both /\ 1 \in both
  <2>1. both = {0, 1}
    BY <1>2, <1>6
  <2>2. PICK G : G = [g \in {0, 1} |-> ResultOf(q, g)]
    OBVIOUS
  <2>3. \A g \in {0, 1} : G[g] = {i \in Inodes : InGroupOf(i, q, g)}
    BY <1>5, <2>1, <2>2
  <2>4. {ResultOf(q, 0), ResultOf(q, 1)} = SetsOf(G, {0, 1})
    BY <2>2 DEF SetsOf
  <2>5. PICK how : how = q.group_combine
    OBVIOUS
  <2>6. idset_combine(SetsOf(G, {0, 1}), how) = Votes(G, {0, 1}, how)
    <3>1. {0, 1} # {} /\ \A g \in {0, 1} : G[g] \subseteq Inodes
      BY <2>3
    <3>2. PICK J : J = {0, 1}
      OBVIOUS
    <3> QED
      BY <3>1, <3>2, Combined
  <2>7. query_collect_ids(q) = idset_combine(SetsOf(G, {0, 1}), how)
    BY <1>1, <1>2, <1>6, <2>4, <2>5
  <2>8. \A i \in Inodes : Answers(i, q) <=>
          IF how = "and" THEN \A g \in {0, 1} : i \in G[g] ELSE \E g \in {0, 1} : i \in G[g]
    BY <1>3, <2>1, <2>3, <2>5
  <2> QED
    BY <2>6, <2>7, <2>8 DEF Votes
<1>7. CASE 0 \in both /\ 1 \notin both
  <2>1. both = {0} /\ query_collect_ids(q) = ResultOf(q, 0)
    BY <1>1, <1>2, <1>7
  <2> QED
    BY <1>3, <1>5, <2>1
<1>8. CASE 0 \notin both
  <2>1. both = {1} /\ query_collect_ids(q) = ResultOf(q, 1)
    BY <1>1, <1>2, <1>4, <1>8
  <2> QED
    BY <1>3, <1>5, <2>1
<1> QED
  BY <1>6, <1>7, <1>8

(* A query is answered from a user-defined index, from the numeric index   *)
(* or by a scan of the reverse index (metadata.c:2607-2842): whichever it  *)
(* is, after any sequence of changes, failures, mounts and index builds,   *)
(* its answer is the images whose values satisfy it, for any number of     *)
(* filters, negated or not, in either group.  The filters are those an     *)
(* index can stand in for, and the reverse index's tree acts as a set.     *)
THEOREM QueriesFollow ==
  ASSUME ~LargeBuilds, \A q \in Queries : QuerySuited(q)
  PROVE  Spec /\ []TreeActsAsSet => []QueryAnswers
<1>1. TreeActsAsSet /\ Init => IInv
  BY InitIInv
<1>2. TreeActsAsSet /\ IInv /\ [Next]_vars => IInv'
  BY NextIInv
<1>3. TreeActsAsSet /\ IInv => QueryAnswers
  BY QueryFinds DEF QueryAnswers
<1> QED
  BY <1>1, <1>2, <1>3, PTL DEF Spec
=============================================================================
