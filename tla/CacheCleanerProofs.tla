------------------------- MODULE CacheCleanerProofs ------------------------
(***************************************************************************)
(* Theorems about CacheCleaner, for any number of threads and hashes and   *)
(* any sizes: every entry is considered by the cleaner, and what is on the *)
(* disk can be used.  A sum over a set of entries is proved to be the      *)
(* number of their bytes, so that the laws of cardinalities give those of  *)
(* sums; CleanerSizeProofs goes on with the account and the disk.          *)
(***************************************************************************)
EXTENDS CacheCleaner, FiniteSetTheorems, TLAPS

\* A non-empty set of naturals has a least element.
LEMMA LeastNat ==
  ASSUME NEW S \in SUBSET Nat, S # {}
  PROVE  \E m \in S : \A u \in S : m <= u
  <1>1. PICK x \in S : \A y \in S : ~(<<y, x>> \in OpToRel(<, Nat))
    BY NatLessThanWellFounded, WFMin, Zenon
  <1>2. \A y \in S : <<y, x>> \notin {ss \in Nat \X Nat : ss[1] < ss[2]}
    BY <1>1, Zenon DEF OpToRel
  <1>3. ASSUME NEW y \in S PROVE x <= y
    <2>1. SUFFICES ASSUME y < x PROVE FALSE
      OBVIOUS
    <2>2. <<y, x>> \in Nat \X Nat
      BY Zenon
    <2>3. <<y, x>>[1] < <<y, x>>[2]
      BY <2>1, Zenon
    <2> QED
      BY <1>2, <2>2, <2>3, Zenon
  <1> QED
    BY <1>3, Zenon

\* The bytes of the entries in S, one by one.
Bytes(S, f) == UNION {{h} \X (1 .. f[h]) : h \in S}

\* Finitely many entries have finitely many bytes.
LEMMA BytesFinite ==
  ASSUME NEW S, IsFiniteSet(S), NEW f, \A h \in S : f[h] \in Nat
  PROVE  IsFiniteSet(Bytes(S, f)) /\ Cardinality(Bytes(S, f)) \in Nat
  <1> DEFINE B == {{h} \X (1 .. f[h]) : h \in S}
             F == [h \in S |-> {h} \X (1 .. f[h])]
  <1>1. F \in Surjection(S, B)
    BY Zenon DEF Surjection
  <1>2. IsFiniteSet(B)
    <2> HIDE DEF F, B
    <2> QED BY <1>1, FS_Surjection, Zenon
  <1>3. ASSUME NEW h \in S PROVE IsFiniteSet({h} \X (1 .. f[h]))
    <2>1. f[h] \in Int /\ 1 \in Int
      OBVIOUS
    <2>2. IsFiniteSet({h}) /\ IsFiniteSet(1 .. f[h])
      BY <2>1, FS_Singleton, FS_Interval, Zenon
    <2> QED
      BY <2>2, FS_Product, Zenon
  <1>4. \A T \in B : IsFiniteSet(T)
    BY <1>3, Zenon
  <1>5. IsFiniteSet(UNION B)
    <2> HIDE DEF B
    <2> QED BY <1>2, <1>4, FS_UNION, Zenon
  <1> QED
    BY <1>5, FS_CardinalityType, Zenon DEF Bytes

\* One more entry adds its size.
LEMMA BytesAdd ==
  ASSUME NEW S, IsFiniteSet(S), NEW x, x \notin S, NEW f, \A h \in S \union {x} : f[h] \in Nat
  PROVE  Cardinality(Bytes(S \union {x}, f)) = Cardinality(Bytes(S, f)) + f[x]
  <1> DEFINE X == {x} \X (1 .. f[x])
             B == Bytes(S, f)
  <1>1. Bytes(S \union {x}, f) = B \union X
    BY Zenon DEF Bytes
  <1>2. B \intersect X = {}
    BY DEF Bytes
  <1>3. IsFiniteSet(B) /\ Cardinality(B) \in Nat
    BY BytesFinite, Zenon
  <1>4. IsFiniteSet(X) /\ Cardinality(X) = f[x]
    <2>1. IsFiniteSet({x}) /\ Cardinality({x}) = 1
      BY FS_Singleton, Zenon
    <2>2. IsFiniteSet(1 .. f[x]) /\ Cardinality(1 .. f[x]) = f[x]
      BY FS_Interval
    <2>3. IsFiniteSet(X) /\ Cardinality(X) = 1 * f[x]
      BY <2>1, <2>2, FS_Product
    <2> QED
      BY <2>3
  <1>5. Cardinality(B \intersect X) = 0
    BY <1>2, FS_EmptySet, Zenon
  <1> HIDE DEF X, B
  <1>6. Cardinality(B \union X) = Cardinality(B) + Cardinality(X) - Cardinality(B \intersect X)
    BY <1>3, <1>4, FS_Union, Zenon
  <1>7. f[x] \in Nat
    BY Zenon
  <1>8. Cardinality(B \union X) = Cardinality(B) + f[x]
    BY <1>3, <1>4, <1>5, <1>6, <1>7
  <1> QED
    BY <1>1, <1>8, Zenon DEF B

Pick(s) == CHOOSE x \in s : TRUE

Sums(g, S, f) ==
  g = [s \in SUBSET S |-> IF s = {} THEN 0 ELSE f[Pick(s)] + g[s \ {Pick(s)}]]

\* MapThenSumSet() counts bytes.
LEMMA TotalIsBytes ==
  ASSUME NEW S, IsFiniteSet(S), NEW f, \A h \in S : f[h] \in Nat
  PROVE  Total(S, f) = Cardinality(Bytes(S, f))
  <1> DEFINE k == [s \in SUBSET S |-> Cardinality(Bytes(s, f))]
  <1>1. ASSUME NEW s \in SUBSET S, s # {}
        PROVE  /\ Pick(s) \in s
               /\ IsFiniteSet(s) /\ Cardinality(s) \in Nat
               /\ Cardinality(s \ {Pick(s)}) = Cardinality(s) - 1
               /\ Cardinality(Bytes(s, f)) = f[Pick(s)] + Cardinality(Bytes(s \ {Pick(s)}, f))
    <2>1. Pick(s) \in s
      BY <1>1, Zenon DEF Pick
    <2>2. IsFiniteSet(s) /\ Cardinality(s) \in Nat
      BY FS_Subset, FS_CardinalityType, Zenon
    <2>3. /\ IsFiniteSet(s \ {Pick(s)}) /\ Pick(s) \notin s \ {Pick(s)}
          /\ Cardinality(s \ {Pick(s)}) = Cardinality(s) - 1
          /\ (s \ {Pick(s)}) \union {Pick(s)} = s
      BY <2>1, <2>2, FS_RemoveElement
    <2>4. Cardinality(Bytes((s \ {Pick(s)}) \union {Pick(s)}, f))
            = Cardinality(Bytes(s \ {Pick(s)}, f)) + f[Pick(s)]
      BY <2>3, BytesAdd, Zenon
    <2>5. Cardinality(Bytes(s \ {Pick(s)}, f)) \in Nat /\ f[Pick(s)] \in Nat
      BY <2>1, <2>3, BytesFinite, Zenon
    <2> QED
      BY <2>1, <2>2, <2>3, <2>4, <2>5
  <1>2. Cardinality(Bytes({}, f)) = 0
    BY FS_EmptySet, Zenon DEF Bytes
  <1>3. Sums(k, S, f)
    <2>1. ASSUME NEW s \in SUBSET S
          PROVE  k[s] = IF s = {} THEN 0 ELSE f[Pick(s)] + k[s \ {Pick(s)}]
      BY <1>1, <1>2, Zenon
    <2>2. k = [s \in SUBSET S |-> IF s = {} THEN 0 ELSE f[Pick(s)] + k[s \ {Pick(s)}]]
      BY <2>1, Zenon
    <2> QED
      BY <2>2, Zenon DEF Sums
  <1>4. ASSUME NEW g, Sums(g, S, f) PROVE g[S] = Cardinality(Bytes(S, f))
    <2> DEFINE Bad == {s \in SUBSET S : g[s] # k[s]}
               N == {Cardinality(s) : s \in Bad}
    <2>1. Bad = {}
      <3> SUFFICES ASSUME Bad # {} PROVE FALSE
        BY Zenon
      <3>1. N \in SUBSET Nat /\ N # {}
        <4>1. \A s \in SUBSET S : Cardinality(s) \in Nat
          BY FS_Subset, FS_CardinalityType, Zenon
        <4> QED
          BY <4>1, Zenon
      <3>2. PICK n \in N : \A m \in N : n <= m
        <4> HIDE DEF N
        <4> QED BY <3>1, LeastNat, Zenon
      <3>3. PICK s \in Bad : Cardinality(s) = n
        BY <3>2, Zenon
      <3>4. g[s] = IF s = {} THEN 0 ELSE f[Pick(s)] + g[s \ {Pick(s)}]
        BY <1>4, Zenon DEF Sums
      <3>5. k[s] = Cardinality(Bytes(s, f))
        BY Zenon
      <3>6. s # {}
        BY <1>2, <3>4, <3>5, Zenon
      <3>7. s \ {Pick(s)} \notin Bad
        <4>1. Cardinality(s \ {Pick(s)}) = n - 1 /\ n \in Nat
          BY <1>1, <3>3, <3>6, Zenon
        <4>2. ~(n <= n - 1)
          BY <4>1
        <4> QED
          BY <3>2, <4>1, <4>2, Zenon
      <3>8. g[s \ {Pick(s)}] = Cardinality(Bytes(s \ {Pick(s)}, f))
        BY <3>7, Zenon
      <3> QED
        BY <1>1, <3>4, <3>5, <3>6, <3>8, Zenon
    <2> QED
      BY <2>1, Zenon
  <1>5. Total(S, f) = (CHOOSE g : Sums(g, S, f))[S]
    BY Zenon DEF Total, MapThenSumSet, MapThenFoldSet, Sums, Pick
  <1>6. Sums(CHOOSE g : Sums(g, S, f), S, f)
    BY <1>3, Zenon
  <1> QED
    BY <1>4, <1>5, <1>6, Zenon

\* No entry has no size.
LEMMA TotalEmpty == ASSUME NEW f PROVE Total({}, f) = 0
  <1>1. IsFiniteSet({}) /\ \A h \in {} : f[h] \in Nat
    BY FS_EmptySet, Zenon
  <1>2. Total({}, f) = Cardinality(Bytes({}, f))
    BY <1>1, TotalIsBytes, Zenon
  <1>3. Bytes({}, f) = {}
    BY Zenon DEF Bytes
  <1> QED
    BY <1>2, <1>3, FS_EmptySet, Zenon

\* One more entry in the index adds its size to the sum over the index.
LEMMA TotalAdd ==
  ASSUME NEW S, IsFiniteSet(S), NEW x, x \notin S, NEW f, \A h \in S \union {x} : f[h] \in Nat
  PROVE  Total(S \union {x}, f) = Total(S, f) + f[x] /\ Total(S, f) \in Nat
  <1>1. IsFiniteSet(S \union {x})
    BY FS_AddElement, Zenon
  <1>2. Total(S \union {x}, f) = Cardinality(Bytes(S \union {x}, f))
    BY <1>1, TotalIsBytes, Zenon
  <1>3. Total(S, f) = Cardinality(Bytes(S, f)) /\ Total(S, f) \in Nat
    BY TotalIsBytes, BytesFinite, Zenon
  <1>4. Cardinality(Bytes(S \union {x}, f)) = Cardinality(Bytes(S, f)) + f[x]
    BY BytesAdd, Zenon
  <1> QED
    BY <1>2, <1>3, <1>4, Zenon

\* The sum depends on the sizes of the entries in the set, and more or larger entries
\* have a larger sum.
LEMMA TotalMonotonic ==
  ASSUME NEW S, NEW T, IsFiniteSet(T), S \subseteq T, NEW f, NEW g,
         \A h \in S : f[h] \in Nat /\ f[h] <= g[h],
         \A h \in T : g[h] \in Nat
  PROVE  Total(S, f) \in Nat /\ Total(T, g) \in Nat /\ Total(S, f) <= Total(T, g)
  <1>1. IsFiniteSet(S)
    BY FS_Subset, Zenon
  <1>2. Total(S, f) = Cardinality(Bytes(S, f)) /\ Total(T, g) = Cardinality(Bytes(T, g))
    BY <1>1, TotalIsBytes, Zenon
  <1>3. IsFiniteSet(Bytes(T, g)) /\ Cardinality(Bytes(T, g)) \in Nat
    BY BytesFinite, Zenon
  <1>4. Bytes(S, f) \subseteq Bytes(T, g)
    BY DEF Bytes
  <1>5. Cardinality(Bytes(S, f)) <= Cardinality(Bytes(T, g)) /\ Cardinality(Bytes(S, f)) \in Nat
    BY <1>1, <1>3, <1>4, FS_Subset, BytesFinite, Zenon
  <1> QED
    BY <1>2, <1>3, <1>5, Zenon

\* Equal sizes have equal sums.
LEMMA TotalSame ==
  ASSUME NEW S, IsFiniteSet(S), NEW f, NEW g, \A h \in S : f[h] \in Nat /\ f[h] = g[h]
  PROVE  Total(S, f) = Total(S, g)
  <1>1. Bytes(S, f) = Bytes(S, g)
    BY Zenon DEF Bytes
  <1> QED
    BY <1>1, TotalIsBytes, Zenon
-----------------------------------------------------------------------------
(* The rows of the index, and lists *)

\* A hash that is taken out of rows without duplicates is not there any more.
LEMMA WithoutGives ==
  ASSUME NEW S, NEW s \in Seq(S), NEW e
  PROVE  /\ Without(s, e) \in Seq(S)
         /\ IsInjective(s) => /\ IsInjective(Without(s, e))
                              /\ Range(Without(s, e)) = Range(s) \ {e}
  <1>1. CASE e \notin Range(s)
    BY <1>1, Zenon DEF Without
  <1>2. CASE e \in Range(s)
    <2> DEFINE p == CHOOSE i \in DOMAIN s : s[i] = e
               t == SubSeq(s, 1, p - 1) \o SubSeq(s, p + 1, Len(s))
    <2>1. p \in 1 .. Len(s) /\ s[p] = e
      <3>1. DOMAIN s = 1 .. Len(s) /\ \E i \in DOMAIN s : s[i] = e
        BY <1>2 DEF Range
      <3> QED
        BY <3>1, Zenon
    <2>2. Without(s, e) = t
      BY <1>2, Zenon DEF Without
    <2> HIDE DEF p
    <2>3. /\ t \in Seq(S) /\ Len(t) = Len(s) - 1
          /\ \A i \in 1 .. Len(t) : t[i] = IF i < p THEN s[i] ELSE s[i + 1]
      <3> DEFINE a == SubSeq(s, 1, p - 1)
                 b == SubSeq(s, p + 1, Len(s))
      <3>1. a \in Seq(S) /\ Len(a) = p - 1 /\ \A i \in 1 .. p - 1 : a[i] = s[i]
        BY <2>1
      <3>2. /\ b \in Seq(S) /\ Len(b) = Len(s) - p
            /\ \A i \in 1 .. Len(s) - p : b[i] = s[p + i]
        BY <2>1
      <3>3. t = a \o b
        BY Zenon
      <3> HIDE DEF a, b, t
      <3>4. t \in Seq(S) /\ Len(t) = Len(s) - 1
        BY <2>1, <3>1, <3>2, <3>3
      <3>5. ASSUME NEW i \in 1 .. Len(t) PROVE t[i] = IF i < p THEN s[i] ELSE s[i + 1]
        <4>1. CASE i < p
          <5>1. i \in 1 .. p - 1
            BY <2>1, <3>4, <4>1
          <5>2. t[i] = a[i]
            BY <3>1, <3>2, <3>3, <5>1
          <5> QED
            BY <3>1, <4>1, <5>1, <5>2, Zenon
        <4>2. CASE ~(i < p)
          <5>1. i - (p - 1) \in 1 .. Len(s) - p /\ p + (i - (p - 1)) = i + 1
            BY <2>1, <3>4, <4>2
          <5>2. t[i] = b[i - (p - 1)]
            BY <2>1, <3>1, <3>2, <3>3, <3>4, <4>2
          <5> QED
            BY <3>2, <4>2, <5>1, <5>2, Zenon
        <4> QED
          BY <4>1, <4>2, Zenon
      <3> QED
        BY <3>4, <3>5, Zenon
    <2> HIDE DEF t
    <2>4. ASSUME IsInjective(s) PROVE IsInjective(t) /\ Range(t) = Range(s) \ {e}
      <3>0. Len(s) \in Nat /\ DOMAIN s = 1 .. Len(s) /\ DOMAIN t = 1 .. Len(t)
        BY <2>3
      <3>1. \A i, j \in 1 .. Len(s) : s[i] = s[j] => i = j
        BY <2>4, <3>0, Zenon DEF IsInjective
      <3>2. ASSUME NEW i \in 1 .. Len(t), NEW j \in 1 .. Len(t), t[i] = t[j] PROVE i = j
        BY <2>1, <2>3, <3>0, <3>1, <3>2
      <3>3. ASSUME NEW i \in 1 .. Len(t) PROVE t[i] \in Range(s) \ {e}
        <4>1. t[i] = (IF i < p THEN s[i] ELSE s[i + 1]) /\ i \in 1 .. Len(s) /\ i + 1 \in 1 .. Len(s)
          BY <2>3, <3>0
        <4>2. PICK j \in 1 .. Len(s) : t[i] = s[j] /\ j # p
          BY <2>1, <4>1
        <4>3. t[i] # e
          BY <2>1, <3>1, <4>2, Zenon
        <4> QED
          BY <3>0, <4>2, <4>3, Zenon DEF Range
      <3>4. ASSUME NEW i \in 1 .. Len(s), s[i] # e PROVE \E j \in 1 .. Len(t) : t[j] = s[i]
        <4>1. CASE i < p
          <5>1. i \in 1 .. Len(t) /\ t[i] = s[i]
            BY <2>1, <2>3, <3>0, <4>1
          <5> QED BY <5>1, Zenon
        <4>2. CASE ~(i < p)
          <5>1. i # p
            BY <2>1, <3>4, Zenon
          <5>2. i - 1 \in 1 .. Len(t) /\ t[i - 1] = s[i]
            BY <2>1, <2>3, <3>0, <4>2, <5>1
          <5> QED BY <5>2, Zenon
        <4> QED
          BY <4>1, <4>2, Zenon
      <3>5. IsInjective(t)
        BY <3>0, <3>2, Zenon DEF IsInjective
      <3>6. Range(t) \subseteq Range(s) \ {e}
        BY <3>0, <3>3, Zenon DEF Range
      <3>7. Range(s) \ {e} \subseteq Range(t)
        BY <3>0, <3>4, Zenon DEF Range
      <3> QED
        BY <3>5, <3>6, <3>7, Zenon
    <2> QED
      BY <2>2, <2>3, <2>4, Zenon
  <1> QED
    BY <1>1, <1>2, Zenon

\* A hash is appended.
LEMMA AppendGives ==
  ASSUME NEW S, NEW s \in Seq(S), NEW e \in S
  PROVE  /\ Append(s, e) \in Seq(S)
         /\ Range(Append(s, e)) = Range(s) \union {e}
         /\ IsInjective(Append(s, e)) <=> (IsInjective(s) /\ e \notin Range(s))
  <1> DEFINE t == Append(s, e)
  <1>1. /\ t \in Seq(S) /\ Len(t) = Len(s) + 1 /\ Len(s) \in Nat
        /\ DOMAIN s = 1 .. Len(s) /\ DOMAIN t = 1 .. Len(t)
        /\ t[Len(t)] = e /\ \A i \in 1 .. Len(s) : t[i] = s[i]
    OBVIOUS
  <1> HIDE DEF t
  <1>2. Range(t) = Range(s) \union {e}
    <2>1. Range(t) \subseteq Range(s) \union {e}
      BY <1>1 DEF Range
    <2>2. e \in Range(t)
      BY <1>1 DEF Range
    <2>3. Range(s) \subseteq Range(t)
      BY <1>1 DEF Range
    <2> QED
      BY <2>1, <2>2, <2>3, Zenon
  <1>3. ASSUME IsInjective(t) PROVE IsInjective(s) /\ e \notin Range(s)
    BY <1>1, <1>3 DEF IsInjective, Range
  <1>4. ASSUME IsInjective(s), e \notin Range(s) PROVE IsInjective(t)
    BY <1>1, <1>4 DEF IsInjective, Range
  <1> QED
    BY <1>1, <1>2, <1>3, <1>4, Zenon DEF t

\* An order of a finite set has each of its elements once.
LEMMA OrderGives ==
  ASSUME NEW S, IsFiniteSet(S), NEW o \in Orders(S)
  PROVE  o \in Seq(S) /\ IsInjective(o) /\ Range(o) = S
  <1> DEFINE n == Cardinality(S)
             D == 1 .. n
  <1>1. n \in Nat
    BY FS_CardinalityType, Zenon
  <1>2. o \in [D -> S] /\ o \in Injection(D, S) /\ IsInjective(o)
    BY Zenon DEF Orders, Injection
  <1> HIDE DEF n
  <1>4. Cardinality(D) = n
    BY <1>1, FS_Interval
  <1>5. o \in Surjection(D, S)
    BY <1>2, <1>4, FS_Injection, Zenon DEF n
  <1>6. Range(o) = S
    BY <1>2, <1>5, Zenon DEF Surjection, Range
  <1>7. o \in Seq(S)
    BY <1>1, <1>2
  <1> QED
    BY <1>2, <1>6, <1>7, Zenon

\* What is set in the index is in it once, with the size given.
LEMMA SetGives ==
  ASSUME NEW i \in Rows, NEW h \in Hash, NEW s \in Nat
  PROVE  /\ Set(i, h, s) \in Rows
         /\ Set(i, h, s).size = [i.size EXCEPT ![h] = s]
         /\ IsInjective(i.order) => /\ IsInjective(Set(i, h, s).order)
                                    /\ Range(Set(i, h, s).order) = Range(i.order) \union {h}
  <1> DEFINE r == Without(i.order, h)
  <1>1. i.order \in Seq(Hash) /\ i.size \in [Hash -> Nat]
    BY Zenon DEF Rows
  <1>2. /\ r \in Seq(Hash)
        /\ IsInjective(i.order) => IsInjective(r) /\ Range(r) = Range(i.order) \ {h}
    BY <1>1, WithoutGives, Zenon
  <1>3. Set(i, h, s).order = Append(r, h) /\ Set(i, h, s).size = [i.size EXCEPT ![h] = s]
    BY Zenon DEF Set
  <1> HIDE DEF r
  <1>4. /\ Append(r, h) \in Seq(Hash)
        /\ Range(Append(r, h)) = Range(r) \union {h}
        /\ IsInjective(Append(r, h)) <=> (IsInjective(r) /\ h \notin Range(r))
    BY <1>2, AppendGives, Zenon
  <1>5. Set(i, h, s) \in Rows
    BY <1>1, <1>4, Zenon DEF Set, Rows, r
  <1> QED
    BY <1>2, <1>3, <1>4, <1>5, Zenon

\* What is deleted from the index is not in it any more.
LEMMA DropGives ==
  ASSUME NEW i \in Rows, NEW h \in Hash
  PROVE  /\ Drop(i, h) \in Rows
         /\ Drop(i, h).size = [i.size EXCEPT ![h] = 0]
         /\ IsInjective(i.order) => /\ IsInjective(Drop(i, h).order)
                                    /\ Range(Drop(i, h).order) = Range(i.order) \ {h}
  <1> DEFINE r == Without(i.order, h)
  <1>1. i.order \in Seq(Hash) /\ i.size \in [Hash -> Nat]
    BY Zenon DEF Rows
  <1>2. /\ r \in Seq(Hash)
        /\ IsInjective(i.order) => IsInjective(r) /\ Range(r) = Range(i.order) \ {h}
    BY <1>1, WithoutGives, Zenon
  <1>3. Drop(i, h).order = r /\ Drop(i, h).size = [i.size EXCEPT ![h] = 0]
    BY Zenon DEF Drop
  <1>4. Drop(i, h) \in Rows
    BY <1>1, <1>2, Zenon DEF Drop, Rows
  <1> QED
    BY <1>2, <1>3, <1>4, Zenon

\* What is left of a sequence behind its first n elements.
LEMMA SuffixIs ==
  ASSUME NEW S, NEW q \in Seq(S), NEW n \in Nat, n <= Len(q)
  PROVE  /\ DOMAIN SubSeq(q, n + 1, Len(q)) = 1 .. Len(q) - n
         /\ \A k \in 1 .. Len(q) - n : SubSeq(q, n + 1, Len(q))[k] = q[n + k]
  OBVIOUS

\* What is listed.
LEMMA ListedIs ==
  ASSUME NEW l \in Lists
  PROVE  Range(Listed(l)) = {l.items[k] : k \in l.popped + 1 .. Len(l.items)}
  <1> DEFINE m == Len(l.items)
             p == l.popped
             s == SubSeq(l.items, p + 1, m)
  <1>1. l.items \in Seq(Hash) /\ m \in Nat /\ p \in Nat /\ p <= m
    BY DEF Lists
  <1>2. /\ DOMAIN s = 1 .. m - p
        /\ \A k \in 1 .. m - p : s[k] = l.items[p + k]
    BY <1>1, SuffixIs, Zenon
  <1>3. ASSUME NEW k \in p + 1 .. m PROVE k - p \in 1 .. m - p /\ p + (k - p) = k
    BY <1>1
  <1>4. ASSUME NEW k \in 1 .. m - p PROVE p + k \in p + 1 .. m
    BY <1>1
  <1>5. Range(s) = {l.items[k] : k \in p + 1 .. m}
    <2> HIDE DEF s, m, p
    <2>1. Range(s) \subseteq {l.items[k] : k \in p + 1 .. m}
      BY <1>2, <1>4, Zenon DEF Range
    <2>2. {l.items[k] : k \in p + 1 .. m} \subseteq Range(s)
      BY <1>2, <1>3 DEF Range
    <2> QED
      BY <2>1, <2>2, Zenon
  <1> QED
    BY <1>5, Zenon DEF Listed

\* The empty list.
LEMMA EmptyListed == EmptyList \in Lists /\ Range(Listed(EmptyList)) = {} /\ EmptyList.popped = 0
  <1>1. EmptyList \in Lists /\ EmptyList.popped = 0 /\ Len(EmptyList.items) = 0
    BY DEF Lists, EmptyList
  <1>2. Range(Listed(EmptyList)) = {EmptyList.items[k] : k \in 1 .. 0}
    BY <1>1, ListedIs
  <1> QED
    BY <1>1, <1>2

\* LockedList::Append() with the compare-exchange at a node.
LEMMA LinkGives ==
  ASSUME NEW l \in Lists, NEW n \in Nat, NEW x \in Hash
  PROVE  /\ Link(l, n, x).list \in Lists /\ Link(l, n, x).list.popped = l.popped
         /\ Link(l, n, x).linked \in BOOLEAN /\ Link(l, n, x).node \in Nat
         /\ Range(Listed(Link(l, n, x).list))
              = Range(Listed(l)) \union (IF Link(l, n, x).linked THEN {x} ELSE {})
  <1>1. /\ l.items \in Seq(Hash) /\ l.popped \in Nat /\ l.hint \in Nat
        /\ l.popped <= Len(l.items) /\ Len(l.items) \in Nat
    BY DEF Lists
  <1>2. CASE HasNext(l, n)
    <2>1. Link(l, n, x) = [list |-> l, linked |-> FALSE, node |-> NextNode(l, n)]
      BY <1>2, Zenon DEF Link
    <2>2. NextNode(l, n) \in Nat
      BY <1>1 DEF NextNode
    <2> QED
      BY <2>1, <2>2
  <1>3. CASE ~HasNext(l, n)
    <2> DEFINE k == [l EXCEPT !.items = Append(@, x)]
    <2>1. Link(l, n, x) = [list |-> k, linked |-> TRUE, node |-> Len(l.items) + 1]
      BY <1>3, Zenon DEF Link
    <2>2. k \in Lists /\ k.popped = l.popped /\ k.items = Append(l.items, x)
      <3>1. l \in [items : Seq(Hash), popped : Nat, hint : Nat]
        BY Zenon DEF Lists
      <3>2. l.popped <= Len(Append(l.items, x)) /\ Append(l.items, x) \in Seq(Hash)
        BY <1>1
      <3>3. /\ k \in [items : Seq(Hash), popped : Nat, hint : Nat]
            /\ k.popped = l.popped /\ k.items = Append(l.items, x)
        BY <3>1, <3>2, Zenon
      <3> QED
        BY <3>2, <3>3, Zenon DEF Lists
    <2> HIDE DEF k
    <2>3. /\ Range(Listed(k)) = {k.items[j] : j \in k.popped + 1 .. Len(k.items)}
          /\ Range(Listed(l)) = {l.items[j] : j \in l.popped + 1 .. Len(l.items)}
      BY <2>2, ListedIs, Zenon
    <2>4. /\ Len(k.items) = Len(l.items) + 1 /\ k.items[Len(l.items) + 1] = x
          /\ \A j \in 1 .. Len(l.items) : k.items[j] = l.items[j]
      BY <1>1, <2>2
    <2>5. Range(Listed(k)) \subseteq Range(Listed(l)) \union {x}
      BY <1>1, <2>2, <2>3, <2>4
    <2>6. Range(Listed(l)) \subseteq Range(Listed(k))
      BY <1>1, <2>2, <2>3, <2>4
    <2>7. x \in Range(Listed(k))
      <3>1. Len(l.items) + 1 \in k.popped + 1 .. Len(k.items)
        BY <1>1, <2>2, <2>4
      <3> QED
        BY <2>3, <2>4, <3>1, Zenon
    <2> QED
      BY <1>1, <2>1, <2>2, <2>5, <2>6, <2>7
  <1> QED
    BY <1>2, <1>3, Zenon

\* The store of tail_hint_.
LEMMA SetHintGives ==
  ASSUME NEW l \in Lists, NEW n \in Nat
  PROVE  SetHint(l, n) \in Lists /\ Listed(SetHint(l, n)) = Listed(l) /\ SetHint(l, n).popped = l.popped
  BY Zenon DEF SetHint, Listed, Lists

\* LockedList::Pop(): the first is not listed any more, the others are.
LEMMA PopGives ==
  ASSUME NEW l \in Lists, ~IsEmpty(l)
  PROVE  /\ Pop(l) \in Lists /\ FirstNode(l) \in Hash
         /\ Range(Listed(l)) = {FirstNode(l)} \union Range(Listed(Pop(l)))
  <1> DEFINE k == [l EXCEPT !.popped = @ + 1]
  <1>1. /\ l.items \in Seq(Hash) /\ l.popped \in Nat /\ l.hint \in Nat
        /\ l.popped < Len(l.items) /\ Len(l.items) \in Nat
    BY DEF Lists, IsEmpty, HasNext
  <1>2. k \in Lists /\ k.popped = l.popped + 1 /\ k.items = l.items
    BY <1>1 DEF Lists
  <1>3. Pop(l) \in {k, SetHint(k, 0)}
    BY Zenon DEF Pop
  <1> HIDE DEF k
  <1>4. Pop(l) \in Lists /\ Listed(Pop(l)) = Listed(k)
    BY <1>2, <1>3, SetHintGives, Zenon
  <1>5. /\ Range(Listed(k)) = {l.items[j] : j \in l.popped + 1 + 1 .. Len(l.items)}
        /\ Range(Listed(l)) = {l.items[j] : j \in l.popped + 1 .. Len(l.items)}
    BY <1>2, ListedIs, Zenon
  <1>6. l.popped + 1 .. Len(l.items) = {l.popped + 1} \union (l.popped + 1 + 1 .. Len(l.items))
    BY <1>1
  <1>7. FirstNode(l) = l.items[l.popped + 1] /\ FirstNode(l) \in Hash
    BY <1>1 DEF FirstNode
  <1> QED
    BY <1>4, <1>5, <1>6, <1>7

\* Nothing is listed in an empty list.
LEMMA NothingListed ==
  ASSUME NEW l \in Lists, IsEmpty(l)
  PROVE  Range(Listed(l)) = {}
  <1>1. l.popped \in Nat /\ Len(l.items) \in Nat /\ ~(l.popped < Len(l.items))
    BY DEF Lists, IsEmpty, HasNext
  <1>2. l.popped + 1 .. Len(l.items) = {}
    BY <1>1
  <1> QED
    BY <1>2, ListedIs, Zenon

\* The account is unsigned.
LEMMA Unsigned == \A n \in Int : n % Modulus \in 0 .. Modulus - 1
  BY CleanerAssumption

\* The account of what fits is exact.
LEMMA NoWrap == \A n \in Nat : n < Modulus => n % Modulus = n
  BY CleanerAssumption

-----------------------------------------------------------------------------
(* Run() *)

Walked(d) == {h \in Hash : d[h] > 0}
Broken(i, d, v, missing) ==
  {h \in Walked(d) : IF h \in Range(i.order) THEN i.size[h] = 0 ELSE ~Migrate(h, v[h], missing)}
Fresh(i, d, v, missing) == (Walked(d) \ Range(i.order)) \ Broken(i, d, v, missing)

\* The rows of an index are finitely many hashes.
LEMMA RowsFinite ==
  ASSUME NEW i \in Rows
  PROVE  IsFiniteSet(Range(i.order)) /\ Range(i.order) \subseteq Hash
  <1>1. Range(i.order) \subseteq Hash
    BY DEF Rows, Range
  <1> QED
    BY <1>1, CleanerAssumption, FS_Subset, Zenon

RunLeaves(i, d, v, missing, r) ==
  LET broken == Broken(i, d, v, missing)
      fresh == Fresh(i, d, v, missing)
  IN /\ r.index \in Rows /\ IsInjective(r.index.order)
     /\ Range(r.index.order) = (Range(i.order) \ broken) \union fresh
     /\ \A h \in Hash : r.index.size[h] = IF h \in fresh THEN d[h] ELSE i.size[h]
     /\ \A h \in Hash : r.disk[h] = IF h \in broken THEN 0 ELSE d[h]
     /\ r.disk \in [Hash -> Nat]
     /\ \A h \in Hash : r.version[h] = IF h \in fresh THEN Migrated(v[h]) ELSE v[h]
     /\ r.version \in [Hash -> 0 .. kManifestVersion]
     /\ r.size = Total(Walked(d) \ broken, r.index.size) % Modulus
     /\ r.size \in 0 .. Modulus - 1

\* What Run() leaves.
LEMMA RunGives ==
  ASSUME NEW i \in Rows, NEW d \in [Hash -> Nat], NEW v \in [Hash -> 0 .. kManifestVersion],
         NEW missing, NEW r \in Run(i, d, v, missing)
  PROVE  RunLeaves(i, d, v, missing, r)
  <1> DEFINE B == Broken(i, d, v, missing)
             F == Fresh(i, d, v, missing)
             S == (Range(i.order) \ B) \union F
             size == [h \in Hash |-> IF h \in F THEN d[h] ELSE i.size[h]]
  <1>1. PICK o \in Orders(S) :
          r = [index |-> [order |-> o, size |-> size],
               disk |-> [h \in Hash |-> IF h \in B THEN 0 ELSE d[h]],
               version |-> [h \in Hash |-> IF h \in F THEN Migrated(v[h]) ELSE v[h]],
               size |-> Total(Walked(d) \ B, size) % Modulus]
    BY Zenon DEF Run, Broken, Fresh, Walked
  <1>2. S \subseteq Hash /\ IsFiniteSet(S) /\ Walked(d) \ B \subseteq Hash /\ IsFiniteSet(Hash)
    <2>1. S \subseteq Hash
      BY RowsFinite, Zenon DEF Fresh, Walked
    <2>2. Walked(d) \ B \subseteq Hash
      BY Zenon DEF Walked
    <2> QED
      BY <2>1, <2>2, CleanerAssumption, FS_Subset, Zenon
  <1>3. i.size \in [Hash -> Nat]
    BY Zenon DEF Rows
  <1> HIDE DEF B, F
  <1>4. size \in [Hash -> Nat]
    BY <1>3, Zenon
  <1>5. o \in Seq(S) /\ IsInjective(o) /\ Range(o) = S
    <2> HIDE DEF S
    <2> QED BY <1>2, OrderGives, Zenon
  <1>6. o \in Seq(Hash)
    <2> HIDE DEF S
    <2> QED BY <1>2, <1>5
  <1>7. [order |-> o, size |-> size] \in Rows
    <2> HIDE DEF size
    <2> QED BY <1>4, <1>6, Zenon DEF Rows
  <1>8. Total(Walked(d) \ B, size) \in Nat
    <2>1. \A h \in Hash : size[h] \in Nat /\ size[h] <= size[h]
      BY <1>4
    <2> HIDE DEF size
    <2> QED
      BY <1>2, <2>1, TotalMonotonic, Zenon
  <1>9. r.version \in [Hash -> 0 .. kManifestVersion]
    BY <1>1 DEF Migrated, kManifestVersion
  <1>10. r.disk \in [Hash -> Nat]
    BY <1>1, Zenon
  <1>11. /\ r.index = [order |-> o, size |-> size]
         /\ r.disk = [h \in Hash |-> IF h \in B THEN 0 ELSE d[h]]
         /\ r.version = [h \in Hash |-> IF h \in F THEN Migrated(v[h]) ELSE v[h]]
         /\ r.size = Total(Walked(d) \ B, size) % Modulus
    BY <1>1, Zenon
  <1>12. r.index.order = o /\ r.index.size = size
    BY <1>11
  <1>13. r.size \in 0 .. Modulus - 1
    BY <1>8, <1>11, Unsigned
  <1> QED
    BY <1>5, <1>7, <1>9, <1>10, <1>11, <1>12, <1>13, Zenon DEF B, F, RunLeaves

\* The threads rest, and an index in memory is empty, when the program starts.
LEMMA StartTypes ==
  /\ Outside \in Using /\ Resting \in Cleaning /\ EmptyIndex \in Rows
  /\ Range(EmptyIndex.order) = {} /\ IsInjective(EmptyIndex.order)
  <1>1. (CHOOSE h \in Hash : TRUE) \in Hash
    BY CleanerAssumption, Zenon
  <1>2. EmptyIndex \in Rows
    BY DEF EmptyIndex, Rows
  <1>3. Range(EmptyIndex.order) = {} /\ IsInjective(EmptyIndex.order)
    BY DEF EmptyIndex, Range, IsInjective
  <1> QED
    BY <1>1, <1>2, <1>3, EmptyListed, Zenon DEF Outside, Resting, Using, Cleaning
-----------------------------------------------------------------------------
(* The types *)

\* The first start, from what an older program left.
LEMMA InitGives ==
  ASSUME CleanerInit
  PROVE  \E d \in [Hash -> Nat], v \in [Hash -> 0 .. kManifestVersion], missing \in SUBSET Hash :
           /\ \A h \in Hash : d[h] \in {0} \union Sizes(h)
           /\ \E r \in Run(EmptyIndex, d, v, missing) :
                /\ index = r.index /\ committed = r.index
                /\ disk = r.disk /\ version = r.version
                /\ cache_size_ = r.size
  <1>1. /\ {0} \union UNION {Sizes(h) : h \in Hash} \subseteq Nat
        /\ Old \union {kManifestVersion} \subseteq 0 .. kManifestVersion
    BY CleanerAssumption DEF kManifestVersion
  <1>2. PICK d \in [Hash -> {0} \union UNION {Sizes(h) : h \in Hash}],
             v \in [Hash -> Old \union {kManifestVersion}] :
             \E missing \in SUBSET {h \in Hash : d[h] > 0} :
               /\ \A h \in Hash : d[h] \in {0} \union Sizes(h)
               /\ \E r \in Run(EmptyIndex, d, v, missing) :
                    /\ index = r.index /\ committed = r.index
                    /\ disk = r.disk /\ version = r.version
                    /\ cache_size_ = r.size
    BY Zenon DEF CleanerInit
  <1>3. d \in [Hash -> Nat] /\ v \in [Hash -> 0 .. kManifestVersion]
    BY <1>1, Zenon
  <1>4. SUBSET {h \in Hash : d[h] > 0} \subseteq SUBSET Hash
    BY Zenon
  <1> QED
    BY <1>2, <1>3, <1>4, Zenon

\* The program starts with the types right.
LEMMA CleanerTypeInit == CleanerInit => CleanerTypeOK
  <1> SUFFICES ASSUME CleanerInit PROVE CleanerTypeOK
    BY Zenon
  <1>1. PICK d \in [Hash -> Nat], v \in [Hash -> 0 .. kManifestVersion], missing \in SUBSET Hash :
          \E r \in Run(EmptyIndex, d, v, missing) :
            /\ index = r.index /\ committed = r.index
            /\ disk = r.disk /\ version = r.version
            /\ cache_size_ = r.size
    BY InitGives, Zenon
  <1>2. PICK r \in Run(EmptyIndex, d, v, missing) :
          /\ index = r.index /\ committed = r.index
          /\ disk = r.disk /\ version = r.version
          /\ cache_size_ = r.size
    BY <1>1, Zenon
  <1>5. RunLeaves(EmptyIndex, d, v, missing, r)
    BY StartTypes, RunGives, Zenon
  <1>3. /\ r.index \in Rows /\ r.disk \in [Hash -> Nat]
        /\ r.version \in [Hash -> 0 .. kManifestVersion]
        /\ r.size \in 0 .. Modulus - 1
    BY <1>5, Zenon DEF RunLeaves
  <1>4. /\ new_entries_ = EmptyList /\ batches = <<>> /\ cleaner = Resting
        /\ user = [u \in User |-> Outside] /\ used = <<>> /\ failures = 0 /\ crashes = 0
    BY Zenon DEF CleanerInit
  <1> QED
    BY <1>2, <1>3, <1>4, StartTypes, EmptyListed DEF CleanerTypeOK

\* A thread goes on, with another node, size or sum.
LEMMA MoveTypes ==
  ASSUME NEW w \in Using, NEW n \in Nat,
         NEW l \in {"read", "append", "link", "hint", "files", "subtract"}
  PROVE  /\ [w EXCEPT !.pc = l] \in Using /\ [w EXCEPT !.pc = l, !.node = n] \in Using
         /\ [w EXCEPT !.pc = l, !.size = n] \in Using /\ [w EXCEPT !.pc = l, !.sum = n] \in Using
  BY Zenon DEF Using

\* Every step of a thread that looks up or stores keeps the types.
LEMMA UserKeepsTypes ==
  ASSUME CleanerTypeOK, NEW u \in User, NEW h \in Hash,
         UserStep(u) \/ FindBegin(u, h) \/ StoreBegin(u, h)
  PROVE  CleanerTypeOK'
  <1> USE DEF CleanerTypeOK
  <1>0. user[u] \in Using
    BY Zenon
  <1>1. ASSUME NEW o \in {"find", "store"}, NEW l \in {"append", "write"}, Begin(u, h, o, l)
        PROVE  user' \in [User -> Using] /\ used' \in Seq(Hash)
    <2>1. [Outside EXCEPT !.pc = l, !.op = o, !.hash = h] \in Using
      BY StartTypes, Zenon DEF Using
    <2> QED
      BY <1>1, <2>1 DEF Begin
  <1>2. CASE FindBegin(u, h)
    BY <1>1, <1>2, Zenon DEF FindBegin
  <1>3. CASE StoreBegin(u, h)
    BY <1>1, <1>3, Zenon DEF StoreBegin
  <1>4. CASE FindEnd(u)
    BY <1>4, StartTypes, Zenon DEF FindEnd, Return
  <1>5. CASE StoreWrite(u)
    <2>1. PICK s \in Sizes(user[u].hash) : disk' = [disk EXCEPT ![user[u].hash] = s]
      BY <1>5, Zenon DEF StoreWrite
    <2>2. s \in Nat
      BY <1>0, CleanerAssumption, Zenon DEF Using
    <2>3. disk' \in [Hash -> Nat]
      BY <2>1, <2>2, Zenon
    <2>4. version' \in [Hash -> 0 .. kManifestVersion]
      <3>1. kManifestVersion \in 0 .. kManifestVersion
        BY DEF kManifestVersion
      <3> QED
        BY <1>5, <3>1, Zenon DEF StoreWrite
    <2>5. [user[u] EXCEPT !.pc = "append"] \in Using
      BY <1>0, MoveTypes, Zenon
    <2>6. user' \in [User -> Using]
      BY <1>5, <2>5, Zenon DEF StoreWrite, Move
    <2> QED
      BY <1>5, <2>3, <2>4, <2>6, Zenon DEF StoreWrite
  <1>6. CASE AppendLoad(u)
    <2>1. new_entries_.hint \in Nat
      BY Zenon DEF Lists
    <2>2. [user[u] EXCEPT !.pc = "link", !.node = new_entries_.hint] \in Using
      BY <1>0, <2>1, MoveTypes, Zenon
    <2>3. user' \in [User -> Using]
      BY <1>6, <2>2, Zenon DEF AppendLoad
    <2> QED
      BY <1>6, <2>3, Zenon DEF AppendLoad
  <1>7. CASE AppendLink(u)
    <2> DEFINE r == Link(new_entries_, user[u].node, user[u].hash)
    <2>1. user[u].node \in Nat /\ user[u].hash \in Hash
      BY <1>0, Zenon DEF Using
    <2>2. r.list \in Lists /\ r.linked \in BOOLEAN /\ r.node \in Nat
      BY <2>1, LinkGives, Zenon
    <2>3. /\ new_entries_' = r.list
          /\ user' = [user EXCEPT ![u].pc = IF r.linked THEN "hint" ELSE "link", ![u].node = r.node]
      BY <1>7, Zenon DEF AppendLink
    <2> HIDE DEF r
    <2>4. [user[u] EXCEPT !.pc = IF r.linked THEN "hint" ELSE "link", !.node = r.node] \in Using
      BY <1>0, <2>2, MoveTypes, Zenon
    <2>5. user' \in [User -> Using]
      BY <2>3, <2>4, Zenon
    <2> QED
      BY <1>7, <2>2, <2>3, <2>5, Zenon DEF AppendLink
  <1>8. CASE AppendHint(u)
    <2>1. user[u].node \in Nat
      BY <1>0, Zenon DEF Using
    <2>2. new_entries_' \in Lists
      BY <1>8, <2>1, SetHintGives, Zenon DEF AppendHint
    <2>3. user' \in [User -> Using]
      <3>1. CASE user[u].op = "find"
        <4>1. [user[u] EXCEPT !.pc = "read"] \in Using
          BY <1>0, MoveTypes, Zenon
        <4> QED
          BY <1>8, <3>1, <4>1, Zenon DEF AppendHint, Move
      <3>2. CASE user[u].op # "find"
        BY <1>8, <3>2, StartTypes, Zenon DEF AppendHint, Return
      <3> QED
        BY <3>1, <3>2, Zenon
    <2> QED
      BY <1>8, <2>2, <2>3, Zenon DEF AppendHint
  <1>9. CASE StoreFailed(u)
    <2>1. user[u].hash \in Hash
      BY <1>0, Zenon DEF Using
    <2>2. index.size[user[u].hash] \in Nat
      BY <2>1, Zenon DEF Rows
    <2>3. index' \in Rows
      BY <1>9, <2>1, DropGives, Zenon DEF StoreFailed
    <2>4. [user[u] EXCEPT !.pc = "files", !.size = index.size[user[u].hash]] \in Using
      BY <1>0, <2>2, MoveTypes, Zenon
    <2>5. user' \in [User -> Using]
      BY <1>9, <2>4, Zenon DEF StoreFailed
    <2> QED
      BY <1>9, <2>3, <2>5 DEF StoreFailed
  <1>10. CASE StoreRemoveFiles(u)
    <2>0. cache_size_ \in Nat
      BY CleanerAssumption
    <2>3. [user[u] EXCEPT !.pc = "subtract", !.sum = cache_size_] \in Using
      BY <1>0, <2>0, MoveTypes, Zenon
    <2>1. user' \in [User -> Using]
      BY <1>10, <2>3, Zenon DEF StoreRemoveFiles
    <2>2. disk' \in [Hash -> Nat]
      BY <1>10, Zenon DEF StoreRemoveFiles
    <2> QED
      BY <1>10, <2>1, <2>2, Zenon DEF StoreRemoveFiles
  <1>11. CASE StoreSubtract(u)
    <2>1. user[u].sum \in Nat /\ user[u].size \in Nat
      BY <1>0, Zenon DEF Using
    <2>3. user[u].sum - user[u].size \in Int
      BY <2>1
    <2>4. (user[u].sum - user[u].size) % Modulus \in 0 .. Modulus - 1
      BY <2>3, Unsigned, Zenon
    <2>2. cache_size_' \in 0 .. Modulus - 1
      BY <1>11, <2>4, Zenon DEF StoreSubtract
    <2> QED
      BY <1>11, <2>2, StartTypes, Zenon DEF StoreSubtract, Return
  <1> QED
    BY <1>2, <1>3, <1>4, <1>5, <1>6, <1>7, <1>8, <1>9, <1>10, <1>11, Zenon DEF UserStep

\* Every step of the cleaner, the resetter and a restart keeps the types.
LEMMA CleanerKeepsTypes ==
  ASSUME CleanerTypeOK, Reset \/ CleanStep \/ Crash
  PROVE  CleanerTypeOK'
  <1> USE DEF CleanerTypeOK
  <1>0. cleaner.list \in Lists /\ cleaner.hash \in Hash /\ cleaner.size \in Nat
    BY Zenon DEF Cleaning
  <1>1. CASE Reset
    BY <1>1, EmptyListed DEF Reset
  <1>2. CASE CleanStart
    <2>1. Head(batches) \in Lists /\ Tail(batches) \in Seq(Lists)
      BY <1>2 DEF CleanStart
    <2>2. cleaner' \in Cleaning
      BY <1>2, <2>1, StartTypes, Zenon DEF CleanStart, Cleaning
    <2> QED
      BY <1>2, <2>1, <2>2, Zenon DEF CleanStart
  <1>3. CASE CleanTouch
    <2> DEFINE h == FirstNode(cleaner.list)
    <2>1. Pop(cleaner.list) \in Lists /\ h \in Hash
      BY <1>0, <1>3, PopGives, Zenon DEF CleanTouch
    <2>2. index.size[h] \in Nat
      BY <2>1, Zenon DEF Rows
    <2>3. index' \in Rows
      BY <1>3, <2>1, <2>2, SetGives, Zenon DEF CleanTouch
    <2>4. cleaner' \in Cleaning
      BY <1>3, <2>1, Zenon DEF CleanTouch, Cleaning
    <2> QED
      BY <1>3, <2>3, <2>4, Zenon DEF CleanTouch
  <1>4. CASE CleanMeasure
    <2>1. Pop(cleaner.list) \in Lists /\ FirstNode(cleaner.list) \in Hash
      BY <1>0, <1>4, PopGives, Zenon DEF CleanMeasure
    <2>2. disk[FirstNode(cleaner.list)] \in Nat
      BY <2>1, Zenon
    <2>3. cleaner' \in Cleaning
      BY <1>4, <2>1, <2>2, Zenon DEF CleanMeasure, Cleaning
    <2> QED
      BY <1>4, <2>3, Zenon DEF CleanMeasure
  <1>5. CASE CleanInsert
    <2>1. index' \in Rows
      BY <1>0, <1>5, SetGives, Zenon DEF CleanInsert
    <2>2. cleaner' \in Cleaning
      BY <1>5, Zenon DEF CleanInsert, Cleaning
    <2>3. cache_size_' \in 0 .. Modulus - 1
      BY <1>0, <1>5, Unsigned DEF CleanInsert
    <2> QED
      BY <1>5, <2>1, <2>2, <2>3, Zenon DEF CleanInsert
  <1>6. CASE CleanEnd
    BY <1>6, StartTypes, Zenon DEF CleanEnd, EndTransaction
  <1>7. CASE CleanLock
    <2>1. First(index) \in Hash
      BY <1>7 DEF CleanLock, First, Rows
    <2>2. cleaner' \in Cleaning
      BY <1>7, <2>1, Zenon DEF CleanLock, Cleaning
    <2> QED
      BY <1>7, <2>2, Zenon DEF CleanLock
  <1>8. CASE CleanRemove
    <2>1. index' \in Rows
      BY <1>0, <1>8, DropGives, Zenon DEF CleanRemove
    <2>2. cleaner' \in Cleaning
      BY <1>8, Zenon DEF CleanRemove, Cleaning
    <2>3. index.size[cleaner.hash] \in Nat
      BY <1>0, Zenon DEF Rows
    <2>4. cache_size_' \in 0 .. Modulus - 1
      BY <1>8, <2>3, Unsigned DEF CleanRemove
    <2>5. disk' \in [Hash -> Nat]
      BY <1>8, Zenon DEF CleanRemove
    <2> QED
      BY <1>8, <2>1, <2>2, <2>4, <2>5, Zenon DEF CleanRemove
  <1>9. CASE Crash
    <2>1. PICK r \in Run(Opened, disk, version, {}) :
            /\ index' = r.index /\ committed' = r.index
            /\ disk' = r.disk /\ version' = r.version
            /\ cache_size_' = r.size
      BY <1>9, Zenon DEF Crash
    <2>2. Opened \in Rows
      BY StartTypes, Zenon DEF Opened
    <2>5. RunLeaves(Opened, disk, version, {}, r)
      BY <2>2, RunGives, Zenon
    <2>3. /\ r.index \in Rows /\ r.disk \in [Hash -> Nat]
          /\ r.version \in [Hash -> 0 .. kManifestVersion]
          /\ r.size \in 0 .. Modulus - 1
      BY <2>5, Zenon DEF RunLeaves
    <2>4. /\ new_entries_' = EmptyList /\ batches' = <<>> /\ cleaner' = Resting
          /\ user' = [u \in User |-> Outside] /\ used' = used /\ failures' = failures
          /\ crashes' = crashes + 1
      BY <1>9, Zenon DEF Crash
    <2> QED
      BY <2>1, <2>3, <2>4, StartTypes, EmptyListed
  <1> QED
    BY <1>1, <1>2, <1>3, <1>4, <1>5, <1>6, <1>7, <1>8, <1>9, Zenon DEF CleanStep

\* Every step keeps the types.
LEMMA CleanerTypeStep ==
  ASSUME CleanerTypeOK, [CleanerNext]_cleanerVars
  PROVE  CleanerTypeOK'
  <1>1. CASE UNCHANGED cleanerVars
    BY <1>1, Zenon DEF cleanerVars, CleanerTypeOK
  <1>2. ASSUME NEW u \in User, UserStep(u) PROVE CleanerTypeOK'
    <2>1. (CHOOSE h \in Hash : TRUE) \in Hash
      BY CleanerAssumption, Zenon
    <2> QED
      BY <1>2, <2>1, UserKeepsTypes, Zenon
  <1>3. ASSUME NEW u \in User, NEW h \in Hash, FindBegin(u, h) \/ StoreBegin(u, h)
        PROVE  CleanerTypeOK'
    BY <1>3, UserKeepsTypes, Zenon
  <1>4. CASE Reset \/ CleanStep \/ Crash
    BY <1>4, CleanerKeepsTypes, Zenon
  <1> QED
    BY <1>1, <1>2, <1>3, <1>4, Zenon DEF CleanerNext
-----------------------------------------------------------------------------
(* EntriesReadable *)

\* What Run() leaves can be read.
LEMMA RunReadable ==
  ASSUME NEW i \in Rows, NEW d \in [Hash -> Nat], NEW v \in [Hash -> 0 .. kManifestVersion],
         NEW missing, NEW r \in Run(i, d, v, missing),
         \A h \in Range(i.order) : d[h] > 0 => v[h] # 0 /\ (h \in Direct => v[h] = kManifestVersion),
         NEW h \in Hash, r.disk[h] > 0
  PROVE  r.version[h] # 0 /\ (h \in Direct => r.version[h] = kManifestVersion)
  <1>0. RunLeaves(i, d, v, missing, r)
    BY RunGives, Zenon
  <1>1. /\ r.disk[h] = IF h \in Broken(i, d, v, missing) THEN 0 ELSE d[h]
        /\ r.version[h] = IF h \in Fresh(i, d, v, missing) THEN Migrated(v[h]) ELSE v[h]
    BY <1>0, Zenon DEF RunLeaves
  <1>2. h \notin Broken(i, d, v, missing) /\ h \in Walked(d) /\ d[h] > 0
    BY <1>1 DEF Walked
  <1>3. CASE h \in Range(i.order)
    BY <1>1, <1>2, <1>3, Zenon DEF Fresh
  <1>4. CASE h \notin Range(i.order)
    <2>1. h \in Fresh(i, d, v, missing) /\ Migrate(h, v[h], missing)
      BY <1>2, <1>4, Zenon DEF Fresh, Broken
    <2>2. v[h] \in 0 .. kManifestVersion /\ r.version[h] = Migrated(v[h])
      BY <1>1, <2>1, Zenon
    <2> QED
      BY <2>1, <2>2 DEF Migrate, Migrated, kManifestVersion
  <1> QED
    BY <1>3, <1>4, Zenon

\* EntriesReadable at the start.
LEMMA ReadableInit == CleanerInit => EntriesReadable
  <1> SUFFICES ASSUME CleanerInit PROVE EntriesReadable
    BY Zenon
  <1>1. PICK d \in [Hash -> Nat], v \in [Hash -> 0 .. kManifestVersion], missing \in SUBSET Hash :
          \E r \in Run(EmptyIndex, d, v, missing) : disk = r.disk /\ version = r.version
    BY InitGives, Zenon
  <1>2. PICK r \in Run(EmptyIndex, d, v, missing) : disk = r.disk /\ version = r.version
    BY <1>1, Zenon
  <1>3. \A h \in Range(EmptyIndex.order) :
           d[h] > 0 => v[h] # 0 /\ (h \in Direct => v[h] = kManifestVersion)
    BY StartTypes, Zenon
  <1>4. ASSUME NEW h \in Hash, r.disk[h] > 0
        PROVE  r.version[h] # 0 /\ (h \in Direct => r.version[h] = kManifestVersion)
    BY <1>3, <1>4, StartTypes, RunReadable
  <1> QED
    BY <1>2, <1>4, Zenon DEF EntriesReadable

\* EntriesReadable in every step: stores write the latest version, and nothing else adds
\* files or touches a version but Run().
LEMMA ReadableStep ==
  ASSUME CleanerTypeOK, EntriesReadable, [CleanerNext]_cleanerVars
  PROVE  EntriesReadable'
  <1>0. disk \in [Hash -> Nat] /\ version \in [Hash -> 0 .. kManifestVersion]
    BY Zenon DEF CleanerTypeOK
  <1>1. CASE UNCHANGED <<disk, version>>
    BY <1>1, Zenon DEF EntriesReadable
  <1>2. ASSUME NEW u \in User, StoreWrite(u) PROVE EntriesReadable'
    <2>1. version' = [version EXCEPT ![user[u].hash] = kManifestVersion]
      BY <1>2, Zenon DEF StoreWrite
    <2>2. \A h \in Hash : h # user[u].hash => disk'[h] = disk[h]
      BY <1>0, <1>2, Zenon DEF StoreWrite
    <2> QED
      BY <1>0, <2>1, <2>2 DEF EntriesReadable, kManifestVersion
  <1>3. ASSUME NEW g \in Hash, disk' = [disk EXCEPT ![g] = 0], version' = version
        PROVE  EntriesReadable'
    BY <1>0, <1>3 DEF EntriesReadable
  <1>4. ASSUME NEW u \in User, StoreRemoveFiles(u) PROVE EntriesReadable'
    <2>1. user[u].hash \in Hash
      BY Zenon DEF CleanerTypeOK, Using
    <2> QED
      BY <1>3, <1>4, <2>1, Zenon DEF StoreRemoveFiles
  <1>5. CASE CleanRemove
    <2>1. cleaner.hash \in Hash
      BY Zenon DEF CleanerTypeOK, Cleaning
    <2> QED
      BY <1>3, <1>5, <2>1, Zenon DEF CleanRemove
  <1>6. CASE Crash
    <2>1. PICK r \in Run(Opened, disk, version, {}) : disk' = r.disk /\ version' = r.version
      BY <1>6, Zenon DEF Crash
    <2>2. Opened \in Rows
      BY StartTypes, Zenon DEF Opened, CleanerTypeOK
    <2>3. Range(Opened.order) \subseteq Hash
      BY <2>2, RowsFinite, Zenon
    <2>4. ASSUME NEW h \in Hash, r.disk[h] > 0
          PROVE  r.version[h] # 0 /\ (h \in Direct => r.version[h] = kManifestVersion)
      BY <1>0, <2>2, <2>3, <2>4, RunReadable, Zenon DEF EntriesReadable
    <2> QED
      BY <2>1, <2>4, Zenon DEF EntriesReadable
  <1>7. ASSUME NEW u \in User, NEW h \in Hash,
               FindBegin(u, h) \/ StoreBegin(u, h) \/ FindEnd(u) \/ AppendLoad(u) \/ AppendLink(u)
                 \/ AppendHint(u) \/ StoreFailed(u) \/ StoreSubtract(u)
        PROVE  UNCHANGED <<disk, version>>
    BY <1>7, Zenon DEF FindBegin, StoreBegin, FindEnd, AppendLoad, AppendLink, AppendHint, StoreFailed, StoreSubtract
  <1>8. ASSUME Reset \/ CleanStart \/ CleanTouch \/ CleanMeasure \/ CleanInsert \/ CleanEnd \/ CleanLock
        PROVE  UNCHANGED <<disk, version>>
    BY <1>8, Zenon DEF Reset, CleanStart, CleanTouch, CleanMeasure, CleanInsert, CleanEnd, CleanLock
  <1>9. CASE UNCHANGED cleanerVars
    BY <1>1, <1>9, Zenon DEF cleanerVars
  <1>10. Hash # {}
    BY CleanerAssumption, Zenon
  <1> QED
    BY <1>1, <1>2, <1>4, <1>5, <1>6, <1>7, <1>8, <1>9, <1>10, Zenon DEF CleanerNext, UserStep, CleanStep

\* What is on the disk can be read and used by this program, whatever older programs left
\* there, and however lookups, stores, the cleaner and kills interleave.
THEOREM CleanerReadable == CleanerSpec => []EntriesReadable
  <1>1. CleanerInit => CleanerTypeOK /\ EntriesReadable
    BY CleanerTypeInit, ReadableInit, Zenon
  <1>2. CleanerTypeOK /\ EntriesReadable /\ [CleanerNext]_cleanerVars => (CleanerTypeOK /\ EntriesReadable)'
    BY CleanerTypeStep, ReadableStep, Zenon
  <1> QED
    BY <1>1, <1>2, PTL DEF CleanerSpec
-----------------------------------------------------------------------------
(* The threads and their locks *)

OnlyMoves(u) == \A v \in User \ {u} : user'[v] = user[v]
Enters(u, h, o, l) ==
  OnlyMoves(u) /\ user'[u].pc = l /\ user'[u].op = o /\ user'[u].hash = h
Goes(u, l) == Enters(u, user[u].hash, user[u].op, l)
Leaves(u) == OnlyMoves(u) /\ user'[u].pc = "idle" /\ user'[u].op = "none"

\* Where a thread goes in each of its steps.
LEMMA UserMoves ==
  ASSUME CleanerTypeOK, NEW u \in User
  PROVE  /\ \A h, o, l : Begin(u, h, o, l) => Enters(u, h, o, l)
         /\ FindEnd(u) => Leaves(u)
         /\ StoreWrite(u) => Goes(u, "append")
         /\ AppendLoad(u) => Goes(u, "link")
         /\ AppendLink(u) =>
              IF Link(new_entries_, user[u].node, user[u].hash).linked THEN Goes(u, "hint") ELSE Goes(u, "link")
         /\ AppendHint(u) => IF user[u].op = "find" THEN Goes(u, "read") ELSE Leaves(u)
         /\ StoreFailed(u) => Goes(u, "files")
         /\ StoreRemoveFiles(u) => Goes(u, "subtract")
         /\ StoreSubtract(u) => Leaves(u)
  <1>0. user \in [User -> Using] /\ user[u] \in Using
    BY Zenon DEF CleanerTypeOK
  <1>1. ASSUME NEW x, user' = [user EXCEPT ![u] = x]
        PROVE  OnlyMoves(u) /\ user'[u] = x
    BY <1>0, <1>1, Zenon DEF OnlyMoves
  <1>3. ASSUME NEW l, NEW n,
               \/ user' = [user EXCEPT ![u].pc = l]
               \/ user' = [user EXCEPT ![u].pc = l, ![u].node = n]
               \/ user' = [user EXCEPT ![u].pc = l, ![u].size = n]
               \/ user' = [user EXCEPT ![u].pc = l, ![u].sum = n]
        PROVE  Goes(u, l)
    <2>1. PICK w \in {[user[u] EXCEPT !.pc = l], [user[u] EXCEPT !.pc = l, !.node = n],
                     [user[u] EXCEPT !.pc = l, !.size = n], [user[u] EXCEPT !.pc = l, !.sum = n]} :
            user' = [user EXCEPT ![u] = w]
      BY <1>0, <1>3, Zenon
    <2>2. w.pc = l /\ w.op = user[u].op /\ w.hash = user[u].hash
      BY <1>0, <2>1, Zenon DEF Using
    <2>3. OnlyMoves(u) /\ user'[u] = w
      BY <1>1, <2>1, Zenon
    <2> QED
      BY <2>2, <2>3, Zenon DEF Goes, Enters
  <1>4. ASSUME Return(u) PROVE Leaves(u)
    <2>1. OnlyMoves(u) /\ user'[u] = Outside
      BY <1>1, <1>4, Zenon DEF Return
    <2> QED
      BY <2>1 DEF Leaves, Outside
  <1>5. ASSUME NEW h, NEW o, NEW l, Begin(u, h, o, l) PROVE Enters(u, h, o, l)
    <2> DEFINE x == [Outside EXCEPT !.pc = l, !.op = o, !.hash = h]
    <2>1. OnlyMoves(u) /\ user'[u] = x
      BY <1>1, <1>5, Zenon DEF Begin
    <2>2. x.pc = l /\ x.op = o /\ x.hash = h
      BY Zenon DEF Outside
    <2> QED
      BY <2>1, <2>2, Zenon DEF Enters
  <1>6. FindEnd(u) => Leaves(u)
    BY <1>4, Zenon DEF FindEnd
  <1>7. StoreWrite(u) => Goes(u, "append")
    BY <1>3, Zenon DEF StoreWrite, Move
  <1>8. AppendLoad(u) => Goes(u, "link")
    BY <1>3, Zenon DEF AppendLoad
  <1>9. AppendLink(u) =>
          IF Link(new_entries_, user[u].node, user[u].hash).linked THEN Goes(u, "hint") ELSE Goes(u, "link")
    <2> DEFINE r == Link(new_entries_, user[u].node, user[u].hash)
    <2>1. ASSUME AppendLink(u) PROVE Goes(u, IF r.linked THEN "hint" ELSE "link")
      BY <1>3, <2>1, Zenon DEF AppendLink
    <2> HIDE DEF r
    <2>2. AppendLink(u) => IF r.linked THEN Goes(u, "hint") ELSE Goes(u, "link")
      BY <2>1, Zenon
    <2> QED
      BY <2>2, Zenon DEF r
  <1>10. AppendHint(u) => IF user[u].op = "find" THEN Goes(u, "read") ELSE Leaves(u)
    BY <1>3, <1>4, Zenon DEF AppendHint, Move
  <1>11. StoreFailed(u) => Goes(u, "files")
    BY <1>3, Zenon DEF StoreFailed
  <1>12. StoreRemoveFiles(u) => Goes(u, "subtract")
    BY <1>3, Zenon DEF StoreRemoveFiles
  <1>13. StoreSubtract(u) => Leaves(u)
    BY <1>4, Zenon DEF StoreSubtract
  <1> QED
    BY <1>5, <1>6, <1>7, <1>8, <1>9, <1>10, <1>11, <1>12, <1>13, Zenon

\* Where the cleaner goes in each of its steps.
LEMMA CleanerMoves ==
  ASSUME CleanerTypeOK
  PROVE  /\ CleanStart => cleaner'.pc = "pop" /\ cleaner'.list = Head(batches)
         /\ CleanTouch => cleaner'.pc = "pop" /\ cleaner'.list = Pop(cleaner.list)
         /\ CleanMeasure => /\ cleaner'.pc = "insert" /\ cleaner'.list = Pop(cleaner.list)
                            /\ cleaner'.hash = FirstNode(cleaner.list)
                            /\ cleaner'.size = disk[FirstNode(cleaner.list)]
         /\ CleanInsert => cleaner'.pc = "pop" /\ cleaner'.list = cleaner.list
         /\ CleanEnd \/ Crash => cleaner'.pc = "idle" /\ cleaner'.list = EmptyList
         /\ CleanLock => /\ cleaner'.pc = "remove" /\ cleaner'.list = cleaner.list
                         /\ cleaner'.hash = First(index)
         /\ CleanRemove => cleaner'.pc = "pop" /\ cleaner'.list = cleaner.list
  <1>0. cleaner \in Cleaning
    BY Zenon DEF CleanerTypeOK
  <1>1. CleanStart => cleaner'.pc = "pop" /\ cleaner'.list = Head(batches)
    BY Zenon DEF CleanStart, Resting
  <1>2. CleanTouch => cleaner'.pc = "pop" /\ cleaner'.list = Pop(cleaner.list)
    BY <1>0, Zenon DEF CleanTouch, Cleaning
  <1>3. CleanMeasure => /\ cleaner'.pc = "insert" /\ cleaner'.list = Pop(cleaner.list)
                        /\ cleaner'.hash = FirstNode(cleaner.list)
                        /\ cleaner'.size = disk[FirstNode(cleaner.list)]
    BY <1>0, Zenon DEF CleanMeasure, Cleaning
  <1>4. CleanInsert => cleaner'.pc = "pop" /\ cleaner'.list = cleaner.list
    BY <1>0, Zenon DEF CleanInsert, Cleaning
  <1>5. CleanEnd \/ Crash => cleaner'.pc = "idle" /\ cleaner'.list = EmptyList
    BY DEF CleanEnd, Crash, Resting
  <1>6. CleanLock => /\ cleaner'.pc = "remove" /\ cleaner'.list = cleaner.list
                     /\ cleaner'.hash = First(index)
    BY <1>0, Zenon DEF CleanLock, Cleaning
  <1>7. CleanRemove => cleaner'.pc = "pop" /\ cleaner'.list = cleaner.list
    BY <1>0, Zenon DEF CleanRemove, Cleaning
  <1> QED
    BY <1>1, <1>2, <1>3, <1>4, <1>5, <1>6, <1>7, Zenon
-----------------------------------------------------------------------------
(* What is on its way to the cleaner *)

Batched(b) == UNION {Range(Listed(b[i])) : i \in DOMAIN b}

\* A list that is handed over adds its hashes.
LEMMA BatchedAppend ==
  ASSUME NEW b \in Seq(Lists), NEW l \in Lists
  PROVE  Batched(Append(b, l)) = Batched(b) \union Range(Listed(l))
  <1> DEFINE t == Append(b, l)
  <1>1. /\ Len(t) = Len(b) + 1 /\ Len(b) \in Nat
        /\ DOMAIN b = 1 .. Len(b) /\ DOMAIN t = 1 .. Len(t)
        /\ t[Len(t)] = l /\ \A i \in 1 .. Len(b) : t[i] = b[i]
    OBVIOUS
  <1>2. Batched(t) = UNION {Range(Listed(t[i])) : i \in 1 .. Len(t)}
    BY <1>1, Zenon DEF Batched
  <1>3. Batched(b) = UNION {Range(Listed(b[i])) : i \in 1 .. Len(b)}
    BY <1>1, Zenon DEF Batched
  <1> HIDE DEF t
  <1>4. 1 .. Len(t) = (1 .. Len(b)) \union {Len(t)}
    BY <1>1
  <1>5. Batched(t) \subseteq Batched(b) \union Range(Listed(l))
    BY <1>1, <1>2, <1>3, <1>4, Zenon
  <1>6. Batched(b) \subseteq Batched(t)
    BY <1>1, <1>2, <1>3, <1>4, Zenon
  <1>7. Range(Listed(l)) \subseteq Batched(t)
    BY <1>1, <1>2, <1>4, Zenon
  <1> QED
    BY <1>5, <1>6, <1>7, Zenon DEF t

\* The list that the cleaner takes has the others behind it.
LEMMA BatchedTail ==
  ASSUME NEW b \in Seq(Lists), b # <<>>
  PROVE  Batched(b) = Range(Listed(Head(b))) \union Batched(Tail(b))
  <1> DEFINE t == Tail(b)
  <1>1. /\ Len(t) = Len(b) - 1 /\ Len(b) \in Nat /\ Len(b) > 0
        /\ DOMAIN b = 1 .. Len(b) /\ DOMAIN t = 1 .. Len(t)
        /\ Head(b) = b[1] /\ \A i \in 1 .. Len(t) : t[i] = b[i + 1]
    OBVIOUS
  <1>2. Batched(t) = UNION {Range(Listed(t[i])) : i \in 1 .. Len(t)}
    BY <1>1, Zenon DEF Batched
  <1>3. Batched(b) = UNION {Range(Listed(b[i])) : i \in 1 .. Len(b)}
    BY <1>1, Zenon DEF Batched
  <1> HIDE DEF t
  <1>4. ASSUME NEW i \in 1 .. Len(b), i # 1 PROVE i - 1 \in 1 .. Len(t) /\ t[i - 1] = b[i]
    BY <1>1, <1>4
  <1>5. ASSUME NEW i \in 1 .. Len(t) PROVE i + 1 \in 1 .. Len(b) /\ t[i] = b[i + 1]
    BY <1>1
  <1>6. 1 \in 1 .. Len(b)
    BY <1>1
  <1>7. Batched(b) \subseteq Range(Listed(b[1])) \union Batched(t)
    BY <1>2, <1>3, <1>4, Zenon
  <1>8. Batched(t) \subseteq Batched(b)
    BY <1>2, <1>3, <1>5, Zenon
  <1>9. Range(Listed(b[1])) \subseteq Batched(b)
    BY <1>3, <1>6, Zenon
  <1> QED
    BY <1>1, <1>7, <1>8, <1>9, Zenon DEF t

RestInv == cleaner.pc = "idle" => Range(Listed(cleaner.list)) = {}

\* The parts of Pending.
LEMMA PendingIs ==
  /\ Pending = Range(Listed(new_entries_)) \union Range(Listed(cleaner.list)) \union Batched(batches)
                 \union (IF cleaner.pc = "insert" THEN {cleaner.hash} ELSE {})
  /\ Pending' = Range(Listed(new_entries_')) \union Range(Listed(cleaner'.list)) \union Batched(batches')
                  \union (IF cleaner'.pc = "insert" THEN {cleaner'.hash} ELSE {})
  <1>1. Pending = Range(Listed(new_entries_)) \union Range(Listed(cleaner.list)) \union Batched(batches)
                    \union (IF cleaner.pc = "insert" THEN {cleaner.hash} ELSE {})
    BY Zenon DEF Pending, Batched
  <1>2. Pending' = Range(Listed(new_entries_')) \union Range(Listed(cleaner'.list)) \union Batched(batches')
                     \union (IF cleaner'.pc = "insert" THEN {cleaner'.hash} ELSE {})
    BY Zenon DEF Pending, Batched
  <1> QED
    BY <1>1, <1>2, Zenon

\* The steps after which the same hashes are on their way.
LEMMA PendingSame ==
  ASSUME CleanerTypeOK, RestInv,
         \/ \E u \in User : \/ FindEnd(u) \/ StoreWrite(u) \/ AppendLoad(u) \/ AppendHint(u)
                            \/ StoreFailed(u) \/ StoreRemoveFiles(u) \/ StoreSubtract(u)
                            \/ \E h \in Hash : FindBegin(u, h) \/ StoreBegin(u, h)
         \/ Reset \/ CleanStart \/ CleanMeasure \/ CleanEnd \/ CleanLock \/ CleanRemove
         \/ UNCHANGED cleanerVars
  PROVE  Pending' = Pending
  <1>0. /\ new_entries_ \in Lists /\ batches \in Seq(Lists)
        /\ cleaner.list \in Lists /\ cleaner.hash \in Hash /\ cleaner.pc \in {"idle", "pop", "insert", "remove"}
    BY Zenon DEF CleanerTypeOK, Cleaning
  <1>1. CASE UNCHANGED <<batches, cleaner>> /\ Listed(new_entries_') = Listed(new_entries_)
    BY <1>1, PendingIs, Zenon
  <1>2. ASSUME NEW u \in User,
               \/ FindEnd(u) \/ StoreWrite(u) \/ AppendLoad(u) \/ StoreFailed(u) \/ StoreRemoveFiles(u)
               \/ StoreSubtract(u) \/ \E h \in Hash : FindBegin(u, h) \/ StoreBegin(u, h)
        PROVE  UNCHANGED <<batches, cleaner, new_entries_>>
    BY <1>2, Zenon DEF FindEnd, StoreWrite, AppendLoad, StoreFailed, StoreRemoveFiles, StoreSubtract, FindBegin, StoreBegin
  <1>3. ASSUME NEW u \in User, AppendHint(u)
        PROVE  UNCHANGED <<batches, cleaner>> /\ Listed(new_entries_') = Listed(new_entries_)
    <2>1. user[u].node \in Nat
      BY Zenon DEF CleanerTypeOK, Using
    <2> QED
      BY <1>0, <1>3, <2>1, SetHintGives, Zenon DEF AppendHint
  <1>4. CASE Reset
    <2>1. new_entries_' = EmptyList /\ batches' = Append(batches, new_entries_) /\ cleaner' = cleaner
      BY <1>4, Zenon DEF Reset
    <2>2. Batched(batches') = Batched(batches) \union Range(Listed(new_entries_))
      BY <1>0, <2>1, BatchedAppend, Zenon
    <2>3. Range(Listed(new_entries_')) = {}
      BY <2>1, EmptyListed, Zenon
    <2> QED
      BY <2>1, <2>2, <2>3, PendingIs, Zenon
  <1>5. CASE CleanStart
    <2>1. /\ cleaner'.pc = "pop" /\ cleaner'.list = Head(batches) /\ cleaner.pc = "idle"
          /\ batches' = Tail(batches) /\ batches # <<>> /\ new_entries_' = new_entries_
      BY <1>5, CleanerMoves, Zenon DEF CleanStart
    <2>2. Batched(batches) = Range(Listed(Head(batches))) \union Batched(Tail(batches))
      BY <1>0, <2>1, BatchedTail, Zenon
    <2>3. Range(Listed(cleaner.list)) = {}
      BY <2>1, Zenon DEF RestInv
    <2> QED
      BY <2>1, <2>2, <2>3, PendingIs, Zenon
  <1>6. CASE CleanMeasure
    <2>1. /\ cleaner'.pc = "insert" /\ cleaner'.list = Pop(cleaner.list)
          /\ cleaner'.hash = FirstNode(cleaner.list) /\ cleaner.pc = "pop"
          /\ batches' = batches /\ new_entries_' = new_entries_ /\ ~IsEmpty(cleaner.list)
      BY <1>6, CleanerMoves, Zenon DEF CleanMeasure
    <2>2. Range(Listed(cleaner.list)) = {FirstNode(cleaner.list)} \union Range(Listed(Pop(cleaner.list)))
      BY <1>0, <2>1, PopGives, Zenon
    <2> QED
      BY <2>1, <2>2, PendingIs, Zenon
  <1>7. CASE CleanEnd
    <2>1. /\ cleaner'.pc = "idle" /\ cleaner'.list = EmptyList /\ cleaner.pc = "pop"
          /\ batches' = batches /\ new_entries_' = new_entries_ /\ IsEmpty(cleaner.list)
      BY <1>7, CleanerMoves, Zenon DEF CleanEnd
    <2>2. Range(Listed(cleaner.list)) = {} /\ Range(Listed(EmptyList)) = {}
      BY <1>0, <2>1, NothingListed, EmptyListed, Zenon
    <2> QED
      BY <2>1, <2>2, PendingIs, Zenon
  <1>8. CASE CleanLock
    <2>1. /\ cleaner'.pc = "remove" /\ cleaner'.list = cleaner.list /\ cleaner.pc = "pop"
          /\ batches' = batches /\ new_entries_' = new_entries_
      BY <1>8, CleanerMoves, Zenon DEF CleanLock
    <2> QED
      BY <2>1, PendingIs, Zenon
  <1>9. CASE CleanRemove
    <2>1. /\ cleaner'.pc = "pop" /\ cleaner'.list = cleaner.list /\ cleaner.pc = "remove"
          /\ batches' = batches /\ new_entries_' = new_entries_
      BY <1>9, CleanerMoves, Zenon DEF CleanRemove
    <2> QED
      BY <2>1, PendingIs, Zenon
  <1>10. CASE UNCHANGED cleanerVars
    BY <1>1, <1>10, Zenon DEF cleanerVars
  <1> QED
    BY <1>1, <1>2, <1>3, <1>4, <1>5, <1>6, <1>7, <1>8, <1>9, <1>10, Zenon

\* The steps that change what is on its way.
LEMMA PendingChanges ==
  ASSUME CleanerTypeOK
  PROVE  /\ \A u \in User : AppendLink(u) =>
              Pending' = Pending \union
                (IF Link(new_entries_, user[u].node, user[u].hash).linked THEN {user[u].hash} ELSE {})
         /\ CleanTouch => Pending = Pending' \union {FirstNode(cleaner.list)}
         /\ CleanInsert => Pending = Pending' \union {cleaner.hash}
         /\ Crash => Pending' = {}
  <1>0. /\ new_entries_ \in Lists /\ batches \in Seq(Lists)
        /\ cleaner.list \in Lists /\ cleaner.hash \in Hash /\ cleaner.pc \in {"idle", "pop", "insert", "remove"}
    BY Zenon DEF CleanerTypeOK, Cleaning
  <1>1. ASSUME NEW u \in User, AppendLink(u)
        PROVE  Pending' = Pending \union
                 (IF Link(new_entries_, user[u].node, user[u].hash).linked THEN {user[u].hash} ELSE {})
    <2> DEFINE r == Link(new_entries_, user[u].node, user[u].hash)
    <2>1. user[u].node \in Nat /\ user[u].hash \in Hash
      BY Zenon DEF CleanerTypeOK, Using
    <2>2. new_entries_' = r.list /\ UNCHANGED <<batches, cleaner>>
      BY <1>1, Zenon DEF AppendLink
    <2>3. Range(Listed(r.list)) = Range(Listed(new_entries_)) \union (IF r.linked THEN {user[u].hash} ELSE {})
      BY <1>0, <2>1, LinkGives, Zenon
    <2> HIDE DEF r
    <2>4. Pending' = Pending \union (IF r.linked THEN {user[u].hash} ELSE {})
      BY <2>2, <2>3, PendingIs, Zenon
    <2> QED
      BY <2>4, Zenon DEF r
  <1>2. ASSUME CleanTouch PROVE Pending = Pending' \union {FirstNode(cleaner.list)}
    <2>1. /\ cleaner'.pc = "pop" /\ cleaner'.list = Pop(cleaner.list) /\ cleaner.pc = "pop"
          /\ batches' = batches /\ new_entries_' = new_entries_ /\ ~IsEmpty(cleaner.list)
      BY <1>2, CleanerMoves, Zenon DEF CleanTouch
    <2>2. Range(Listed(cleaner.list)) = {FirstNode(cleaner.list)} \union Range(Listed(Pop(cleaner.list)))
      BY <1>0, <2>1, PopGives, Zenon
    <2> QED
      BY <2>1, <2>2, PendingIs, Zenon
  <1>3. ASSUME CleanInsert PROVE Pending = Pending' \union {cleaner.hash}
    <2>1. /\ cleaner'.pc = "pop" /\ cleaner'.list = cleaner.list /\ cleaner.pc = "insert"
          /\ batches' = batches /\ new_entries_' = new_entries_
      BY <1>3, CleanerMoves, Zenon DEF CleanInsert
    <2> QED
      BY <2>1, PendingIs, Zenon
  <1>4. ASSUME Crash PROVE Pending' = {}
    <2>1. /\ cleaner'.pc = "idle" /\ cleaner'.list = EmptyList
          /\ batches' = <<>> /\ new_entries_' = EmptyList
      BY <1>4, CleanerMoves, Zenon DEF Crash
    <2>2. Batched(batches') = {}
      BY <2>1 DEF Batched
    <2> QED
      BY <2>1, <2>2, PendingIs, EmptyListed, Zenon
  <1> QED
    BY <1>1, <1>2, <1>3, <1>4, Zenon
-----------------------------------------------------------------------------
(* EntriesConsidered *)

UserInv(u) ==
  /\ user[u].pc = "idle" <=> user[u].op = "none"
  /\ user[u].pc \in {"write", "files", "subtract"} => user[u].op = "store"
  /\ user[u].pc = "read" => user[u].op = "find"
  /\ user[u].pc \in {"files", "subtract"} => failures > 0
  /\ user[u].pc = "subtract" => disk[user[u].hash] = 0
  /\ user[u].pc = "hint" => user[u].hash \in Range(Listed(new_entries_))

LockInv ==
  /\ \A u, v \in User : u # v /\ user[u].op = "store" /\ user[v].op = "store" => user[u].hash # user[v].hash
  /\ \A u \in User : user[u].op = "store" /\ cleaner.pc = "remove" => cleaner.hash # user[u].hash

ThreadInv == RestInv /\ (\A u \in User : UserInv(u)) /\ LockInv

\* A thread is where it was when others, or nobody, move.
LEMMA UserRests ==
  ASSUME CleanerTypeOK, NEW v \in User, UserInv(v), user'[v] = user[v],
         failures' = failures \/ failures' = failures + 1,
         user[v].pc = "subtract" => disk'[user[v].hash] = 0,
         user[v].pc = "hint" => Range(Listed(new_entries_)) \subseteq Range(Listed(new_entries_'))
  PROVE  UserInv(v)'
  <1>1. failures \in Nat
    BY Zenon DEF CleanerTypeOK
  <1> QED
    BY <1>1 DEF UserInv

\* The locks are as they were unless a store or a removal begins.
LEMMA LocksRest ==
  ASSUME LockInv,
         \A v \in User : user'[v].op = "store" => user[v].op = "store" /\ user'[v].hash = user[v].hash,
         cleaner'.pc = "remove" => cleaner.pc = "remove" /\ cleaner'.hash = cleaner.hash
  PROVE  LockInv'
  BY Zenon DEF LockInv

\* Threads that look up and store keep the invariant of the threads.
LEMMA UserKeepsThreads ==
  ASSUME CleanerTypeOK, ThreadInv, NEW u \in User, NEW h \in Hash,
         UserStep(u) \/ FindBegin(u, h) \/ StoreBegin(u, h)
  PROVE  ThreadInv'
  <1>0. /\ user[u] \in Using /\ user[u].hash \in Hash /\ user[u].node \in Nat
        /\ disk \in [Hash -> Nat] /\ new_entries_ \in Lists /\ failures \in Nat
        /\ UserInv(u) /\ LockInv /\ RestInv
    BY Zenon DEF CleanerTypeOK, Using, ThreadInv
  <1>1. cleaner' = cleaner
    BY Zenon DEF UserStep, FindBegin, StoreBegin, FindEnd, StoreWrite, AppendLoad, AppendLink, AppendHint,
           StoreFailed, StoreRemoveFiles, StoreSubtract
  <1>2. RestInv'
    BY <1>0, <1>1, Zenon DEF RestInv
  <1>3. ASSUME UserInv(u)', LockInv', OnlyMoves(u),
               failures' = failures \/ failures' = failures + 1,
               \A v \in User \ {u} : user[v].pc = "subtract" => disk'[user[v].hash] = 0,
               Range(Listed(new_entries_)) \subseteq Range(Listed(new_entries_'))
        PROVE  ThreadInv'
    <2>1. ASSUME NEW v \in User \ {u} PROVE UserInv(v)'
      BY <1>3, UserRests, Zenon DEF ThreadInv, OnlyMoves
    <2> QED
      BY <1>2, <1>3, <2>1, Zenon DEF ThreadInv
  <1>4. \A v \in User : user[v].pc = "subtract" => disk[user[v].hash] = 0 /\ user[v].op = "store"
    BY Zenon DEF ThreadInv, UserInv
  <1>5. ASSUME NEW l, Goes(u, l) PROVE LockInv' /\ OnlyMoves(u)
    BY <1>0, <1>1, <1>5, LocksRest, Zenon DEF Goes, Enters, OnlyMoves
  <1>6. ASSUME Leaves(u) PROVE LockInv' /\ OnlyMoves(u) /\ UserInv(u)'
    <2>1. LockInv' /\ OnlyMoves(u)
      BY <1>0, <1>1, <1>6, LocksRest, Zenon DEF Leaves, OnlyMoves
    <2>2. UserInv(u)'
      BY <1>6, Zenon DEF Leaves, UserInv
    <2> QED
      BY <2>1, <2>2, Zenon
  <1>7. CASE FindBegin(u, h)
    <2>1. Enters(u, h, "find", "append") /\ UNCHANGED <<disk, new_entries_, failures>>
      BY <1>7, UserMoves, Zenon DEF FindBegin
    <2>2. LockInv' /\ OnlyMoves(u)
      BY <1>0, <1>1, <2>1, LocksRest, Zenon DEF Enters, OnlyMoves
    <2>3. UserInv(u)'
      BY <2>1, Zenon DEF Enters, UserInv
    <2> QED
      BY <1>3, <1>4, <2>1, <2>2, <2>3, Zenon
  <1>8. CASE StoreBegin(u, h)
    <2>1. Enters(u, h, "store", "write") /\ UNCHANGED <<disk, new_entries_, failures>> /\ ~Locked(h)
      BY <1>8, UserMoves, Zenon DEF StoreBegin
    <2>2. LockInv' /\ OnlyMoves(u)
      <3>1. /\ \A v \in User : user[v].op = "store" => user[v].hash # h
            /\ cleaner.pc = "remove" => cleaner.hash # h
        BY <2>1, Zenon DEF Locked, WriteLocked
      <3>2. user'[u].hash = h /\ \A v \in User : v # u => user'[v] = user[v]
        BY <2>1, Zenon DEF Enters, OnlyMoves
      <3>3. /\ \A v, w \in User : v # w /\ user[v].op = "store" /\ user[w].op = "store" => user[v].hash # user[w].hash
            /\ \A v \in User : user[v].op = "store" /\ cleaner.pc = "remove" => cleaner.hash # user[v].hash
        BY <1>0, Zenon DEF LockInv
      <3>4. \A v, w \in User : v # w /\ user'[v].op = "store" /\ user'[w].op = "store" => user'[v].hash # user'[w].hash
        BY <3>1, <3>2, <3>3
      <3>5. \A v \in User : user'[v].op = "store" /\ cleaner'.pc = "remove" => cleaner'.hash # user'[v].hash
        BY <1>1, <3>1, <3>2, <3>3, Zenon
      <3> QED
        BY <2>1, <3>4, <3>5, Zenon DEF LockInv, Enters
    <2>3. UserInv(u)'
      BY <2>1, Zenon DEF Enters, UserInv
    <2> QED
      BY <1>3, <1>4, <2>1, <2>2, <2>3, Zenon
  <1>9. CASE FindEnd(u)
    <2>1. Leaves(u) /\ UNCHANGED <<disk, new_entries_, failures>>
      BY <1>9, UserMoves, Zenon DEF FindEnd
    <2> QED
      BY <1>3, <1>4, <1>6, <2>1, Zenon
  <1>10. CASE StoreWrite(u)
    <2>1. Goes(u, "append") /\ UNCHANGED <<new_entries_, failures>> /\ user[u].op = "store"
      BY <1>0, <1>10, UserMoves, Zenon DEF StoreWrite, UserInv
    <2>2. \A g \in Hash : g # user[u].hash => disk'[g] = disk[g]
      BY <1>0, <1>10, Zenon DEF StoreWrite
    <2>3. UserInv(u)'
      BY <1>0, <2>1, Zenon DEF Goes, Enters, UserInv
    <2>4. \A v \in User : user[v].hash \in Hash
      BY Zenon DEF CleanerTypeOK, Using
    <2>5. ASSUME NEW v \in User \ {u}, user[v].pc = "subtract" PROVE disk'[user[v].hash] = 0
      BY <1>0, <1>4, <2>1, <2>2, <2>4, <2>5, Zenon DEF LockInv
    <2> QED
      BY <1>3, <1>5, <2>1, <2>3, <2>5, Zenon
  <1>11. CASE AppendLoad(u)
    <2>1. Goes(u, "link") /\ UNCHANGED <<disk, new_entries_, failures>> /\ user[u].pc = "append"
      BY <1>11, UserMoves, Zenon DEF AppendLoad
    <2>2. UserInv(u)'
      BY <1>0, <2>1, Zenon DEF Goes, Enters, UserInv
    <2> QED
      BY <1>3, <1>4, <1>5, <2>1, <2>2, Zenon
  <1>12. CASE AppendLink(u)
    <2> DEFINE r == Link(new_entries_, user[u].node, user[u].hash)
    <2>1. /\ UNCHANGED <<disk, failures>> /\ user[u].pc = "link" /\ new_entries_' = r.list
          /\ IF r.linked THEN Goes(u, "hint") ELSE Goes(u, "link")
      BY <1>12, UserMoves, Zenon DEF AppendLink
    <2>2. Range(Listed(r.list)) = Range(Listed(new_entries_)) \union (IF r.linked THEN {user[u].hash} ELSE {})
      BY <1>0, LinkGives, ZenonT(30)
    <2> HIDE DEF r
    <2>3. UserInv(u)'
      BY <1>0, <2>1, <2>2, Zenon DEF Goes, Enters, UserInv
    <2>4. LockInv' /\ OnlyMoves(u)
      BY <1>5, <2>1, Zenon
    <2> QED
      BY <1>3, <1>4, <2>1, <2>2, <2>3, <2>4, Zenon
  <1>13. CASE AppendHint(u)
    <2>1. /\ UNCHANGED <<disk, failures>> /\ new_entries_' = SetHint(new_entries_, user[u].node)
          /\ IF user[u].op = "find" THEN Goes(u, "read") ELSE Leaves(u)
      BY <1>13, UserMoves, Zenon DEF AppendHint
    <2>2. Listed(new_entries_') = Listed(new_entries_)
      BY <1>0, <2>1, SetHintGives, Zenon
    <2>3. Goes(u, "read") /\ user[u].op = "find" => UserInv(u)'
      BY <1>0, Zenon DEF Goes, Enters, UserInv
    <2> QED
      BY <1>3, <1>4, <1>5, <1>6, <2>1, <2>2, <2>3, Zenon
  <1>14. CASE StoreFailed(u)
    <2>1. /\ Goes(u, "files") /\ UNCHANGED <<disk, new_entries_>> /\ user[u].pc = "write"
          /\ failures' = failures + 1
      BY <1>14, UserMoves, Zenon DEF StoreFailed
    <2>2. failures' > 0
      BY <1>0, <2>1
    <2>3. UserInv(u)'
      BY <1>0, <2>1, <2>2, Zenon DEF Goes, Enters, UserInv
    <2> QED
      BY <1>3, <1>4, <1>5, <2>1, <2>3, Zenon
  <1>15. CASE StoreRemoveFiles(u)
    <2>1. /\ Goes(u, "subtract") /\ UNCHANGED <<failures, new_entries_>> /\ user[u].pc = "files"
          /\ disk' = [disk EXCEPT ![user[u].hash] = 0]
      BY <1>15, UserMoves, Zenon DEF StoreRemoveFiles
    <2>2. disk'[user[u].hash] = 0 /\ \A g \in Hash : disk[g] = 0 => disk'[g] = 0
      BY <1>0, <2>1, Zenon
    <2>3. UserInv(u)'
      BY <1>0, <2>1, <2>2, Zenon DEF Goes, Enters, UserInv
    <2>4. \A v \in User : user[v].hash \in Hash
      BY Zenon DEF CleanerTypeOK, Using
    <2> QED
      BY <1>3, <1>4, <1>5, <2>1, <2>2, <2>3, <2>4, Zenon
  <1>16. CASE StoreSubtract(u)
    <2>1. Leaves(u) /\ UNCHANGED <<disk, new_entries_, failures>>
      BY <1>16, UserMoves, Zenon DEF StoreSubtract
    <2> QED
      BY <1>3, <1>4, <1>6, <2>1, Zenon
  <1> QED
    BY <1>7, <1>8, <1>9, <1>10, <1>11, <1>12, <1>13, <1>14, <1>15, <1>16, Zenon DEF UserStep

\* The cleaner, the resetter and a restart keep the invariant of the threads.
LEMMA CleanerKeepsThreads ==
  ASSUME CleanerTypeOK, ThreadInv, Reset \/ CleanStep \/ Crash
  PROVE  ThreadInv'
  <1>0. /\ cleaner \in Cleaning /\ cleaner.list \in Lists /\ cleaner.hash \in Hash
        /\ disk \in [Hash -> Nat] /\ failures \in Nat /\ LockInv /\ RestInv
    BY Zenon DEF CleanerTypeOK, Cleaning, ThreadInv
  <1>1. \A v \in User : user[v].hash \in Hash
    BY Zenon DEF CleanerTypeOK, Using
  <1>2. ASSUME RestInv', LockInv', UNCHANGED <<user, failures>>,
               \A g \in Hash : disk[g] = 0 => disk'[g] = 0,
               \A v \in User : user[v].pc = "hint" =>
                  Range(Listed(new_entries_)) \subseteq Range(Listed(new_entries_'))
        PROVE  ThreadInv'
    <2>1. ASSUME NEW v \in User PROVE UserInv(v)'
      <3>1. user[v].pc = "subtract" => disk'[user[v].hash] = 0
        BY <1>1, <1>2, Zenon DEF ThreadInv, UserInv
      <3> QED
        BY <1>2, <3>1, UserRests, Zenon DEF ThreadInv
    <2> QED
      BY <1>2, <2>1, Zenon DEF ThreadInv
  <1>3. CASE Reset
    <2>1. UNCHANGED <<user, failures, cleaner, disk>> /\ \A v \in User : user[v].pc # "hint"
      BY <1>3, Zenon DEF Reset
    <2>2. RestInv' /\ LockInv'
      BY <1>0, <2>1, Zenon DEF RestInv, LockInv
    <2> QED
      BY <1>2, <2>1, <2>2, Zenon
  <1>4. ASSUME cleaner'.pc \in {"pop", "insert"}, user' = user
        PROVE  RestInv' /\ LockInv'
    BY <1>0, <1>4, Zenon DEF RestInv, LockInv
  <1>5. CASE CleanStart \/ CleanTouch \/ CleanMeasure \/ CleanInsert
    <2>1. UNCHANGED <<user, failures, disk, new_entries_>>
      BY <1>5, Zenon DEF CleanStart, CleanTouch, CleanMeasure, CleanInsert
    <2>2. cleaner'.pc \in {"pop", "insert"}
      BY <1>5, CleanerMoves, Zenon
    <2> QED
      BY <1>2, <1>4, <2>1, <2>2, Zenon
  <1>6. CASE CleanEnd
    <2>1. UNCHANGED <<user, failures, disk, new_entries_>>
      BY <1>6, Zenon DEF CleanEnd
    <2>2. cleaner'.pc = "idle" /\ cleaner'.list = EmptyList
      BY <1>6, CleanerMoves, Zenon
    <2>3. RestInv' /\ LockInv'
      BY <2>1, <2>2, <1>0, EmptyListed, Zenon DEF RestInv, LockInv
    <2> QED
      BY <1>2, <2>1, <2>3, Zenon
  <1>7. CASE CleanLock
    <2>1. UNCHANGED <<user, failures, disk, new_entries_>> /\ ~Locked(First(index))
      BY <1>7, Zenon DEF CleanLock
    <2>2. cleaner'.pc = "remove" /\ cleaner'.hash = First(index)
      BY <1>7, CleanerMoves, Zenon
    <2>3. RestInv' /\ LockInv'
      BY <2>1, <2>2, <1>0, Zenon DEF RestInv, LockInv, Locked, WriteLocked
    <2> QED
      BY <1>2, <2>1, <2>3, Zenon
  <1>8. CASE CleanRemove
    <2>1. UNCHANGED <<user, failures, new_entries_>> /\ disk' = [disk EXCEPT ![cleaner.hash] = 0]
      BY <1>8, Zenon DEF CleanRemove
    <2>2. cleaner'.pc = "pop"
      BY <1>8, CleanerMoves, Zenon
    <2>3. \A g \in Hash : disk[g] = 0 => disk'[g] = 0
      BY <1>0, <2>1, Zenon
    <2> QED
      BY <1>2, <1>4, <2>1, <2>2, <2>3, Zenon
  <1>9. CASE Crash
    <2>1. user' = [u \in User |-> Outside]
      BY <1>9, Zenon DEF Crash
    <2>2. cleaner'.pc = "idle" /\ cleaner'.list = EmptyList
      BY <1>9, CleanerMoves, Zenon
    <2>3. \A v \in User : user'[v].pc = "idle" /\ user'[v].op = "none"
      BY <2>1, Zenon DEF Outside
    <2>4. RestInv' /\ LockInv' /\ \A v \in User : UserInv(v)'
      BY <2>2, <2>3, EmptyListed, Zenon DEF RestInv, LockInv, UserInv
    <2> QED
      BY <2>4, Zenon DEF ThreadInv
  <1> QED
    BY <1>3, <1>5, <1>6, <1>7, <1>8, <1>9, Zenon DEF CleanStep

\* The invariant of the threads, at the start and in every step.
LEMMA ThreadsInit == CleanerInit => ThreadInv
  <1> SUFFICES ASSUME CleanerInit PROVE ThreadInv
    BY Zenon
  <1>1. cleaner = Resting /\ user = [u \in User |-> Outside]
    BY Zenon DEF CleanerInit
  <1>2. \A v \in User : user[v].pc = "idle" /\ user[v].op = "none"
    BY <1>1, Zenon DEF Outside
  <1>3. cleaner.pc = "idle" /\ cleaner.list = EmptyList
    BY <1>1, Zenon DEF Resting
  <1> QED
    BY <1>2, <1>3, EmptyListed, Zenon DEF ThreadInv, RestInv, LockInv, UserInv

\* The threads keep to their part of the code in every step.
LEMMA ThreadsStep ==
  ASSUME CleanerTypeOK, ThreadInv, [CleanerNext]_cleanerVars
  PROVE  ThreadInv'
  <1>1. CASE UNCHANGED cleanerVars
    BY <1>1, Zenon DEF cleanerVars, ThreadInv, RestInv, LockInv, UserInv
  <1>2. ASSUME NEW u \in User, UserStep(u) PROVE ThreadInv'
    <2>1. (CHOOSE h \in Hash : TRUE) \in Hash
      BY CleanerAssumption, Zenon
    <2> QED
      BY <1>2, <2>1, UserKeepsThreads, Zenon
  <1>3. ASSUME NEW u \in User, NEW h \in Hash, FindBegin(u, h) \/ StoreBegin(u, h)
        PROVE  ThreadInv'
    BY <1>3, UserKeepsThreads, Zenon
  <1>4. CASE Reset \/ CleanStep \/ Crash
    BY <1>4, CleanerKeepsThreads, Zenon
  <1> QED
    BY <1>1, <1>2, <1>3, <1>4, Zenon DEF CleanerNext

IndexInv == IsInjective(index.order) /\ IsInjective(committed.order)

\* How the rows of the index change in a step.
LEMMA IndexMoves ==
  ASSUME CleanerTypeOK, IndexInv, [CleanerNext]_cleanerVars
  PROVE  \/ UNCHANGED index /\ (UNCHANGED committed \/ committed' = index)
         \/ \E u \in User : StoreFailed(u) /\ index' = Drop(index, user[u].hash) /\ UNCHANGED committed
         \/ CleanRemove /\ index' = Drop(index, cleaner.hash) /\ UNCHANGED committed
         \/ /\ CleanTouch /\ UNCHANGED committed
            /\ index' = Set(index, FirstNode(cleaner.list), index.size[FirstNode(cleaner.list)])
         \/ CleanInsert /\ index' = Set(index, cleaner.hash, cleaner.size) /\ UNCHANGED committed
         \/ Crash
  <1>1. CASE UNCHANGED cleanerVars
    BY <1>1, Zenon DEF cleanerVars
  <1>2. ASSUME NEW u \in User, UserStep(u) \/ \E h \in Hash : FindBegin(u, h) \/ StoreBegin(u, h)
        PROVE  UNCHANGED <<index, committed>> \/ (StoreFailed(u) /\ index' = Drop(index, user[u].hash) /\ UNCHANGED committed)
    BY <1>2, Zenon DEF UserStep, FindBegin, StoreBegin, FindEnd, StoreWrite, AppendLoad, AppendLink, AppendHint,
           StoreFailed, StoreRemoveFiles, StoreSubtract
  <1>3. CASE Reset \/ CleanStart \/ CleanMeasure \/ CleanLock
    BY <1>3, Zenon DEF Reset, CleanStart, CleanMeasure, CleanLock
  <1>4. CASE CleanEnd
    BY <1>4, Zenon DEF CleanEnd, EndTransaction
  <1>5. CASE CleanRemove
    BY <1>5, Zenon DEF CleanRemove
  <1>6. CASE CleanTouch
    BY <1>6, Zenon DEF CleanTouch
  <1>7. CASE CleanInsert
    BY <1>7, Zenon DEF CleanInsert
  <1> QED
    BY <1>1, <1>2, <1>3, <1>4, <1>5, <1>6, <1>7, Zenon DEF CleanerNext, CleanStep

\* The key of the table: the index has a hash once.
LEMMA IndexInit == CleanerInit => IndexInv
  <1> SUFFICES ASSUME CleanerInit PROVE IndexInv
    BY Zenon
  <1>1. PICK d \in [Hash -> Nat], v \in [Hash -> 0 .. kManifestVersion], missing \in SUBSET Hash :
          \E r \in Run(EmptyIndex, d, v, missing) : index = r.index /\ committed = r.index
    BY InitGives, Zenon
  <1>2. PICK r \in Run(EmptyIndex, d, v, missing) : index = r.index /\ committed = r.index
    BY <1>1, Zenon
  <1>3. RunLeaves(EmptyIndex, d, v, missing, r)
    BY StartTypes, RunGives, Zenon
  <1> QED
    BY <1>2, <1>3, Zenon DEF RunLeaves, IndexInv

\* The index has a hash once, after every step.
LEMMA IndexStep ==
  ASSUME CleanerTypeOK, IndexInv, [CleanerNext]_cleanerVars
  PROVE  IndexInv'
  <1>0. index \in Rows /\ committed \in Rows /\ \A u \in User : user[u].hash \in Hash
    BY Zenon DEF CleanerTypeOK, Using
  <1>1. cleaner.hash \in Hash /\ cleaner.size \in Nat /\ cleaner.list \in Lists
    BY Zenon DEF CleanerTypeOK, Cleaning
  <1>2. ASSUME NEW h \in Hash PROVE IsInjective(Drop(index, h).order)
    BY <1>0, DropGives, Zenon DEF IndexInv
  <1>3. ASSUME NEW h \in Hash, NEW s \in Nat PROVE IsInjective(Set(index, h, s).order)
    BY <1>0, SetGives, Zenon DEF IndexInv
  <1>4. CASE UNCHANGED index /\ (UNCHANGED committed \/ committed' = index)
    BY <1>4, Zenon DEF IndexInv
  <1>5. CASE \E u \in User : StoreFailed(u) /\ index' = Drop(index, user[u].hash) /\ UNCHANGED committed
    BY <1>0, <1>2, <1>5, Zenon DEF IndexInv
  <1>6. CASE CleanRemove /\ index' = Drop(index, cleaner.hash) /\ UNCHANGED committed
    BY <1>1, <1>2, <1>6, Zenon DEF IndexInv
  <1>7. CASE /\ CleanTouch /\ UNCHANGED committed
             /\ index' = Set(index, FirstNode(cleaner.list), index.size[FirstNode(cleaner.list)])
    <2>1. FirstNode(cleaner.list) \in Hash
      BY <1>1, <1>7, PopGives, Zenon DEF CleanTouch
    <2>2. index.size[FirstNode(cleaner.list)] \in Nat
      BY <1>0, <2>1, Zenon DEF Rows
    <2> QED
      BY <1>3, <1>7, <2>1, <2>2, Zenon DEF IndexInv
  <1>8. CASE CleanInsert /\ index' = Set(index, cleaner.hash, cleaner.size) /\ UNCHANGED committed
    BY <1>1, <1>3, <1>8, Zenon DEF IndexInv
  <1>9. CASE Crash
    <2>1. PICK r \in Run(Opened, disk, version, {}) : index' = r.index /\ committed' = r.index
      BY <1>9, Zenon DEF Crash
    <2>2. Opened \in Rows /\ disk \in [Hash -> Nat] /\ version \in [Hash -> 0 .. kManifestVersion]
      BY StartTypes, Zenon DEF Opened, CleanerTypeOK
    <2>3. RunLeaves(Opened, disk, version, {}, r)
      BY <2>2, RunGives, Zenon
    <2> QED
      BY <2>1, <2>3, Zenon DEF RunLeaves, IndexInv
  <1> QED
    BY <1>4, <1>5, <1>6, <1>7, <1>8, <1>9, IndexMoves, Zenon

\* What Run() finds and leaves on the disk, it enters into the index.
LEMMA RunConsiders ==
  ASSUME NEW i, NEW d, NEW v, NEW missing, NEW r, RunLeaves(i, d, v, missing, r),
         NEW h \in Hash, r.disk[h] > 0
  PROVE  h \in Range(r.index.order)
  <1>1. /\ Range(r.index.order) = (Range(i.order) \ Broken(i, d, v, missing)) \union Fresh(i, d, v, missing)
        /\ r.disk[h] = IF h \in Broken(i, d, v, missing) THEN 0 ELSE d[h]
    BY Zenon DEF RunLeaves
  <1>2. h \notin Broken(i, d, v, missing) /\ h \in Walked(d)
    BY <1>1 DEF Walked
  <1> QED
    BY <1>1, <1>2, Zenon DEF Fresh

\* EntriesConsidered at the start.
LEMMA ConsideredInit == CleanerInit => EntriesConsidered
  <1> SUFFICES ASSUME CleanerInit PROVE EntriesConsidered
    BY Zenon
  <1>1. PICK d \in [Hash -> Nat], v \in [Hash -> 0 .. kManifestVersion], missing \in SUBSET Hash :
          \E r \in Run(EmptyIndex, d, v, missing) : index = r.index /\ disk = r.disk
    BY InitGives, Zenon
  <1>2. PICK r \in Run(EmptyIndex, d, v, missing) : index = r.index /\ disk = r.disk
    BY <1>1, Zenon
  <1>3. RunLeaves(EmptyIndex, d, v, missing, r)
    BY StartTypes, RunGives, Zenon
  <1> QED
    BY <1>2, <1>3, RunConsiders, Zenon DEF EntriesConsidered, Indexed

\* Threads that look up and store keep EntriesConsidered: a store gives its lock up only
\* when the hash is in the list or the files are gone.
LEMMA UserKeepsConsidered ==
  ASSUME CleanerTypeOK, ThreadInv, IndexInv, EntriesConsidered,
         NEW u \in User, NEW g \in Hash,
         UserStep(u) \/ FindBegin(u, g) \/ StoreBegin(u, g)
  PROVE  EntriesConsidered'
  <1>0. /\ user[u].hash \in Hash /\ disk \in [Hash -> Nat] /\ UserInv(u) /\ RestInv /\ index \in Rows
        /\ new_entries_ \in Lists /\ user[u].node \in Nat
    BY Zenon DEF CleanerTypeOK, Using, ThreadInv
  <1>1. cleaner' = cleaner
    BY Zenon DEF UserStep, FindBegin, StoreBegin, FindEnd, StoreWrite, AppendLoad, AppendLink, AppendHint,
           StoreFailed, StoreRemoveFiles, StoreSubtract
  <1>2. ASSUME NEW h \in Hash, disk'[h] > 0, ~WriteLocked(h)',
               disk'[h] = disk[h], Indexed(h) => Indexed(h)', h \in Pending => h \in Pending',
               \A v \in User : user[v].op = "store" /\ user[v].hash = h =>
                                 user'[v].op = "store" /\ user'[v].hash = h
        PROVE  Indexed(h)' \/ h \in Pending'
    <2>1. ~WriteLocked(h)
      BY <1>1, <1>2, Zenon DEF WriteLocked
    <2> QED
      BY <1>2, <2>1, Zenon DEF EntriesConsidered
  <1>3. ASSUME NEW l, Goes(u, l), NEW v \in User PROVE user'[v].op = user[v].op /\ user'[v].hash = user[v].hash
    BY <1>3, Zenon DEF Goes, Enters, OnlyMoves
  <1>4. CASE FindBegin(u, g) \/ StoreBegin(u, g)
    <2>1. UNCHANGED <<disk, index>> /\ Pending' = Pending
      BY <1>0, <1>4, PendingSame, Zenon DEF FindBegin, StoreBegin
    <2>2. user[u].pc = "idle" /\ OnlyMoves(u)
      BY <1>4, UserMoves, Zenon DEF FindBegin, StoreBegin, Begin, Enters
    <2>3. user[u].op = "none"
      BY <1>0, <2>2, Zenon DEF UserInv
    <2> QED
      BY <1>2, <2>1, <2>2, <2>3, Zenon DEF EntriesConsidered, Indexed, OnlyMoves
  <1>5. CASE FindEnd(u)
    <2>1. UNCHANGED <<disk, index>> /\ Pending' = Pending
      BY <1>0, <1>5, PendingSame, Zenon DEF FindEnd
    <2>2. user[u].op = "find" /\ OnlyMoves(u)
      BY <1>0, <1>5, UserMoves, Zenon DEF FindEnd, Leaves, UserInv
    <2> QED
      BY <1>2, <2>1, <2>2, Zenon DEF EntriesConsidered, Indexed, OnlyMoves
  <1>6. CASE AppendLoad(u)
    <2>1. UNCHANGED <<disk, index>> /\ Pending' = Pending
      BY <1>0, <1>6, PendingSame, Zenon DEF AppendLoad
    <2>2. Goes(u, "link")
      BY <1>6, UserMoves, Zenon
    <2> QED
      BY <1>2, <1>3, <2>1, <2>2, Zenon DEF EntriesConsidered, Indexed
  <1>7. CASE AppendLink(u)
    <2>1. UNCHANGED <<disk, index>> /\ Pending \subseteq Pending'
      BY <1>0, <1>7, PendingChanges, Zenon DEF AppendLink
    <2>2. Goes(u, "hint") \/ Goes(u, "link")
      BY <1>7, UserMoves, Zenon
    <2> QED
      BY <1>2, <1>3, <2>1, <2>2, Zenon DEF EntriesConsidered, Indexed
  <1>8. CASE AppendHint(u)
    <2>1. UNCHANGED <<disk, index>> /\ Pending' = Pending
      BY <1>0, <1>8, PendingSame, Zenon DEF AppendHint
    <2>2. user[u].hash \in Pending /\ OnlyMoves(u)
      <3>1. user[u].hash \in Range(Listed(new_entries_))
        BY <1>0, <1>8, Zenon DEF AppendHint, UserInv
      <3>2. OnlyMoves(u)
        BY <1>8, UserMoves, Zenon DEF Goes, Leaves, Enters
      <3> QED
        BY <3>1, <3>2, PendingIs, Zenon
    <2> QED
      BY <1>2, <2>1, <2>2, Zenon DEF EntriesConsidered, Indexed, OnlyMoves
  <1>9. CASE StoreWrite(u) \/ StoreFailed(u) \/ StoreRemoveFiles(u)
    <2>1. Pending' = Pending
      BY <1>0, <1>9, PendingSame, Zenon
    <2>2. user[u].op = "store" /\ \E l : Goes(u, l)
      BY <1>0, <1>9, UserMoves, Zenon DEF StoreWrite, StoreFailed, StoreRemoveFiles, UserInv
    <2>3. ASSUME NEW h, h = user[u].hash PROVE WriteLocked(h)'
      BY <1>3, <2>2, <2>3, Zenon DEF WriteLocked
    <2>4. \A h \in Hash : h # user[u].hash => disk'[h] = disk[h]
      BY <1>0, <1>9, Zenon DEF StoreWrite, StoreFailed, StoreRemoveFiles
    <2>5. \A h \in Hash : h # user[u].hash => (Indexed(h) => Indexed(h)')
      <3>1. index' = index \/ index' = Drop(index, user[u].hash)
        BY <1>9, Zenon DEF StoreWrite, StoreFailed, StoreRemoveFiles
      <3>2. Range(Drop(index, user[u].hash).order) = Range(index.order) \ {user[u].hash}
        BY <1>0, DropGives, Zenon DEF IndexInv
      <3> QED
        BY <3>1, <3>2, Zenon DEF Indexed
    <2>6. ASSUME NEW h \in Hash, disk'[h] > 0, ~WriteLocked(h)' PROVE Indexed(h)' \/ h \in Pending'
      <3>1. h # user[u].hash
        BY <2>3, <2>6, Zenon
      <3> QED
        BY <1>2, <1>3, <2>1, <2>2, <2>4, <2>5, <2>6, <3>1, Zenon
    <2> QED
      BY <2>6, Zenon DEF EntriesConsidered
  <1>10. CASE StoreSubtract(u)
    <2>1. UNCHANGED <<disk, index>> /\ Pending' = Pending
      BY <1>0, <1>10, PendingSame, Zenon DEF StoreSubtract
    <2>2. disk[user[u].hash] = 0 /\ OnlyMoves(u)
      BY <1>0, <1>10, UserMoves, Zenon DEF StoreSubtract, UserInv, Leaves
    <2> QED
      <3>1. ASSUME NEW h \in Hash, disk'[h] > 0, ~WriteLocked(h)' PROVE Indexed(h)' \/ h \in Pending'
        <4>1. disk'[h] = disk[h] /\ (Indexed(h) => Indexed(h)') /\ (h \in Pending => h \in Pending')
          BY <2>1, Zenon DEF Indexed
        <4>2. h # user[u].hash
          BY <2>2, <3>1, <4>1
        <4>3. \A v \in User : user[v].op = "store" /\ user[v].hash = h =>
                               user'[v].op = "store" /\ user'[v].hash = h
          BY <2>2, <4>2, Zenon DEF OnlyMoves
        <4> QED
          BY <1>2, <3>1, <4>1, <4>3, Zenon
      <3> QED
        BY <3>1, Zenon DEF EntriesConsidered
  <1> QED
    BY <1>4, <1>5, <1>6, <1>7, <1>8, <1>9, <1>10, Zenon DEF UserStep

\* The cleaner, the resetter and a restart keep EntriesConsidered: an entry leaves the
\* lists only for the index, and the index only with its files.
LEMMA CleanerKeepsConsidered ==
  ASSUME CleanerTypeOK, ThreadInv, IndexInv, EntriesConsidered, Reset \/ CleanStep \/ Crash
  PROVE  EntriesConsidered'
  <1>0. /\ disk \in [Hash -> Nat] /\ RestInv /\ index \in Rows
        /\ cleaner.hash \in Hash /\ cleaner.size \in Nat /\ cleaner.list \in Lists
    BY Zenon DEF CleanerTypeOK, Cleaning, ThreadInv
  <1>2. ASSUME NEW h \in Hash, disk'[h] > 0, ~WriteLocked(h)',
               disk'[h] = disk[h], Indexed(h) => Indexed(h)', h \in Pending => h \in Pending' \/ Indexed(h)',
               user' = user, cleaner.pc = "remove" /\ cleaner.hash = h => UNCHANGED cleaner
        PROVE  Indexed(h)' \/ h \in Pending'
    <2>1. ~WriteLocked(h)
      BY <1>2, Zenon DEF WriteLocked
    <2> QED
      BY <1>2, <2>1, Zenon DEF EntriesConsidered
  <1>3. CASE Reset
    <2>1. UNCHANGED <<disk, index, user, cleaner>> /\ Pending' = Pending
      BY <1>0, <1>3, PendingSame, Zenon DEF Reset
    <2> QED
      BY <1>2, <2>1, Zenon DEF EntriesConsidered, Indexed
  <1>4. CASE CleanStart \/ CleanMeasure \/ CleanEnd \/ CleanLock
    <2>1. Pending' = Pending
      BY <1>0, <1>4, PendingSame, Zenon
    <2>2. UNCHANGED <<disk, index, user>> /\ cleaner.pc # "remove"
      BY <1>4, Zenon DEF CleanStart, CleanMeasure, CleanEnd, CleanLock
    <2> QED
      BY <1>2, <2>1, <2>2, Zenon DEF EntriesConsidered, Indexed
  <1>5. ASSUME NEW g \in Hash, NEW s \in Nat, index' = Set(index, g, s), UNCHANGED <<disk, user>>,
               Pending = Pending' \union {g}, cleaner.pc # "remove"
        PROVE  EntriesConsidered'
    <2>1. Range(index'.order) = Range(index.order) \union {g}
      BY <1>0, <1>5, SetGives, Zenon DEF IndexInv
    <2>2. ASSUME NEW h \in Hash, disk'[h] > 0, ~WriteLocked(h)' PROVE Indexed(h)' \/ h \in Pending'
      BY <1>2, <1>5, <2>1, <2>2, Zenon DEF Indexed
    <2> QED
      BY <2>2, Zenon DEF EntriesConsidered
  <1>6. CASE CleanTouch
    <2> DEFINE g == FirstNode(cleaner.list)
    <2>1. g \in Hash
      BY <1>0, <1>6, PopGives, Zenon DEF CleanTouch
    <2>2. index.size[g] \in Nat
      BY <1>0, <2>1, Zenon DEF Rows
    <2>3. Pending = Pending' \union {g}
      BY <1>6, PendingChanges, Zenon
    <2>4. index' = Set(index, g, index.size[g]) /\ UNCHANGED <<disk, user>> /\ cleaner.pc # "remove"
      BY <1>6, Zenon DEF CleanTouch
    <2> HIDE DEF g
    <2> QED
      BY <1>5, <2>1, <2>2, <2>3, <2>4, Zenon
  <1>7. CASE CleanInsert
    <2>1. Pending = Pending' \union {cleaner.hash}
      BY <1>7, PendingChanges, Zenon
    <2>2. index' = Set(index, cleaner.hash, cleaner.size) /\ UNCHANGED <<disk, user>> /\ cleaner.pc # "remove"
      BY <1>7, Zenon DEF CleanInsert
    <2> QED
      BY <1>0, <1>5, <2>1, <2>2, Zenon
  <1>8. CASE CleanRemove
    <2>1. Pending' = Pending
      BY <1>0, <1>8, PendingSame, Zenon
    <2>2. index' = Drop(index, cleaner.hash) /\ user' = user /\ disk' = [disk EXCEPT ![cleaner.hash] = 0]
      BY <1>8, Zenon DEF CleanRemove
    <2>3. Range(index'.order) = Range(index.order) \ {cleaner.hash}
      BY <1>0, <2>2, DropGives, Zenon DEF IndexInv
    <2>4. ASSUME NEW h \in Hash, disk'[h] > 0, ~WriteLocked(h)' PROVE Indexed(h)' \/ h \in Pending'
      <3>1. h # cleaner.hash /\ disk'[h] = disk[h]
        BY <1>0, <2>2, <2>4
      <3> QED
        BY <1>2, <2>1, <2>2, <2>3, <2>4, <3>1, Zenon DEF Indexed
    <2> QED
      BY <2>4, Zenon DEF EntriesConsidered
  <1>9. CASE Crash
    <2>1. PICK r \in Run(Opened, disk, version, {}) : index' = r.index /\ disk' = r.disk
      BY <1>9, Zenon DEF Crash
    <2>2. Opened \in Rows /\ disk \in [Hash -> Nat] /\ version \in [Hash -> 0 .. kManifestVersion]
      BY StartTypes, Zenon DEF Opened, CleanerTypeOK
    <2>3. RunLeaves(Opened, disk, version, {}, r)
      BY <2>2, RunGives, Zenon
    <2> QED
      BY <2>1, <2>3, RunConsiders, Zenon DEF EntriesConsidered, Indexed
  <1> QED
    BY <1>3, <1>4, <1>6, <1>7, <1>8, <1>9, Zenon DEF CleanStep

\* EntriesConsidered in every step.
LEMMA ConsideredStep ==
  ASSUME CleanerTypeOK, ThreadInv, IndexInv, EntriesConsidered, [CleanerNext]_cleanerVars
  PROVE  EntriesConsidered'
  <1>1. CASE UNCHANGED cleanerVars
    BY <1>1, Zenon DEF cleanerVars, EntriesConsidered, Indexed, WriteLocked, Pending
  <1>2. ASSUME NEW u \in User, UserStep(u) PROVE EntriesConsidered'
    <2>1. (CHOOSE h \in Hash : TRUE) \in Hash
      BY CleanerAssumption, Zenon
    <2> QED
      BY <1>2, <2>1, UserKeepsConsidered, Zenon
  <1>3. ASSUME NEW u \in User, NEW h \in Hash, FindBegin(u, h) \/ StoreBegin(u, h)
        PROVE  EntriesConsidered'
    BY <1>3, UserKeepsConsidered, Zenon
  <1>4. CASE Reset \/ CleanStep \/ Crash
    BY <1>4, CleanerKeepsConsidered, Zenon
  <1> QED
    BY <1>1, <1>2, <1>3, <1>4, Zenon DEF CleanerNext

\* An entry on the disk that nobody works on is indexed or on its way to the cleaner, after
\* failing stores and kills as well: no interleaving of Find(), Store(), the resetter and
\* Clean() loses one.
THEOREM CleanerConsiders == CleanerSpec => []EntriesConsidered
  <1> DEFINE Inv == CleanerTypeOK /\ ThreadInv /\ IndexInv /\ EntriesConsidered
  <1>1. CleanerInit => Inv
    BY CleanerTypeInit, ThreadsInit, IndexInit, ConsideredInit, Zenon
  <1>2. Inv /\ [CleanerNext]_cleanerVars => Inv'
    BY CleanerTypeStep, ThreadsStep, IndexStep, ConsideredStep, Zenon
  <1>3. Inv => EntriesConsidered
    BY Zenon
  <1> QED
    BY <1>1, <1>2, <1>3, PTL DEF CleanerSpec
=============================================================================
