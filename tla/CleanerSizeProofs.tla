------------------------- MODULE CleanerSizeProofs -------------------------
(***************************************************************************)
(* More theorems about CacheCleaner: the account is the sum of the sizes   *)
(* in the index, the cleaner finds something to remove when the cache is   *)
(* overused, and the files keep to the size that is configured.            *)
(***************************************************************************)
EXTENDS CacheCleanerProofs
-----------------------------------------------------------------------------
(* AccountingExact *)

Fits(f) == \A h \in Hash : f[h] \in {0} \union Sizes(h)

SizeInv ==
  /\ Fits(disk) /\ Fits(index.size) /\ Fits(committed.size)
  /\ cleaner.pc = "insert" => cleaner.size \in {0} \union Sizes(cleaner.hash)

AccountInv ==
  /\ cleaner.pc = "insert" => ~Indexed(cleaner.hash)
  /\ Undisturbed /\ cleaner.pc = "remove" => Indexed(cleaner.hash)
  /\ Undisturbed => cache_size_ = Total(Range(index.order), index.size)

\* A sum of sizes that entries have fits into the account.
LEMMA FittingSum ==
  ASSUME NEW f \in [Hash -> Nat], Fits(f), NEW S \in SUBSET Hash
  PROVE  Total(S, f) \in Nat /\ Total(S, f) % Modulus = Total(S, f)
  <1>1. f \in [Hash -> {0} \union UNION {Sizes(h) : h \in Hash}]
    BY Zenon DEF Fits
  <1>2. Total(Hash, f) < Modulus
    BY <1>1, SizesFit, Zenon DEF Fits
  <1>3. IsFiniteSet(Hash) /\ \A h \in Hash : f[h] \in Nat /\ f[h] <= f[h]
    BY CleanerAssumption
  <1>4. Total(S, f) \in Nat /\ Total(Hash, f) \in Nat /\ Total(S, f) <= Total(Hash, f)
    BY <1>3, TotalMonotonic, Zenon
  <1>5. Total(S, f) < Modulus
    BY <1>2, <1>4, CleanerAssumption
  <1> QED
    BY <1>4, <1>5, NoWrap, Zenon

\* Run() enters sizes that entries have, and an exact account if it begins without an index.
LEMMA RunFits ==
  ASSUME NEW i \in Rows, NEW d \in [Hash -> Nat], NEW v, NEW missing, NEW r, RunLeaves(i, d, v, missing, r),
         Fits(i.size), Fits(d)
  PROVE  /\ Fits(r.disk) /\ Fits(r.index.size)
         /\ Range(i.order) = {} => r.size = Total(Range(r.index.order), r.index.size)
  <1>1. Fits(r.disk) /\ Fits(r.index.size)
    BY Zenon DEF Fits, RunLeaves
  <1>2. ASSUME Range(i.order) = {} PROVE r.size = Total(Range(r.index.order), r.index.size)
    <2>1. /\ Range(r.index.order) = (Range(i.order) \ Broken(i, d, v, missing)) \union Fresh(i, d, v, missing)
          /\ r.size = Total(Walked(d) \ Broken(i, d, v, missing), r.index.size) % Modulus
          /\ r.index \in Rows
      BY Zenon DEF RunLeaves
    <2>2. Range(r.index.order) = Walked(d) \ Broken(i, d, v, missing)
      BY <1>2, <2>1, Zenon DEF Fresh
    <2>3. r.size = Total(Range(r.index.order), r.index.size) % Modulus
      BY <2>1, <2>2, Zenon
    <2>4. r.index.size \in [Hash -> Nat] /\ Range(r.index.order) \in SUBSET Hash
      BY <2>1, RowsFinite, Zenon DEF Rows
    <2> QED
      BY <1>1, <2>3, <2>4, FittingSum, Zenon
  <1> QED
    BY <1>1, <1>2, Zenon

\* The sizes and the account at the start.
LEMMA AccountInit == CleanerInit => SizeInv /\ AccountInv
  <1> SUFFICES ASSUME CleanerInit PROVE SizeInv /\ AccountInv
    BY Zenon
  <1>1. PICK d \in [Hash -> Nat], v \in [Hash -> 0 .. kManifestVersion], missing \in SUBSET Hash :
          /\ \A h \in Hash : d[h] \in {0} \union Sizes(h)
          /\ \E r \in Run(EmptyIndex, d, v, missing) :
               /\ index = r.index /\ committed = r.index /\ disk = r.disk /\ cache_size_ = r.size
    BY InitGives, Zenon
  <1>2. PICK r \in Run(EmptyIndex, d, v, missing) :
               /\ index = r.index /\ committed = r.index /\ disk = r.disk /\ cache_size_ = r.size
    BY <1>1, Zenon
  <1>3. RunLeaves(EmptyIndex, d, v, missing, r)
    BY StartTypes, RunGives, Zenon
  <1>4. Fits(EmptyIndex.size) /\ Fits(d)
    BY <1>1, Zenon DEF Fits, EmptyIndex
  <1>5. /\ Fits(r.disk) /\ Fits(r.index.size)
        /\ r.size = Total(Range(r.index.order), r.index.size)
    <2>1. EmptyIndex \in Rows /\ Range(EmptyIndex.order) = {} /\ d \in [Hash -> Nat]
      BY <1>1, StartTypes, Zenon
    <2> QED
      BY <1>3, <1>4, <2>1, RunFits
  <1>6. cleaner.pc = "idle"
    BY Zenon DEF CleanerInit, Resting
  <1> QED
    BY <1>2, <1>5, <1>6, Zenon DEF SizeInv, AccountInv

\* Sizes come from stores and from the disk.
LEMMA SizesStep ==
  ASSUME CleanerTypeOK, IndexInv, SizeInv, [CleanerNext]_cleanerVars
  PROVE  SizeInv'
  <1>0. /\ disk \in [Hash -> Nat] /\ version \in [Hash -> 0 .. kManifestVersion]
        /\ index \in Rows /\ committed \in Rows /\ \A u \in User : user[u].hash \in Hash
        /\ index.size \in [Hash -> Nat]
    BY Zenon DEF CleanerTypeOK, Using, Rows
  <1>1. cleaner.hash \in Hash /\ cleaner.size \in Nat /\ cleaner.list \in Lists
    BY Zenon DEF CleanerTypeOK, Cleaning
  <1>2. CASE Crash
    <2>1. PICK r \in Run(Opened, disk, version, {}) : index' = r.index /\ committed' = r.index /\ disk' = r.disk
      BY <1>2, Zenon DEF Crash
    <2>2. Opened \in Rows /\ Fits(Opened.size)
      BY <1>0, StartTypes, Zenon DEF Opened, SizeInv, EmptyIndex, Fits
    <2>3. RunLeaves(Opened, disk, version, {}, r)
      BY <1>0, <2>2, RunGives, Zenon
    <2>4. Fits(r.disk) /\ Fits(r.index.size)
      BY <1>0, <2>2, <2>3, RunFits, Zenon DEF SizeInv
    <2>5. cleaner'.pc = "idle"
      BY <1>2, CleanerMoves, Zenon
    <2> QED
      BY <2>1, <2>4, <2>5, Zenon DEF SizeInv
  <1>3. ASSUME ~Crash PROVE Fits(index.size)' /\ Fits(committed.size)'
    <2>1. ASSUME NEW g \in Hash PROVE Fits(Drop(index, g).size)
      <3>1. Drop(index, g).size = [index.size EXCEPT ![g] = 0]
        BY <1>0, DropGives, Zenon
      <3> QED
        BY <1>0, <3>1, Zenon DEF SizeInv, Fits
    <2>2. ASSUME NEW g \in Hash, NEW s \in Nat, s \in {0} \union Sizes(g) PROVE Fits(Set(index, g, s).size)
      <3>1. Set(index, g, s).size = [index.size EXCEPT ![g] = s]
        BY <1>0, SetGives, Zenon
      <3> QED
        BY <1>0, <2>2, <3>1, Zenon DEF SizeInv, Fits
    <2>3. CASE UNCHANGED index /\ (UNCHANGED committed \/ committed' = index)
      BY <2>3, Zenon DEF SizeInv
    <2>4. CASE \E u \in User : StoreFailed(u) /\ index' = Drop(index, user[u].hash) /\ UNCHANGED committed
      BY <1>0, <2>1, <2>4, Zenon DEF SizeInv
    <2>5. CASE CleanRemove /\ index' = Drop(index, cleaner.hash) /\ UNCHANGED committed
      BY <1>1, <2>1, <2>5, Zenon DEF SizeInv
    <2>6. CASE /\ CleanTouch /\ UNCHANGED committed
               /\ index' = Set(index, FirstNode(cleaner.list), index.size[FirstNode(cleaner.list)])
      <3>1. FirstNode(cleaner.list) \in Hash
        BY <1>1, <2>6, PopGives, Zenon DEF CleanTouch
      <3>2. /\ index.size[FirstNode(cleaner.list)] \in Nat
            /\ index.size[FirstNode(cleaner.list)] \in {0} \union Sizes(FirstNode(cleaner.list))
        BY <1>0, <3>1, Zenon DEF SizeInv, Fits
      <3> QED
        BY <2>2, <2>6, <3>1, <3>2, Zenon DEF SizeInv
    <2>7. CASE CleanInsert /\ index' = Set(index, cleaner.hash, cleaner.size) /\ UNCHANGED committed
      <3>1. cleaner.size \in {0} \union Sizes(cleaner.hash)
        BY <2>7, Zenon DEF CleanInsert, SizeInv
      <3> QED
        BY <1>1, <2>2, <2>7, <3>1, Zenon DEF SizeInv
    <2> QED
      BY <1>3, <2>3, <2>4, <2>5, <2>6, <2>7, IndexMoves, Zenon
  <1>4. ASSUME ~Crash PROVE Fits(disk)'
    <2>1. CASE UNCHANGED disk
      BY <2>1, Zenon DEF SizeInv, Fits
    <2>2. ASSUME NEW g \in Hash, NEW s, s \in {0} \union Sizes(g), disk' = [disk EXCEPT ![g] = s] PROVE Fits(disk)'
      BY <1>0, <2>2, Zenon DEF SizeInv, Fits
    <2>3. ASSUME NEW u \in User, UserStep(u) \/ \E h \in Hash : FindBegin(u, h) \/ StoreBegin(u, h)
          PROVE  \/ UNCHANGED disk \/ disk' = [disk EXCEPT ![user[u].hash] = 0]
                 \/ \E s \in Sizes(user[u].hash) : disk' = [disk EXCEPT ![user[u].hash] = s]
      BY <2>3, Zenon DEF UserStep, FindBegin, StoreBegin, FindEnd, StoreWrite, AppendLoad, AppendLink, AppendHint,
           StoreFailed, StoreRemoveFiles, StoreSubtract
    <2>4. CASE Reset \/ CleanStart \/ CleanTouch \/ CleanMeasure \/ CleanInsert \/ CleanEnd \/ CleanLock
      BY <2>1, <2>4, Zenon DEF Reset, CleanStart, CleanTouch, CleanMeasure, CleanInsert, CleanEnd, CleanLock
    <2>5. CASE CleanRemove
      BY <1>1, <2>2, <2>5, Zenon DEF CleanRemove
    <2>6. CASE UNCHANGED cleanerVars
      BY <2>1, <2>6, Zenon DEF cleanerVars
    <2> QED
      BY <1>0, <1>4, <2>1, <2>2, <2>3, <2>4, <2>5, <2>6, Zenon DEF CleanerNext, CleanStep
  <1>5. ASSUME ~Crash, cleaner'.pc = "insert" PROVE cleaner'.size \in {0} \union Sizes(cleaner'.hash)
    <2>1. CASE UNCHANGED cleaner
      BY <1>5, <2>1, Zenon DEF SizeInv
    <2>2. CASE CleanMeasure
      <3>1. cleaner'.hash = FirstNode(cleaner.list) /\ cleaner'.size = disk[FirstNode(cleaner.list)]
        BY <2>2, CleanerMoves, Zenon
      <3>2. FirstNode(cleaner.list) \in Hash
        BY <1>1, <2>2, PopGives, Zenon DEF CleanMeasure
      <3> QED
        BY <3>1, <3>2, Zenon DEF SizeInv, Fits
    <2>3. ASSUME NEW u \in User, UserStep(u) \/ \E h \in Hash : FindBegin(u, h) \/ StoreBegin(u, h)
          PROVE  UNCHANGED cleaner
      BY <2>3, Zenon DEF UserStep, FindBegin, StoreBegin, FindEnd, StoreWrite, AppendLoad, AppendLink, AppendHint,
           StoreFailed, StoreRemoveFiles, StoreSubtract
    <2>4. CASE Reset \/ UNCHANGED cleanerVars
      BY <2>1, <2>4, Zenon DEF Reset, cleanerVars
    <2>5. CASE CleanStart \/ CleanTouch \/ CleanInsert \/ CleanEnd \/ CleanLock \/ CleanRemove
      BY <1>5, <2>5, CleanerMoves, Zenon
    <2> QED
      BY <1>5, <2>1, <2>2, <2>3, <2>4, <2>5, Zenon DEF CleanerNext, CleanStep
  <1> QED
    BY <1>2, <1>3, <1>4, <1>5, Zenon DEF SizeInv, Fits

\* What disturbs the account stays.
LEMMA UndisturbedBefore ==
  ASSUME CleanerTypeOK, [CleanerNext]_cleanerVars, Undisturbed'
  PROVE  Undisturbed /\ failures' = failures
  <1>0. failures \in Nat /\ crashes \in Nat
    BY Zenon DEF CleanerTypeOK
  <1>1. ASSUME NEW u \in User, UserStep(u) \/ \E h \in Hash : FindBegin(u, h) \/ StoreBegin(u, h)
        PROVE  (failures' = failures \/ failures' = failures + 1) /\ crashes' = crashes
    BY <1>1, Zenon DEF UserStep, FindBegin, StoreBegin, FindEnd, StoreWrite, AppendLoad, AppendLink, AppendHint,
         StoreFailed, StoreRemoveFiles, StoreSubtract
  <1>2. CASE Reset \/ CleanStep
    BY <1>2, Zenon DEF Reset, CleanStep, CleanStart, CleanTouch, CleanMeasure, CleanInsert, CleanEnd, CleanLock,
         CleanRemove, Undisturbed
  <1>3. CASE Crash
    BY <1>0, <1>3 DEF Crash, Undisturbed
  <1>4. CASE UNCHANGED cleanerVars
    BY <1>4, Zenon DEF cleanerVars, Undisturbed
  <1>5. CASE \E u \in User : UserStep(u) \/ \E h \in Hash : FindBegin(u, h) \/ StoreBegin(u, h)
    BY <1>0, <1>1, <1>5 DEF Undisturbed
  <1> QED
    BY <1>2, <1>3, <1>4, <1>5, Zenon DEF CleanerNext

\* The threads that look up and store leave the index and the account alone if no store
\* fails.
LEMMA UserKeepsAccount ==
  ASSUME CleanerTypeOK, ThreadInv, IndexInv, AccountInv, NEW u \in User,
         UserStep(u) \/ \E h \in Hash : FindBegin(u, h) \/ StoreBegin(u, h)
  PROVE  AccountInv'
  <1>0. index \in Rows /\ user[u].hash \in Hash /\ failures \in Nat /\ UserInv(u)
    BY Zenon DEF CleanerTypeOK, Using, ThreadInv
  <1>1. cleaner' = cleaner /\ crashes' = crashes
    BY Zenon DEF UserStep, FindBegin, StoreBegin, FindEnd, StoreWrite, AppendLoad, AppendLink, AppendHint,
           StoreFailed, StoreRemoveFiles, StoreSubtract
  <1>2. CASE StoreFailed(u)
    <2>1. index' = Drop(index, user[u].hash) /\ failures' = failures + 1
      BY <1>2, Zenon DEF StoreFailed
    <2>2. Range(index'.order) \subseteq Range(index.order)
      BY <1>0, <2>1, DropGives, ZenonT(30) DEF IndexInv
    <2>3. ~Undisturbed'
      BY <1>0, <2>1 DEF Undisturbed
    <2> QED
      BY <1>1, <2>2, <2>3, Zenon DEF AccountInv, Indexed
  <1>3. CASE StoreSubtract(u)
    <2>1. failures > 0 /\ UNCHANGED <<index, failures>>
      BY <1>0, <1>3, Zenon DEF StoreSubtract, UserInv
    <2>2. ~Undisturbed'
      BY <1>0, <2>1 DEF Undisturbed
    <2> QED
      BY <1>1, <2>1, <2>2, Zenon DEF AccountInv, Indexed
  <1>4. CASE UNCHANGED <<index, cache_size_, failures>>
    BY <1>1, <1>4, Zenon DEF AccountInv, Indexed, Undisturbed
  <1>5. \/ StoreFailed(u) \/ StoreSubtract(u) \/ UNCHANGED <<index, cache_size_, failures>>
    BY Zenon DEF UserStep, FindBegin, StoreBegin, FindEnd, StoreWrite, AppendLoad, AppendLink, AppendHint, StoreRemoveFiles
  <1> QED
    BY <1>2, <1>3, <1>4, <1>5, Zenon

\* The cleaner accounts for what it enters and removes, and Run() for what it finds.
LEMMA CleanerKeepsAccount ==
  ASSUME CleanerTypeOK, IndexInv, SizeInv, SizeInv', AccountInv, [CleanerNext]_cleanerVars,
         Reset \/ CleanStep \/ Crash
  PROVE  AccountInv'
  <1> DEFINE S == Range(index.order)
             f == index.size
  <1>0. /\ index \in Rows /\ index' \in Rows /\ disk \in [Hash -> Nat] /\ version \in [Hash -> 0 .. kManifestVersion]
        /\ cleaner.hash \in Hash /\ cleaner.size \in Nat /\ cleaner.list \in Lists
        /\ crashes \in Nat
    BY CleanerTypeStep, Zenon DEF CleanerTypeOK, Cleaning
  <1>1. f \in [Hash -> Nat] /\ S \in SUBSET Hash /\ IsFiniteSet(S)
    BY <1>0, RowsFinite, Zenon DEF Rows
  <1>2. index'.size \in [Hash -> Nat] /\ Range(index'.order) \in SUBSET Hash
    BY <1>0, RowsFinite, Zenon DEF Rows
  <1>3. /\ Total(Range(index'.order), index'.size) \in Nat
        /\ Total(Range(index'.order), index'.size) % Modulus = Total(Range(index'.order), index'.size)
    <2>1. Fits(index'.size)
      BY Zenon DEF SizeInv, Fits
    <2> QED
      BY <1>2, <2>1, FittingSum, Zenon
  <1>4. Undisturbed' => Undisturbed
    BY UndisturbedBefore, Zenon
  <1>5. CASE Reset
    BY <1>4, <1>5, Zenon DEF Reset, AccountInv, Indexed
  <1>6. CASE CleanStart \/ CleanEnd
    <2>1. UNCHANGED <<index, cache_size_>>
      BY <1>6, Zenon DEF CleanStart, CleanEnd
    <2>2. cleaner'.pc \in {"pop", "idle"}
      BY <1>6, CleanerMoves, Zenon
    <2> QED
      BY <1>4, <2>1, <2>2, Zenon DEF AccountInv, Indexed
  <1>7. CASE CleanTouch
    <2> DEFINE g == FirstNode(cleaner.list)
    <2>1. g \in Hash
      BY <1>0, <1>7, PopGives, Zenon DEF CleanTouch
    <2>2. g \in S /\ index' = Set(index, g, f[g]) /\ cache_size_' = cache_size_
      BY <1>7, Zenon DEF CleanTouch, Indexed
    <2>3. f[g] \in Nat
      BY <1>1, <2>1, Zenon
    <2> HIDE DEF g
    <2>4. index'.size = [f EXCEPT ![g] = f[g]] /\ Range(index'.order) = S \union {g}
      BY <1>0, <2>1, <2>2, <2>3, SetGives, Zenon DEF IndexInv
    <2>5. index'.size = f /\ Range(index'.order) = S
      BY <1>1, <2>2, <2>4, Zenon
    <2>6. cleaner'.pc = "pop"
      BY <1>7, CleanerMoves, Zenon
    <2> QED
      BY <1>4, <2>2, <2>5, <2>6, Zenon DEF AccountInv
  <1>8. CASE CleanMeasure
    <2>1. UNCHANGED <<index, cache_size_>> /\ ~Indexed(FirstNode(cleaner.list))
      BY <1>8, Zenon DEF CleanMeasure
    <2>2. cleaner'.pc = "insert" /\ cleaner'.hash = FirstNode(cleaner.list)
      BY <1>8, CleanerMoves, Zenon
    <2> QED
      BY <1>4, <2>1, <2>2, Zenon DEF AccountInv, Indexed
  <1>9. CASE CleanInsert
    <2> DEFINE g == cleaner.hash
    <2>1. /\ g \notin S /\ index' = Set(index, g, cleaner.size)
          /\ cache_size_' = (cache_size_ + cleaner.size) % Modulus
      BY <1>9, Zenon DEF CleanInsert, Indexed, AccountInv
    <2>2. index'.size = [f EXCEPT ![g] = cleaner.size] /\ Range(index'.order) = S \union {g}
      BY <1>0, <2>1, SetGives, Zenon DEF IndexInv
    <2>3. cleaner'.pc = "pop"
      BY <1>9, CleanerMoves, Zenon
    <2>4. Total(S \union {g}, index'.size) = Total(S, index'.size) + cleaner.size
      <3>1. \A h \in S \union {g} : index'.size[h] \in Nat
        BY <1>0, <1>1, <1>2, Zenon
      <3>2. index'.size[g] = cleaner.size
        BY <1>0, <1>1, <2>2, Zenon
      <3> HIDE DEF g, S, f
      <3>3. Total(S \union {g}, index'.size) = Total(S, index'.size) + index'.size[g]
        BY <1>1, <2>1, <3>1, TotalAdd, Zenon
      <3> QED
        BY <3>2, <3>3, Zenon
    <2>5. Total(S, f) = Total(S, index'.size)
      <3>1. \A h \in S : f[h] \in Nat /\ f[h] = index'.size[h]
        BY <1>0, <1>1, <2>1, <2>2, Zenon
      <3> QED
        BY <1>1, <3>1, TotalSame, Zenon
    <2>6. ASSUME Undisturbed' PROVE cache_size_' = Total(Range(index'.order), index'.size)
      <3>1. cache_size_ = Total(S, f)
        BY <1>4, <2>6, Zenon DEF AccountInv
      <3> QED
        BY <1>3, <2>1, <2>2, <2>4, <2>5, <3>1, Zenon
    <2> QED
      BY <2>3, <2>6, Zenon DEF AccountInv
  <1>10. CASE CleanLock
    <2>1. UNCHANGED <<index, cache_size_>> /\ index.order # <<>>
      BY <1>10, Zenon DEF CleanLock
    <2>2. cleaner'.pc = "remove" /\ cleaner'.hash = First(index)
      BY <1>10, CleanerMoves, Zenon
    <2>3. First(index) \in S
      BY <1>0, <2>1 DEF First, Rows, Range
    <2> QED
      BY <1>4, <2>1, <2>2, <2>3, Zenon DEF AccountInv, Indexed
  <1>11. CASE CleanRemove
    <2> DEFINE g == cleaner.hash
               T == S \ {g}
    <2>1. index' = Drop(index, g) /\ cache_size_' = (cache_size_ - f[g]) % Modulus /\ cleaner.pc = "remove"
      BY <1>11, Zenon DEF CleanRemove
    <2>2. index'.size = [f EXCEPT ![g] = 0] /\ Range(index'.order) = T
      BY <1>0, <2>1, DropGives, Zenon DEF IndexInv
    <2>3. cleaner'.pc = "pop"
      BY <1>11, CleanerMoves, Zenon
    <2>4. IsFiniteSet(T) /\ g \notin T /\ \A h \in T \union {g} : f[h] \in Nat
      BY <1>0, <1>1, FS_Subset, Zenon
    <2>5. Total(T \union {g}, f) = Total(T, f) + f[g] /\ Total(T, f) \in Nat
      BY <2>4, TotalAdd, Zenon
    <2>6. Total(T, f) = Total(T, index'.size)
      <3>1. \A h \in T : f[h] \in Nat /\ f[h] = index'.size[h]
        BY <1>0, <1>1, <2>2, Zenon
      <3> QED
        BY <2>4, <3>1, TotalSame, Zenon
    <2>7. ASSUME Undisturbed' PROVE cache_size_' = Total(Range(index'.order), index'.size)
      <3>1. cache_size_ = Total(S, f) /\ g \in S
        BY <1>4, <2>1, <2>7, Zenon DEF AccountInv, Indexed
      <3>2. T \union {g} = S
        BY <3>1, Zenon
      <3>3. f[g] \in Nat
        BY <2>4, Zenon
      <3>5. Total(S, f) = Total(T, f) + f[g] /\ Total(T, f) \in Nat
        BY <2>5, <3>2, Zenon
      <3>4. cache_size_ - f[g] = Total(T, f)
        <4> HIDE DEF f, g, S, T
        <4> QED BY <3>1, <3>3, <3>5
      <3> QED
        BY <1>3, <2>1, <2>2, <2>6, <3>4, Zenon
    <2> QED
      BY <2>3, <2>7, Zenon DEF AccountInv
  <1>12. CASE Crash
    <2>1. PICK r \in Run(Opened, disk, version, {}) : index' = r.index /\ cache_size_' = r.size
      BY <1>12, Zenon DEF Crash
    <2>2. cleaner'.pc = "idle"
      BY <1>12, CleanerMoves, Zenon
    <2>3. ASSUME Undisturbed' PROVE cache_size_' = Total(Range(index'.order), index'.size)
      <3>1. crashes' > 0
        BY <1>0, <1>12 DEF Crash
      <3>2. Opened = EmptyIndex
        BY <2>3, <3>1, Zenon DEF Undisturbed, Opened
      <3>3. RunLeaves(Opened, disk, version, {}, r)
        BY <1>0, <3>2, StartTypes, RunGives, Zenon
      <3>4. Fits(EmptyIndex.size) /\ Fits(disk)
        BY Zenon DEF Fits, EmptyIndex, SizeInv
      <3> QED
        <4>1. EmptyIndex \in Rows /\ Range(EmptyIndex.order) = {} /\ disk \in [Hash -> Nat]
          BY <1>0, StartTypes, Zenon
        <4>2. RunLeaves(EmptyIndex, disk, version, {}, r)
          BY <3>2, <3>3, Zenon
        <4>3. r.size = Total(Range(r.index.order), r.index.size)
          BY <3>4, <4>1, <4>2, RunFits
        <4> QED
          BY <2>1, <4>3, Zenon
    <2> QED
      BY <2>2, <2>3, Zenon DEF AccountInv
  <1> QED
    BY <1>5, <1>6, <1>7, <1>8, <1>9, <1>10, <1>11, <1>12, Zenon DEF CleanStep

AccountAll == CleanerTypeOK /\ ThreadInv /\ IndexInv /\ SizeInv /\ AccountInv

\* The account in every step.
LEMMA AccountStep == AccountAll /\ [CleanerNext]_cleanerVars => AccountAll'
  <1> SUFFICES ASSUME AccountAll, [CleanerNext]_cleanerVars PROVE AccountAll'
    BY Zenon
  <1>1. CleanerTypeOK' /\ ThreadInv' /\ IndexInv' /\ SizeInv'
    BY CleanerTypeStep, ThreadsStep, IndexStep, SizesStep, Zenon DEF AccountAll
  <1>2. ASSUME UNCHANGED cleanerVars PROVE AccountInv'
    <2>1. UNCHANGED <<index, cleaner, cache_size_, failures, crashes>>
      BY <1>2, Zenon DEF cleanerVars
    <2> QED
      BY <2>1, Zenon DEF AccountAll, AccountInv, Indexed, Undisturbed
  <1>3. ASSUME NEW u \in User, UserStep(u) \/ \E h \in Hash : FindBegin(u, h) \/ StoreBegin(u, h)
        PROVE  AccountInv'
    BY <1>3, UserKeepsAccount, Zenon DEF AccountAll
  <1>4. ASSUME Reset \/ CleanStep \/ Crash PROVE AccountInv'
    BY <1>1, <1>4, CleanerKeepsAccount, Zenon DEF AccountAll
  <1>5. AccountInv'
    BY <1>2, <1>3, <1>4, Zenon DEF CleanerNext
  <1> QED
    BY <1>1, <1>5, Zenon DEF AccountAll

\* The account is the sum over the index as long as no store failed and no index was
\* restored after a kill, however lookups, stores and the steps of Clean() interleave.
THEOREM CleanerAccounts == CleanerSpec => []AccountingExact
  <1>1. CleanerInit => AccountAll
    BY CleanerTypeInit, ThreadsInit, IndexInit, AccountInit, Zenon DEF AccountAll
  <1>2. AccountAll => AccountingExact
    BY Zenon DEF AccountAll, IndexInv, AccountInv, AccountingExact
  <1> QED
    BY <1>1, <1>2, AccountStep, PTL DEF CleanerSpec

FirstExistsUndisturbed == Undisturbed => FirstExists

\* CHECK(entries_->First(...)) in Clean() holds as long as no store failed and no index was
\* restored: while the account is above max_size_, the index has an entry to remove.
THEOREM CleanerFindsFirst == CleanerSpec => []FirstExistsUndisturbed
  <1>1. CleanerInit => AccountAll
    BY CleanerTypeInit, ThreadsInit, IndexInit, AccountInit, Zenon DEF AccountAll
  <1>2. AccountAll => FirstExistsUndisturbed
    <2> SUFFICES ASSUME AccountAll, Undisturbed, Overused, index.order = <<>> PROVE FALSE
      BY Zenon DEF FirstExistsUndisturbed, FirstExists
    <2>1. Range(index.order) = {}
      BY DEF Range
    <2>2. cache_size_ = 0
      BY <2>1, TotalEmpty, Zenon DEF AccountAll, AccountInv
    <2> QED
      BY <2>2, CleanerAssumption DEF Overused
  <1> QED
    BY <1>1, <1>2, AccountStep, PTL DEF CleanerSpec
-----------------------------------------------------------------------------
(* DiskBounded *)

Before(u) == user[u].pc \in {"write", "append", "link"}

OnceInv ==
  IsInjective(used) =>
    /\ \A u \in User : user[u].op # "none" => user[u].hash \in Range(used)
    /\ Pending \subseteq Range(used)
    /\ \A u, v \in User : user[u].op # "none" /\ user[v].op # "none" /\ user[u].hash = user[v].hash => u = v
    /\ \A u \in User : Before(u) => user[u].hash \notin Pending

Steady == Undisturbed /\ OneSizeEach /\ IsInjective(used)

DiskInv ==
  Steady =>
    /\ \A h \in Hash : Indexed(h) => disk[h] <= index.size[h]
    /\ \A h \in Hash : Indexed(h) /\ index.size[h] = 0 => h \in Range(used)
    /\ \A u \in User : user[u].pc = "write" /\ Indexed(user[u].hash) => index.size[user[u].hash] # 0
    /\ cleaner.pc = "insert" => disk[cleaner.hash] <= cleaner.size

\* Only the beginning of a lookup or a store uses a hash.
LEMMA UsedMoves ==
  ASSUME CleanerTypeOK, [CleanerNext]_cleanerVars
  PROVE  \/ used' = used
         \/ \E u \in User, h \in Hash : FindBegin(u, h) \/ StoreBegin(u, h)
  BY Zenon DEF CleanerNext, UserStep, CleanStep, FindEnd, StoreWrite, AppendLoad, AppendLink, AppendHint,
         StoreFailed, StoreRemoveFiles, StoreSubtract, Reset, CleanStart, CleanTouch, CleanMeasure,
         CleanInsert, CleanEnd, CleanLock, CleanRemove, Crash, cleanerVars

\* The hash of a lookup or a store that begins was not used before, if none is used twice.
LEMMA BeginGives ==
  ASSUME CleanerTypeOK, ThreadInv, OnceInv, NEW u \in User, NEW h \in Hash,
         FindBegin(u, h) \/ StoreBegin(u, h), IsInjective(used')
  PROVE  /\ IsInjective(used) /\ h \notin Range(used) /\ Range(used') = Range(used) \union {h}
         /\ Pending' = Pending
         /\ \E o \in {"find", "store"}, l \in {"append", "write"} : Enters(u, h, o, l)
  <1>0. used \in Seq(Hash) /\ RestInv
    BY Zenon DEF CleanerTypeOK, ThreadInv
  <1>1. used' = Append(used, h)
    BY Zenon DEF FindBegin, StoreBegin, Begin
  <1>2. /\ Range(Append(used, h)) = Range(used) \union {h}
        /\ IsInjective(Append(used, h)) <=> (IsInjective(used) /\ h \notin Range(used))
    BY <1>0, AppendGives
  <1>3. Pending' = Pending
    BY <1>0, PendingSame, Zenon
  <1>4. Enters(u, h, "find", "append") \/ Enters(u, h, "store", "write")
    BY UserMoves, Zenon DEF FindBegin, StoreBegin
  <1> QED
    BY <1>1, <1>2, <1>3, <1>4, Zenon

\* Threads that work on different hashes link different hashes.
LEMMA OnceStep ==
  ASSUME CleanerTypeOK, ThreadInv, OnceInv, [CleanerNext]_cleanerVars
  PROVE  OnceInv'
  <1> SUFFICES ASSUME IsInjective(used') PROVE OnceInv'
    BY Zenon DEF OnceInv
  <1>0. RestInv /\ \A u \in User : UserInv(u)
    BY Zenon DEF ThreadInv
  <1>1. ASSUME NEW u \in User, NEW h \in Hash, FindBegin(u, h) \/ StoreBegin(u, h) PROVE OnceInv'
    <2>1. /\ IsInjective(used) /\ h \notin Range(used) /\ Range(used') = Range(used) \union {h}
          /\ Pending' = Pending
      BY <1>1, BeginGives, Zenon
    <2>2. PICK o \in {"find", "store"}, l \in {"append", "write"} : Enters(u, h, o, l)
      BY <1>1, BeginGives, Zenon
    <2>3. user'[u].hash = h /\ \A v \in User \ {u} : user'[v] = user[v]
      BY <2>2, Zenon DEF Enters, OnlyMoves
    <2>4. h \notin Pending /\ \A v \in User : user[v].op # "none" => user[v].hash # h
      BY <2>1, Zenon DEF OnceInv
    <2> QED
      <3>1. /\ \A v \in User : user[v].op # "none" => user[v].hash \in Range(used)
            /\ Pending \subseteq Range(used)
            /\ \A v, w \in User : user[v].op # "none" /\ user[w].op # "none" /\ user[v].hash = user[w].hash => v = w
            /\ \A v \in User : Before(v) => user[v].hash \notin Pending
        BY <2>1, Zenon DEF OnceInv
      <3>2. \A v \in User : user'[v].op # "none" => user'[v].hash \in Range(used')
        BY <2>1, <2>3, <3>1, Zenon
      <3>3. Pending' \subseteq Range(used')
        BY <2>1, <3>1, Zenon
      <3>4. \A v, w \in User : user'[v].op # "none" /\ user'[w].op # "none" /\ user'[v].hash = user'[w].hash => v = w
        BY <2>3, <2>4, <3>1
      <3>5. \A v \in User : Before(v)' => user'[v].hash \notin Pending'
        BY <2>1, <2>3, <2>4, <3>1, Zenon DEF Before
      <3> QED
        BY <3>2, <3>3, <3>4, <3>5, Zenon DEF OnceInv
  <1>2. ASSUME used' = used, Pending' \subseteq Pending,
               \A v \in User : user'[v].op # "none" =>
                  user[v].op # "none" /\ user'[v].hash = user[v].hash /\ (Before(v)' => Before(v)),
               \A v \in User : Before(v)' => user'[v].op # "none"
        PROVE  OnceInv'
    <2>1. IsInjective(used)
      BY <1>2, Zenon
    <2>2. /\ \A u \in User : user'[u].op # "none" => user'[u].hash \in Range(used)
          /\ Pending' \subseteq Range(used)
          /\ \A u \in User : Before(u)' => user'[u].hash \notin Pending'
      BY <1>2, <2>1, Zenon DEF OnceInv
    <2>3. \A u, v \in User : user'[u].op # "none" /\ user'[v].op # "none" /\ user'[u].hash = user'[v].hash => u = v
      BY <1>2, <2>1, Zenon DEF OnceInv
    <2> QED
      BY <1>2, <2>2, <2>3, Zenon DEF OnceInv
  <1>3. ASSUME NEW u \in User, NEW l, Goes(u, l), Before(u), user[u].op # "none", used' = used, Pending' = Pending
        PROVE  OnceInv'
    <2>1. \A v \in User : user'[v].op = user[v].op /\ user'[v].hash = user[v].hash /\ (Before(v)' => Before(v))
      BY <1>3, Zenon DEF Goes, Enters, OnlyMoves, Before
    <2>2. \A v \in User : Before(v) => user[v].op # "none"
      BY <1>0, Zenon DEF Before, UserInv
    <2> QED
      BY <1>2, <1>3, <2>1, <2>2, Zenon
  <1>4. ASSUME NEW u \in User, Leaves(u) \/ Goes(u, "read") \/ Goes(u, "files") \/ Goes(u, "subtract"),
               user[u].op # "none", used' = used, Pending' = Pending
        PROVE  OnceInv'
    <2>1. /\ OnlyMoves(u) /\ ~Before(u)'
          /\ user'[u].op # "none" => user'[u].op = user[u].op /\ user'[u].hash = user[u].hash
      BY <1>4, Zenon DEF Goes, Leaves, Enters, Before
    <2>2. \A v \in User : user'[v].op # "none" =>
             user[v].op # "none" /\ user'[v].hash = user[v].hash /\ (Before(v)' => Before(v))
      BY <1>4, <2>1, Zenon DEF OnlyMoves, Before
    <2>3. \A v \in User : Before(v)' => user'[v].op # "none"
      BY <1>0, <2>1, Zenon DEF Before, UserInv, OnlyMoves
    <2> QED
      BY <1>2, <1>4, <2>2, <2>3, Zenon
  <1>5. ASSUME NEW u \in User, UserStep(u) PROVE used' = used /\ user[u].op # "none"
    BY <1>0, <1>5, Zenon DEF UserStep, FindEnd, StoreWrite, AppendLoad, AppendLink, AppendHint,
         StoreFailed, StoreRemoveFiles, StoreSubtract, UserInv
  <1>6. ASSUME NEW u \in User, StoreWrite(u) \/ AppendLoad(u) PROVE OnceInv'
    <2>1. Pending' = Pending
      BY <1>0, <1>6, PendingSame, Zenon
    <2>2. Before(u) /\ \E l : Goes(u, l)
      BY <1>6, UserMoves, Zenon DEF StoreWrite, AppendLoad, Before
    <2> QED
      BY <1>3, <1>5, <1>6, <2>1, <2>2, Zenon DEF UserStep
  <1>7. ASSUME NEW u \in User,
               FindEnd(u) \/ AppendHint(u) \/ StoreFailed(u) \/ StoreRemoveFiles(u) \/ StoreSubtract(u)
        PROVE  OnceInv'
    <2>1. Pending' = Pending
      BY <1>0, <1>7, PendingSame, Zenon
    <2>2. Leaves(u) \/ Goes(u, "read") \/ Goes(u, "files") \/ Goes(u, "subtract")
      BY <1>7, UserMoves, Zenon
    <2> QED
      BY <1>4, <1>5, <1>7, <2>1, <2>2, Zenon DEF UserStep
  <1>8. ASSUME NEW u \in User, AppendLink(u) PROVE OnceInv'
    <2> DEFINE r == Link(new_entries_, user[u].node, user[u].hash)
    <2>1. used' = used /\ user[u].op # "none" /\ Before(u)
      BY <1>5, <1>8, Zenon DEF UserStep, AppendLink, Before
    <2>2. /\ Pending' = Pending \union (IF r.linked THEN {user[u].hash} ELSE {})
          /\ IF r.linked THEN Goes(u, "hint") ELSE Goes(u, "link")
      BY <1>8, PendingChanges, UserMoves, Zenon
    <2> HIDE DEF r
    <2>3. CASE ~r.linked
      BY <1>3, <2>1, <2>2, <2>3, Zenon
    <2>4. CASE r.linked
      <3>1. IsInjective(used)
        BY <2>1, Zenon
      <3>2. /\ \A v \in User : user'[v].op = user[v].op /\ user'[v].hash = user[v].hash
            /\ ~Before(u)' /\ \A v \in User \ {u} : Before(v)' <=> Before(v)
        BY <2>2, <2>4, Zenon DEF Goes, Enters, OnlyMoves, Before
      <3>3. Pending' \subseteq Range(used')
        BY <2>1, <2>2, <2>4, <3>1, Zenon DEF OnceInv
      <3>4. ASSUME NEW v \in User, Before(v)' PROVE user'[v].hash \notin Pending'
        <4>1. v # u /\ Before(v) /\ user[v].op # "none"
          BY <1>0, <3>2, <3>4, Zenon DEF Before, UserInv
        <4>2. user[v].hash # user[u].hash /\ user[v].hash \notin Pending
          BY <2>1, <3>1, <4>1, Zenon DEF OnceInv
        <4> QED
          BY <2>2, <2>4, <3>2, <4>2, Zenon
      <3>5. \A v \in User : user'[v].op # "none" => user'[v].hash \in Range(used')
        BY <2>1, <3>1, <3>2, Zenon DEF OnceInv
      <3>6. \A v, w \in User : user'[v].op # "none" /\ user'[w].op # "none" /\ user'[v].hash = user'[w].hash => v = w
        BY <3>1, <3>2, Zenon DEF OnceInv
      <3> QED
        BY <3>3, <3>4, <3>5, <3>6, Zenon DEF OnceInv
    <2> QED
      BY <2>3, <2>4, Zenon
  <1>9. ASSUME user' = user, used' = used, Pending' \subseteq Pending PROVE OnceInv'
    <2>1. \A v \in User : Before(v) => user[v].op # "none"
      BY <1>0, Zenon DEF Before, UserInv
    <2> QED
      BY <1>2, <1>9, <2>1, Zenon DEF Before
  <1>10. CASE Reset \/ CleanStep \/ UNCHANGED cleanerVars
    <2>1. Pending' \subseteq Pending
      BY <1>0, <1>10, PendingSame, PendingChanges, Zenon DEF CleanStep
    <2>2. user' = user /\ used' = used
      BY <1>10, Zenon DEF Reset, CleanStep, CleanStart, CleanTouch, CleanMeasure, CleanInsert, CleanEnd, CleanLock,
         CleanRemove, cleanerVars
    <2> QED
      BY <1>9, <2>1, <2>2, Zenon
  <1>11. CASE Crash
    <2>1. Pending' = {} /\ used' = used /\ \A v \in User : user'[v].op = "none" /\ user'[v].pc = "idle"
      BY <1>11, PendingChanges, Zenon DEF Crash, Outside
    <2> QED
      BY <1>2, <2>1, Zenon DEF Before
  <1> QED
    BY <1>1, <1>6, <1>7, <1>8, <1>10, <1>11, Zenon DEF CleanerNext, UserStep

\* No hash was used twice before if none is now.
LEMMA SteadyBefore ==
  ASSUME CleanerTypeOK, ThreadInv, OnceInv, [CleanerNext]_cleanerVars, Steady'
  PROVE  Steady /\ failures' = failures /\ failures = 0
  <1>1. Undisturbed /\ failures' = failures /\ failures = 0
    BY UndisturbedBefore, Zenon DEF Steady, Undisturbed
  <1>2. IsInjective(used)
    BY UsedMoves, BeginGives, Zenon DEF Steady
  <1> QED
    BY <1>1, <1>2, Zenon DEF Steady, OneSizeEach

\* The index has at least the sizes that the files have: the threads that look up and store.
LEMMA UserKeepsDisk ==
  ASSUME AccountAll, OnceInv, DiskInv, Steady, Steady', failures' = failures, failures = 0,
         NEW u \in User, UserStep(u) \/ \E h \in Hash : FindBegin(u, h) \/ StoreBegin(u, h)
  PROVE  DiskInv'
  <1>0. /\ CleanerTypeOK /\ ThreadInv /\ SizeInv /\ UserInv(u) /\ user[u].hash \in Hash
        /\ disk \in [Hash -> Nat] /\ index.size \in [Hash -> Nat] /\ cleaner.hash \in Hash
    BY Zenon DEF AccountAll, ThreadInv, CleanerTypeOK, Using, Rows, Cleaning
  <1>1. /\ \A h \in Hash : Indexed(h) => disk[h] <= index.size[h]
        /\ \A h \in Hash : Indexed(h) /\ index.size[h] = 0 => h \in Range(used)
        /\ \A v \in User : user[v].pc = "write" /\ Indexed(user[v].hash) => index.size[user[v].hash] # 0
        /\ cleaner.pc = "insert" => disk[cleaner.hash] <= cleaner.size
    BY Zenon DEF DiskInv
  <1>2. ASSUME UNCHANGED <<index, disk, cleaner, used>>,
               \A v \in User : user'[v].pc = "write" => user[v].pc = "write" /\ user'[v].hash = user[v].hash
        PROVE  DiskInv'
    BY <1>1, <1>2, Zenon DEF DiskInv, Indexed
  <1>3. ASSUME NEW l \in {"append", "link", "hint", "read"}, Goes(u, l), NEW v \in User, user'[v].pc = "write"
        PROVE  user[v].pc = "write" /\ user'[v].hash = user[v].hash
    BY <1>3, Zenon DEF Goes, Enters, OnlyMoves
  <1>4. ASSUME Leaves(u), NEW v \in User, user'[v].pc = "write"
        PROVE  user[v].pc = "write" /\ user'[v].hash = user[v].hash
    BY <1>4, Zenon DEF Leaves, OnlyMoves
  <1>5. ASSUME NEW h \in Hash, FindBegin(u, h) \/ StoreBegin(u, h) PROVE DiskInv'
    <2>1. /\ h \notin Range(used) /\ Range(used') = Range(used) \union {h}
      BY <1>0, <1>5, BeginGives, Zenon DEF Steady
    <2>2. UNCHANGED <<index, disk, cleaner>>
      BY <1>5, Zenon DEF FindBegin, StoreBegin
    <2>3. user'[u].hash = h /\ OnlyMoves(u)
      BY <1>0, <1>5, UserMoves, Zenon DEF FindBegin, StoreBegin, Enters
    <2>4. Indexed(h) => index.size[h] # 0
      BY <1>1, <2>1, Zenon
    <2>5. \A v \in User : user'[v].pc = "write" /\ Indexed(user'[v].hash) => index.size[user'[v].hash] # 0
      BY <1>1, <2>3, <2>4, Zenon DEF OnlyMoves
    <2> QED
      BY <1>1, <2>1, <2>2, <2>5, Zenon DEF DiskInv, Indexed
  <1>6. CASE FindEnd(u)
    BY <1>0, <1>2, <1>4, <1>6, UserMoves, Zenon DEF FindEnd
  <1>7. CASE AppendLoad(u)
    BY <1>0, <1>2, <1>3, <1>7, UserMoves, Zenon DEF AppendLoad
  <1>8. CASE AppendLink(u)
    <2>1. Goes(u, "hint") \/ Goes(u, "link")
      BY <1>0, <1>8, UserMoves, Zenon
    <2> QED
      BY <1>2, <1>3, <1>8, <2>1, Zenon DEF AppendLink
  <1>9. CASE AppendHint(u)
    <2>1. Goes(u, "read") \/ Leaves(u)
      BY <1>0, <1>9, UserMoves, Zenon
    <2> QED
      BY <1>2, <1>3, <1>4, <1>9, <2>1, Zenon DEF AppendHint
  <1>10. CASE StoreWrite(u)
    <2> DEFINE g == user[u].hash
    <2>1. PICK s \in Sizes(g) : disk' = [disk EXCEPT ![g] = s]
      BY <1>10, Zenon DEF StoreWrite
    <2>2. UNCHANGED <<index, cleaner, used>> /\ Goes(u, "append") /\ user[u].pc = "write"
      BY <1>0, <1>10, UserMoves, Zenon DEF StoreWrite
    <2>3. s \in Nat
      BY <1>0, CleanerAssumption, Zenon
    <2>4. Indexed(g) => index.size[g] = s
      <3>1. Indexed(g) => index.size[g] \in Sizes(g)
        BY <1>0, <1>1, <2>2, Zenon DEF SizeInv, Fits
      <3> QED
        BY <1>0, <3>1, Zenon DEF Steady, OneSizeEach
    <2>5. ASSUME NEW h \in Hash, Indexed(h) PROVE disk'[h] <= index.size[h]
      <3>1. h # g => disk'[h] = disk[h]
        BY <1>0, <2>1, Zenon
      <3>2. disk'[g] = s
        BY <1>0, <2>1, Zenon
      <3>3. disk[h] <= index.size[h] /\ s \in Nat
        BY <1>1, <2>3, <2>5, Zenon
      <3>4. CASE h = g
        BY <2>4, <2>5, <3>2, <3>3, <3>4
      <3> QED
        BY <3>1, <3>3, <3>4, Zenon
    <2>6. cleaner.pc = "insert" => disk'[cleaner.hash] <= cleaner.size
      <3>1. cleaner.pc = "insert" => cleaner.hash # g
        <4>1. g \notin Pending
          BY <2>2, Zenon DEF OnceInv, Steady, Before
        <4> QED
          BY <4>1, PendingIs, Zenon
      <3> QED
        BY <1>0, <1>1, <2>1, <3>1, Zenon
    <2> HIDE DEF g
    <2> QED
      BY <1>1, <1>3, <2>2, <2>5, <2>6, Zenon DEF DiskInv, Indexed
  <1>11. ~(StoreFailed(u) \/ StoreRemoveFiles(u) \/ StoreSubtract(u))
    BY <1>0 DEF StoreFailed, StoreRemoveFiles, StoreSubtract, UserInv
  <1> QED
    BY <1>5, <1>6, <1>7, <1>8, <1>9, <1>10, <1>11, Zenon DEF UserStep

\* The same for the cleaner, the resetter and a restart.
LEMMA CleanerKeepsDisk ==
  ASSUME AccountAll, OnceInv, DiskInv, Steady, Steady', Reset \/ CleanStep \/ Crash
  PROVE  DiskInv'
  <1>0. /\ CleanerTypeOK /\ ThreadInv /\ SizeInv /\ IndexInv
        /\ disk \in [Hash -> Nat] /\ index \in Rows /\ index.size \in [Hash -> Nat]
        /\ cleaner.hash \in Hash /\ cleaner.size \in Nat /\ cleaner.list \in Lists
        /\ version \in [Hash -> 0 .. kManifestVersion] /\ crashes \in Nat
    BY Zenon DEF AccountAll, ThreadInv, CleanerTypeOK, Using, Rows, Cleaning
  <1>1. /\ \A h \in Hash : Indexed(h) => disk[h] <= index.size[h]
        /\ \A h \in Hash : Indexed(h) /\ index.size[h] = 0 => h \in Range(used)
        /\ \A v \in User : user[v].pc = "write" /\ Indexed(user[v].hash) => index.size[user[v].hash] # 0
        /\ cleaner.pc = "insert" => disk[cleaner.hash] <= cleaner.size
    BY Zenon DEF DiskInv
  <1>2. ASSUME UNCHANGED <<index, disk, user, used>>,
               cleaner'.pc = "insert" => disk[cleaner'.hash] <= cleaner'.size
        PROVE  DiskInv'
    BY <1>1, <1>2, Zenon DEF DiskInv, Indexed
  <1>3. CASE Reset
    BY <1>1, <1>2, <1>3, Zenon DEF Reset
  <1>4. CASE CleanStart \/ CleanEnd \/ CleanLock
    <2>1. cleaner'.pc # "insert"
      BY <1>0, <1>4, CleanerMoves, Zenon
    <2> QED
      BY <1>2, <1>4, <2>1, Zenon DEF CleanStart, CleanEnd, CleanLock
  <1>5. CASE CleanMeasure
    <2>1. cleaner'.hash = FirstNode(cleaner.list) /\ cleaner'.size = disk[FirstNode(cleaner.list)]
      BY <1>0, <1>5, CleanerMoves, Zenon
    <2>2. FirstNode(cleaner.list) \in Hash
      BY <1>0, <1>5, PopGives, Zenon DEF CleanMeasure
    <2>3. disk[FirstNode(cleaner.list)] \in Nat
      BY <1>0, <2>2, Zenon
    <2>4. disk[cleaner'.hash] <= cleaner'.size
      BY <2>1, <2>3
    <2> QED
      BY <1>2, <1>5, <2>4, Zenon DEF CleanMeasure
  <1>6. CASE CleanTouch
    <2> DEFINE g == FirstNode(cleaner.list)
    <2>1. g \in Hash
      BY <1>0, <1>6, PopGives, Zenon DEF CleanTouch
    <2>2. Indexed(g) /\ index' = Set(index, g, index.size[g]) /\ UNCHANGED <<disk, user, used>>
      BY <1>6, Zenon DEF CleanTouch
    <2>3. index.size[g] \in Nat
      BY <1>0, <2>1, Zenon
    <2>4. cleaner'.pc = "pop"
      BY <1>0, <1>6, CleanerMoves, Zenon
    <2> HIDE DEF g
    <2>5. index'.size = [index.size EXCEPT ![g] = index.size[g]] /\ Range(index'.order) = Range(index.order) \union {g}
      BY <1>0, <2>1, <2>2, <2>3, SetGives, Zenon DEF IndexInv
    <2>6. index'.size = index.size /\ Range(index'.order) = Range(index.order)
      BY <1>0, <2>2, <2>5, Zenon DEF Indexed
    <2> QED
      BY <1>1, <2>2, <2>4, <2>6, Zenon DEF DiskInv, Indexed
  <1>7. CASE CleanInsert
    <2> DEFINE g == cleaner.hash
    <2>1. /\ index' = Set(index, g, cleaner.size) /\ UNCHANGED <<disk, user, used>> /\ cleaner.pc = "insert"
      BY <1>7, Zenon DEF CleanInsert
    <2>2. index'.size = [index.size EXCEPT ![g] = cleaner.size] /\ Range(index'.order) = Range(index.order) \union {g}
      BY <1>0, <2>1, SetGives, ZenonT(30) DEF IndexInv
    <2>3. cleaner'.pc = "pop"
      BY <1>0, <1>7, CleanerMoves, Zenon
    <2>4. g \in Pending
      BY <2>1, PendingIs, Zenon
    <2>5. g \in Range(used) /\ \A v \in User : user[v].pc = "write" => user[v].hash # g
      BY <2>4, Zenon DEF OnceInv, Steady, Before
    <2>6. index'.size[g] = cleaner.size /\ \A h \in Hash : h # g => index'.size[h] = index.size[h]
      BY <1>0, <2>2, Zenon
    <2>7. \A v \in User : user[v].hash \in Hash
      BY <1>0, Zenon DEF CleanerTypeOK, Using
    <2>8. /\ \A h \in Hash : h \in Range(index'.order) => disk[h] <= index'.size[h]
          /\ \A h \in Hash : h \in Range(index'.order) /\ index'.size[h] = 0 => h \in Range(used)
      BY <1>1, <2>1, <2>2, <2>5, <2>6, Zenon DEF Indexed
    <2>9. \A v \in User : user[v].pc = "write" /\ user[v].hash \in Range(index'.order) =>
            index'.size[user[v].hash] # 0
      BY <1>1, <2>2, <2>5, <2>6, <2>7, Zenon DEF Indexed
    <2> QED
      BY <2>1, <2>3, <2>8, <2>9, Zenon DEF DiskInv, Indexed
  <1>8. CASE CleanRemove
    <2> DEFINE g == cleaner.hash
    <2>1. index' = Drop(index, g) /\ UNCHANGED <<user, used>> /\ disk' = [disk EXCEPT ![g] = 0]
      BY <1>8, Zenon DEF CleanRemove
    <2>2. index'.size = [index.size EXCEPT ![g] = 0] /\ Range(index'.order) = Range(index.order) \ {g}
      BY <1>0, <2>1, DropGives, Zenon DEF IndexInv
    <2>3. cleaner'.pc = "pop"
      BY <1>0, <1>8, CleanerMoves, Zenon
    <2>4. \A h \in Hash : h # g => index'.size[h] = index.size[h] /\ disk'[h] = disk[h]
      BY <1>0, <2>1, <2>2, Zenon
    <2>5. \A v \in User : user[v].hash \in Hash
      BY <1>0, Zenon DEF CleanerTypeOK, Using
    <2> QED
      BY <1>1, <2>1, <2>2, <2>3, <2>4, <2>5, Zenon DEF DiskInv, Indexed
  <1>9. CASE Crash
    <2>1. PICK r \in Run(Opened, disk, version, {}) : index' = r.index /\ disk' = r.disk
      BY <1>9, Zenon DEF Crash
    <2>2. cleaner'.pc = "idle" /\ \A v \in User : user'[v].pc = "idle"
      BY <1>0, <1>9, CleanerMoves, Zenon DEF Crash, Outside
    <2>3. crashes' > 0
      <3>1. crashes' = crashes + 1
        BY <1>9, Zenon DEF Crash
      <3> QED
        BY <1>0, <3>1
    <2>4. Opened = EmptyIndex
      BY <2>3, Zenon DEF Steady, Undisturbed, Opened
    <2>5. RunLeaves(EmptyIndex, disk, version, {}, r)
      BY <1>0, <2>4, StartTypes, RunGives, Zenon
    <2>6. Range(r.index.order) = Fresh(EmptyIndex, disk, version, {})
      BY <2>5, StartTypes, Zenon DEF RunLeaves
    <2>7. ASSUME NEW h \in Hash, h \in Range(r.index.order) PROVE r.disk[h] <= r.index.size[h] /\ r.index.size[h] # 0
      <3>1. h \in Fresh(EmptyIndex, disk, version, {}) /\ h \notin Broken(EmptyIndex, disk, version, {}) /\ disk[h] > 0
        BY <2>6, <2>7, Zenon DEF Fresh, Walked
      <3>2. r.disk[h] = disk[h] /\ r.index.size[h] = disk[h] /\ disk[h] \in Nat
        BY <1>0, <2>5, <3>1, Zenon DEF RunLeaves
      <3> QED
        <4>1. disk[h] > 0 /\ disk[h] \in Nat
          BY <3>1, <3>2, Zenon
        <4> QED
          BY <3>2, <4>1
    <2> QED
      BY <2>1, <2>2, <2>7, Zenon DEF DiskInv, Indexed
  <1> QED
    BY <1>3, <1>4, <1>5, <1>6, <1>7, <1>8, <1>9, Zenon DEF CleanStep

DiskAll == AccountAll /\ EntriesConsidered /\ OnceInv /\ DiskInv

\* The sizes at the start.
LEMMA DiskInit == CleanerInit => DiskAll
  <1> SUFFICES ASSUME CleanerInit PROVE DiskAll
    BY Zenon
  <1>1. AccountAll /\ EntriesConsidered
    BY CleanerTypeInit, ThreadsInit, IndexInit, AccountInit, ConsideredInit, Zenon DEF AccountAll
  <1>2. PICK d \in [Hash -> Nat], v \in [Hash -> 0 .. kManifestVersion], missing \in SUBSET Hash :
          \E r \in Run(EmptyIndex, d, v, missing) : index = r.index /\ disk = r.disk
    BY InitGives, Zenon
  <1>3. PICK r \in Run(EmptyIndex, d, v, missing) : index = r.index /\ disk = r.disk
    BY <1>2, Zenon
  <1>4. RunLeaves(EmptyIndex, d, v, missing, r)
    BY StartTypes, RunGives, Zenon
  <1>5. Range(r.index.order) = Fresh(EmptyIndex, d, v, missing)
    BY <1>4, StartTypes, Zenon DEF RunLeaves
  <1>6. ASSUME NEW h \in Hash, h \in Range(r.index.order) PROVE r.disk[h] <= r.index.size[h] /\ r.index.size[h] # 0
    <2>1. h \in Fresh(EmptyIndex, d, v, missing) /\ h \notin Broken(EmptyIndex, d, v, missing) /\ d[h] > 0
      BY <1>5, <1>6, Zenon DEF Fresh, Walked
    <2>2. r.disk[h] = d[h] /\ r.index.size[h] = d[h] /\ d[h] \in Nat
      BY <1>4, <2>1, Zenon DEF RunLeaves
    <2> QED
      BY <2>1, <2>2
  <1>7. /\ new_entries_ = EmptyList /\ batches = <<>> /\ cleaner.pc = "idle" /\ cleaner.list = EmptyList
        /\ \A u \in User : user[u].pc = "idle" /\ user[u].op = "none"
    BY Zenon DEF CleanerInit, Resting, Outside
  <1>8. Pending = {}
    <2>1. Batched(batches) = {}
      BY <1>7 DEF Batched
    <2> QED
      BY <1>7, <2>1, PendingIs, EmptyListed, Zenon
  <1>9. OnceInv
    BY <1>7, <1>8, Zenon DEF OnceInv, Before
  <1>10. DiskInv
    BY <1>3, <1>6, <1>7, Zenon DEF DiskInv, Indexed
  <1> QED
    BY <1>1, <1>9, <1>10, Zenon DEF DiskAll

\* The sizes in every step.
LEMMA DiskStep == DiskAll /\ [CleanerNext]_cleanerVars => DiskAll'
  <1> SUFFICES ASSUME DiskAll, [CleanerNext]_cleanerVars PROVE DiskAll'
    BY Zenon
  <1>1. AccountAll' /\ EntriesConsidered' /\ OnceInv'
    BY AccountStep, ConsideredStep, OnceStep, Zenon DEF DiskAll, AccountAll
  <1>2. ASSUME Steady' PROVE DiskInv'
    <2>1. Steady /\ failures' = failures /\ failures = 0
      BY <1>2, SteadyBefore, Zenon DEF DiskAll, AccountAll
    <2>2. ASSUME UNCHANGED cleanerVars PROVE DiskInv'
      <3>1. UNCHANGED <<index, disk, cleaner, user, used>>
        BY <2>2, Zenon DEF cleanerVars
      <3> QED
        BY <2>1, <3>1, Zenon DEF DiskAll, DiskInv, Indexed
    <2>3. ASSUME NEW u \in User, UserStep(u) \/ \E h \in Hash : FindBegin(u, h) \/ StoreBegin(u, h)
          PROVE  DiskInv'
      BY <1>2, <2>1, <2>3, UserKeepsDisk, Zenon DEF DiskAll
    <2>4. ASSUME Reset \/ CleanStep \/ Crash PROVE DiskInv'
      BY <1>2, <2>1, <2>4, CleanerKeepsDisk, Zenon DEF DiskAll
    <2> QED
      BY <2>2, <2>3, <2>4, Zenon DEF CleanerNext
  <1>3. DiskInv'
    BY <1>2, Zenon DEF DiskInv
  <1> QED
    BY <1>1, <1>3, Zenon DEF DiskAll

\* When the cleaner has seen everything and finds nothing to remove, the files fit into the
\* size that is configured, as long as no store failed, no index was restored, entries are
\* stored with one size and no hash is used twice.
THEOREM CleanerBoundsDisk == CleanerSpec => []DiskBounded
  <1>1. DiskAll => DiskBounded
    <2> SUFFICES ASSUME DiskAll, Undisturbed, OneSizeEach, IsInjective(used),
                        cleaner.pc = "idle", ~Overused, Pending = {}, \A u \in User : user[u].pc = "idle"
                 PROVE  Total(Hash, disk) <= MaxSize
      BY Zenon DEF DiskBounded
    <2>0. /\ CleanerTypeOK /\ disk \in [Hash -> Nat] /\ index \in Rows /\ index.size \in [Hash -> Nat]
          /\ cache_size_ \in Nat /\ MaxSize \in Nat /\ IsFiniteSet(Hash)
      <3>1. CleanerTypeOK
        BY Zenon DEF DiskAll, AccountAll
      <3>2. disk \in [Hash -> Nat] /\ index \in Rows /\ cache_size_ \in Nat
        BY <3>1, CleanerAssumption DEF CleanerTypeOK
      <3>3. index.size \in [Hash -> Nat]
        BY <3>2, Zenon DEF Rows
      <3> QED
        BY <3>1, <3>2, <3>3, CleanerAssumption, Zenon
    <2> DEFINE S == Range(index.order)
               W == {h \in Hash : disk[h] > 0}
    <2>1. S \subseteq Hash /\ IsFiniteSet(S)
      BY <2>0, RowsFinite, Zenon
    <2>2. \A u \in User : user[u].op = "none"
      BY Zenon DEF DiskAll, AccountAll, ThreadInv, UserInv
    <2>3. W \subseteq S
      BY <2>2, Zenon DEF DiskAll, EntriesConsidered, WriteLocked, Indexed
    <2>4. \A h \in S : disk[h] <= index.size[h]
      BY <2>1, Zenon DEF DiskAll, DiskInv, Steady, Indexed
    <2>5. cache_size_ = Total(S, index.size)
      BY Zenon DEF DiskAll, AccountAll, AccountInv
    <2>6. Total(W, disk) <= Total(S, index.size) /\ Total(W, disk) \in Nat /\ Total(S, index.size) \in Nat
      <3>1. \A h \in W : disk[h] \in Nat /\ disk[h] <= index.size[h]
        BY <2>0, <2>3, <2>4, Zenon
      <3>2. \A h \in S : index.size[h] \in Nat
        BY <2>0, <2>1, Zenon
      <3> HIDE DEF S, W
      <3> QED
        BY <2>1, <2>3, <3>1, <3>2, TotalMonotonic, Zenon
    <2>7. Total(Hash, disk) = Total(W, disk)
      <3>1. Bytes(Hash, disk) = Bytes(W, disk)
        <4>1. ASSUME NEW h \in Hash \ W PROVE 1 .. disk[h] = {}
          BY <2>0
        <4>2. Bytes(Hash, disk) \subseteq Bytes(W, disk)
          BY <4>1 DEF Bytes
        <4>3. Bytes(W, disk) \subseteq Bytes(Hash, disk)
          BY Zenon DEF Bytes
        <4> QED
          BY <4>2, <4>3, Zenon
      <3>2. IsFiniteSet(W)
        BY <2>0, FS_Subset, Zenon
      <3>3. Total(Hash, disk) = Cardinality(Bytes(Hash, disk))
        BY <2>0, TotalIsBytes, Zenon
      <3>4. Total(W, disk) = Cardinality(Bytes(W, disk))
        BY <2>0, <3>2, TotalIsBytes, Zenon
      <3> QED
        BY <3>1, <3>3, <3>4, Zenon
    <2>8. cache_size_ <= MaxSize
      BY <2>0 DEF Overused
    <2> QED
      BY <2>0, <2>5, <2>6, <2>7, <2>8
  <1> QED
    BY <1>1, DiskInit, DiskStep, PTL DEF CleanerSpec
=============================================================================
