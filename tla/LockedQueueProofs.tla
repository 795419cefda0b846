------------------------- MODULE LockedQueueProofs --------------------------
(***************************************************************************)
(* Proofs about LockedQueue, for any number of threads, shards and items,  *)
(* and about ThreadPool and Future, which are built on it.                 *)
(***************************************************************************)
EXTENDS ThreadPool, FiniteSetTheorems, SequenceTheorems,
        WellFoundedInduction, TLAPS

-----------------------------------------------------------------------------
(* What Append and Erase do to an increasing sequence of items. *)

\* Erasing a list node keeps the others and their order.
LEMMA EraseElements ==
  ASSUME NEW s \in Seq(Nat), NEW k \in DOMAIN s
  PROVE  /\ Erase(s, k) \in Seq(Nat)
         /\ Len(Erase(s, k)) = Len(s) - 1
         /\ \A j \in 1 .. Len(s) - 1 :
              Erase(s, k)[j] = IF j < k THEN s[j] ELSE s[j + 1]
  <1> DEFINE n == Len(s) - 1
             r == Erase(s, k)
  <1>1. n \in Nat /\ Len(s) = n + 1
    OBVIOUS
  <1>2. r \in [1 .. n -> Nat]
    BY <1>1 DEF Erase
  <1>3. \A j \in 1 .. n : r[j] = IF j < k THEN s[j] ELSE s[j + 1]
    BY <1>1, Zenon DEF Erase
  <1> HIDE DEF n, r
  <1>4. r \in Seq(Nat)
    BY <1>1, <1>2
  <1>5. DOMAIN r = 1 .. n
    BY <1>2, Zenon
  <1>6. Len(r) = n
    BY <1>1, <1>4, <1>5
  <1> QED
    BY <1>1, <1>3, <1>4, <1>6, Zenon DEF n, r

\* Erasing the first node is dropping the head.
LEMMA EraseFirst ==
  ASSUME NEW s \in Seq(Nat), s # <<>>
  PROVE  Erase(s, 1) = Tail(s)
  <1>1. 1 \in DOMAIN s
    OBVIOUS
  <1>2. /\ Tail(s) \in Seq(Nat)
        /\ Len(Tail(s)) = Len(s) - 1
        /\ \A j \in 1 .. Len(s) - 1 : Tail(s)[j] = s[j + 1]
    BY HeadTailProperties, Zenon
  <1> DEFINE r == Erase(s, 1)
             t == Tail(s)
             n == Len(s) - 1
  <1>3. /\ r \in Seq(Nat)
        /\ Len(r) = n
        /\ \A j \in 1 .. n : r[j] = IF j < 1 THEN s[j] ELSE s[j + 1]
    BY <1>1, EraseElements, Zenon
  <1> HIDE DEF r, t, n
  <1>4. \A j \in 1 .. Len(r) : r[j] = t[j]
    <2> TAKE j \in 1 .. Len(r)
    <2>1. ~(j < 1)
      OBVIOUS
    <2> QED
      BY <1>2, <1>3, <2>1, Zenon DEF t, n
  <1>5. t \in Seq(Nat) /\ Len(t) = n
    BY <1>2, Zenon DEF t, n
  <1> QED
    BY <1>3, <1>4, <1>5, SeqEqual, Zenon DEF r, t

\* Erasing a node of an increasing list removes exactly its item.
LEMMA EraseIncreasing ==
  ASSUME NEW s \in Seq(Nat), NEW k \in DOMAIN s, Increasing(s)
  PROVE  /\ Increasing(Erase(s, k))
         /\ Items(Erase(s, k)) = Items(s) \ {s[k]}
  <1> DEFINE r == Erase(s, k)
             n == Len(s)
  <1>1. /\ n \in Nat
        /\ k \in 1 .. n
        /\ DOMAIN s = 1 .. n
        /\ \A j \in 1 .. n : s[j] \in Nat
    OBVIOUS
  <1>2. /\ DOMAIN r = 1 .. n - 1
        /\ \A j \in 1 .. n - 1 : r[j] = IF j < k THEN s[j] ELSE s[j + 1]
    BY EraseElements
  <1>3. \A i, j \in 1 .. n : i < j => s[i] < s[j]
    BY <1>1, Zenon DEF Increasing
  <1> HIDE DEF r, n
  <1>4. ASSUME NEW i \in 1 .. n - 1, NEW j \in 1 .. n - 1, i < j
        PROVE  r[i] < r[j]
    <2>1. i \in 1 .. n /\ i + 1 \in 1 .. n /\ j \in 1 .. n /\ j + 1 \in 1 .. n
      BY <1>1
    <2>2. r[i] = (IF i < k THEN s[i] ELSE s[i + 1]) /\ r[j] = IF j < k THEN s[j] ELSE s[j + 1]
      BY <1>2, Zenon
    <2>3. s[i] < s[j] /\ s[i + 1] < s[j + 1] /\ s[i] < s[j + 1]
      BY <1>3, <1>4, <2>1
    <2>4. ~(j < k /\ ~(i < k))
      BY <1>1, <1>4, <2>1
    <2> QED
      BY <2>2, <2>3, <2>4, Zenon
  <1>5. Increasing(r)
    BY <1>2, <1>4, Zenon DEF Increasing
  <1>6. ASSUME NEW j \in 1 .. n - 1
        PROVE  r[j] \in Items(s) /\ r[j] # s[k]
    <2>1. j \in 1 .. n /\ j + 1 \in 1 .. n
      BY <1>1
    <2>2. r[j] = IF j < k THEN s[j] ELSE s[j + 1]
      BY <1>2, Zenon
    <2>3. CASE j < k
      BY <1>1, <1>3, <2>1, <2>2, <2>3 DEF Items
    <2>4. CASE ~(j < k)
      <3>1. r[j] = s[j + 1] /\ k < j + 1
        BY <1>1, <2>2, <2>4
      <3>2. s[k] < s[j + 1] /\ s[k] \in Nat /\ s[j + 1] \in Nat
        BY <1>1, <1>3, <2>1, <3>1, Zenon
      <3>3. s[j + 1] # s[k]
        BY <3>2
      <3> QED
        BY <1>1, <2>1, <3>1, <3>3, Zenon DEF Items
    <2> QED
      BY <2>3, <2>4, Zenon
  <1>7. ASSUME NEW j \in 1 .. n, s[j] # s[k]
        PROVE  \E i \in 1 .. n - 1 : s[j] = r[i]
    <2>1. CASE j < k
      <3>1. j \in 1 .. n - 1
        BY <1>1, <2>1
      <3> QED
        BY <1>2, <2>1, <3>1, Zenon
    <2>2. CASE j > k
      <3>1. j - 1 \in 1 .. n - 1 /\ ~(j - 1 < k) /\ (j - 1) + 1 = j
        BY <1>1, <2>2
      <3> QED
        BY <1>2, <3>1, Zenon
    <2> QED
      BY <1>1, <1>7, <2>1, <2>2
  <1>8. Items(r) = Items(s) \ {s[k]}
    <2>1. Items(r) \subseteq Items(s) \ {s[k]}
      BY ONLY <1>2, <1>6 DEF Items
    <2>2. Items(s) \ {s[k]} \subseteq Items(r)
      <3>1. ASSUME NEW x \in Items(s), x # s[k]
            PROVE  x \in Items(r)
        <4>1. PICK j \in 1 .. n : x = s[j]
          BY <1>1, Zenon DEF Items
        <4>2. PICK i \in 1 .. n - 1 : s[j] = r[i]
          BY <1>7, <3>1, <4>1, Zenon
        <4> QED
          BY <1>2, <4>1, <4>2, Zenon DEF Items
      <3> QED
        BY <3>1, Zenon
    <2> QED
      BY <2>1, <2>2, Zenon
  <1> QED
    BY <1>5, <1>8, Zenon DEF r

\* Appending a fresh, larger item keeps a list increasing.
LEMMA AppendIncreasing ==
  ASSUME NEW s \in Seq(Nat), NEW i \in Nat, Increasing(s),
         \A k \in DOMAIN s : s[k] < i
  PROVE  /\ Append(s, i) \in Seq(Nat)
         /\ Increasing(Append(s, i))
         /\ Items(Append(s, i)) = Items(s) \union {i}
  <1>1. /\ Append(s, i) \in Seq(Nat)
        /\ Len(Append(s, i)) = Len(s) + 1
        /\ \A j \in 1 .. Len(s) : Append(s, i)[j] = s[j]
        /\ Append(s, i)[Len(s) + 1] = i
    OBVIOUS
  <1>2. Increasing(Append(s, i))
    BY <1>1 DEF Increasing
  <1>3. Items(Append(s, i)) = Items(s) \union {i}
    <2> DEFINE r == Append(s, i)
    <2> HIDE DEF r
    <2>1. /\ r \in Seq(Nat)
          /\ Len(r) = Len(s) + 1
          /\ \A j \in 1 .. Len(s) : r[j] = s[j]
          /\ r[Len(s) + 1] = i
      BY <1>1, Zenon DEF r
    <2>2. Items(r) \subseteq Items(s) \union {i}
      <3>1. DOMAIN r = 1 .. Len(s) + 1 /\ DOMAIN s = 1 .. Len(s)
        BY <2>1
      <3>2. ASSUME NEW j \in DOMAIN r, j # Len(s) + 1 PROVE j \in DOMAIN s
        BY <3>1, <3>2
      <3>3. ASSUME NEW j \in DOMAIN r PROVE r[j] \in Items(s) \union {i}
        BY <2>1, <3>1, <3>2, Zenon DEF Items
      <3> QED
        BY <3>3, Zenon DEF Items
    <2>3. Items(s) \subseteq Items(r)
      <3>1. \A j \in 1 .. Len(s) : j \in DOMAIN r /\ r[j] = s[j]
        BY <2>1
      <3> QED
        BY <3>1 DEF Items
    <2>4. i \in Items(r)
      <3>1. Len(s) + 1 \in DOMAIN r
        BY <2>1
      <3> QED
        BY <2>1, <3>1, Zenon DEF Items
    <2> QED
      BY <2>2, <2>3, <2>4, Zenon DEF r
  <1> QED
    BY <1>1, <1>2, <1>3, Zenon

\* A non-empty set of naturals has a least element.
LEMMA SmallestNat ==
  ASSUME NEW S \in SUBSET Nat, S # {}
  PROVE  \E m \in S : \A u \in S : m <= u
  <1>1. IsWellFoundedOn(OpToRel(<, Nat), Nat)
    BY NatLessThanWellFounded, Zenon
  <1>2. \E x \in S : \A y \in S : ~(<<y, x>> \in OpToRel(<, Nat))
    BY <1>1, WFMin, Zenon
  <1>3. PICK x \in S : \A y \in S : ~(<<y, x>> \in OpToRel(<, Nat))
    BY <1>2, Zenon
  <1>4. \A y \in S : <<y, x>> \notin {ss \in Nat \X Nat : ss[1] < ss[2]}
    BY <1>3, Zenon DEF OpToRel
  <1>5. ASSUME NEW y \in S PROVE x <= y
    <2>1. SUFFICES ASSUME y < x PROVE FALSE
      OBVIOUS
    <2>2. <<y, x>> \in Nat \X Nat
      BY Zenon
    <2>3. <<y, x>>[1] < <<y, x>>[2]
      BY <2>1, Zenon
    <2> QED
      BY <1>4, <2>2, <2>3, Zenon
  <1> QED
    BY <1>5, Zenon
-----------------------------------------------------------------------------
(* Types *)

\* An empty queue has the right types.
LEMMA TypeInit == Init => TypeOK
  <1> SUFFICES ASSUME Init PROVE TypeOK
    BY Zenon
  <1>1. NShards \in Nat \ {0} /\ DefaultShard \in Shard
    BY QueueAssumption DEF Shard, DefaultShard
  <1>2. prod \in [Producers -> ProdState]
    BY <1>1, Zenon DEF Init, ProdState
  <1>3. index \in [Shard -> Seq(Nat)]
    BY DEF Init
  <1>4. shardOf \in [DOMAIN shardOf -> Shard]
    BY Zenon DEF Init
  <1>5. cons \in [Consumers -> {"idle", "wait", "awake", "gone"}]
    BY Zenon DEF Init
  <1>6. queue \in Seq(Nat) /\ shards \in 1 .. NShards /\ size \in Int
        /\ inserted \in Nat /\ popped \subseteq Nat
    BY <1>1 DEF Init
  <1>7. closed \in BOOLEAN /\ stopping \in BOOLEAN
    BY Zenon DEF Init
  <1> QED
    BY <1>2, <1>3, <1>4, <1>5, <1>6, <1>7, Zenon DEF TypeOK

\* EnsureShardExists() keeps the number of shards in range.
LEMMA GrowType ==
  ASSUME TypeOK, NEW s \in Shard,
         shards' = IF s >= shards THEN s + 1 ELSE shards
  PROVE  shards' \in 1 .. NShards
  BY QueueAssumption DEF TypeOK, Shard

\* So does every operation that names a shard.
LEMMA GrowForType ==
  ASSUME TypeOK, NEW c \in Consumers, GrowFor(c)
  PROVE  shards' \in 1 .. NShards
  BY QueueAssumption DEF TypeOK, Shard, GrowFor

\* The shard of a consumer is a shard.
LEMMA HomeInShard == \A c \in Consumers : Home[c] \in Shard
  BY QueueAssumption, Zenon

\* What a consumer takes is one node of the list.
LEMMA RemoveType ==
  ASSUME TypeOK, NEW c \in Consumers, NEW i, RemoveTaskFromQueue(c, i),
         index' \in [Shard -> Seq(Nat)]
  PROVE  TypeOK'
  <1>1. PICK k \in DOMAIN queue : queue[k] = i /\ queue' = Erase(queue, k)
    BY Zenon DEF RemoveTaskFromQueue
  <1>2. queue \in Seq(Nat)
    BY Zenon DEF TypeOK
  <1>3. queue' \in Seq(Nat) /\ i \in Nat
    BY <1>1, <1>2, EraseElements
  <1>4. shards' \in 1 .. NShards
    BY GrowForType, Zenon DEF RemoveTaskFromQueue
  <1>5. shardOf' \in [DOMAIN shardOf' -> Shard]
    BY Zenon DEF TypeOK, RemoveTaskFromQueue
  <1>6. cons' \in [Consumers -> {"idle", "wait", "awake", "gone"}]
    BY Zenon DEF TypeOK, RemoveTaskFromQueue
  <1>7. size' \in Int /\ popped' \subseteq Nat
    BY <1>3 DEF TypeOK, RemoveTaskFromQueue
  <1> QED
    BY <1>3, <1>4, <1>5, <1>6, <1>7, Zenon DEF TypeOK, RemoveTaskFromQueue

\* GetStrict() keeps the types.
LEMMA TakeFrontType ==
  ASSUME TypeOK, NEW c \in Consumers, NEW s \in Shard, index[s] # <<>>,
         TakeFront(c, s)
  PROVE  TypeOK'
  <1>1. index[s] \in Seq(Nat)
    BY Zenon DEF TypeOK
  <1>2. Tail(index[s]) \in Seq(Nat)
    BY <1>1
  <1>3. index' \in [Shard -> Seq(Nat)]
    BY <1>2, Zenon DEF TypeOK, TakeFront
  <1> QED
    BY <1>3, RemoveType, Zenon DEF TakeFront

\* GetWithHint() keeps the types.
LEMMA TakeBeginType ==
  ASSUME TypeOK, NEW c \in Consumers, TakeBegin(c)
  PROVE  TypeOK'
  <1> DEFINE i == Head(queue)
             s == shardOf[i]
  <1>1. PICK k \in DOMAIN index[s] :
          index[s][k] = i /\ index' = [index EXCEPT ![s] = Erase(@, k)]
    BY Zenon DEF TakeBegin
  <1>2. RemoveTaskFromQueue(c, i)
    BY Zenon DEF TakeBegin
  <1> HIDE DEF i, s
  <1>3. index' \in [Shard -> Seq(Nat)]
    <2>1. CASE s \in Shard
      <3>1. index[s] \in Seq(Nat)
        BY <2>1, Zenon DEF TypeOK
      <3>2. Erase(index[s], k) \in Seq(Nat)
        BY <3>1, EraseElements, Zenon
      <3> QED
        BY <1>1, <2>1, <3>2, Zenon DEF TypeOK
    <2>2. CASE s \notin Shard
      BY <1>1, <2>2, Zenon DEF TypeOK
    <2> QED
      BY <2>1, <2>2, Zenon
  <1> QED
    BY <1>2, <1>3, RemoveType, Zenon

\* A shard that is stolen from exists and has tasks.
LEMMA StealShard ==
  ASSUME TypeOK, NEW c \in Consumers, Steals(c)
  PROVE  LET t == MaybeOverloadedShard(Home[c])
         IN  t \in Shard /\ index[t] # <<>> /\ t < shards
  <1> DEFINE t == CHOOSE t \in OverLimit : \A u \in OverLimit : t <= u
  <1>1. OverLimit # {} /\ MaybeOverloadedShard(Home[c]) = t
    BY Zenon DEF Steals, MaybeOverloadedShard
  <1>2. \E m \in OverLimit : \A u \in OverLimit : m <= u
    <2>1. OverLimit \subseteq Nat
      BY DEF OverLimit, Shard
    <2> QED
      BY <1>1, <2>1, SmallestNat, Zenon
  <1>3. t \in OverLimit
    BY <1>2, Zenon
  <1>4. t \in Shard /\ t < shards /\ Len(index[t]) > Limit
    BY <1>3, Zenon DEF OverLimit
  <1> HIDE DEF t
  <1>5. index[t] # <<>>
    BY <1>4, QueueAssumption DEF TypeOK
  <1> QED
    BY <1>1, <1>4, <1>5, Zenon

\* Every step of Push(), Pop() and Close() keeps the types.
LEMMA TypeStep == TypeOK /\ [Next]_vars => TypeOK'
  <1> SUFFICES ASSUME TypeOK, [Next]_vars PROVE TypeOK'
    BY Zenon
  <1>1. ASSUME NEW p \in Producers, NEW s \in PushShards, PushCheck(p, s)
        PROVE  TypeOK'
    <2>1. s \in Shard
      BY QueueAssumption, Zenon
    <2>2. prod' \in [Producers -> ProdState]
      BY <1>1, <2>1, Zenon DEF PushCheck, TypeOK, ProdState
    <2> QED
      BY <1>1, <2>2, Zenon DEF PushCheck, TypeOK
  <1>2. ASSUME NEW p \in Producers, PushRefused(p) PROVE TypeOK'
    <2>1. prod' \in [Producers -> ProdState]
      BY <1>2, Zenon DEF PushRefused, TypeOK, ProdState
    <2> QED
      BY <1>2, <2>1, Zenon DEF PushRefused, TypeOK
  <1>3. ASSUME NEW p \in Producers, PushInsert(p) PROVE TypeOK'
    <2> DEFINE s == prod[p].shard
    <2>1. s \in Shard
      BY Zenon DEF TypeOK, ProdState
    <2>2. prod' \in [Producers -> ProdState]
      BY <1>3, Zenon DEF PushInsert, TypeOK, ProdState
    <2>3. shards' \in 1 .. NShards
      BY <1>3, <2>1, GrowType, Zenon DEF PushInsert, EnsureShardExists
    <2>4. inserted + 1 \in Nat /\ index[s] \in Seq(Nat) /\ queue \in Seq(Nat)
      BY <2>1 DEF TypeOK
    <2>5. Append(index[s], inserted + 1) \in Seq(Nat)
          /\ Append(queue, inserted + 1) \in Seq(Nat)
      BY <2>4
    <2>6. index' \in [Shard -> Seq(Nat)] /\ queue' \in Seq(Nat)
      BY <1>3, <2>5, Zenon DEF PushInsert, TypeOK
    <2>7. shardOf' \in [DOMAIN shardOf' -> Shard]
      BY <1>3, <2>1, Zenon DEF PushInsert, TypeOK
    <2> QED
      BY <1>3, <2>2, <2>3, <2>4, <2>6, <2>7, Zenon DEF PushInsert, TypeOK
  <1>4. ASSUME NEW p \in Producers, PushCount(p) PROVE TypeOK'
    <2>1. prod' \in [Producers -> ProdState]
      BY <1>4, Zenon DEF PushCount, TypeOK, ProdState
    <2> QED
      BY <1>4, <2>1 DEF PushCount, TypeOK
  <1>5. ASSUME NEW p \in Producers, PushNotify(p) PROVE TypeOK'
    <2>1. prod' \in [Producers -> ProdState]
      BY <1>5, Zenon DEF PushNotify, TypeOK, ProdState
    <2>2. cons' \in [Consumers -> {"idle", "wait", "awake", "gone"}]
      BY <1>5, Zenon DEF PushNotify, TypeOK, WaitingOn
    <2> QED
      BY <1>5, <2>1, <2>2, Zenon DEF PushNotify, TypeOK
  <1>6. ASSUME NEW c \in Consumers, PopSteal(c) PROVE TypeOK'
    BY <1>6, StealShard, TakeFrontType, Zenon DEF PopSteal
  <1>7. ASSUME NEW c \in Consumers, PopTake(c) PROVE TypeOK'
    BY <1>7, HomeInShard, TakeFrontType, TakeBeginType, Zenon DEF PopTake
  <1>8. ASSUME NEW c \in Consumers, PopNone(c) PROVE TypeOK'
    <2>1. cons' \in [Consumers -> {"idle", "wait", "awake", "gone"}]
      BY <1>8, Zenon DEF PopNone, TypeOK
    <2> QED
      BY <1>8, <2>1, GrowForType, Zenon DEF PopNone, TypeOK
  <1>9. ASSUME NEW c \in Consumers, PopWait(c) PROVE TypeOK'
    <2>1. cons' \in [Consumers -> {"idle", "wait", "awake", "gone"}]
      BY <1>9, Zenon DEF PopWait, TypeOK
    <2>2. shards' \in 1 .. NShards
      BY <1>9, HomeInShard, GrowType, Zenon DEF PopWait, EnsureShardExists
    <2> QED
      BY <1>9, <2>1, <2>2, Zenon DEF PopWait, TypeOK
  <1>10. ASSUME NEW c \in Consumers, Wake(c) PROVE TypeOK'
    BY <1>10, Zenon DEF Wake, TypeOK
  <1>11. CASE Close
    BY <1>11, Zenon DEF Close, TypeOK
  <1>12. CASE ShutDown
    BY <1>12, Zenon DEF ShutDown, TypeOK
  <1>13. CASE UNCHANGED vars
    BY <1>13, Zenon DEF vars, TypeOK
  <1> QED
    BY <1>1, <1>2, <1>3, <1>4, <1>5, <1>6, <1>7, <1>8, <1>9, <1>10, <1>11,
       <1>12, <1>13, Zenon DEF Next, PushStep, PopStep

\* Every field keeps its type, for any number of threads, shards and items;
\* index_.size() never exceeds the highest shard that is used plus one.
THEOREM TypeCorrect == Spec => []TypeOK
  BY TypeInit, TypeStep, PTL DEF Spec
-----------------------------------------------------------------------------
(* The list and its two indexes *)

Inv == TypeOK /\ IndexMatchesQueue /\ NothingLost

\* The inductive invariant holds of an empty queue.
LEMMA InvInit == Init => Inv
  <1> SUFFICES ASSUME Init PROVE IndexMatchesQueue /\ NothingLost
    BY TypeInit, Zenon DEF Inv
  <1>1. Items(<<>>) = {} /\ Increasing(<<>>)
    BY DEF Items, Increasing
  <1>2. DOMAIN shardOf = {} /\ queue = <<>> /\ \A s \in Shard : index[s] = <<>>
    BY Zenon DEF Init
  <1>3. IndexMatchesQueue
    BY <1>1, <1>2, Zenon DEF IndexMatchesQueue
  <1>4. NothingLost
    BY <1>2 DEF Init, NothingLost
  <1> QED
    BY <1>3, <1>4, Zenon

\* Index::Put() keeps both indexes in step with the list.
LEMMA InsertInv ==
  ASSUME Inv, NEW p \in Producers, PushInsert(p)
  PROVE  IndexMatchesQueue' /\ NothingLost'
  <1> DEFINE s == prod[p].shard
             i == inserted + 1
  <1>1. s \in Shard /\ i \in Nat /\ inserted \in Nat /\ queue \in Seq(Nat)
        /\ index \in [Shard -> Seq(Nat)]
    BY DEF Inv, TypeOK, ProdState
  <1>2. /\ queue' = Append(queue, i)
        /\ index' = [index EXCEPT ![s] = Append(@, i)]
        /\ shardOf' = [j \in DOMAIN shardOf \union {i} |->
                         IF j = i THEN s ELSE shardOf[j]]
        /\ inserted' = i
        /\ popped' = popped
    BY Zenon DEF PushInsert
  <1>3. /\ DOMAIN shardOf \intersect popped = {}
        /\ DOMAIN shardOf \union popped = 1 .. inserted
    BY Zenon DEF Inv, NothingLost
  <1>4. /\ DOMAIN shardOf = Items(queue)
        /\ \A t \in Shard :
             Items(index[t]) = {j \in DOMAIN shardOf : shardOf[j] = t}
        /\ Increasing(queue)
        /\ \A t \in Shard : Increasing(index[t])
    BY Zenon DEF Inv, IndexMatchesQueue
  <1> HIDE DEF s, i
  <1>5. \A j \in DOMAIN shardOf \union popped : j < i
    BY <1>1, <1>3 DEF i
  <1>6. Increasing(queue') /\ Items(queue') = Items(queue) \union {i}
    <2>1. \A k \in DOMAIN queue : queue[k] < i
      BY <1>4, <1>5, Zenon DEF Items
    <2> QED
      BY <1>1, <1>2, <1>4, <2>1, AppendIncreasing, Zenon
  <1>7. /\ Increasing(index'[s])
        /\ Items(index'[s]) = Items(index[s]) \union {i}
    <2>1. \A k \in DOMAIN index[s] : index[s][k] \in Items(index[s])
      BY Zenon DEF Items
    <2>2. \A k \in DOMAIN index[s] : index[s][k] < i
      BY <1>1, <1>4, <1>5, <2>1, Zenon
    <2>3. index'[s] = Append(index[s], i) /\ index[s] \in Seq(Nat)
      BY <1>1, <1>2, Zenon
    <2> QED
      BY <1>1, <1>4, <2>2, <2>3, AppendIncreasing, Zenon
  <1>8. \A t \in Shard : t # s => index'[t] = index[t]
    BY <1>1, <1>2, Zenon
  <1>9. i \notin DOMAIN shardOf /\ i \notin popped
    BY <1>1, <1>5
  <1>10. \A t \in Shard :
           Items(index'[t]) = {j \in DOMAIN shardOf' : shardOf'[j] = t}
    BY <1>2, <1>4, <1>7, <1>8, <1>9
  <1>11. IndexMatchesQueue'
    BY <1>2, <1>4, <1>6, <1>7, <1>8, <1>10, Zenon DEF IndexMatchesQueue
  <1>12. DOMAIN shardOf' \union popped' = 1 .. inserted'
    <2>1. 1 .. i = (1 .. inserted) \union {i}
      BY <1>1 DEF i
    <2> QED
      BY <1>2, <1>3, <2>1, Zenon
  <1>13. NothingLost'
    BY <1>2, <1>3, <1>9, <1>12, Zenon DEF NothingLost
  <1> QED
    BY <1>11, <1>13, Zenon

\* Taking the node k of shard s out of both lists.
LEMMA RemoveInv ==
  ASSUME Inv, NEW c \in Consumers, NEW s \in Shard, NEW k \in DOMAIN index[s],
         index' = [index EXCEPT ![s] = Erase(index[s], k)],
         RemoveTaskFromQueue(c, index[s][k])
  PROVE  IndexMatchesQueue' /\ NothingLost'
  <1> DEFINE i == index[s][k]
  <1>1. queue \in Seq(Nat) /\ index \in [Shard -> Seq(Nat)]
    BY Zenon DEF Inv, TypeOK
  <1>2. PICK m \in DOMAIN queue : queue[m] = i /\ queue' = Erase(queue, m)
    BY Zenon DEF RemoveTaskFromQueue
  <1>3. /\ shardOf' = [j \in DOMAIN shardOf \ {i} |-> shardOf[j]]
        /\ popped' = popped \union {i}
        /\ inserted' = inserted
    BY Zenon DEF RemoveTaskFromQueue
  <1>4. /\ DOMAIN shardOf = Items(queue)
        /\ \A t \in Shard :
             Items(index[t]) = {j \in DOMAIN shardOf : shardOf[j] = t}
        /\ Increasing(queue)
        /\ \A t \in Shard : Increasing(index[t])
    BY Zenon DEF Inv, IndexMatchesQueue
  <1>5. i \in Items(index[s])
    BY Zenon DEF Items
  <1> HIDE DEF i
  <1>6. i \in DOMAIN shardOf /\ shardOf[i] = s
    BY <1>4, <1>5, Zenon
  <1>7. Increasing(queue') /\ Items(queue') = Items(queue) \ {i}
    BY <1>1, <1>2, <1>4, EraseIncreasing, Zenon
  <1>8. /\ Increasing(index'[s])
        /\ Items(index'[s]) = Items(index[s]) \ {i}
    <2>1. index'[s] = Erase(index[s], k) /\ index[s] \in Seq(Nat)
      BY <1>1, Zenon
    <2> QED
      BY <1>4, <2>1, EraseIncreasing, Zenon DEF i
  <1>9. \A t \in Shard : t # s => index'[t] = index[t]
    BY <1>1, Zenon
  <1>10. \A t \in Shard :
           Items(index'[t]) = {j \in DOMAIN shardOf' : shardOf'[j] = t}
    BY <1>3, <1>4, <1>6, <1>8, <1>9
  <1>11. IndexMatchesQueue'
    BY <1>3, <1>4, <1>7, <1>8, <1>9, <1>10, Zenon DEF IndexMatchesQueue
  <1>12. NothingLost'
    BY <1>3, <1>6, Zenon DEF Inv, NothingLost
  <1> QED
    BY <1>11, <1>12, Zenon

\* Popping the front of a shard.
LEMMA TakeFrontInv ==
  ASSUME Inv, NEW c \in Consumers, NEW s \in Shard, index[s] # <<>>,
         TakeFront(c, s)
  PROVE  /\ IndexMatchesQueue' /\ NothingLost'
         /\ index' = [index EXCEPT ![s] = Tail(@)]
         /\ inserted' = inserted
  <1>1. index[s] \in Seq(Nat)
    BY Zenon DEF Inv, TypeOK
  <1>2. 1 \in DOMAIN index[s] /\ Head(index[s]) = index[s][1]
    BY <1>1
  <1>3. index' = [index EXCEPT ![s] = Erase(index[s], 1)]
    BY <1>1, EraseFirst, Zenon DEF TakeFront
  <1>4. RemoveTaskFromQueue(c, index[s][1])
    BY <1>2, Zenon DEF TakeFront
  <1>5. index' = [index EXCEPT ![s] = Tail(@)] /\ inserted' = inserted
    BY Zenon DEF TakeFront, RemoveTaskFromQueue
  <1>6. IndexMatchesQueue' /\ NothingLost'
    BY <1>2, <1>3, <1>4, RemoveInv, Zenon
  <1> QED
    BY <1>5, <1>6, Zenon

\* The head of the whole list is the front of its shard: GetWithHint() erases
\* it "from the middle" only in appearance.
LEMMA TakeBeginInv ==
  ASSUME Inv, NEW c \in Consumers, queue # <<>>, TakeBegin(c)
  PROVE  /\ IndexMatchesQueue' /\ NothingLost'
         /\ \E s \in Shard : /\ index[s] # <<>>
                             /\ index' = [index EXCEPT ![s] = Tail(@)]
         /\ inserted' = inserted
  <1> DEFINE i == Head(queue)
             s == shardOf[i]
  <1>1. queue \in Seq(Nat) /\ index \in [Shard -> Seq(Nat)]
        /\ shardOf \in [DOMAIN shardOf -> Shard]
    BY Zenon DEF Inv, TypeOK
  <1>2. 1 \in DOMAIN queue /\ i = queue[1]
    BY <1>1
  <1>3. /\ DOMAIN shardOf = Items(queue)
        /\ \A t \in Shard :
             Items(index[t]) = {j \in DOMAIN shardOf : shardOf[j] = t}
        /\ Increasing(queue)
        /\ \A t \in Shard : Increasing(index[t])
    BY Zenon DEF Inv, IndexMatchesQueue
  <1>4. PICK k \in DOMAIN index[s] :
          index[s][k] = i /\ index' = [index EXCEPT ![s] = Erase(@, k)]
    BY Zenon DEF TakeBegin
  <1>5. RemoveTaskFromQueue(c, i)
    BY Zenon DEF TakeBegin
  <1> HIDE DEF i
  <1>6. s \in Shard
    BY <1>1, <1>2, <1>3, Zenon DEF Items
  <1> HIDE DEF s
  <1>7. index[s] \in Seq(Nat)
    BY <1>1, <1>6, Zenon
  <1>8. index' = [index EXCEPT ![s] = Erase(index[s], k)]
    BY <1>4, Zenon
  <1>9. k = 1
    <2>1. k \in 1 .. Len(index[s]) /\ 1 \in DOMAIN index[s]
      BY <1>7
    <2>2. SUFFICES ASSUME 1 < k PROVE FALSE
      BY <2>1
    <2>3. index[s][1] < i
      BY <1>3, <1>4, <1>6, <2>1, <2>2, Zenon DEF Increasing
    <2>4. index[s][1] \in Items(queue)
      <3>1. index[s][1] \in Items(index[s])
        BY <2>1, Zenon DEF Items
      <3> QED
        BY <1>3, <1>6, <3>1, Zenon
    <2>5. PICK m \in DOMAIN queue : index[s][1] = queue[m]
      BY <2>4, Zenon DEF Items
    <2>6. m \in 1 .. Len(queue) /\ queue[m] \in Nat /\ queue[1] \in Nat
      BY <1>1, <1>2
    <2>7. m = 1 \/ queue[1] < queue[m]
      BY <1>2, <1>3, <2>6 DEF Increasing
    <2> QED
      BY <1>2, <2>3, <2>5, <2>6, <2>7
  <1>10. index[s] # <<>>
    BY <1>4, <1>7
  <1>11. index' = [index EXCEPT ![s] = Tail(@)]
    BY <1>7, <1>8, <1>9, <1>10, EraseFirst, Zenon
  <1>12. IndexMatchesQueue' /\ NothingLost'
    BY <1>4, <1>5, <1>6, <1>8, RemoveInv, Zenon
  <1> QED
    BY <1>5, <1>6, <1>10, <1>11, <1>12, Zenon DEF RemoveTaskFromQueue

\* What a Pop() does to the lists, whichever way it chose the item.
LEMMA PopInv ==
  ASSUME Inv, NEW c \in Consumers, PopSteal(c) \/ PopTake(c)
  PROVE  /\ IndexMatchesQueue' /\ NothingLost'
         /\ \E s \in Shard : /\ index[s] # <<>>
                             /\ index' = [index EXCEPT ![s] = Tail(@)]
         /\ inserted' = inserted
  <1> TypeOK
    BY Zenon DEF Inv
  <1>1. CASE PopSteal(c)
    <2> DEFINE t == MaybeOverloadedShard(Home[c])
    <2>1. t \in Shard /\ index[t] # <<>> /\ TakeFront(c, t)
      BY <1>1, StealShard, Zenon DEF PopSteal
    <2> HIDE DEF t
    <2> QED
      BY <2>1, TakeFrontInv, Zenon
  <1>2. CASE PopTake(c)
    <2>1. CASE index[Home[c]] # <<>> /\ TakeFront(c, Home[c])
      BY <2>1, HomeInShard, TakeFrontInv, Zenon
    <2>2. CASE index[Home[c]] = <<>> /\ TakeBegin(c)
      <3>1. queue # <<>>
        BY <1>2, <2>2, Zenon DEF PopTake, NothingFor
      <3> QED
        BY <2>2, <3>1, TakeBeginInv, Zenon
    <2> QED
      BY <1>2, <2>1, <2>2, Zenon DEF PopTake
  <1> QED
    BY <1>1, <1>2, Zenon

Contents == <<queue, index, shardOf, inserted, popped>>

\* The other steps do not touch the lists.
LEMMA OtherSteps ==
  ASSUME [Next]_vars
  PROVE  \/ \E p \in Producers : PushInsert(p)
         \/ \E c \in Consumers : PopSteal(c) \/ PopTake(c)
         \/ UNCHANGED Contents
  BY Zenon DEF Next, PushStep, PopStep, PushCheck, PushRefused, PushCount,
         PushNotify, PopNone, PopWait, Wake, Close, ShutDown, vars, Contents

\* Every step keeps the inductive invariant.
LEMMA InvStep == Inv /\ [Next]_vars => Inv'
  <1> SUFFICES ASSUME Inv, [Next]_vars PROVE IndexMatchesQueue' /\ NothingLost'
    BY TypeStep, Zenon DEF Inv
  <1>1. CASE \E p \in Producers : PushInsert(p)
    BY <1>1, InsertInv, Zenon
  <1>2. CASE \E c \in Consumers : PopSteal(c) \/ PopTake(c)
    BY <1>2, PopInv, Zenon
  <1>3. CASE UNCHANGED Contents
    BY <1>3, Zenon DEF Contents, Inv, IndexMatchesQueue, NothingLost
  <1> QED
    BY <1>1, <1>2, <1>3, OtherSteps, Zenon

\* Both indexes agree with the list after every Push() and Pop().
THEOREM IndexCorrect == Spec => []IndexMatchesQueue
  <1>1. Inv => IndexMatchesQueue
    BY Zenon DEF Inv
  <1> QED
    BY <1>1, InvInit, InvStep, PTL DEF Spec

\* No interleaving of Push(), Pop() and Close() loses or duplicates a task.
THEOREM TasksConserved == Spec => []NothingLost
  <1>1. Inv => NothingLost
    BY Zenon DEF Inv
  <1> QED
    BY <1>1, InvInit, InvStep, PTL DEF Spec

\* The queue with its list, its indexes and its three ways to choose an item
\* implements one FIFO list per shard.
THEOREM QueueImplementsShardLists == Spec => ImplementsShardLists
  <1>1. Init => Lists!ListsInit
    BY Zenon DEF Init, Lists!ListsInit
  <1>2. Inv /\ [Next]_vars => [Lists!ListsNext]_Lists!listVars
    <2> SUFFICES ASSUME Inv, [Next]_vars
                 PROVE  Lists!ListsNext \/ UNCHANGED Lists!listVars
      BY Zenon
    <2>1. CASE \E p \in Producers : PushInsert(p)
      BY <2>1, Zenon DEF PushInsert, Inv, TypeOK, ProdState, Lists!ListsNext,
                  Lists!Put
    <2>2. CASE \E c \in Consumers : PopSteal(c) \/ PopTake(c)
      BY <2>2, PopInv, Zenon DEF Lists!ListsNext, Lists!Get
    <2>3. CASE UNCHANGED Contents
      BY <2>3, Zenon DEF Contents, Lists!listVars
    <2> QED
      BY <2>1, <2>2, <2>3, OtherSteps, Zenon
  <1> QED
    BY <1>1, <1>2, InvInit, InvStep, PTL
       DEF Spec, ImplementsShardLists, Lists!ListsSpec
-----------------------------------------------------------------------------
(* Capacity, the shards that exist, and the atomic counter *)

\* A bounded queue never exceeds capacity_: the test and the insertion are
\* under one lock.
THEOREM CapacityCorrect == Spec => []CapacityRespected
  <1>1. Init => CapacityRespected
    BY QueueAssumption DEF Init, CapacityRespected
  <1>2. Inv /\ CapacityRespected /\ [Next]_vars => CapacityRespected'
    <2> SUFFICES ASSUME Inv, CapacityRespected, [Next]_vars, Capacity # 0
                 PROVE  Len(queue') <= Capacity
      BY Zenon DEF CapacityRespected
    <2>1. queue \in Seq(Nat) /\ Len(queue) \in Nat /\ Capacity \in Nat
          /\ Len(queue) <= Capacity
      BY QueueAssumption DEF Inv, TypeOK, CapacityRespected
    <2>2. CASE \E p \in Producers : PushInsert(p)
      <3>1. queue' = Append(queue, inserted + 1) /\ ~(Len(queue) >= Capacity)
        BY <2>2, Zenon DEF PushInsert, Full
      <3>2. Len(queue') = Len(queue) + 1
        BY <2>1, <3>1
      <3> QED
        BY <2>1, <3>1, <3>2
    <2>3. CASE \E c \in Consumers : PopSteal(c) \/ PopTake(c)
      <3>1. PICK k \in DOMAIN queue : queue' = Erase(queue, k)
        BY <2>3, Zenon DEF PopSteal, PopTake, TakeFront, TakeBegin,
                    RemoveTaskFromQueue
      <3>2. Len(queue') = Len(queue) - 1
        BY <2>1, <3>1, EraseElements, Zenon
      <3> QED
        BY <2>1, <3>2
    <2>4. CASE UNCHANGED Contents
      BY <2>1, <2>4, Zenon DEF Contents
    <2> QED
      BY <2>2, <2>3, <2>4, OtherSteps, Zenon
  <1> QED
    BY <1>1, <1>2, InvInit, InvStep, PTL DEF Spec

\* The shards that NotifyShard() and WaitShardFor() index exist: index_ only
\* grows, and it grew before the mutex was released or the wait began.
THEOREM ShardsCorrect == Spec => []ShardsExist
  <1>1. Init => ShardsExist
    BY DEF Init, ShardsExist
  <1>2. Inv /\ ShardsExist /\ [Next]_vars => ShardsExist'
    <2> SUFFICES ASSUME Inv, ShardsExist, [Next]_vars PROVE ShardsExist'
      BY Zenon
    <2>1. /\ shards \in Nat /\ NShards \in Nat /\ Shard \subseteq Nat
          /\ Home \in [Consumers -> Shard]
          /\ prod \in [Producers -> ProdState]
          /\ index \in [Shard -> Seq(Nat)]
          /\ cons \in [Consumers -> {"idle", "wait", "awake", "gone"}]
      BY QueueAssumption DEF Inv, TypeOK, Shard
    <2>2. /\ \A p \in Producers : prod[p].pc \in {"count", "notify"}
               => prod[p].shard < shards
          /\ \A c \in Consumers : cons[c] = "wait" => Home[c] < shards
          /\ \A s \in Shard : s >= shards => index[s] = <<>>
      BY Zenon DEF ShardsExist
    <2>3. ASSUME NEW p \in Producers, NEW s \in PushShards, PushCheck(p, s)
          PROVE  ShardsExist'
      BY <2>1, <2>2, <2>3, Zenon DEF PushCheck, ShardsExist
    <2>4. ASSUME NEW p \in Producers, PushRefused(p) PROVE ShardsExist'
      BY <2>1, <2>2, <2>4, Zenon DEF PushRefused, ShardsExist, ProdState
    <2>5. ASSUME NEW p \in Producers, PushInsert(p) PROVE ShardsExist'
      <3> DEFINE s == prod[p].shard
      <3>1. s \in Shard /\ s \in Nat
        BY <2>1, Zenon DEF ProdState
      <3>2. shards' \in Nat /\ shards <= shards' /\ s < shards'
        BY <2>1, <2>5, <3>1 DEF PushInsert, EnsureShardExists
      <3>3. \A t \in Shard : t # s => index'[t] = index[t]
        BY <2>1, <2>5, Zenon DEF PushInsert
      <3>4. \A t \in Shard : t >= shards' => index'[t] = <<>>
        BY <2>1, <2>2, <3>1, <3>2, <3>3
      <3>5. /\ \A q \in Producers : prod'[q].shard = prod[q].shard
            /\ \A q \in Producers : q # p => prod'[q] = prod[q]
        BY <2>1, <2>5, Zenon DEF PushInsert, ProdState
      <3>6. \A q \in Producers : prod'[q].pc \in {"count", "notify"}
              => prod'[q].shard < shards'
        <4> TAKE q \in Producers
        <4>1. prod[q].shard \in Nat
          BY <2>1, Zenon DEF ProdState
        <4>2. CASE q = p
          BY <3>2, <3>5, <4>2, Zenon
        <4>3. CASE q # p
          BY <2>1, <2>2, <3>2, <3>5, <4>1, <4>3
        <4> QED
          BY <4>2, <4>3, Zenon
      <3>7. \A c \in Consumers : cons'[c] = "wait" => Home[c] < shards'
        BY <2>1, <2>2, <2>5, <3>2 DEF PushInsert
      <3> QED
        BY <3>4, <3>6, <3>7, Zenon DEF ShardsExist
    <2>6. ASSUME NEW p \in Producers, PushCount(p) PROVE ShardsExist'
      BY <2>1, <2>2, <2>6, Zenon DEF PushCount, ShardsExist, ProdState
    <2>7. ASSUME NEW p \in Producers, PushNotify(p) PROVE ShardsExist'
      <3>1. \A c \in Consumers : cons'[c] = "wait" => cons[c] = "wait"
        BY <2>1, <2>7, Zenon DEF PushNotify, WaitingOn
      <3>2. \A q \in Producers : prod'[q].pc \in {"count", "notify"}
              => prod'[q] = prod[q]
        BY <2>1, <2>7, Zenon DEF PushNotify, ProdState
      <3>3. shards' = shards /\ index' = index
        BY <2>7, Zenon DEF PushNotify
      <3> QED
        BY <2>2, <3>1, <3>2, <3>3, Zenon DEF ShardsExist
    <2>8. ASSUME NEW c \in Consumers, PopSteal(c) \/ PopTake(c)
          PROVE  ShardsExist'
      <3>1. /\ shards' \in Nat /\ shards <= shards' /\ prod' = prod
            /\ cons' = [cons EXCEPT ![c] = "idle"]
        <4>1. \E i : RemoveTaskFromQueue(c, i)
          BY <2>8, Zenon DEF PopSteal, PopTake, TakeFront, TakeBegin
        <4>2. prod' = prod /\ cons' = [cons EXCEPT ![c] = "idle"] /\ GrowFor(c)
          BY <4>1, Zenon DEF RemoveTaskFromQueue
        <4>3. shards \in Nat /\ Home[c] \in Nat
          BY <2>1, Zenon
        <4>4. CASE Strict(c) /\ Home[c] >= shards
          <5>1. shards' = Home[c] + 1
            BY <4>2, <4>4, Zenon DEF GrowFor
          <5> QED
            BY <4>2, <4>3, <4>4, <5>1
        <4>5. CASE ~(Strict(c) /\ Home[c] >= shards)
          <5>1. shards' = shards
            BY <4>2, <4>5, Zenon DEF GrowFor
          <5> QED
            BY <4>2, <4>3, <5>1
        <4> QED
          BY <4>4, <4>5, Zenon
      <3>2. PICK s \in Shard : /\ index[s] # <<>>
                               /\ index' = [index EXCEPT ![s] = Tail(@)]
        BY <2>8, PopInv, Zenon
      <3>3. \A t \in Shard : t >= shards' => index'[t] = <<>>
        BY <2>1, <2>2, <3>1, <3>2
      <3>4. \A d \in Consumers : cons'[d] = "wait" => Home[d] < shards'
        <4> TAKE d \in Consumers
        <4>1. Home[d] \in Nat
          BY <2>1, Zenon
        <4>2. cons'[d] = "wait" => cons[d] = "wait"
          BY <2>1, <3>1, Zenon
        <4> QED
          BY <2>1, <2>2, <3>1, <4>1, <4>2
      <3>5. \A q \in Producers : prod'[q].pc \in {"count", "notify"}
              => prod'[q].shard < shards'
        <4> TAKE q \in Producers
        <4>1. prod[q].shard \in Nat
          BY <2>1, Zenon DEF ProdState
        <4> QED
          BY <2>1, <2>2, <3>1, <4>1
      <3> QED
        BY <3>3, <3>4, <3>5, Zenon DEF ShardsExist
    <2>9. ASSUME NEW c \in Consumers, PopNone(c) \/ PopWait(c)
          PROVE  ShardsExist'
      <3>1. /\ shards' \in Nat /\ shards <= shards' /\ prod' = prod
            /\ index' = index
        <4>1. Home[c] \in Nat
          BY <2>1, Zenon
        <4>2. CASE PopNone(c)
          BY <2>1, <4>1, <4>2 DEF PopNone, GrowFor
        <4>3. CASE PopWait(c)
          BY <2>1, <4>1, <4>3 DEF PopWait, EnsureShardExists
        <4> QED
          BY <2>9, <4>2, <4>3, Zenon
      <3>2. \A d \in Consumers : cons'[d] = "wait" => Home[d] < shards'
        <4> TAKE d \in Consumers
        <4>1. Home[d] \in Nat
          BY <2>1, Zenon
        <4>2. CASE cons[d] = "wait"
          BY <2>1, <2>2, <3>1, <4>1, <4>2
        <4>3. CASE cons[d] # "wait" /\ cons'[d] = "wait"
          <5>1. d = c /\ PopWait(c)
            BY <2>1, <2>9, <4>3, Zenon DEF PopNone, PopWait
          <5> QED
            BY <2>1, <4>1, <5>1 DEF PopWait, EnsureShardExists
        <4> QED
          BY <4>2, <4>3, Zenon
      <3>3. \A q \in Producers : prod'[q].pc \in {"count", "notify"}
              => prod'[q].shard < shards'
        <4> TAKE q \in Producers
        <4>1. prod[q].shard \in Nat
          BY <2>1, Zenon DEF ProdState
        <4> QED
          BY <2>1, <2>2, <3>1, <4>1
      <3>4. \A t \in Shard : t >= shards' => index'[t] = <<>>
        BY <2>1, <2>2, <3>1
      <3> QED
        BY <3>2, <3>3, <3>4, Zenon DEF ShardsExist
    <2>10. ASSUME NEW c \in Consumers, Wake(c) PROVE ShardsExist'
      BY <2>1, <2>2, <2>10, Zenon DEF Wake, ShardsExist
    <2>11. CASE Close
      BY <2>1, <2>2, <2>11, Zenon DEF Close, ShardsExist
    <2>12. CASE ShutDown \/ UNCHANGED vars
      BY <2>2, <2>12, Zenon DEF ShutDown, vars, ShardsExist
    <2> QED
      BY <2>3, <2>4, <2>5, <2>6, <2>7, <2>8, <2>9, <2>10, <2>11, <2>12, Zenon
         DEF Next, PushStep, PopStep
  <1> QED
    BY <1>1, <1>2, InvInit, InvStep, PTL DEF Spec

\* size_ is short of the list by exactly the pushes between the two.
THEOREM SizeCorrect == Spec => []SizeLagsByPushes
  <1>1. Init => SizeLagsByPushes
    <2> SUFFICES ASSUME Init PROVE SizeLagsByPushes
      BY Zenon
    <2>1. Counting = {} /\ size = 0 /\ Len(queue) = 0
      BY Zenon DEF Init, Counting
    <2> QED
      BY <2>1, FS_EmptySet DEF SizeLagsByPushes
  <1>2. Inv /\ SizeLagsByPushes /\ [Next]_vars => SizeLagsByPushes'
    <2> SUFFICES ASSUME Inv, SizeLagsByPushes, [Next]_vars
                 PROVE  SizeLagsByPushes'
      BY Zenon
    <2>1. /\ prod \in [Producers -> ProdState]
          /\ queue \in Seq(Nat) /\ Len(queue) \in Nat /\ size \in Int
          /\ size = Len(queue) - Cardinality(Counting)
      BY DEF Inv, TypeOK, SizeLagsByPushes
    <2>2. IsFiniteSet(Counting) /\ Cardinality(Counting) \in Nat
      <3>1. Counting \subseteq Producers /\ IsFiniteSet(Producers)
        BY QueueAssumption, Zenon DEF Counting
      <3> QED
        BY <3>1, FS_Subset, FS_CardinalityType, Zenon
    <2>3. CASE UNCHANGED <<queue, size>> /\ Counting' = Counting
      BY <2>1, <2>3, Zenon DEF SizeLagsByPushes
    <2>4. ASSUME NEW p \in Producers, PushInsert(p) PROVE SizeLagsByPushes'
      <3>1. p \notin Counting /\ Counting' = Counting \union {p}
        BY <2>1, <2>4, Zenon DEF PushInsert, Counting, ProdState
      <3>2. Cardinality(Counting') = Cardinality(Counting) + 1
        BY <2>2, <3>1, FS_AddElement, Zenon
      <3>3. size' = size /\ Len(queue') = Len(queue) + 1
        BY <2>1, <2>4 DEF PushInsert
      <3> QED
        BY <2>1, <2>2, <3>2, <3>3 DEF SizeLagsByPushes
    <2>5. ASSUME NEW p \in Producers, PushCount(p) PROVE SizeLagsByPushes'
      <3>1. p \in Counting /\ Counting' = Counting \ {p}
        BY <2>1, <2>5, Zenon DEF PushCount, Counting, ProdState
      <3>2. Cardinality(Counting') = Cardinality(Counting) - 1
        BY <2>2, <3>1, FS_RemoveElement, Zenon
      <3>3. size' = size + 1 /\ queue' = queue
        BY <2>5, Zenon DEF PushCount
      <3> QED
        BY <2>1, <2>2, <3>2, <3>3 DEF SizeLagsByPushes
    <2>6. ASSUME NEW c \in Consumers, PopSteal(c) \/ PopTake(c)
          PROVE  SizeLagsByPushes'
      <3>1. PICK k \in DOMAIN queue : queue' = Erase(queue, k)
        BY <2>6, Zenon DEF PopSteal, PopTake, TakeFront, TakeBegin,
                    RemoveTaskFromQueue
      <3>2. Len(queue') = Len(queue) - 1
        BY <2>1, <3>1, EraseElements, Zenon
      <3>3. size' = size - 1 /\ Counting' = Counting
        BY <2>6, Zenon DEF PopSteal, PopTake, TakeFront, TakeBegin,
                    RemoveTaskFromQueue, Counting
      <3> QED
        BY <2>1, <2>2, <3>2, <3>3 DEF SizeLagsByPushes
    <2>7. ASSUME NEW p \in Producers, NEW s \in PushShards, PushCheck(p, s)
          PROVE  SizeLagsByPushes'
      <3>1. UNCHANGED <<queue, size>> /\ Counting' = Counting
        BY <2>1, <2>7, Zenon DEF PushCheck, Counting, ProdState
      <3> QED
        BY <2>3, <3>1, Zenon
    <2>8. ASSUME NEW p \in Producers, PushRefused(p) \/ PushNotify(p)
          PROVE  SizeLagsByPushes'
      <3>1. UNCHANGED <<queue, size>> /\ Counting' = Counting
        BY <2>1, <2>8, Zenon DEF PushRefused, PushNotify, Counting, ProdState
      <3> QED
        BY <2>3, <3>1, Zenon
    <2>9. ASSUME NEW c \in Consumers, PopNone(c) \/ PopWait(c) \/ Wake(c)
          PROVE  SizeLagsByPushes'
      BY <2>3, <2>9, Zenon DEF PopNone, PopWait, Wake, Counting
    <2>10. CASE Close \/ ShutDown \/ UNCHANGED vars
      BY <2>3, <2>10, Zenon DEF Close, ShutDown, vars, Counting
    <2> QED
      BY <2>4, <2>5, <2>6, <2>7, <2>8, <2>9, <2>10, Zenon
         DEF Next, PushStep, PopStep
  <1> QED
    BY <1>1, <1>2, InvInit, InvStep, PTL DEF Spec
-----------------------------------------------------------------------------
(* ThreadPool: the queue inside the pool, and Resolve() beside it *)

\* A step of the pool is a step of its queue, or leaves the queue alone.
LEMMA PoolStepIsQueueStep == PoolNext => [Next]_vars
  <1> SUFFICES ASSUME PoolNext PROVE Next \/ UNCHANGED vars
    BY Zenon
  <1>1. CASE \E p \in Producers : Push(p)
    BY <1>1, PoolAssumption, Zenon DEF Push, Next
  <1>2. CASE \E c \in Consumers : DoPop(c) \/ DoWake(c)
    BY <1>2, Zenon DEF DoPop, DoWake, Next
  <1>3. CASE \E c \in Consumers : Call(c) \/ Set(c)
    BY <1>3, Zenon DEF Call, Set
  <1>4. CASE CloseTasks
    BY <1>4, Zenon DEF CloseTasks, Next
  <1>5. CASE Run \/ Destroy \/ (FutureNext /\ UNCHANGED <<vars, poolVars>>)
    BY <1>5, Zenon DEF Run, Destroy
  <1> QED
    BY <1>1, <1>2, <1>3, <1>4, <1>5, Zenon DEF PoolNext, WorkerStep

\* The queue inside a ThreadPool behaves as LockedQueue specifies: Run(), DoWork() and
\* the destructor only restrict when it is used.
THEOREM PoolUsesQueue == PoolSpec => Spec
  <1>1. PoolInit => Init
    BY Zenon DEF PoolInit
  <1>2. [PoolNext]_allVars => [Next]_vars
    BY PoolStepIsQueueStep, Zenon DEF allVars
  <1> QED
    BY <1>1, <1>2, PTL DEF PoolSpec, Spec

Resolving == {"start", "leave", "check", "wait", "join", "returned"}

Lookups == [pc : {"unborn", "lookup", "set", "ended"}, found : {Null, Address}]

ResolveStates ==
  [fulfilled : BOOLEAN, async : Resolver \union {NoThread}, value : {Null, Address}]

\* A promise of Resolve(): once its thread is known, the thread alone fulfils it.
ResolveInvOf(p) ==
  /\ lookup[p] \in Lookups
  /\ state[p] \in ResolveStates
  /\ resolve[p] = "start" => state[p] = Unfulfilled /\ lookup[p].pc = "unborn"
  /\ resolve[p] # "start" => state[p].async = p /\ lookup[p].pc # "unborn"
  /\ state[p].fulfilled => lookup[p].pc = "ended" /\ state[p].value = lookup[p].found
  /\ resolve[p] \in {"join", "returned"}
       => state[p].fulfilled /\ resolved[p] = state[p].value

ResolveInv ==
  /\ DOMAIN state = Promises
  /\ resolve \in [Resolver -> Resolving]
  /\ DOMAIN lookup = Resolver /\ DOMAIN resolved = Resolver
  /\ \A p \in Resolver : ResolveInvOf(p)

\* The invariant of a promise depends on what is stored for it only.
LEMMA ResolveFrame ==
  ASSUME NEW p \in Resolver, ResolveInvOf(p),
         state'[p] = state[p], lookup'[p] = lookup[p],
         resolve'[p] = resolve[p], resolved'[p] = resolved[p]
  PROVE  ResolveInvOf(p)'
  BY Zenon DEF ResolveInvOf, Lookups, ResolveStates

\* It holds before anybody has called Resolve().
LEMMA ResolveInit == PoolInit => ResolveInv
  BY FutureAssumption
     DEF PoolInit, FutureInit, ResolveInv, ResolveInvOf, Resolving, Lookups, ResolveStates,
         Unfulfilled

\* A step changes what is stored for promise p, and nothing of the others.
Only(p) ==
  /\ DOMAIN state' = Promises /\ DOMAIN lookup' = Resolver /\ DOMAIN resolved' = Resolver
  /\ resolve' \in [Resolver -> Resolving]
  /\ \A q \in Promises \ {p} : state'[q] = state[q]
  /\ \A q \in Resolver \ {p} : lookup'[q] = lookup[q] /\ resolve'[q] = resolve[q]
                               /\ resolved'[q] = resolved[q]

\* A step of Resolve() or of the thread it started keeps the invariant of its promise,
\* and touches no other promise.
LEMMA ResolveOwnStep ==
  ASSUME NEW p \in Resolver, ResolveInv, ResolveStep(p) \/ LookupStep(p)
  PROVE  ResolveInvOf(p)' /\ Only(p)
  <1>0. p \in Promises /\ p # NoThread /\ p # Owner
    BY FutureAssumption, Zenon
  <1>1. /\ DOMAIN state = Promises /\ DOMAIN lookup = Resolver /\ DOMAIN resolved = Resolver
        /\ resolve \in [Resolver -> Resolving] /\ ResolveInvOf(p)
    BY Zenon DEF ResolveInv
  <1>2. CASE ResolveStart(p)
    <2>1. Only(p)
      BY <1>0, <1>1, <1>2, Zenon DEF ResolveStart, Only, Resolving
    <2>2. /\ state'[p] = [Unfulfilled EXCEPT !.async = p]
          /\ lookup'[p] = [lookup[p] EXCEPT !.pc = "lookup"] /\ lookup[p] \in Lookups
          /\ resolve'[p] = "leave"
      BY <1>0, <1>1, <1>2, Zenon DEF ResolveStart, ResolveInvOf
    <2>3. state'[p] = [fulfilled |-> FALSE, async |-> p, value |-> Null]
      BY <2>2, Zenon DEF Unfulfilled
    <2>4. state'[p] \in ResolveStates /\ state'[p].async = p /\ ~state'[p].fulfilled
      BY <2>3 DEF ResolveStates
    <2>5. lookup'[p] \in Lookups /\ lookup'[p].pc = "lookup"
      BY <2>2, Zenon DEF Lookups
    <2> QED
      BY <2>1, <2>2, <2>4, <2>5, Zenon DEF ResolveInvOf
  <1>3. CASE ResolveLeave(p)
    <2>1. state[p].async = p
      BY <1>1, <1>3, Zenon DEF ResolveLeave, ResolveInvOf
    <2>2. Broken(state[p], Null) = state[p]
      BY <1>0, <2>1, Zenon DEF Broken, SetStateValue
    <2>3. Only(p) /\ state'[p] = state[p] /\ lookup' = lookup /\ resolve'[p] = "check"
      BY <1>0, <1>1, <1>3, <2>2, Zenon DEF ResolveLeave, Only, Resolving
    <2> QED
      BY <1>1, <1>3, <2>3, Zenon DEF ResolveLeave, ResolveInvOf
  <1>4. CASE Wait(p)
    <2>1. Only(p) /\ state' = state /\ lookup' = lookup /\ resolve'[p] = "wait"
      BY <1>0, <1>1, <1>4, Zenon DEF Wait, Only, Resolving
    <2> QED
      BY <1>1, <1>4, <2>1, Zenon DEF Wait, ResolveInvOf
  <1>5. CASE GetValue(p)
    <2>1. /\ Only(p) /\ state' = state /\ lookup' = lookup /\ resolve'[p] = "join"
          /\ resolved'[p] = state[p].value
      BY <1>0, <1>1, <1>5, Zenon DEF GetValue, Only, Resolving
    <2> QED
      BY <1>1, <1>5, <2>1, Zenon DEF GetValue, ResolveInvOf
  <1>6. CASE Join(p)
    <2>1. /\ Only(p) /\ state' = state /\ lookup' = lookup /\ resolve'[p] = "returned"
          /\ resolved' = resolved
      BY <1>0, <1>1, <1>6, Zenon DEF Join, Only, Resolving
    <2> QED
      BY <1>1, <1>6, <2>1, Zenon DEF Join, ResolveInvOf
  <1>7. CASE TcpHost(p)
    <2>1. PICK v \in {Null, Address} :
                 lookup' = [lookup EXCEPT ![p] = [pc |-> "set", found |-> v]]
      BY <1>7, ZenonT(30) DEF TcpHost
    <2>2. /\ Only(p) /\ state' = state /\ resolve' = resolve /\ resolved' = resolved
          /\ lookup'[p] = [pc |-> "set", found |-> v]
      <3>1. state' = state /\ resolve' = resolve /\ resolved' = resolved
        BY <1>7, Zenon DEF TcpHost
      <3>2. /\ DOMAIN lookup' = Resolver /\ lookup'[p] = [pc |-> "set", found |-> v]
            /\ \A q \in Resolver \ {p} : lookup'[q] = lookup[q]
        BY <1>1, <2>1, Zenon
      <3> QED  BY <1>1, <3>1, <3>2, Zenon DEF Only
    <2>3. ~state[p].fulfilled /\ resolve[p] # "start"
      BY <1>1, <1>7, Zenon DEF TcpHost, ResolveInvOf
    <2>4. lookup'[p] \in Lookups /\ lookup'[p].pc = "set"
      BY <2>2 DEF Lookups
    <2> QED
      BY <1>1, <2>2, <2>3, <2>4, Zenon DEF ResolveInvOf
  <1>8. CASE LookupSet(p)
    <2>1. /\ ~state[p].fulfilled /\ state[p].async = p
          /\ resolve[p] \notin {"start", "join", "returned"}
          /\ lookup[p] \in Lookups /\ state[p] \in ResolveStates
      BY <1>1, <1>8, Zenon DEF LookupSet, ResolveInvOf
    <2>2. state'[p] = [state[p] EXCEPT !.value = lookup[p].found, !.fulfilled = TRUE]
      BY <1>0, <1>1, <1>8, <2>1, Zenon DEF LookupSet, SetStateValue
    <2>3. /\ state'[p] \in ResolveStates /\ state'[p].fulfilled /\ state'[p].async = p
          /\ state'[p].value = lookup[p].found
      <3>1. lookup[p].found \in {Null, Address}
        BY <2>1, Zenon DEF Lookups
      <3>2. state'[p] = [fulfilled |-> TRUE, async |-> p, value |-> lookup[p].found]
        BY <2>1, <2>2, Zenon DEF ResolveStates
      <3> QED
        BY <3>1, <3>2 DEF ResolveStates
    <2>4. /\ lookup'[p] \in Lookups /\ lookup'[p].pc = "ended"
          /\ lookup'[p].found = lookup[p].found
      <3>1. lookup'[p] = [lookup[p] EXCEPT !.pc = "ended"]
        BY <1>1, <1>8, Zenon DEF LookupSet
      <3> QED
        BY <2>1, <3>1, Zenon DEF Lookups
    <2>5. resolve' = [r \in Resolver |-> IF r = p /\ resolve[r] = "wait" /\ state'[r].fulfilled
                                         THEN "check" ELSE resolve[r]]
      BY <1>8, Zenon DEF LookupSet, Notified
    <2>6. resolve'[p] \notin {"start", "join", "returned"}
      BY <2>1, <2>5, Zenon
    <2>7. resolve' \in [Resolver -> Resolving] /\ \A q \in Resolver \ {p} : resolve'[q] = resolve[q]
      BY <1>1, <2>5, Zenon DEF Resolving
    <2>8. Only(p)
      BY <1>1, <1>8, <2>7, Zenon DEF LookupSet, Only
    <2> QED
      BY <2>1, <2>3, <2>4, <2>6, <2>8, Zenon DEF ResolveInvOf
  <1> QED
    BY <1>2, <1>3, <1>4, <1>5, <1>6, <1>7, <1>8, Zenon DEF ResolveStep, LookupStep

\* What the pool does to its own promises does not reach those of Resolve().
LEMMA PoolKeepsResolve ==
  ASSUME Inv, ResolveInv, PoolNext, ~(FutureNext /\ UNCHANGED <<vars, poolVars>>),
         \A c \in Consumers : hand[c].task \in Nat
  PROVE  /\ UNCHANGED <<lookup, resolve, resolved>>
         /\ DOMAIN state' = Promises
         /\ \A p \in Resolver : state'[p] = state[p]
  <1>0. \A p \in Resolver : p \notin Nat /\ p \in Promises
    BY PoolAssumption, FutureAssumption, Zenon
  <1>1. CASE UNCHANGED futureVars
    BY <1>1, Zenon DEF futureVars, ResolveInv
  <1>2. CASE \E c \in Consumers : Set(c)
    BY <1>0, <1>2 DEF Set, ResolveInv
  <1>3. CASE Destroy
    <2>1. Items(queue) \subseteq Nat
      BY DEF Inv, TypeOK, Items
    <2> QED
      BY <1>0, <1>3, <2>1, Zenon DEF Destroy
  <1> QED
    BY <1>1, <1>2, <1>3, Zenon
       DEF PoolNext, WorkerStep, Push, DoPop, DoWake, Call, Run, CloseTasks, futureVars

Hands == [task : Nat, pc : {"pop", "call", "set"}]
Holding(c) == hand[c].pc # "pop"

\* A task that was popped is in one hand, and is called by that hand once.
HandInv ==
  /\ hand \in [Consumers -> Hands]
  /\ \A c \in Consumers : ~Holding(c) => hand[c] = Free
  /\ \A c \in Consumers : Holding(c) => hand[c].task \in popped
  /\ \A c, d \in Consumers :
       Holding(c) /\ Holding(d) /\ hand[c].task = hand[d].task => c = d
  /\ ran \subseteq popped
  /\ \A i \in popped \ ran :
       \E c \in Consumers : hand[c].task = i /\ hand[c].pc = "call"
  /\ \A c \in Consumers : hand[c].pc = "call" => hand[c].task \notin ran
  /\ \A c \in Consumers : hand[c].pc = "set" => hand[c].task \in ran

\* Nobody pushes into a closed queue, a worker leaves only when the closed queue is
\* empty, and the destructor of a running pool waits for all of them.
StopInv ==
  /\ started \in BOOLEAN /\ destroyed \in BOOLEAN
  /\ closed => \A p \in Producers : prod[p].pc = "idle"
  /\ \A c \in Consumers : cons[c] = "gone" => closed /\ queue = <<>> /\ hand[c] = Free
  /\ destroyed => closed
  /\ destroyed /\ started => \A c \in Consumers : cons[c] = "gone"

\* What a pop gives to its worker: nothing, or an item of the queue that nobody got.
LEMMA DoPopGives ==
  ASSUME Inv, NEW c \in Consumers, DoPop(c), HandInv
  PROVE  \/ /\ hand' = hand /\ popped' = popped /\ queue' = queue
            /\ \/ closed /\ queue = <<>> /\ cons' = [cons EXCEPT ![c] = "gone"]
               \/ cons' = [cons EXCEPT ![c] = "wait"]
         \/ \E i \in Items(queue) :
              /\ i \notin popped /\ i \in Nat
              /\ popped' = popped \union {i}
              /\ hand' = [hand EXCEPT ![c] = [task |-> i, pc |-> "call"]]
              /\ cons' = [cons EXCEPT ![c] = "idle"]
              /\ queue # <<>>
  <1>0. ~Strict(c) /\ ~ShuttingDown(c) /\ ~Steals(c)
    BY PoolAssumption, Zenon DEF Strict, ShuttingDown, Steals
  <1>1. CASE PopNone(c) \/ PopWait(c)
    <2>1. popped' = popped /\ queue' = queue
      BY <1>1, Zenon DEF PopNone, PopWait
    <2>2. hand' = [hand EXCEPT ![c] = Free] /\ hand[c] = Free
      BY <2>1, Zenon DEF DoPop
    <2>3. hand' = hand
      BY <2>2, Zenon DEF HandInv
    <2>4. PopNone(c) => closed /\ queue = <<>> /\ cons' = [cons EXCEPT ![c] = "gone"]
      BY <1>0, PoolAssumption, Zenon DEF PopNone, NothingFor
    <2>5. PopWait(c) => cons' = [cons EXCEPT ![c] = "wait"]
      BY Zenon DEF PopWait
    <2> QED
      BY <1>1, <2>1, <2>3, <2>4, <2>5, Zenon
  <1>2. CASE PopTake(c)
    <2>1. PICK i : RemoveTaskFromQueue(c, i)
      BY <1>2, Zenon DEF PopTake, TakeFront, TakeBegin
    <2>2. /\ popped' = popped \union {i}
          /\ cons' = [cons EXCEPT ![c] = "idle"]
          /\ i \in Items(queue)
      BY <2>1, Zenon DEF RemoveTaskFromQueue, Items
    <2>3. i \notin popped /\ i \in Nat
      BY <2>2 DEF Inv, TypeOK, IndexMatchesQueue, NothingLost, Items
    <2>4. popped' # popped /\ popped' \ popped = {i}
      BY <2>2, <2>3, Zenon
    <2>5. hand' = [hand EXCEPT ![c] = [task |-> i, pc |-> "call"]]
      <3>1. (CHOOSE j \in {i} : TRUE) = i
        BY Zenon
      <3> QED
        BY <2>4, <3>1, Zenon DEF DoPop
    <2>6. queue # <<>>
      BY <2>2 DEF Items
    <2> QED
      BY <2>2, <2>3, <2>5, <2>6, Zenon
  <1> QED
    BY <1>0, <1>1, <1>2, Zenon DEF DoPop, PopStep, PopSteal

\* A worker that gets a task is the only one that holds it.
LEMMA PopKeepsHands ==
  ASSUME HandInv, NEW c \in Consumers, NEW i \in Nat, i \notin popped, hand[c] = Free,
         popped' = popped \union {i}, ran' = ran,
         hand' = [hand EXCEPT ![c] = [task |-> i, pc |-> "call"]]
  PROVE  HandInv'
  <1>1. /\ hand'[c].task = i /\ hand'[c].pc = "call" /\ Holding(c)'
        /\ \A d \in Consumers \ {c} : hand'[d] = hand[d] /\ (Holding(d)' <=> Holding(d))
    BY Zenon DEF HandInv, Holding
  <1>2. hand' \in [Consumers -> Hands]
    BY Zenon DEF HandInv, Hands
  <1>3. ~Holding(c) /\ hand[c].pc # "call"
    BY DEF Free, Holding
  <1>4. \A j \in popped' \ ran' :
          \E d \in Consumers : hand'[d].task = j /\ hand'[d].pc = "call"
    <2> TAKE j \in popped' \ ran'
    <2>1. CASE j = i
      BY <1>1, <2>1, Zenon
    <2>2. CASE j # i
      <3>1. PICK d \in Consumers : hand[d].task = j /\ hand[d].pc = "call"
        BY <2>2, Zenon DEF HandInv
      <3> QED
        BY <1>1, <1>3, <3>1, Zenon
    <2> QED
      BY <2>1, <2>2, Zenon
  <1>5. \A d, e \in Consumers :
          Holding(d)' /\ Holding(e)' /\ hand'[d].task = hand'[e].task => d = e
    BY <1>1 DEF HandInv
  <1>6. /\ \A d \in Consumers : ~Holding(d)' => hand'[d] = Free
        /\ \A d \in Consumers : Holding(d)' => hand'[d].task \in popped'
        /\ ran' \subseteq popped'
        /\ \A d \in Consumers : hand'[d].pc = "call" => hand'[d].task \notin ran'
        /\ \A d \in Consumers : hand'[d].pc = "set" => hand'[d].task \in ran'
    BY <1>1 DEF HandInv
  <1> QED
    BY <1>2, <1>4, <1>5, <1>6, Zenon DEF HandInv, Free

\* The call of a closure moves its task from "popped" to "called".
LEMMA CallKeepsHands ==
  ASSUME HandInv, NEW c \in Consumers, Call(c)
  PROVE  HandInv'
  <1> DEFINE i == hand[c].task
  <1>0. /\ hand[c].pc = "call" /\ ran' = ran \union {i} /\ popped' = popped
        /\ hand' = [hand EXCEPT ![c].pc = "set"] /\ Holding(c)
    BY Zenon DEF Call, vars, Holding
  <1>1. /\ hand'[c].task = i /\ hand'[c].pc = "set" /\ Holding(c)'
        /\ \A d \in Consumers \ {c} : hand'[d] = hand[d] /\ (Holding(d)' <=> Holding(d))
    BY <1>0 DEF HandInv, Holding, Hands
  <1>2. hand' \in [Consumers -> Hands]
    BY <1>0 DEF HandInv, Hands
  <1>3. \A d \in Consumers \ {c} : Holding(d) => hand[d].task # i
    BY <1>0, Zenon DEF HandInv
  <1>4. i \in popped
    BY <1>0, Zenon DEF HandInv
  <1>5. \A j \in popped' \ ran' :
          \E d \in Consumers : hand'[d].task = j /\ hand'[d].pc = "call"
    <2> TAKE j \in popped' \ ran'
    <2>1. PICK d \in Consumers : hand[d].task = j /\ hand[d].pc = "call"
      BY <1>0, Zenon DEF HandInv
    <2>2. d # c
      BY <1>0, <2>1, Zenon
    <2> QED
      BY <1>1, <2>1, <2>2, Zenon
  <1>6. \A d \in Consumers : Holding(d)' => hand'[d].task = hand[d].task /\ Holding(d)
    BY <1>0, <1>1, Zenon
  <1>7. /\ \A d \in Consumers : ~Holding(d)' => hand'[d] = Free
        /\ \A d \in Consumers : Holding(d)' => hand'[d].task \in popped'
        /\ \A d, e \in Consumers :
             Holding(d)' /\ Holding(e)' /\ hand'[d].task = hand'[e].task => d = e
    BY <1>0, <1>1, <1>6 DEF HandInv
  <1>8. /\ ran' \subseteq popped'
        /\ \A d \in Consumers : hand'[d].pc = "set" => hand'[d].task \in ran'
    BY <1>0, <1>1, <1>4 DEF HandInv
  <1>9. \A d \in Consumers : hand'[d].pc = "call" => hand'[d].task \notin ran'
    BY <1>0, <1>1, <1>3, Zenon DEF HandInv, Holding
  <1> QED
    BY <1>2, <1>5, <1>7, <1>8, <1>9, Zenon DEF HandInv, Free

\* A worker that has called its closure and set the future lets go of the task.
LEMMA SetKeepsHands ==
  ASSUME HandInv, NEW c \in Consumers, Set(c)
  PROVE  HandInv'
  <1>0. /\ hand[c].pc = "set" /\ hand' = [hand EXCEPT ![c] = Free]
        /\ ran' = ran /\ popped' = popped
    BY Zenon DEF Set, vars
  <1>1. /\ hand'[c] = Free /\ hand'[c].pc = "pop" /\ ~Holding(c)'
        /\ \A d \in Consumers \ {c} : hand'[d] = hand[d] /\ (Holding(d)' <=> Holding(d))
    BY <1>0 DEF HandInv, Holding, Free
  <1>2. hand' \in [Consumers -> Hands]
    BY <1>0, Zenon DEF HandInv, Hands, Free
  <1>3. \A j \in popped' \ ran' :
          \E d \in Consumers : hand'[d].task = j /\ hand'[d].pc = "call"
    <2> TAKE j \in popped' \ ran'
    <2>1. PICK d \in Consumers : hand[d].task = j /\ hand[d].pc = "call"
      BY <1>0, Zenon DEF HandInv
    <2> QED
      BY <1>0, <1>1, <2>1, Zenon
  <1>4. /\ \A d \in Consumers : ~Holding(d)' => hand'[d] = Free
        /\ \A d \in Consumers : Holding(d)' => hand'[d].task \in popped'
        /\ \A d, e \in Consumers :
             Holding(d)' /\ Holding(e)' /\ hand'[d].task = hand'[e].task => d = e
    BY <1>0, <1>1 DEF HandInv
  <1>5. /\ ran' \subseteq popped'
        /\ \A d \in Consumers : hand'[d].pc = "call" => hand'[d].task \notin ran'
        /\ \A d \in Consumers : hand'[d].pc = "set" => hand'[d].task \in ran'
    BY <1>0, <1>1 DEF HandInv
  <1> QED
    BY <1>2, <1>3, <1>4, <1>5, Zenon DEF HandInv, Free

\* The workers' tasks are as they should be after every step of the pool.
LEMMA HandStep ==
  ASSUME Inv, HandInv, PoolNext
  PROVE  HandInv'
  <1>1. ASSUME NEW c \in Consumers, DoPop(c) PROVE HandInv'
    <2>0. hand[c] = Free /\ ran' = ran
      BY <1>1, Zenon DEF DoPop
    <2>1. CASE hand' = hand /\ popped' = popped
      BY <2>0, <2>1 DEF HandInv, Holding
    <2>2. CASE \E i \in Items(queue) :
                 /\ i \notin popped /\ i \in Nat
                 /\ popped' = popped \union {i}
                 /\ hand' = [hand EXCEPT ![c] = [task |-> i, pc |-> "call"]]
      BY <2>0, <2>2, PopKeepsHands, Zenon
    <2> QED
      BY <1>1, <2>1, <2>2, DoPopGives, Zenon
  <1>2. ASSUME NEW c \in Consumers, Call(c) \/ Set(c) PROVE HandInv'
    BY <1>2, CallKeepsHands, SetKeepsHands, Zenon
  <1>3. CASE UNCHANGED <<hand, popped, ran>>
    BY <1>3, Zenon DEF HandInv, Holding
  <1>4. ASSUME NEW p \in Producers, Push(p) PROVE UNCHANGED <<hand, popped, ran>>
    BY <1>4, Zenon DEF Push, poolVars, PushCheck, PushStep, PushRefused, PushInsert, PushCount,
                PushNotify
  <1>5. ASSUME NEW c \in Consumers, DoWake(c) PROVE UNCHANGED <<hand, popped, ran>>
    BY <1>5, Zenon DEF DoWake, Wake, poolVars
  <1>6. ASSUME \/ Run \/ CloseTasks \/ Destroy
               \/ FutureNext /\ UNCHANGED <<vars, poolVars>>
        PROVE  UNCHANGED <<hand, popped, ran>>
    BY <1>6, Zenon DEF Run, CloseTasks, Close, Destroy, vars, poolVars
  <1> QED
    BY <1>1, <1>2, <1>3, <1>4, <1>5, <1>6, Zenon DEF PoolNext, WorkerStep

\* The order of a shutdown: no push after Close(), no worker that leaves work behind,
\* no destructor that returns before the workers.
LEMMA StopStep ==
  ASSUME Inv, HandInv, StopInv, PoolNext
  PROVE  StopInv'
  <1> USE DEF StopInv
  <1>0. cons \in [Consumers -> {"idle", "wait", "awake", "gone"}] /\ closed \in BOOLEAN
    BY Zenon DEF Inv, TypeOK
  <1>1. ASSUME NEW p \in Producers, Push(p) PROVE StopInv'
    <2>1. ~closed
      BY <1>1, Zenon DEF Push, PushCheck, PushStep, PushRefused, PushInsert, PushCount, PushNotify
    <2>2. closed' = closed /\ UNCHANGED poolVars
      BY <1>1, Zenon DEF Push, PushCheck, PushStep, PushRefused, PushInsert, PushCount, PushNotify
    <2>3. \A c \in Consumers : cons'[c] # "gone"
      <3>1. cons' = cons \/ \E c \in Consumers : cons' = [cons EXCEPT ![c] = "awake"]
        BY <1>1, Zenon DEF Push, PushCheck, PushStep, PushRefused, PushInsert, PushCount, PushNotify,
                    WaitingOn
      <3> QED
        BY <1>0, <2>1, <3>1, Zenon
    <2> QED
      BY <2>1, <2>2, <2>3, Zenon DEF poolVars
  <1>2. ASSUME NEW c \in Consumers, DoPop(c) PROVE StopInv'
    <2>1. /\ UNCHANGED <<closed, prod, started, destroyed>> /\ started
      BY <1>2, Zenon DEF DoPop, PopStep, PopSteal, PopTake, PopNone, PopWait, TakeFront, TakeBegin,
                  RemoveTaskFromQueue
    <2>2. cons[c] # "gone" /\ hand[c] = Free
      BY <1>2, Zenon DEF DoPop, PopStep, PopSteal, PopTake, PopNone, PopWait, Ready
    <2>3. CASE /\ hand' = hand /\ queue' = queue
               /\ \/ closed /\ queue = <<>> /\ cons' = [cons EXCEPT ![c] = "gone"]
                  \/ cons' = [cons EXCEPT ![c] = "wait"]
      BY <1>0, <2>1, <2>2, <2>3, Zenon
    <2>4. CASE queue # <<>> /\ cons' = [cons EXCEPT ![c] = "idle"]
      BY <1>0, <2>1, <2>2, <2>4, Zenon
    <2> QED
      BY <1>2, <2>3, <2>4, DoPopGives, Zenon
  <1>3. ASSUME NEW c \in Consumers, DoWake(c) PROVE StopInv'
    BY <1>0, <1>3, Zenon DEF DoWake, Wake, poolVars
  <1>4. ASSUME NEW c \in Consumers, Call(c) \/ Set(c) PROVE StopInv'
    <2>1. /\ UNCHANGED <<vars, started, destroyed>>
          /\ hand[c] # Free /\ \A d \in Consumers \ {c} : hand'[d] = hand[d]
      BY <1>4 DEF Call, Set, HandInv, Free
    <2> QED
      BY <2>1, Zenon DEF vars
  <1>5. CASE Run
    BY <1>5, Zenon DEF Run, vars
  <1>6. CASE CloseTasks
    BY <1>0, <1>6, Zenon DEF CloseTasks, Close, poolVars
  <1>7. CASE Destroy
    BY <1>7, Zenon DEF Destroy, vars
  <1>8. CASE FutureNext /\ UNCHANGED <<vars, poolVars>>
    BY <1>8, Zenon DEF vars, poolVars
  <1> QED
    BY <1>1, <1>2, <1>3, <1>4, <1>5, <1>6, <1>7, <1>8, Zenon DEF PoolNext, WorkerStep

PoolInv == Inv /\ ResolveInv /\ HandInv /\ StopInv

\* The invariant holds of a pool that was just made.
LEMMA PoolInvInit == PoolInit => PoolInv
  <1> SUFFICES ASSUME PoolInit PROVE HandInv /\ StopInv
    BY InvInit, ResolveInit, Zenon DEF PoolInv, PoolInit
  <1>1. hand = [c \in Consumers |-> Free] /\ ran = {} /\ popped = {}
    BY Zenon DEF PoolInit, Init
  <1>2. HandInv
    BY <1>1, Zenon DEF HandInv, Hands, Holding, Free
  <1>3. StopInv
    BY Zenon DEF PoolInit, Init, StopInv
  <1> QED
    BY <1>2, <1>3, Zenon

\* Every step of the pool and of the threads beside it keeps the invariant.
LEMMA PoolInvStep == PoolInv /\ [PoolNext]_allVars => PoolInv'
  <1> SUFFICES ASSUME PoolInv, [PoolNext]_allVars PROVE PoolInv'
    BY Zenon
  <1>0. Inv /\ ResolveInv /\ HandInv /\ StopInv
    BY Zenon DEF PoolInv
  <1>1. CASE UNCHANGED allVars
    <2>1. UNCHANGED vars /\ UNCHANGED futureVars /\ UNCHANGED poolVars
      BY <1>1, Zenon DEF allVars
    <2>2. Inv'
      BY <1>0, <2>1, InvStep, Zenon
    <2>3. ResolveInv'
      <3>1. UNCHANGED <<state, resolve, lookup, resolved>>
        BY <2>1, Zenon DEF futureVars
      <3>2. \A p \in Resolver : ResolveInvOf(p)'
        BY <1>0, <3>1, ResolveFrame, Zenon DEF ResolveInv
      <3> QED
        BY <1>0, <3>1, <3>2, Zenon DEF ResolveInv
    <2>4. HandInv' /\ StopInv'
      <3>1. UNCHANGED <<hand, ran, started, destroyed, popped, closed, prod, cons, queue>>
        BY <2>1, Zenon DEF vars, poolVars
      <3>2. HandInv'
        BY <1>0, <3>1, Zenon DEF HandInv, Holding
      <3>3. StopInv'
        BY <1>0, <3>1, Zenon DEF StopInv
      <3> QED
        BY <3>2, <3>3, Zenon
    <2> QED
      BY <2>2, <2>3, <2>4, Zenon DEF PoolInv
  <1>2. CASE PoolNext
    <2>1. Inv'
      BY <1>0, <1>2, InvStep, PoolStepIsQueueStep, Zenon
    <2>2. HandInv' /\ StopInv'
      BY <1>0, <1>2, HandStep, StopStep, Zenon
    <2>3. ResolveInv'
      <3>1. CASE FutureNext /\ UNCHANGED <<vars, poolVars>>
        <4>1. PICK p \in Resolver : ResolveStep(p) \/ LookupStep(p)
          BY <3>1, Zenon DEF FutureNext
        <4>2. ResolveInvOf(p)' /\ Only(p)
          BY <1>0, <4>1, ResolveOwnStep, Zenon
        <4>3. ASSUME NEW q \in Resolver \ {p} PROVE ResolveInvOf(q)'
          <5>1. q \in Resolver /\ q \in Promises \ {p} /\ ResolveInvOf(q)
            BY <1>0, FutureAssumption, Zenon DEF ResolveInv
          <5> QED
            BY <4>2, <5>1, ResolveFrame, Zenon DEF Only
        <4> QED
          BY <4>2, <4>3, Zenon DEF ResolveInv, Only
      <3>2. CASE ~(FutureNext /\ UNCHANGED <<vars, poolVars>>)
        <4>1. \A c \in Consumers : hand[c].task \in Nat
          BY <1>0, Zenon DEF HandInv, Hands
        <4>2. /\ UNCHANGED <<lookup, resolve, resolved>>
              /\ DOMAIN state' = Promises
              /\ \A p \in Resolver : state'[p] = state[p]
          BY <1>0, <1>2, <3>2, <4>1, PoolKeepsResolve, Zenon
        <4>3. \A p \in Resolver : ResolveInvOf(p)'
          BY <1>0, <4>2, ResolveFrame, Zenon DEF ResolveInv
        <4> QED
          BY <1>0, <4>2, <4>3, Zenon DEF ResolveInv
      <3> QED
        BY <3>1, <3>2, Zenon
    <2> QED
      BY <2>1, <2>2, <2>3, Zenon DEF PoolInv
  <1> QED
    BY <1>1, <1>2, Zenon

\* Resolve() returns what its thread found, although its promise is destroyed, and would
\* set a default, while the name is still looked up.
THEOREM ResolveCorrect == PoolSpec => []ResolveTells
  <1>1. PoolInv => ResolveTells
    BY Zenon DEF PoolInv, ResolveInv, ResolveInvOf, ResolveTells
  <1> QED
    BY <1>1, PoolInvInit, PoolInvStep, PTL DEF PoolSpec

\* Every closure the pool accepted was called, by one worker, when ~ThreadPool() of a
\* running pool returns.
THEOREM PoolCompletes == PoolSpec => []CompleteAllTasksOnDestruction
  <1>1. PoolInv => CompleteAllTasksOnDestruction
    <2> SUFFICES ASSUME PoolInv PROVE CompleteAllTasksOnDestruction
      BY Zenon
    <2>0. Inv /\ HandInv /\ StopInv
      BY Zenon DEF PoolInv
    <2>1. ASSUME destroyed, started PROVE ran = Accepted
      <3>1. \A c \in Consumers : queue = <<>> /\ hand[c] = Free
        BY <2>0, <2>1, Zenon DEF StopInv
      <3>2. queue = <<>>
        BY <3>1, PoolAssumption, Zenon
      <3>3. popped = 1 .. inserted
        <4>1. Items(queue) = {}
          BY <3>2 DEF Items
        <4> QED
          BY <2>0, <4>1, Zenon DEF Inv, IndexMatchesQueue, NothingLost
      <3>4. popped \ ran = {}
        BY <2>0, <3>1 DEF HandInv, Free
      <3> QED
        BY <2>0, <3>3, <3>4, Zenon DEF HandInv, Accepted
    <2>2. ASSUME NEW c \in Consumers, NEW d \in Consumers,
                 hand[c].task = hand[d].task, hand[c] # Free
          PROVE  c = d
      <3>1. Holding(c)
        BY <2>0, <2>2, Zenon DEF HandInv
      <3>2. hand[c].task \in popped /\ 0 \notin popped
        BY <2>0, <3>1 DEF HandInv, Inv, NothingLost
      <3>3. Holding(d)
        BY <2>0, <2>2, <3>2 DEF HandInv, Free
      <3> QED
        BY <2>0, <2>2, <3>1, <3>3, Zenon DEF HandInv
    <2> QED
      BY <2>1, <2>2, Zenon DEF CompleteAllTasksOnDestruction
  <1> QED
    BY <1>1, PoolInvInit, PoolInvStep, PTL DEF PoolSpec
-----------------------------------------------------------------------------
(* What the future of a task tells *)

Inserting == {p \in Producers : prod[p].pc = "insert"}

\* A push that passed the test of closed_ inserts at most one task.
PushesBounded == inserted + Cardinality(Inserting) <= MaxPush + Cardinality(Producers)

\* The future of a task is fulfilled by the worker that called the closure, or by the
\* destructor of a pool that never ran.
TaskInvOf(i) ==
  /\ state[i].fulfilled \in BOOLEAN
  /\ state[i].async = NoThread
  /\ ~state[i].fulfilled => state[i] = Unfulfilled
  /\ state[i].fulfilled /\ i \in popped
       => i \in ran /\ state[i].value = Executed /\ \A c \in Consumers : hand[c].task # i
  /\ state[i].fulfilled /\ i \notin popped
       => i \in 1 .. inserted /\ destroyed /\ ~started /\ state[i].value = Dropped

TaskInv == \A i \in Promises \intersect Nat : i # 0 => TaskInvOf(i)

\* The future of a task says "true" exactly when its closure was called, and every task
\* has a future (the bool that Push() returns a Future of).
FutureTells ==
  /\ Accepted \subseteq Promises
  /\ \A i \in Accepted : state[i].fulfilled => (state[i].value = Executed <=> i \in ran)

\* No more tasks are accepted than there are promises.
LEMMA PushesBoundedStep ==
  ASSUME Inv, PushesBounded, [Next]_vars
  PROVE  PushesBounded'
  <1>0. /\ IsFiniteSet(Producers) /\ Inserting \subseteq Producers
        /\ Cardinality(Producers) \in Nat /\ inserted \in Nat /\ MaxPush \in Nat
    BY QueueAssumption, FS_CardinalityType, Zenon DEF Inserting, Inv, TypeOK
  <1>1. \A S \in SUBSET Producers :
          IsFiniteSet(S) /\ Cardinality(S) \in Nat /\ Cardinality(S) <= Cardinality(Producers)
    BY <1>0, FS_Subset, FS_CardinalityType, Zenon
  <1>2. Inserting' \subseteq Producers
    BY Zenon DEF Inserting
  <1>3. ASSUME NEW p \in Producers, NEW s \in PushShards, PushCheck(p, s)
        PROVE  PushesBounded'
    <2>1. inserted' = inserted /\ inserted < MaxPush
      BY <1>3, Zenon DEF PushCheck
    <2>2. Cardinality(Inserting') \in Nat /\ Cardinality(Inserting') <= Cardinality(Producers)
      BY <1>1, <1>2, Zenon
    <2> QED
      BY <1>0, <2>1, <2>2 DEF PushesBounded
  <1>4. ASSUME NEW p \in Producers, PushInsert(p) PROVE PushesBounded'
    <2>1. inserted' = inserted + 1 /\ p \in Inserting /\ Inserting' = Inserting \ {p}
      BY <1>4, Zenon DEF PushInsert, Inserting, Inv, TypeOK, ProdState
    <2>2. Cardinality(Inserting') = Cardinality(Inserting) - 1
      BY <1>0, <1>1, <2>1, FS_RemoveElement, Zenon
    <2> QED
      BY <1>0, <1>1, <2>1, <2>2 DEF PushesBounded
  <1>5. CASE inserted' = inserted /\ Inserting' \subseteq Inserting
    <2>1. /\ IsFiniteSet(Inserting) /\ Cardinality(Inserting) \in Nat
          /\ Cardinality(Inserting') \in Nat
      BY <1>0, <1>1, <1>2, Zenon
    <2>2. Cardinality(Inserting') <= Cardinality(Inserting)
      BY <1>5, <2>1, FS_Subset, Zenon
    <2> QED
      BY <1>0, <1>5, <2>1, <2>2 DEF PushesBounded
  <1>6. ASSUME NEW p \in Producers, PushRefused(p) \/ PushCount(p) \/ PushNotify(p)
        PROVE  inserted' = inserted /\ Inserting' \subseteq Inserting
    BY <1>6, Zenon DEF PushRefused, PushCount, PushNotify, Inserting, Inv, TypeOK, ProdState
  <1>7. ASSUME \/ \E c \in Consumers : PopStep(c) \/ Wake(c)
               \/ Close \/ ShutDown \/ UNCHANGED vars
        PROVE  inserted' = inserted /\ Inserting' \subseteq Inserting
    <2>1. inserted' = inserted /\ prod' = prod
      BY <1>7, Zenon DEF PopStep, PopSteal, PopTake, PopNone, PopWait, TakeFront, TakeBegin,
                  RemoveTaskFromQueue, Wake, Close, ShutDown, vars
    <2> QED
      BY <2>1, Zenon DEF Inserting
  <1> QED
    BY <1>3, <1>4, <1>5, <1>6, <1>7, Zenon DEF Next, PushStep

\* A promise that no thread was started for takes the first value it is given.
LEMMA FirstValue ==
  ASSUME NEW v, NEW self
  PROVE  /\ SetStateValue(Unfulfilled, v, self).fulfilled
         /\ SetStateValue(Unfulfilled, v, self).async = NoThread
         /\ SetStateValue(Unfulfilled, v, self).value = v
  <1>1. Unfulfilled.fulfilled = FALSE /\ Unfulfilled.async = NoThread
    BY Zenon DEF Unfulfilled
  <1>2. SetStateValue(Unfulfilled, v, self)
          = [Unfulfilled EXCEPT !.value = v, !.fulfilled = TRUE]
    BY <1>1, Zenon DEF SetStateValue
  <1> QED
    BY <1>1, <1>2, Zenon DEF Unfulfilled

\* The futures of the tasks after every step of the pool.
LEMMA TaskStep ==
  ASSUME PoolInv, TaskInv, PoolNext
  PROVE  TaskInv'
  <1>0. Inv /\ ResolveInv /\ HandInv /\ StopInv
    BY Zenon DEF PoolInv
  <1>1. \A c \in Consumers : Holding(c) => hand[c].task # 0
    BY <1>0 DEF HandInv, Inv, NothingLost
  <1> SUFFICES ASSUME NEW i \in Promises, i \in Nat, i # 0
               PROVE  TaskInvOf(i)'
    BY Zenon DEF TaskInv
  <1>2. TaskInvOf(i)
    BY Zenon DEF TaskInv
  <1>3. CASE /\ UNCHANGED <<state, popped, ran, hand, started, destroyed>>
             /\ inserted' \in Nat /\ inserted <= inserted'
    <2>1. i \in 1 .. inserted => i \in 1 .. inserted'
      BY <1>0, <1>3 DEF Inv, TypeOK
    <2> QED
      BY <1>2, <1>3, <2>1, Zenon DEF TaskInvOf
  <1>4. ASSUME NEW p \in Producers, Push(p) PROVE TaskInvOf(i)'
    <2>1. inserted' = inserted \/ inserted' = inserted + 1
      BY <1>4, Zenon DEF Push, PushCheck, PushStep, PushRefused, PushInsert, PushCount, PushNotify
    <2>2. UNCHANGED <<state, popped, ran, hand, started, destroyed>>
      BY <1>4, Zenon DEF Push, PushCheck, PushStep, PushRefused, PushInsert, PushCount, PushNotify,
                  futureVars, poolVars
    <2> QED
      BY <1>0, <1>3, <2>1, <2>2 DEF Inv, TypeOK
  <1>5. ASSUME NEW c \in Consumers, DoPop(c) PROVE TaskInvOf(i)'
    <2>1. UNCHANGED <<state, ran, started, destroyed, inserted>> /\ started
      BY <1>5, Zenon DEF DoPop, futureVars, PopStep, PopSteal, PopTake, PopNone, PopWait, TakeFront,
                  TakeBegin, RemoveTaskFromQueue
    <2>2. CASE hand' = hand /\ popped' = popped
      BY <1>2, <2>1, <2>2, Zenon DEF TaskInvOf
    <2>3. CASE \E j \in Items(queue) :
                 /\ j \notin popped
                 /\ popped' = popped \union {j}
                 /\ hand' = [hand EXCEPT ![c] = [task |-> j, pc |-> "call"]]
      <3>1. PICK j \in Items(queue) :
                 /\ j \notin popped
                 /\ popped' = popped \union {j}
                 /\ hand' = [hand EXCEPT ![c] = [task |-> j, pc |-> "call"]]
        BY <2>3, Zenon
      <3>2. CASE i = j
        <4>1. ~state[i].fulfilled
          BY <1>2, <2>1, <3>1, <3>2, Zenon DEF TaskInvOf
        <4> QED
          BY <1>2, <2>1, <4>1, Zenon DEF TaskInvOf
      <3>3. CASE i # j
        <4>1. \A d \in Consumers : hand[d].task # i => hand'[d].task # i
          BY <1>0, <3>1, <3>3, Zenon DEF HandInv
        <4>2. i \in popped' <=> i \in popped
          BY <3>1, <3>3, Zenon
        <4> QED
          BY <1>2, <2>1, <4>1, <4>2, Zenon DEF TaskInvOf
      <3> QED
        BY <3>2, <3>3, Zenon
    <2> QED
      BY <1>0, <1>5, <2>2, <2>3, DoPopGives, Zenon
  <1>6. ASSUME NEW c \in Consumers, DoWake(c) PROVE TaskInvOf(i)'
    <2>1. UNCHANGED <<state, popped, ran, hand, started, destroyed, inserted>>
      BY <1>6, Zenon DEF DoWake, Wake, futureVars, poolVars
    <2> QED
      BY <1>0, <1>3, <2>1 DEF Inv, TypeOK
  <1>7. ASSUME NEW c \in Consumers, Call(c) PROVE TaskInvOf(i)'
    <2>1. /\ UNCHANGED <<state, popped, inserted, started, destroyed>>
          /\ ran \subseteq ran'
      BY <1>7, Zenon DEF Call, vars, futureVars
    <2>2. \A d \in Consumers : hand'[d].task = hand[d].task
      BY <1>0, <1>7 DEF Call, HandInv, Hands
    <2> QED
      BY <1>2, <2>1, <2>2, Zenon DEF TaskInvOf
  <1>8. ASSUME NEW c \in Consumers, Set(c) PROVE TaskInvOf(i)'
    <2> DEFINE t == hand[c].task
    <2>1. /\ hand[c].pc = "set" /\ Holding(c) /\ t \in popped /\ t \in ran /\ t # 0
      BY <1>0, <1>1, <1>8, Zenon DEF Set, Holding, HandInv
    <2>2. /\ UNCHANGED <<popped, inserted, ran, started, destroyed>>
          /\ hand' = [hand EXCEPT ![c] = Free]
      BY <1>8, Zenon DEF Set, vars
    <2>3. \A d \in Consumers : hand'[d].task \in {0, hand[d].task}
      BY <1>0, <2>2 DEF HandInv, Free
    <2>4. CASE i = t
      <3>1. ~state[i].fulfilled /\ state[i] = Unfulfilled
        BY <1>2, <2>1, <2>4, ZenonT(30) DEF TaskInvOf
      <3>2. state'[i] = Broken(SetStateValue(state[i], Executed, "worker"), Dropped)
        BY <1>0, <1>8, <2>4, Zenon DEF Set, ResolveInv
      <3> DEFINE s == SetStateValue(Unfulfilled, Executed, "worker")
      <3>3. s.fulfilled /\ s.async = NoThread /\ s.value = Executed
        BY FirstValue, Zenon
      <3> HIDE DEF s
      <3>4. Broken(s, Dropped) = s
        BY <3>3, Zenon DEF Broken, SetStateValue
      <3>5. state'[i] = s
        BY <3>1, <3>2, <3>4, Zenon DEF s
      <3>6. \A d \in Consumers : hand'[d].task # i
        <4> TAKE d \in Consumers
        <4>1. CASE d = c
          BY <1>0, <2>1, <2>2, <2>4, <4>1, Zenon DEF HandInv, Free
        <4>2. CASE d # c
          <5>1. hand'[d] = hand[d]
            BY <2>2, <4>2
          <5>2. Holding(d) => hand[d].task # i
            BY <1>0, <2>1, <2>4, <4>2, Zenon DEF HandInv
          <5>3. ~Holding(d) => hand[d].task = 0
            BY <1>0 DEF HandInv, Free
          <5> QED
            BY <2>1, <2>4, <5>1, <5>2, <5>3, Zenon
        <4> QED
          BY <4>1, <4>2, Zenon
      <3> QED
        BY <2>1, <2>2, <2>4, <3>3, <3>5, <3>6, Zenon DEF TaskInvOf
    <2>5. CASE i # t
      <3>1. state'[i] = state[i]
        BY <1>0, <1>8, <2>5, Zenon DEF Set, ResolveInv
      <3>2. \A d \in Consumers : hand[d].task # i => hand'[d].task # i
        BY <2>3, Zenon
      <3> QED
        BY <1>2, <2>2, <3>1, <3>2, Zenon DEF TaskInvOf
    <2> QED
      BY <2>4, <2>5, Zenon
  <1>9. CASE Run
    <2>1. /\ UNCHANGED <<state, popped, inserted, ran, hand, destroyed>>
          /\ ~destroyed
      BY <1>0, <1>9, Zenon DEF Run, vars, futureVars, StopInv
    <2> QED
      BY <1>2, <2>1, Zenon DEF TaskInvOf
  <1>10. CASE CloseTasks
    <2>1. UNCHANGED <<state, popped, ran, hand, started, destroyed, inserted>>
      BY <1>10, Zenon DEF CloseTasks, Close, futureVars, poolVars
    <2> QED
      BY <1>0, <1>3, <2>1 DEF Inv, TypeOK
  <1>11. CASE Destroy
    <2>1. /\ UNCHANGED <<popped, inserted, ran, hand, started>>
          /\ destroyed' /\ ~destroyed
          /\ state'[i] = IF i \in Items(queue) THEN Broken(state[i], Dropped) ELSE state[i]
      BY <1>11, Zenon DEF Destroy, vars
    <2>2. state[i].fulfilled => i \in popped
      BY <1>2, <2>1, Zenon DEF TaskInvOf
    <2>3. CASE i \in Items(queue)
      <3>1. i \notin popped /\ i \in 1 .. inserted
        BY <1>0, <2>3, Zenon DEF Inv, IndexMatchesQueue, NothingLost
      <3>2. ~started
        <4>1. queue # <<>>
          BY <2>3 DEF Items
        <4> QED
          BY <1>0, <1>11, <4>1, PoolAssumption, Zenon DEF Destroy, StopInv
      <3>3. state[i] = Unfulfilled
        BY <1>2, <2>2, <3>1, Zenon DEF TaskInvOf
      <3>4. state'[i] = SetStateValue(Unfulfilled, Dropped, Owner)
        BY <2>1, <2>3, <3>3, Zenon DEF Broken
      <3>5. /\ state'[i].fulfilled /\ state'[i].async = NoThread
            /\ state'[i].value = Dropped
        BY <3>4, FirstValue
      <3> QED
        BY <2>1, <3>1, <3>2, <3>5, Zenon DEF TaskInvOf
    <2>4. CASE i \notin Items(queue)
      BY <1>2, <2>1, <2>2, <2>4, Zenon DEF TaskInvOf
    <2> QED
      BY <2>3, <2>4, Zenon
  <1>12. CASE FutureNext /\ UNCHANGED <<vars, poolVars>>
    <2>1. PICK p \in Resolver : ResolveStep(p) \/ LookupStep(p)
      BY <1>12, Zenon DEF FutureNext
    <2>2. i # p
      BY PoolAssumption, Zenon
    <2>3. state'[i] = state[i]
      BY <1>0, <2>1, <2>2, ResolveOwnStep, Zenon DEF Only
    <2> QED
      BY <1>2, <1>12, <2>3, Zenon DEF TaskInvOf, vars, poolVars
  <1> QED
    BY <1>4, <1>5, <1>6, <1>7, <1>8, <1>9, <1>10, <1>11, <1>12, Zenon DEF PoolNext, WorkerStep

\* The future that Push() returns says whether the closure was called: true only after
\* the call, and the default of a broken promise only for a pool that never ran.
THEOREM FuturesCorrect == PoolSpec => []FutureTells
  <1> DEFINE All == PoolInv /\ PushesBounded /\ TaskInv
  <1>1. PoolInit => All
    <2> SUFFICES ASSUME PoolInit PROVE PushesBounded /\ TaskInv
      BY PoolInvInit, Zenon
    <2>1. PushesBounded
      <3>1. Inserting = {} /\ inserted = 0
        BY Zenon DEF PoolInit, Init, Inserting
      <3>2. Cardinality(Producers) \in Nat /\ MaxPush \in Nat
        BY QueueAssumption, FS_CardinalityType, Zenon
      <3> QED
        BY <3>1, <3>2, FS_EmptySet DEF PushesBounded
    <2>2. \A i \in Promises : state[i] = Unfulfilled
      BY Zenon DEF PoolInit, FutureInit
    <2>3. Unfulfilled.fulfilled = FALSE /\ Unfulfilled.async = NoThread
      BY Zenon DEF Unfulfilled
    <2>4. TaskInv
      BY <2>2, <2>3, Zenon DEF TaskInv, TaskInvOf
    <2> QED
      BY <2>1, <2>4, Zenon
  <1>2. All /\ [PoolNext]_allVars => All'
    <2> SUFFICES ASSUME All, [PoolNext]_allVars PROVE PushesBounded' /\ TaskInv'
      BY PoolInvStep, Zenon
    <2>1. [Next]_vars
      BY PoolStepIsQueueStep, Zenon DEF allVars
    <2>2. PushesBounded'
      BY <2>1, PushesBoundedStep, Zenon DEF PoolInv
    <2>3. CASE UNCHANGED allVars
      <3>1. UNCHANGED <<state, popped, inserted, ran, hand, started, destroyed>>
        BY <2>3, Zenon DEF allVars, vars, futureVars, poolVars
      <3>2. ASSUME NEW i \in Promises \intersect Nat, i # 0 PROVE TaskInvOf(i)'
        <4>1. TaskInvOf(i)
          BY <3>2, Zenon DEF TaskInv
        <4> QED
          BY <3>1, <4>1, Zenon DEF TaskInvOf
      <3> QED
        BY <2>2, <3>2, Zenon DEF TaskInv
    <2> QED
      BY <2>2, <2>3, TaskStep, Zenon
  <1>3. All => FutureTells
    <2> SUFFICES ASSUME All PROVE FutureTells
      BY Zenon
    <2>1. Accepted \subseteq Promises
      <3>1. /\ inserted \in Nat /\ MaxPush \in Nat /\ Cardinality(Producers) \in Nat
            /\ Cardinality(Inserting) \in Nat
        <4>1. IsFiniteSet(Producers) /\ Inserting \subseteq Producers
          BY QueueAssumption, Zenon DEF Inserting
        <4> QED
          BY <4>1, QueueAssumption, FS_Subset, FS_CardinalityType, Zenon DEF PoolInv, Inv, TypeOK
      <3>2. inserted <= MaxPush + Cardinality(Producers)
        BY <3>1 DEF PushesBounded
      <3>3. Accepted \subseteq 1 .. MaxPush + Cardinality(Producers)
        BY <3>1, <3>2 DEF Accepted
      <3> QED
        BY <3>3, PoolAssumption, Zenon
    <2>2. ASSUME NEW i \in Accepted, state[i].fulfilled
          PROVE  state[i].value = Executed <=> i \in ran
      <3>1. TaskInvOf(i)
        BY <2>1 DEF TaskInv, Accepted
      <3>2. i \in ran => i \in popped
        BY Zenon DEF PoolInv, HandInv
      <3> QED
        BY <2>2, <3>1, <3>2, Zenon DEF TaskInvOf, Executed, Dropped
    <2> QED
      BY <2>1, <2>2, Zenon DEF FutureTells
  <1> QED
    BY <1>1, <1>2, <1>3, PTL DEF PoolSpec
=============================================================================
