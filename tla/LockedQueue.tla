---------------------------- MODULE LockedQueue -----------------------------
(***************************************************************************)
(* base::LockedQueue<T, sharded> and its Index (base/locked_queue.h,       *)
(* base/locked_queue_index.h): a list of items, a list of iterators per    *)
(* shard, a reverse index from an item to its shard, one mutex and one     *)
(* condition variable per shard.                                           *)
(*                                                                         *)
(* A step is what one thread does while it holds pop_mutex_, or one access *)
(* to an atomic outside of it.  An item is named by the order of its       *)
(* insertion, which is the order of queue_.                                *)
(***************************************************************************)
EXTENDS Integers, Sequences, FiniteSets

CONSTANTS
  Producers,     \* threads that call Push()
  Consumers,     \* worker threads that call Pop() in a loop
  NShards,       \* shards are 0 .. NShards - 1
  PushShards,    \* the shards that producers push to
  Kind,          \* which Pop() a consumer calls
  Home,          \* the shard a consumer passes to it
  Capacity,      \* capacity_, 0 is UNLIMITED
  Limit,         \* shard_queue_limit of the strict consumers
  MaxPush        \* bound: no push starts once so many items were inserted

Shard == 0 .. NShards - 1
DefaultShard == 0
Kinds == {"default", "hint", "strict", "nowait"}

ASSUME QueueAssumption ==
  /\ IsFiniteSet(Producers) /\ IsFiniteSet(Consumers)
  /\ NShards \in Nat \ {0}
  /\ PushShards \subseteq Shard
  /\ Kind \in [Consumers -> Kinds]
  /\ Home \in [Consumers -> Shard]
  /\ \A c \in Consumers : Kind[c] = "default" => Home[c] = DefaultShard
  /\ Capacity \in Nat
  /\ Limit \in Nat \ {0}
  /\ MaxPush \in Nat

VARIABLES
  queue,     \* queue_
  index,     \* index_[s].tasks for every shard
  shards,    \* index_.size(): the shards that exist
  shardOf,   \* reverse_index_
  size,      \* size_ before it wraps; Size() is size modulo 2^32
  closed,    \* closed_
  stopping,  \* IsShuttingDown() of the consumers' pool
  inserted,  \* how many items were inserted
  popped,    \* the items returned by Pop()
  prod,      \* where a producer is inside Push(), and for which shard
  cons       \* where a consumer is inside Pop()

vars == <<queue, index, shards, shardOf, size, closed, stopping, inserted,
          popped, prod, cons>>

Init ==
  /\ queue = <<>>
  /\ index = [s \in Shard |-> <<>>]
  /\ shards = 1
  /\ shardOf = [i \in {} |-> DefaultShard]
  /\ size = 0
  /\ closed = FALSE
  /\ stopping = FALSE
  /\ inserted = 0
  /\ popped = {}
  /\ prod = [p \in Producers |-> [pc |-> "idle", shard |-> DefaultShard]]
  /\ cons = [c \in Consumers |-> "idle"]
-----------------------------------------------------------------------------
(* Push() *)

EnsureShardExists(s) == shards' = IF s >= shards THEN s + 1 ELSE shards

\* closed_ is read before the mutex is taken.
PushCheck(p, s) ==
  /\ prod[p].pc = "idle"
  /\ inserted < MaxPush
  /\ ~closed
  /\ prod' = [prod EXCEPT ![p] = [pc |-> "insert", shard |-> s]]
  /\ UNCHANGED <<queue, index, shards, shardOf, size, closed, stopping,
                 inserted, popped, cons>>

Full == Len(queue) >= Capacity /\ Capacity # 0

PushRefused(p) ==
  /\ prod[p].pc = "insert"
  /\ Full
  /\ prod' = [prod EXCEPT ![p].pc = "idle"]
  /\ UNCHANGED <<queue, index, shards, shardOf, size, closed, stopping,
                 inserted, popped, cons>>

PushInsert(p) ==
  LET s == prod[p].shard
      i == inserted + 1
  IN /\ prod[p].pc = "insert"
     /\ ~Full
     /\ queue' = Append(queue, i)
     /\ EnsureShardExists(s)
     /\ index' = [index EXCEPT ![s] = Append(@, i)]
     /\ shardOf' = [j \in DOMAIN shardOf \union {i} |->
                      IF j = i THEN s ELSE shardOf[j]]
     /\ inserted' = i
     /\ prod' = [prod EXCEPT ![p].pc = "count"]
     /\ UNCHANGED <<size, closed, stopping, popped, cons>>

\* ++size_ comes after the mutex is released.
PushCount(p) ==
  /\ prod[p].pc = "count"
  /\ size' = size + 1
  /\ prod' = [prod EXCEPT ![p].pc = "notify"]
  /\ UNCHANGED <<queue, index, shards, shardOf, closed, stopping, inserted,
                 popped, cons>>

WaitingOn(s) == {c \in Consumers : cons[c] = "wait" /\ Home[c] = s}

\* Faulty: a push that wakes nobody.
PushSilent(p) ==
  /\ prod[p].pc = "notify"
  /\ prod' = [prod EXCEPT ![p].pc = "idle"]
  /\ UNCHANGED <<queue, index, shards, shardOf, size, closed, stopping,
                 inserted, popped, cons>>

\* index_.NotifyShard(shard): one waiter of the shard is woken, if any waits.
PushNotify(p) ==
  LET W == WaitingOn(prod[p].shard)
  IN /\ prod[p].pc = "notify"
     /\ \/ \E c \in W : cons' = [cons EXCEPT ![c] = "awake"]
        \/ W = {} /\ UNCHANGED cons
     /\ prod' = [prod EXCEPT ![p].pc = "idle"]
     /\ UNCHANGED <<queue, index, shards, shardOf, size, closed, stopping,
                    inserted, popped>>
-----------------------------------------------------------------------------
(* Close(), and the forced shutdown of the pool that owns the consumers *)

\* Faulty: no NotifyAllShards().
CloseSilently ==
  /\ ~closed
  /\ closed' = TRUE
  /\ UNCHANGED <<queue, index, shards, shardOf, size, stopping, inserted,
                 popped, prod, cons>>

Close ==
  /\ ~closed
  /\ closed' = TRUE
  /\ cons' = [c \in Consumers |-> IF cons[c] = "wait" THEN "awake" ELSE cons[c]]
  /\ UNCHANGED <<queue, index, shards, shardOf, size, stopping, inserted,
                 popped, prod>>

\* is_shutting_down_ is set without any notification of the queue.
ShutDown ==
  /\ ~stopping
  /\ stopping' = TRUE
  /\ UNCHANGED <<queue, index, shards, shardOf, size, closed, inserted,
                 popped, prod, cons>>
-----------------------------------------------------------------------------
(* Pop() and Pop(pool, limit, shard, no_wait) *)

Strict(c) == Kind[c] \in {"strict", "nowait"}
Ready(c) == cons[c] \in {"idle", "awake"}
ShuttingDown(c) == stopping /\ Kind[c] # "default"

OverLimit == {t \in Shard : t < shards /\ Len(index[t]) > Limit}

\* The shard itself if it has tasks, else the first shard over the limit.
MaybeOverloadedShard(s) ==
  IF index[s] = <<>> /\ OverLimit # {}
  THEN CHOOSE t \in OverLimit : \A u \in OverLimit : t <= u
  ELSE s

\* Only a call of Pop() looks for an overloaded shard: a waiter does not.
Steals(c) ==
  /\ Strict(c)
  /\ cons[c] = "idle"
  /\ MaybeOverloadedShard(Home[c]) # Home[c]

NothingFor(c) == IF Strict(c) THEN index[Home[c]] = <<>> ELSE queue = <<>>

\* MaybeOverloadedShard() and WaitShardFor() make sure that the shard exists.
GrowFor(c) ==
  shards' = IF Strict(c) /\ Home[c] >= shards THEN Home[c] + 1 ELSE shards

\* std::list::erase() of the k-th node
Erase(s, k) ==
  [j \in 1 .. Len(s) - 1 |-> IF j < k THEN s[j] ELSE s[j + 1]]

\* The item leaves reverse_index_ and the list, and is returned to c.
RemoveTaskFromQueue(c, i) ==
  /\ shardOf' = [j \in DOMAIN shardOf \ {i} |-> shardOf[j]]
  /\ \E k \in DOMAIN queue : queue[k] = i /\ queue' = Erase(queue, k)
  /\ size' = size - 1
  /\ popped' = popped \union {i}
  /\ cons' = [cons EXCEPT ![c] = "idle"]
  /\ GrowFor(c)
  /\ UNCHANGED <<closed, stopping, inserted, prod>>

\* GetStrict(s), and GetWithHint(s) when shard s has tasks
TakeFront(c, s) ==
  /\ index' = [index EXCEPT ![s] = Tail(@)]
  /\ RemoveTaskFromQueue(c, Head(index[s]))

\* Faulty: the iterator stays in the list of its shard.
TakeBeginKeepsIterator(c) ==
  RemoveTaskFromQueue(c, Head(queue)) /\ UNCHANGED index

\* Faulty: takes the end of the list.
TakeEnd(c) ==
  LET i == queue[Len(queue)]
      s == shardOf[i]
  IN /\ \E k \in DOMAIN index[s] :
          index[s][k] = i /\ index' = [index EXCEPT ![s] = Erase(@, k)]
     /\ RemoveTaskFromQueue(c, i)

\* GetWithHint() otherwise: the head of the list, wherever its shard has it
TakeBegin(c) ==
  LET i == Head(queue)
      s == shardOf[i]
  IN /\ \E k \in DOMAIN index[s] :
          index[s][k] = i /\ index' = [index EXCEPT ![s] = Erase(@, k)]
     /\ RemoveTaskFromQueue(c, i)

PopSteal(c) ==
  /\ Ready(c)
  /\ Steals(c)
  /\ ~ShuttingDown(c)
  /\ TakeFront(c, MaybeOverloadedShard(Home[c]))

PopTake(c) ==
  /\ Ready(c)
  /\ ~Steals(c)
  /\ ~ShuttingDown(c)
  /\ ~NothingFor(c)
  /\ \/ index[Home[c]] # <<>> /\ TakeFront(c, Home[c])
     \/ index[Home[c]] = <<>> /\ TakeBegin(c)

\* Faulty: leaves although the queue is still open.
PopNoneEarly(c) ==
  /\ Ready(c)
  /\ ShuttingDown(c) \/ (~Steals(c) /\ NothingFor(c))
  /\ cons' = [cons EXCEPT ![c] = "gone"]
  /\ GrowFor(c)
  /\ UNCHANGED <<queue, index, shardOf, size, closed, stopping, inserted,
                 popped, prod>>

\* Pop() returns a disengaged object, and the worker leaves its loop.
PopNone(c) ==
  /\ Ready(c)
  /\ \/ ShuttingDown(c)
     \/ ~Steals(c) /\ NothingFor(c) /\ (closed \/ Kind[c] = "nowait")
  /\ cons' = [cons EXCEPT ![c] = "gone"]
  /\ GrowFor(c)
  /\ UNCHANGED <<queue, index, shardOf, size, closed, stopping, inserted,
                 popped, prod>>

\* Faulty: waits although the queue is closed.
PopWaitClosed(c) ==
  /\ Ready(c)
  /\ ~Steals(c)
  /\ ~ShuttingDown(c)
  /\ NothingFor(c)
  /\ Kind[c] # "nowait"
  /\ cons' = [cons EXCEPT ![c] = "wait"]
  /\ EnsureShardExists(Home[c])
  /\ UNCHANGED <<queue, index, shardOf, size, closed, stopping, inserted,
                 popped, prod>>

PopWait(c) ==
  /\ Ready(c)
  /\ ~Steals(c)
  /\ ~ShuttingDown(c)
  /\ NothingFor(c)
  /\ ~closed
  /\ Kind[c] # "nowait"
  /\ cons' = [cons EXCEPT ![c] = "wait"]
  /\ EnsureShardExists(Home[c])
  /\ UNCHANGED <<queue, index, shardOf, size, closed, stopping, inserted,
                 popped, prod>>

\* wait_for() times out, or a wait wakes spuriously.
Wake(c) ==
  /\ cons[c] = "wait"
  /\ cons' = [cons EXCEPT ![c] = "awake"]
  /\ UNCHANGED <<queue, index, shards, shardOf, size, closed, stopping,
                 inserted, popped, prod>>
-----------------------------------------------------------------------------
PushStep(p) ==
  PushRefused(p) \/ PushInsert(p) \/ PushCount(p) \/ PushNotify(p)

PopStep(c) == PopSteal(c) \/ PopTake(c) \/ PopNone(c) \/ PopWait(c)

Next ==
  \/ \E p \in Producers : (\E s \in PushShards : PushCheck(p, s)) \/ PushStep(p)
  \/ \E c \in Consumers : PopStep(c) \/ Wake(c)
  \/ Close
  \/ ShutDown

Spec == Init /\ [][Next]_vars

\* Every thread is scheduled, and a wait with a timeout does time out; a wait
\* without one (Kind "default") is only ended by a notification.
Fairness ==
  /\ \A p \in Producers : WF_vars(PushStep(p))
  /\ \A c \in Consumers : WF_vars(PopStep(c))
  /\ \A c \in Consumers : Kind[c] # "default" => WF_vars(Wake(c))

FairSpec == Spec /\ Fairness
-----------------------------------------------------------------------------
(* Properties *)

ProdState ==
  [pc : {"idle", "insert", "count", "notify"}, shard : Shard]

\* The variables have the types of the fields they stand for.
TypeOK ==
  /\ queue \in Seq(Nat)
  /\ index \in [Shard -> Seq(Nat)]
  /\ shards \in 1 .. NShards
  /\ shardOf \in [DOMAIN shardOf -> Shard]
  /\ size \in Int
  /\ closed \in BOOLEAN
  /\ stopping \in BOOLEAN
  /\ inserted \in Nat
  /\ popped \subseteq Nat
  /\ prod \in [Producers -> ProdState]
  /\ cons \in [Consumers -> {"idle", "wait", "awake", "gone"}]

Items(s) == {s[k] : k \in DOMAIN s}
Increasing(s) == \A j, k \in DOMAIN s : j < k => s[j] < s[k]

\* The two indexes and the list name the same items: a shard lists exactly the
\* items whose reverse entry is that shard, and the list and every shard keep
\* the order of insertion (Put, GetWithHint and GetStrict in
\* locked_queue_index.h; the DCHECKs in both destructors follow from it).
IndexMatchesQueue ==
  /\ DOMAIN shardOf = Items(queue)
  /\ \A s \in Shard :
       Items(index[s]) = {i \in DOMAIN shardOf : shardOf[i] = s}
  /\ Increasing(queue)
  /\ \A s \in Shard : Increasing(index[s])

\* Every item inserted is in the queue or was returned by Pop(), never both:
\* no interleaving of Push, Pop and Close loses or duplicates a task.
NothingLost ==
  /\ DOMAIN shardOf \intersect popped = {}
  /\ DOMAIN shardOf \union popped = 1 .. inserted

Counting == {p \in Producers : prod[p].pc = "count"}

\* size_ lags behind the list by exactly the pushes that released the mutex
\* and did not yet reach ++size_ (locked_queue.h:67-68): it may be negative,
\* that is Size() wraps, only while such a push is in flight.
SizeLagsByPushes == size = Len(queue) - Cardinality(Counting)

\* A bounded queue never holds more than capacity_ items, although producers
\* pass the closed_ check concurrently.
CapacityRespected == Capacity # 0 => Len(queue) <= Capacity

\* The DCHECKs (shard < index_.size()) of NotifyShard, which runs without the
\* mutex, and of WaitShardFor: the shard of a producer that notifies and of a
\* consumer that waits exists, and a shard that does not exist holds nothing.
ShardsExist ==
  /\ \A p \in Producers : prod[p].pc \in {"count", "notify"}
       => prod[p].shard < shards
  /\ \A c \in Consumers : cons[c] = "wait" => Home[c] < shards
  /\ \A s \in Shard : s >= shards => index[s] = <<>>

\* A queue with its locks, its list and its two indexes is a set of FIFO lists,
\* one for every shard: even GetWithHint, which erases the head of the whole
\* list from the middle of some shard's list, removes the front of that shard.
Lists == INSTANCE ShardLists WITH lists <- index
ImplementsShardLists == Lists!ListsSpec

\* Unless the pool is shut down, an item that was in the queue before Close()
\* does not stay there for ever: neither the notify_one outside the mutex nor a
\* race between two consumers for one item leaves a task behind while all
\* consumers sleep.
EveryItemPopped ==
  \A i \in 1 .. MaxPush :
    (i \in DOMAIN shardOf /\ ~closed) ~> (i \in popped \/ stopping)

\* Close() releases every consumer: each drains what is left for it, gets a
\* disengaged object and leaves its loop, so the pool can be joined.
CloseReleasesConsumers ==
  closed ~> \A c \in Consumers : cons[c] = "gone"

=============================================================================
