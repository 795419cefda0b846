-------------------------- MODULE QueueAggregator ---------------------------
(***************************************************************************)
(* base::QueueAggregator<T> (base/queue_aggregator.h): several queues are  *)
(* popped as one.  A popper leaves an order and waits; one thread per      *)
(* queue turns an order and an item of its queue into an element of        *)
(* orders_, from which the poppers take.  Remote workers pop one of the    *)
(* queues directly at the same time.                                       *)
(*                                                                         *)
(* The queues are base::LockedQueue; which of its items a pop returns      *)
(* depends on shards and is the subject of LockedQueue, so here a queue is *)
(* a set and a pop returns any item.  DoPop() holds the mutex of its queue *)
(* from the test for an item up to the notification of a popper.           *)
(***************************************************************************)
EXTENDS Integers, Sequences, FiniteSets

CONSTANTS
  NQueues,    \* the queues are 1 .. NQueues, in the order of Aggregate()
  Shared,     \* the queues that remote workers pop as well
  Poppers,    \* threads that call Pop() in a loop
  MaxPush     \* bound: how many items are pushed

Queue == 1 .. NQueues

ASSUME AggregatorAssumption ==
  /\ NQueues \in Nat \ {0}
  /\ Shared \subseteq Queue
  /\ IsFiniteSet(Poppers)
  /\ MaxPush \in Nat

VARIABLES
  items,      \* the items in queue_, for every queue
  shut,       \* closed_ of every queue
  entered,    \* pushes that read closed_ and did not yet insert, per queue
  notify,     \* pushes that inserted and did not yet notify, per queue
  pushed,     \* how many items were pushed
  orders,     \* orders_
  count,      \* order_count_
  closed,     \* closed_ of the aggregator
  thread,     \* where DoPop() is, for every queue
  popper,     \* where a popper is: [pc, at]; at is a queue it drains
  taken       \* items that were returned by a Pop()

aggregatorVars == <<items, shut, entered, notify, pushed, orders, count, closed, thread, popper,
          taken>>

AggregatorInit ==
  /\ items = [q \in Queue |-> {}]
  /\ shut = [q \in Queue |-> FALSE]
  /\ entered = [q \in Queue |-> 0]
  /\ notify = [q \in Queue |-> 0]
  /\ pushed = 0
  /\ orders = <<>>
  /\ count = 0
  /\ closed = FALSE
  /\ thread = [q \in Queue |-> "loop"]
  /\ popper = [w \in Poppers |-> [pc |-> "idle", at |-> 1]]
  /\ taken = {}

\* pop_mutex_ is free: DoPop() does not sit between push_back and notify_one.
Unlocked(q) == thread[q] # "notify"
-----------------------------------------------------------------------------
(* The queues *)

\* closed_ is read before the mutex is taken.
PushCheck(q) ==
  /\ pushed < MaxPush
  /\ entered[q] = 0
  /\ ~shut[q]
  /\ entered' = [entered EXCEPT ![q] = 1]
  /\ UNCHANGED <<items, shut, notify, pushed, orders, count, closed, thread,
                 popper, taken>>

PushInsert(q) ==
  /\ entered[q] > 0
  /\ Unlocked(q)
  /\ entered' = [entered EXCEPT ![q] = @ - 1]
  /\ pushed' = pushed + 1
  /\ items' = [items EXCEPT ![q] = @ \union {pushed + 1}]
  /\ notify' = [notify EXCEPT ![q] = @ + 1]
  /\ UNCHANGED <<shut, orders, count, closed, thread, popper, taken>>

\* Faulty: the aggregator is not notified.
PushNotifyLost(q) ==
  /\ notify[q] > 0
  /\ notify' = [notify EXCEPT ![q] = @ - 1]
  /\ UNCHANGED <<items, shut, entered, pushed, orders, count, closed, thread,
                 popper, taken>>

\* aggregator_condition_.notify_one() at the end of Push()
PushNotify(q) ==
  /\ notify[q] > 0
  /\ notify' = [notify EXCEPT ![q] = @ - 1]
  /\ thread' = [thread EXCEPT ![q] = IF @ = "queueWait" THEN "queue" ELSE @]
  /\ UNCHANGED <<items, shut, entered, pushed, orders, count, closed, popper, taken>>

\* A remote worker pops a queue that is also aggregated.
RemotePop(q) ==
  /\ q \in Shared
  /\ Unlocked(q)
  /\ \E i \in items[q] :
       /\ taken' = taken \union {i}
       /\ items' = [items EXCEPT ![q] = @ \ {i}]
  /\ UNCHANGED <<shut, entered, notify, pushed, orders, count, closed, thread, popper>>

CloseQueue(q) ==
  /\ ~shut[q]
  /\ Unlocked(q)
  /\ shut' = [shut EXCEPT ![q] = TRUE]
  /\ thread' = [thread EXCEPT ![q] = IF @ = "queueWait" THEN "queue" ELSE @]
  /\ UNCHANGED <<items, entered, notify, pushed, orders, count, closed, popper, taken>>
-----------------------------------------------------------------------------
(* Close(): the owner closes the queues first, then joins the threads *)

WakeOrders == [q \in Queue |-> IF thread[q] = "orderWait" THEN "order"
                                                          ELSE thread[q]]

\* Faulty: the waiting poppers are not notified.
CloseSilently ==
  /\ \A q \in Queue : shut[q]
  /\ ~closed
  /\ closed' = TRUE
  /\ count' = 0
  /\ thread' = WakeOrders
  /\ UNCHANGED <<items, shut, entered, notify, pushed, orders, popper, taken>>

Close ==
  /\ \A q \in Queue : shut[q]
  /\ ~closed
  /\ closed' = TRUE
  /\ count' = 0
  /\ thread' = WakeOrders
  /\ popper' = [w \in Poppers |->
                  IF popper[w].pc = "wait" THEN [popper[w] EXCEPT !.pc = "awake"]
                                           ELSE popper[w]]
  /\ UNCHANGED <<items, shut, entered, notify, pushed, orders, taken>>
-----------------------------------------------------------------------------
(* Pop() *)

TakeOrder(w) ==
  /\ orders # <<>>
  /\ taken' = taken \union {Head(orders)}
  /\ orders' = Tail(orders)
  /\ popper' = [popper EXCEPT ![w].pc = "idle"]

\* The rest of the critical section, from done_condition_.wait() on.
AfterWait(w) ==
  \/ TakeOrder(w)
  \/ /\ orders = <<>>
     /\ popper' = [popper EXCEPT ![w] = [pc |-> IF closed THEN "drain" ELSE "wait",
                                         at |-> 1]]
     /\ UNCHANGED <<orders, taken>>

PopEnter(w) ==
  /\ popper[w].pc = "idle"
  /\ count' = IF closed THEN count ELSE count + 1
  /\ thread' = WakeOrders
  /\ AfterWait(w)
  /\ UNCHANGED <<items, shut, entered, notify, pushed, closed>>

\* The wait ends, after a notification or spuriously.
PopWake(w) ==
  /\ popper[w].pc = "awake"
  /\ AfterWait(w)
  /\ UNCHANGED <<items, shut, entered, notify, pushed, count, closed, thread>>

Spurious(w) ==
  /\ popper[w].pc = "wait"
  /\ popper' = [popper EXCEPT ![w].pc = "awake"]
  /\ UNCHANGED <<items, shut, entered, notify, pushed, orders, count, closed, thread,
                 taken>>

\* After Close(): the popper asks every queue in turn, without the mutex of the
\* aggregator.  queue->Pop() would block on a queue that is open and empty.
Drain(w) ==
  LET q == popper[w].at
  IN /\ popper[w].pc = "drain"
     /\ Unlocked(q)
     /\ \/ /\ \E i \in items[q] :
                /\ taken' = taken \union {i}
                /\ items' = [items EXCEPT ![q] = @ \ {i}]
           /\ popper' = [popper EXCEPT ![w].pc = "idle"]
        \/ /\ items[q] = {}
           /\ shut[q]
           /\ popper' = [popper EXCEPT ![w] =
                           IF q < NQueues THEN [@ EXCEPT !.at = q + 1]
                                          ELSE [@ EXCEPT !.pc = "gone"]]
           /\ UNCHANGED <<items, taken>>
     /\ UNCHANGED <<shut, entered, notify, pushed, orders, count, closed, thread>>
-----------------------------------------------------------------------------
(* DoPop() *)

Loop(q) ==
  /\ thread[q] = "loop"
  /\ thread' = [thread EXCEPT ![q] = IF closed THEN "gone" ELSE "order"]
  /\ UNCHANGED <<items, shut, entered, notify, pushed, orders, count, closed, popper,
                 taken>>

\* pop_condition_.wait()
WaitOrder(q) ==
  /\ thread[q] = "order"
  /\ thread' = [thread EXCEPT ![q] =
                  IF count > 0 \/ closed THEN "queue" ELSE "orderWait"]
  /\ UNCHANGED <<items, shut, entered, notify, pushed, orders, count, closed, popper,
                 taken>>

\* aggregator_condition_.wait() on an empty queue
WaitQueue(q) ==
  /\ thread[q] = "queue"
  /\ items[q] = {}
  /\ thread' = [thread EXCEPT ![q] = IF shut[q] THEN "gone" ELSE "queueWait"]
  /\ UNCHANGED <<items, shut, entered, notify, pushed, orders, count, closed, popper,
                 taken>>

\* The other thread took the last order.
NoOrder(q) ==
  /\ thread[q] = "queue"
  /\ items[q] # {}
  /\ count = 0
  /\ thread' = [thread EXCEPT ![q] = "loop"]
  /\ UNCHANGED <<items, shut, entered, notify, pushed, orders, count, closed, popper,
                 taken>>

\* Faulty: order_count_ is not decremented.
FillOrderUncounted(q) ==
  /\ thread[q] = "queue"
  /\ count > 0
  /\ \E i \in items[q] :
       /\ orders' = Append(orders, i)
       /\ items' = [items EXCEPT ![q] = @ \ {i}]
  /\ thread' = [thread EXCEPT ![q] = "notify"]
  /\ UNCHANGED <<shut, entered, notify, pushed, count, closed, popper, taken>>

FillOrder(q) ==
  /\ thread[q] = "queue"
  /\ count > 0
  /\ \E i \in items[q] :
       /\ orders' = Append(orders, i)
       /\ items' = [items EXCEPT ![q] = @ \ {i}]
  /\ count' = count - 1
  /\ thread' = [thread EXCEPT ![q] = "notify"]
  /\ UNCHANGED <<shut, entered, notify, pushed, closed, popper, taken>>

Waiting == {w \in Poppers : popper[w].pc \in {"wait", "awake"}}
Sleeping == {w \in Poppers : popper[w].pc = "wait"}

\* done_condition_.notify_one(), then the mutex of the queue is released.
NotifyDone(q) ==
  /\ thread[q] = "notify"
  /\ \/ \E w \in Sleeping : popper' = [popper EXCEPT ![w].pc = "awake"]
     \/ Sleeping = {} /\ UNCHANGED popper
  /\ thread' = [thread EXCEPT ![q] = "loop"]
  /\ UNCHANGED <<items, shut, entered, notify, pushed, orders, count, closed, taken>>
-----------------------------------------------------------------------------
ThreadStep(q) ==
  Loop(q) \/ WaitOrder(q) \/ WaitQueue(q) \/ NoOrder(q) \/ FillOrder(q)
    \/ NotifyDone(q)

PopperStep(w) == PopEnter(w) \/ PopWake(w) \/ Drain(w)

AggregatorNext ==
  \/ \E q \in Queue : \/ PushCheck(q) \/ PushInsert(q) \/ PushNotify(q)
                      \/ RemotePop(q) \/ CloseQueue(q) \/ ThreadStep(q)
  \/ \E w \in Poppers : PopperStep(w) \/ Spurious(w)
  \/ Close

AggregatorSpec == AggregatorInit /\ [][AggregatorNext]_aggregatorVars

\* Every thread is scheduled; remote workers need not pop, and nothing needs to
\* be pushed or closed.
AggregatorFairness ==
  /\ \A q \in Queue : /\ WF_aggregatorVars(ThreadStep(q))
                      /\ WF_aggregatorVars(PushInsert(q)) /\ WF_aggregatorVars(PushNotify(q))
  /\ \A w \in Poppers : WF_aggregatorVars(PopperStep(w))

AggregatorFairSpec == AggregatorSpec /\ AggregatorFairness
-----------------------------------------------------------------------------
(* Properties *)

ThreadState == {"loop", "order", "orderWait", "queue", "queueWait", "notify",
                "gone"}
PopperState == [pc : {"idle", "wait", "awake", "drain", "gone"}, at : Queue]

\* The variables have the types of the fields they stand for.
AggregatorTypeOK ==
  /\ items \in [Queue -> SUBSET Nat]
  /\ shut \in [Queue -> BOOLEAN]
  /\ entered \in [Queue -> Nat]
  /\ notify \in [Queue -> Nat]
  /\ pushed \in Nat
  /\ orders \in Seq(Nat)
  /\ count \in Nat
  /\ closed \in BOOLEAN
  /\ thread \in [Queue -> ThreadState]
  /\ popper \in [Poppers -> PopperState]
  /\ taken \subseteq Nat

\* While the aggregator is open, every waiting popper is backed by exactly one
\* order that is still counted or one item that is already in orders_: no popper
\* waits for an order that was dropped, no item is fetched for nobody.
OrdersMatchPoppers ==
  ~closed => count + Len(orders) = Cardinality(Waiting)

\* Items that left their queue for orders_ are never more than the poppers that
\* still wait, even while Close() runs: so none is left in orders_ when the last
\* popper leaves.
OrdersCovered ==
  /\ count + Len(orders) <= Cardinality(Waiting)
  /\ closed => count = 0
  /\ (\A w \in Poppers : popper[w].pc = "gone") => orders = <<>>

Elements(s) == {s[k] : k \in DOMAIN s}
Queued == UNION {items[q] : q \in Queue}

\* An item is in one queue, or once in orders_, or was returned: the hand-over
\* between the threads neither loses nor copies it.
ItemInOnePlace ==
  /\ Queued \union Elements(orders) \union taken = 1 .. pushed
  /\ Queued \intersect Elements(orders) = {}
  /\ (Queued \union Elements(orders)) \intersect taken = {}
  /\ \A q, r \in Queue : q # r => items[q] \intersect items[r] = {}
  /\ \A j, k \in DOMAIN orders : j # k => orders[j] # orders[k]

\* An item that is in a queue before it is closed is returned by some Pop():
\* neither the two-stage hand-over, nor the single notification per push, nor
\* Close() strands it.
EveryItemTaken ==
  \A i \in 1 .. MaxPush + NQueues, q \in Queue :
    (i \in items[q] /\ ~shut[q]) ~> (i \in taken)

\* Close() can join its threads, and every popper leaves its loop.
CloseTerminates ==
  closed ~> /\ \A q \in Queue : thread[q] = "gone"
            /\ \A w \in Poppers : popper[w].pc = "gone"
=============================================================================
