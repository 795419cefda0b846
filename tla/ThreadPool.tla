----------------------------- MODULE ThreadPool -----------------------------
(***************************************************************************)
(* base::ThreadPool (base/thread_pool.cc): a LockedQueue of closures with  *)
(* their promises and a WorkerPool that is not forced to shut down.  The   *)
(* producers are the callers of Push(), the consumers the workers; the     *)
(* promise of a task has the number of the task.                           *)
(***************************************************************************)
EXTENDS LockedQueue, Future

VARIABLES
  hand,      \* the task a worker has popped, 0 for none, and how far it is
  ran,       \* the closures that were called
  started,   \* Run() was called
  destroyed  \* ~ThreadPool() is over

poolVars == <<hand, ran, started, destroyed>>
Free == [task |-> 0, pc |-> "pop"]
allVars == <<vars, futureVars, poolVars>>

Executed == "true"
Dropped == "false"

ASSUME PoolAssumption ==
  /\ 1 .. MaxPush + Cardinality(Producers) \subseteq Promises
  /\ Resolver \intersect Nat = {}
  /\ DefaultShard \in PushShards
  /\ \A c \in Consumers : Kind[c] = "default"
  /\ Consumers # {}    \* CHECK(count) in AddWorker()

PoolInit ==
  /\ Init /\ FutureInit
  /\ hand = [c \in Consumers |-> Free]
  /\ ran = {}
  /\ started = FALSE
  /\ destroyed = FALSE

\* Nobody calls Push() once the destructor has begun.
Push(p) ==
  /\ PushCheck(p, DefaultShard) \/ PushStep(p)
  /\ UNCHANGED <<futureVars, poolVars>>

Run ==
  /\ ~started /\ ~closed
  /\ started' = TRUE
  /\ UNCHANGED <<vars, futureVars, hand, ran, destroyed>>
-----------------------------------------------------------------------------
(* DoWork() *)

DoPop(c) ==
  /\ started /\ hand[c] = Free
  /\ PopStep(c)
  /\ hand' = [hand EXCEPT ![c] = IF popped' = popped THEN Free
                                 ELSE [task |-> CHOOSE i \in popped' \ popped : TRUE,
                                       pc |-> "call"]]
  /\ UNCHANGED <<futureVars, ran, started, destroyed>>

DoWake(c) ==
  /\ Wake(c)
  /\ UNCHANGED <<futureVars, poolVars>>

\* task->first()
Call(c) ==
  /\ hand[c].pc = "call"
  /\ ran' = ran \union {hand[c].task}
  /\ hand' = [hand EXCEPT ![c].pc = "set"]
  /\ UNCHANGED <<vars, futureVars, started, destroyed>>

\* task->second.SetValue(true), and then the end of the task and of its promise.
Set(c) ==
  LET set(s) == SetStateValue(s, Executed, "worker")
  IN /\ hand[c].pc = "set"
     /\ state' = [state EXCEPT ![hand[c].task] = Broken(set(@), Dropped)]
     /\ hand' = [hand EXCEPT ![c] = Free]
     /\ UNCHANGED <<vars, resolve, lookup, resolved, ran, started, destroyed>>
-----------------------------------------------------------------------------
(* ~ThreadPool(): Close(), the join in ~WorkerPool(), the rest of the queue *)

CloseTasks ==
  /\ \A p \in Producers : prod[p].pc = "idle"
  /\ Close
  /\ UNCHANGED <<futureVars, poolVars>>

\* Faulty: the workers are not waited for.
DestroyUnjoined ==
  /\ closed /\ ~destroyed
  /\ destroyed' = TRUE
  /\ state' = [p \in Promises |-> IF p \in Items(queue) THEN Broken(state[p], Dropped)
                                                        ELSE state[p]]
  /\ UNCHANGED <<vars, resolve, lookup, resolved, hand, ran, started>>

Destroy ==
  /\ closed /\ ~destroyed
  /\ started => \A c \in Consumers : cons[c] = "gone"
  /\ destroyed' = TRUE
  /\ state' = [p \in Promises |-> IF p \in Items(queue) THEN Broken(state[p], Dropped)
                                                        ELSE state[p]]
  /\ UNCHANGED <<vars, resolve, lookup, resolved, hand, ran, started>>
-----------------------------------------------------------------------------
WorkerStep(c) == DoPop(c) \/ Call(c) \/ Set(c)

PoolNext ==
  \/ \E p \in Producers : Push(p)
  \/ \E c \in Consumers : WorkerStep(c) \/ DoWake(c)
  \/ Run \/ CloseTasks \/ Destroy
  \/ FutureNext /\ UNCHANGED <<vars, poolVars>>

\* A worker waits without a timeout: only a notification is sure to wake it.
PoolSpec ==
  /\ PoolInit /\ [][PoolNext]_allVars
  /\ FutureFairness
  /\ \A p \in Producers : WF_allVars(Push(p) /\ prod[p].pc # "idle")
  /\ \A c \in Consumers : WF_allVars(WorkerStep(c))
  /\ WF_allVars(Destroy)
-----------------------------------------------------------------------------
Accepted == 1 .. inserted

\* "CompleteAllTasksOnDestruction": a pool that runs calls every closure it accepted,
\* each by one worker, before its destructor returns.
CompleteAllTasksOnDestruction ==
  /\ destroyed /\ started => ran = Accepted
  /\ \A c, d \in Consumers : hand[c].task = hand[d].task /\ hand[c] # Free => c = d

\* Every future of an accepted task is fulfilled once the pool runs or is destroyed:
\* no task is left behind by a notification that nobody heard, nor by the end.
EveryFutureFulfilled ==
  \A i \in 1 .. MaxPush : (i \in Accepted /\ (started \/ closed)) ~> state[i].fulfilled
=============================================================================
