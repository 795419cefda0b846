---------------------------- MODULE DaemonProofs ---------------------------
(***************************************************************************)
(* Proofs about the absorber, and about the aggregation of the queues that *)
(* the workers of a daemon pop from.                                       *)
(*                                                                         *)
(* Theorems about Absorber, for any number of tasks and workers and any    *)
(* capacity.  Every step moves at most one task (Move) and is one of four  *)
(* shapes for the workers: a task comes in, a worker takes one, a worker   *)
(* lets one go, or nobody's task changes.                                  *)
(*                                                                         *)
(* Proofs about QueueAggregator, for any number of queues, poppers and     *)
(* items.                                                                  *)
(***************************************************************************)
EXTENDS Absorber, QueueAggregator, FiniteSetTheorems, TLAPS
-----------------------------------------------------------------------------
(* Absorber.                                                               *)

Places == {"new", "submit", "cache", "tasks", "held", "done", "dropped"}

\* A reply is counted where the task is done.
Answered == \A t \in Task : answers[t] = IF at[t] = "done" THEN 1 ELSE 0

\* A worker left only when its queue was closed and empty, so that what is there
\* now came late; nothing is in cache_tasks_ without a cache.
Drained ==
  /\ \A w \in ExecWorker : work[w].pc = "gone" => Closed("tasks") /\ In("tasks") \subseteq late
  /\ \A w \in CacheWorker : work[w].pc = "gone" => Closed("cache") /\ In("cache") \subseteq late
  /\ CacheWorker = {} => In("cache") = {}
  /\ stage \in {"joined", "destroyed"} => \A w \in Worker : work[w].pc = "gone"

IInv == TypeOK /\ OnePlace /\ Answered /\ CapacityKept /\ Drained

\* One task goes to p.
Move(t, p) ==
  /\ at[t] \notin {"done", "dropped"}
  /\ at' = [at EXCEPT ![t] = p]
  /\ answers' = IF p = "done" THEN [answers EXCEPT ![t] = @ + 1] ELSE answers
  /\ p = "tasks" => ~Full("tasks")
  /\ p = "cache" => CacheWorker # {}
  /\ p \in {"cache", "tasks"} /\ Closed(p) => t \in late'
  /\ p = "dropped" => at[t] = "new" \/ hangup[t] \/ t \in late

Enter(t, p) == at[t] \in {"new", "submit"} /\ p # "held" /\ UNCHANGED work

Acquire(w, t) ==
  /\ ~Busy(w) /\ work[w].pc = "ready" /\ at[t] \in {"cache", "tasks"}
  /\ work' = [work EXCEPT ![w] = [pc |-> "busy", task |-> t]]

Release(w, t, p) ==
  /\ Busy(w) /\ t = work[w].task /\ p # "held"
  /\ work' = [work EXCEPT ![w] = [pc |-> "ready", task |-> None]]

Skip(t, p) == at[t] \in {"cache", "tasks"} /\ p = "dropped" /\ UNCHANGED work

\* What a step that moves a task does.
TaskStep ==
  \E t \in Task, p \in Places \ {"new"} :
    /\ Move(t, p) /\ late \subseteq late' /\ late' \subseteq Task
    /\ UNCHANGED <<hangup, stage>>
    /\ \/ Enter(t, p)
       \/ Skip(t, p)
       \/ \E w \in Worker : Release(w, t, p)
       \/ p = "held" /\ \E w \in Worker : Acquire(w, t)

\* What any other step does: no worker gets or loses a task.
QuietStep ==
  /\ UNCHANGED <<at, answers, late>>
  /\ \A w \in Worker : /\ work'[w].task = work[w].task
                       /\ Busy(w)' <=> Busy(w)
                       /\ work'[w].pc = "gone" =>
                            \/ work[w].pc = "gone"
                            \/ w \in CacheWorker /\ Closed("cache") /\ In("cache") = {}
                            \/ w \in ExecWorker /\ Closed("tasks") /\ In("tasks") = {}
  /\ work' \in [Worker -> [pc : {"ready", "busy", "push", "gone"},
                           task : Task \union {None}]]
  /\ hangup' \in [Task -> BOOLEAN]
  /\ stage' \in {"running", "tasksClosed", "cacheClosed", "joined", "destroyed"}
  /\ \A q \in {"cache", "tasks"} : Closed(q) => Closed(q)'
  /\ stage' \in {"joined", "destroyed"} => \A w \in Worker : work'[w].pc = "gone"
-----------------------------------------------------------------------------
\* A worker of a pool is a worker.
LEMMA Workers == CacheWorker \subseteq Worker /\ ExecWorker \subseteq Worker
  BY Zenon DEF Worker

\* The task of a busy worker is held.
LEMMA BusyTask ==
  ASSUME TypeOK, OnePlace, NEW w \in Worker, Busy(w)
  PROVE  work[w].task \in Task /\ at[work[w].task] = "held"
  BY AbsorberAssumption, Zenon DEF TypeOK, OnePlace

\* Insert() moves its task to the queue, or replies to it.
LEMMA InsertMoves ==
  ASSUME TypeOK, NEW t \in Task, NEW q \in {"cache", "tasks"}, Insert(t, q),
         at[t] \notin {"done", "dropped"}, q = "cache" => CacheWorker # {}
  PROVE  /\ \E p \in {q, "done"} : Move(t, p)
         /\ late \subseteq late' /\ late' \subseteq Task
<1>1. CASE Full(q)
  <2>1. Move(t, "done") /\ late' = late
    BY <1>1, Zenon DEF Insert, Reply, Move
  <2> QED BY <2>1, Zenon DEF TypeOK
<1>2. CASE ~Full(q)
  <2>1. at' = [at EXCEPT ![t] = q] /\ answers' = answers
    BY <1>2, Zenon DEF Insert, Place
  <2>2. late' = IF Closed(q) THEN late \union {t} ELSE late
    BY <1>2, Zenon DEF Insert
  <2>3. Move(t, q)
    BY <1>2, <2>1, <2>2, Zenon DEF Move
  <2> QED BY <2>2, <2>3, Zenon DEF TypeOK
<1> QED BY <1>1, <1>2, Zenon

\* Every step is of one of the two kinds.
LEMMA Shapes ==
  ASSUME IInv, Next
  PROVE  TaskStep \/ QuietStep
<1> USE AbsorberAssumption
<1>t. TypeOK /\ OnePlace
  BY Zenon DEF IInv
<1>1. ASSUME NEW t \in Task, stage # "destroyed", Refuse(t) \/ Submit(t) \/ SubmitClosed(t)
      PROVE  TaskStep
  <2>1. at[t] = "new" /\ UNCHANGED <<work, hangup, stage>>
    BY <1>1, Zenon DEF Refuse, Submit, SubmitClosed
  <2>2. late \subseteq late' /\ late' \subseteq Task
    BY <1>1, <1>t, Zenon DEF Refuse, Submit, SubmitClosed, TypeOK
  <2>3. \E p \in {"submit", "done", "dropped"} : Move(t, p)
    BY <1>1, <2>1, Zenon DEF Refuse, Submit, SubmitClosed, Place, Reply, Move
  <2> QED BY <2>1, <2>2, <2>3, Zenon DEF TaskStep, Enter, Places
<1>2. ASSUME NEW t \in Task, SubmitInsert(t)
      PROVE  TaskStep
  <2>1. First \in {"cache", "tasks"} /\ (First = "cache" => CacheWorker # {})
    BY Zenon DEF First
  <2>2. at[t] = "submit" /\ Insert(t, First) /\ UNCHANGED <<work, hangup, stage>>
    BY <1>2, Zenon DEF SubmitInsert
  <2>3. /\ \E p \in {First, "done"} : Move(t, p)
        /\ late \subseteq late' /\ late' \subseteq Task
    BY <1>t, <2>1, <2>2, InsertMoves, Zenon
  <2> QED BY <2>1, <2>2, <2>3, Zenon DEF TaskStep, Enter, Places
<1>3. ASSUME NEW t \in Task, HangUp(t)
      PROVE  QuietStep
  <2>1. UNCHANGED <<at, answers, late, work, stage>> /\ hangup' \in [Task -> BOOLEAN]
    BY <1>3, <1>t, Zenon DEF HangUp, TypeOK
  <2> QED BY <1>t, <2>1, Zenon DEF QuietStep, Busy, Closed, TypeOK, IInv, Drained
<1>4. ASSUME NEW w \in Worker, NEW q \in {"cache", "tasks"}, Pop(w, q)
      PROVE  TaskStep
  <2>1. PICK t \in In(q) : Take(w, t)
    BY <1>4, Zenon DEF Pop
  <2>2. t \in Task /\ at[t] = q /\ ~Busy(w) /\ work[w].pc = "ready"
    BY <1>4, <2>1, Zenon DEF In, Pop, Busy
  <2>3. UNCHANGED <<late, hangup, stage, answers>>
    BY <2>1, Zenon DEF Take, Place
  <2>4. CASE hangup[t]
    <3>1. Move(t, "dropped")
      BY <2>1, <2>2, <2>4, Zenon DEF Take, Place, Move
    <3>2. work' = work
      <4>1. work[w] = [pc |-> "ready", task |-> None]
        BY <1>t, <2>2, Zenon DEF TypeOK, OnePlace
      <4>2. work' = [work EXCEPT ![w] = [pc |-> "ready", task |-> None]]
        BY <2>1, <2>4, Zenon DEF Take
      <4> QED BY <1>t, <4>1, <4>2, Zenon DEF TypeOK
    <3> QED BY <1>t, <2>2, <2>3, <3>1, <3>2, Zenon DEF TaskStep, Skip, Places, TypeOK
  <2>5. CASE ~hangup[t]
    <3>1. Move(t, "held")
      BY <2>1, <2>2, <2>5, Zenon DEF Take, Place, Move
    <3>2. Acquire(w, t)
      BY <2>1, <2>2, <2>5, Zenon DEF Take, Acquire
    <3> QED BY <1>t, <2>2, <2>3, <3>1, <3>2, Zenon DEF TaskStep, Places, TypeOK
  <2> QED BY <2>4, <2>5, Zenon
<1>5. ASSUME NEW w \in Worker, NEW q \in {"cache", "tasks"}, PopNone(w, q),
             IF q = "cache" THEN w \in CacheWorker ELSE w \in ExecWorker
      PROVE  QuietStep
  <2>1. UNCHANGED <<at, answers, late, hangup, stage>>
    BY <1>5, Zenon DEF PopNone
  <2>2. work[w].pc = "ready" /\ work' = [work EXCEPT ![w].pc = "gone"]
    BY <1>5, Zenon DEF PopNone
  <2>3. \A v \in Worker : /\ work'[v].task = work[v].task
                          /\ work'[v].pc = IF v = w THEN "gone" ELSE work[v].pc
    BY <1>t, <2>2, Zenon DEF TypeOK
  <2>4. work' \in [Worker -> [pc : {"ready", "busy", "push", "gone"},
                              task : Task \union {None}]]
    BY <1>t, <2>2, Zenon DEF TypeOK
  <2>5. In(q) = {} /\ Closed(q)
    BY <1>5, Zenon DEF PopNone
  <2>6. \A v \in Worker : Busy(v)' <=> Busy(v)
    BY <2>2, <2>3 DEF Busy
  <2>7. \A v \in Worker : work'[v].pc = "gone" =>
                            \/ work[v].pc = "gone"
                            \/ v \in CacheWorker /\ Closed("cache") /\ In("cache") = {}
                            \/ v \in ExecWorker /\ Closed("tasks") /\ In("tasks") = {}
    BY <1>5, <2>3, <2>5, Zenon
  <2>8. \A r \in {"cache", "tasks"} : Closed(r) => Closed(r)'
    BY <2>1, Zenon DEF Closed
  <2>9. stage' \in {"joined", "destroyed"} => \A v \in Worker : work'[v].pc = "gone"
    BY <2>1, <2>3, Zenon DEF IInv, Drained
  <2> QED BY <1>t, <2>1, <2>3, <2>4, <2>6, <2>7, <2>8, <2>9, Zenon DEF QuietStep, TypeOK
<1>6. ASSUME NEW w \in Worker, CacheHit(w) \/ CacheMissClosed(w) \/ Execute(w)
      PROVE  TaskStep
  <2> DEFINE t == work[w].task
  <2>1. Busy(w) /\ Reply(t) /\ Free(w) /\ UNCHANGED <<late, hangup, stage>>
    BY <1>6, Zenon DEF CacheHit, CacheMissClosed, Execute, Busy
  <2>2. t \in Task /\ at[t] = "held"
    BY <1>t, <2>1, BusyTask, Zenon
  <2>3. Move(t, "done")
    BY <2>1, <2>2, Zenon DEF Reply, Move
  <2>4. Release(w, t, "done")
    BY <2>1, Zenon DEF Release, Free
  <2> QED BY <1>t, <2>1, <2>2, <2>3, <2>4, Zenon DEF TaskStep, Places, TypeOK
<1>7. ASSUME NEW w \in Worker, CacheMiss(w)
      PROVE  QuietStep
  <2>1. UNCHANGED <<at, answers, late, hangup, stage>>
    BY <1>7, Zenon DEF CacheMiss
  <2>2. work[w].pc = "busy" /\ work' = [work EXCEPT ![w].pc = "push"]
    BY <1>7, Zenon DEF CacheMiss
  <2>3. \A v \in Worker : /\ work'[v].task = work[v].task
                          /\ work'[v].pc = IF v = w THEN "push" ELSE work[v].pc
    BY <1>t, <2>2, Zenon DEF TypeOK
  <2>4. work' \in [Worker -> [pc : {"ready", "busy", "push", "gone"},
                              task : Task \union {None}]]
    BY <1>t, <2>2, Zenon DEF TypeOK
  <2>5. \A v \in Worker : Busy(v)' <=> Busy(v)
    BY <2>2, <2>3, Zenon DEF Busy
  <2>6. stage' \in {"joined", "destroyed"} => \A v \in Worker : work'[v].pc = "gone"
    BY <2>1, <2>2, Zenon DEF IInv, Drained
  <2> QED BY <1>t, <2>1, <2>3, <2>4, <2>5, <2>6, Zenon DEF QuietStep, TypeOK, Closed
<1>8. ASSUME NEW w \in Worker, CacheInsert(w)
      PROVE  TaskStep
  <2> DEFINE t == work[w].task
  <2>1. Busy(w) /\ Insert(t, "tasks") /\ Free(w) /\ UNCHANGED <<hangup, stage>>
    BY <1>8, Zenon DEF CacheInsert, Busy
  <2>2. t \in Task /\ at[t] = "held"
    BY <1>t, <2>1, BusyTask, Zenon
  <2>3. /\ \E p \in {"tasks", "done"} : Move(t, p)
        /\ late \subseteq late' /\ late' \subseteq Task
    BY <1>t, <2>1, <2>2, InsertMoves, Zenon
  <2>4. \A p \in {"tasks", "done"} : Release(w, t, p)
    BY <2>1, Zenon DEF Release, Free
  <2> QED BY <2>1, <2>2, <2>3, <2>4, Zenon DEF TaskStep, Places
<1>9. CASE CloseTasks \/ CloseCache \/ Join \/ Destroy
  <2>1. UNCHANGED <<at, answers, late, hangup, work>>
    BY <1>9, Zenon DEF CloseTasks, CloseCache, Join, Destroy
  <2>2. stage' \in {"joined", "destroyed"} => \A w \in Worker : work[w].pc = "gone"
    BY <1>9, Zenon DEF CloseTasks, CloseCache, Join, Destroy, IInv, Drained
  <2>3. \A q \in {"cache", "tasks"} : Closed(q) => Closed(q)'
    BY <1>9, Zenon DEF CloseTasks, CloseCache, Join, Destroy, Closed
  <2>4. stage' \in {"running", "tasksClosed", "cacheClosed", "joined", "destroyed"}
    BY <1>9, Zenon DEF CloseTasks, CloseCache, Join, Destroy
  <2> QED BY <1>t, <2>1, <2>2, <2>3, <2>4, Zenon DEF QuietStep, Busy, TypeOK
<1>10. ASSUME NEW t \in Task, Discard(t)
       PROVE  TaskStep
  <2>1. /\ stage = "joined" /\ at[t] \in {"cache", "tasks"}
        /\ at' = [at EXCEPT ![t] = "dropped"]
        /\ UNCHANGED <<answers, late, hangup, work, stage>>
    BY <1>10, Zenon DEF Discard, Place
  <2>2. \A w \in Worker : work[w].pc = "gone"
    BY <2>1, Zenon DEF IInv, Drained
  <2>3. t \in late
    BY <2>1, <2>2, Workers, Zenon DEF IInv, Drained, In
  <2>4. Move(t, "dropped") /\ Skip(t, "dropped")
    BY <2>1, <2>3, Zenon DEF Move, Skip
  <2> QED BY <1>t, <2>1, <2>4, Zenon DEF TaskStep, Places, TypeOK
<1> QED BY <1>1, <1>2, <1>3, <1>4, <1>5, <1>6, <1>7, <1>8, <1>9, <1>10, Workers, Zenon
     DEF Next, Handle, CacheStep, ExecStep
-----------------------------------------------------------------------------
(* What the two kinds of steps keep *)

\* Types, and the count of replies.
LEMMA TypeStep ==
  ASSUME IInv, TaskStep \/ QuietStep
  PROVE  TypeOK' /\ Answered'
<1>1. CASE TaskStep
  <2>1. PICK t \in Task, p \in Places \ {"new"} : TaskStep!(t, p)
    BY <1>1, Zenon DEF TaskStep
  <2>2. \A u \in Task : at'[u] = IF u = t THEN p ELSE at[u]
    BY <2>1, Zenon DEF Move, IInv, TypeOK
  <2>3. answers[t] = 0
    BY <2>1, Zenon DEF IInv, Answered, Move
  <2>4. \A u \in Task : answers'[u] = IF u = t /\ p = "done" THEN 1 ELSE answers[u]
    BY <2>1, <2>3 DEF Move, IInv, TypeOK
  <2>5. Answered'
    BY <2>1, <2>2, <2>4 DEF IInv, Answered, Move
  <2>6. at' \in [Task -> Places] /\ answers' \in [Task -> 0 .. 1]
    BY <2>1, <2>3 DEF Move, IInv, TypeOK, Places
  <2>7. work' \in [Worker -> [pc : {"ready", "busy", "push", "gone"},
                              task : Task \union {None}]]
    BY <2>1 DEF Enter, Skip, Release, Acquire, IInv, TypeOK
  <2> QED BY <2>1, <2>5, <2>6, <2>7, Zenon DEF IInv, TypeOK, Places
<1>2. CASE QuietStep
  BY <1>2, Zenon DEF QuietStep, IInv, TypeOK, Answered
<1> QED BY <1>1, <1>2, Zenon

\* The capacity: a task comes to tasks_ only if it is not full.
LEMMA CapacityStep ==
  ASSUME IInv, TaskStep \/ QuietStep
  PROVE  CapacityKept'
<1> DEFINE Q == In("tasks")
<1>0. IsFiniteSet(Q) /\ IsFiniteSet(Q')
  BY AbsorberAssumption, FS_Subset, Zenon DEF In
<1>1. CASE TaskStep
  <2>1. PICK t \in Task, p \in Places \ {"new"} : Move(t, p)
    BY <1>1, Zenon DEF TaskStep
  <2>2. at' = [at EXCEPT ![t] = p] /\ at \in [Task -> Places]
    BY <2>1, Zenon DEF Move, IInv, TypeOK, Places
  <2>3. CASE p = "tasks"
    <3>1. Q' \subseteq Q \union {t}
      BY <2>2, <2>3, Zenon DEF In
    <3>2. IsFiniteSet(Q \union {t}) /\ Cardinality(Q \union {t}) <= Cardinality(Q) + 1
      <4>1. Cardinality(Q) \in Nat
        BY <1>0, FS_CardinalityType, Zenon
      <4>2. /\ IsFiniteSet(Q \union {t})
            /\ \/ Cardinality(Q \union {t}) = Cardinality(Q)
               \/ Cardinality(Q \union {t}) = Cardinality(Q) + 1
        <5> HIDE DEF Q
        <5> QED BY <1>0, FS_AddElement, Zenon
      <4> QED BY <4>1, <4>2
    <3>3. Cardinality(Q') <= Cardinality(Q \union {t})
      BY <3>1, <3>2, FS_Subset, Zenon
    <3>4. Capacity # 0 => ~(Cardinality(Q) >= Capacity)
      BY <2>1, <2>3, Zenon DEF Move, Full
    <3>5. Cardinality(Q) \in Nat /\ Cardinality(Q') \in Nat /\ Cardinality(Q \union {t}) \in Nat
      BY <1>0, <3>2, FS_CardinalityType, Zenon
    <3> QED BY <3>2, <3>3, <3>4, <3>5, AbsorberAssumption DEF CapacityKept
  <2>4. CASE p # "tasks"
    <3>1. Q' \subseteq Q
      BY <2>2, <2>4, Zenon DEF In
    <3>2. Cardinality(Q') <= Cardinality(Q)
      BY <1>0, <3>1, FS_Subset, Zenon
    <3>3. Cardinality(Q) \in Nat /\ Cardinality(Q') \in Nat
      BY <1>0, FS_CardinalityType, Zenon
    <3> QED BY <3>2, <3>3, AbsorberAssumption DEF IInv, CapacityKept
  <2> QED BY <2>3, <2>4, Zenon
<1>2. CASE QuietStep
  BY <1>2, Zenon DEF QuietStep, IInv, CapacityKept, In
<1> QED BY <1>1, <1>2, Zenon

\* Tasks stay in one place.
LEMMA PlaceStep ==
  ASSUME IInv, TaskStep \/ QuietStep
  PROVE  OnePlace'
<1>t. TypeOK /\ OnePlace /\ None \notin Task
  BY AbsorberAssumption, Zenon DEF IInv
<1>1. CASE QuietStep
  BY <1>t, <1>1 DEF QuietStep, OnePlace
<1>2. CASE TaskStep
  <2>1. PICK t \in Task, p \in Places \ {"new"} : TaskStep!(t, p)
    BY <1>2, Zenon DEF TaskStep
  <2>2. \A u \in Task : at'[u] = IF u = t THEN p ELSE at[u]
    BY <1>t, <2>1, Zenon DEF Move, TypeOK
  <2>3. CASE Enter(t, p) \/ Skip(t, p)
    <3>1. work' = work /\ p # "held" /\ at[t] # "held"
      BY <2>3, Zenon DEF Enter, Skip
    <3>2. \A u \in Task : (at'[u] = "held") <=> (at[u] = "held")
      BY <2>2, <3>1, Zenon
    <3> QED BY <1>t, <3>1, <3>2, Zenon DEF OnePlace, Busy
  <2>4. ASSUME NEW w \in Worker, Release(w, t, p)
        PROVE  OnePlace'
    <3>1. p # "held" /\ Busy(w) /\ t = work[w].task
      BY <2>4, Zenon DEF Release
    <3>2. \A v \in Worker : work'[v] = IF v = w THEN [pc |-> "ready", task |-> None]
                                                ELSE work[v]
      BY <1>t, <2>4, Zenon DEF Release, TypeOK
    <3>3. \A v \in Worker : v # w => work[v].task # t
      BY <1>t, <3>1, Zenon DEF OnePlace
    <3>4. \A v \in Worker : Busy(v)' <=> work'[v].task # None
      BY <1>t, <3>2 DEF OnePlace, Busy
    <3>5. ASSUME NEW u \in Task
          PROVE  (at'[u] = "held") <=> \E v \in Worker : work'[v].task = u
      <4>1. CASE u = t
        BY <1>t, <2>2, <3>1, <3>2, <3>3, <4>1
      <4>2. CASE u # t
        <5>1. \A v \in Worker : work'[v].task = u <=> work[v].task = u
          BY <1>t, <3>1, <3>2, <4>2
        <5> QED BY <1>t, <2>2, <4>2, <5>1, Zenon DEF OnePlace
      <4> QED BY <4>1, <4>2, Zenon
    <3>6. ASSUME NEW u \in Worker, NEW v \in Worker,
                 work'[u].task = work'[v].task, Busy(u)'
          PROVE  u = v
      <4>1. u # w
        BY <3>2, <3>6 DEF Busy
      <4>2. work'[u] = work[u] /\ Busy(u) /\ work[u].task # None
        BY <1>t, <3>2, <3>6, <4>1, Zenon DEF OnePlace, Busy
      <4>3. v # w
        BY <3>2, <3>6, <4>2
      <4> QED BY <1>t, <3>2, <3>6, <4>2, <4>3, Zenon DEF OnePlace
    <3> QED BY <3>4, <3>5, <3>6, Zenon DEF OnePlace
  <2>5. ASSUME NEW w \in Worker, p = "held", Acquire(w, t)
        PROVE  OnePlace'
    <3>1. \A v \in Worker : work[v].task # t
      BY <1>t, <2>5, Zenon DEF OnePlace, Acquire
    <3>2. work[w].task = None /\ t # None
      BY <1>t, <2>5, Zenon DEF OnePlace, Acquire
    <3>3. \A v \in Worker : work'[v] = IF v = w THEN [pc |-> "busy", task |-> t]
                                                ELSE work[v]
      BY <1>t, <2>5, Zenon DEF Acquire, TypeOK
    <3>4. \A v \in Worker : Busy(v)' <=> work'[v].task # None
      BY <1>t, <3>2, <3>3 DEF OnePlace, Busy
    <3>5. ASSUME NEW u \in Task
          PROVE  (at'[u] = "held") <=> \E v \in Worker : work'[v].task = u
      <4>1. CASE u = t
        BY <2>2, <2>5, <3>3, <4>1
      <4>2. CASE u # t
        <5>1. \A v \in Worker : work'[v].task = u <=> work[v].task = u
          BY <1>t, <3>2, <3>3, <4>2
        <5> QED BY <1>t, <2>2, <4>2, <5>1, Zenon DEF OnePlace
      <4> QED BY <4>1, <4>2, Zenon
    <3>6. ASSUME NEW u \in Worker, NEW v \in Worker,
                 work'[u].task = work'[v].task, Busy(u)'
          PROVE  u = v
      <4>1. CASE u = w
        BY <3>1, <3>3, <3>6, <4>1
      <4>2. CASE u # w
        <5>1. work'[u] = work[u] /\ Busy(u)
          BY <3>3, <3>6, <4>2, Zenon DEF Busy
        <5>2. v # w
          BY <3>1, <3>3, <3>6, <5>1
        <5> QED BY <1>t, <3>3, <3>6, <5>1, <5>2, Zenon DEF OnePlace
      <4> QED BY <4>1, <4>2, Zenon
    <3> QED BY <3>4, <3>5, <3>6, Zenon DEF OnePlace
  <2> QED BY <2>1, <2>3, <2>4, <2>5, Zenon
<1> QED BY <1>1, <1>2, Zenon

\* What workers leave behind came late.
LEMMA DrainedStep ==
  ASSUME IInv, TaskStep \/ QuietStep
  PROVE  Drained'
<1>1. CASE TaskStep
  <2>1. PICK t \in Task, p \in Places \ {"new"} : TaskStep!(t, p)
    BY <1>1, Zenon DEF TaskStep
  <2>2. \A u \in Task : at'[u] = IF u = t THEN p ELSE at[u]
    BY <2>1, Zenon DEF Move, IInv, TypeOK
  <2>3. \A w \in Worker : work'[w].pc = "gone" <=> work[w].pc = "gone"
    BY <2>1 DEF Enter, Skip, Release, Acquire, Busy, IInv, TypeOK, Drained
  <2>4. \A q \in {"cache", "tasks"} : Closed(q)' <=> Closed(q)
    BY <2>1, Zenon DEF Closed
  <2>5. ASSUME NEW q \in {"cache", "tasks"}, Closed(q), In(q) \subseteq late
        PROVE  In(q)' \subseteq late'
    BY <2>1, <2>2, <2>5, Zenon DEF In, Move
  <2>6. CacheWorker = {} => In("cache")' = {}
    BY <2>1, <2>2, Zenon DEF In, Move, IInv, Drained
  <2> QED BY <2>1, <2>3, <2>4, <2>5, <2>6, Workers, Zenon DEF IInv, Drained
<1>2. CASE QuietStep
  <2>1. In("cache")' = In("cache") /\ In("tasks")' = In("tasks") /\ late' = late
    BY <1>2, Zenon DEF QuietStep, In
  <2>2. \A q \in {"cache", "tasks"} : Closed(q) => Closed(q)'
    BY <1>2, Zenon DEF QuietStep
  <2>3. CacheWorker \intersect ExecWorker = {}
    BY AbsorberAssumption, Zenon
  <2>4. \A w \in ExecWorker : work'[w].pc = "gone" =>
             Closed("tasks") /\ In("tasks") \subseteq late
    BY <1>2, <2>3, Workers, Zenon DEF QuietStep, IInv, Drained
  <2>5. \A w \in CacheWorker : work'[w].pc = "gone" =>
             Closed("cache") /\ In("cache") \subseteq late
    BY <1>2, <2>3, Workers, Zenon DEF QuietStep, IInv, Drained
  <2>6. stage' \in {"joined", "destroyed"} => \A w \in Worker : work'[w].pc = "gone"
    BY <1>2, Zenon DEF QuietStep
  <2> QED BY <2>1, <2>2, <2>4, <2>5, <2>6, Zenon DEF IInv, Drained
<1> QED BY <1>1, <1>2, Zenon
-----------------------------------------------------------------------------
(* The theorems *)

\* The invariant holds at the start.
LEMMA InitIInv == Init => IInv
<1> SUFFICES ASSUME Init PROVE IInv
  BY Zenon
<1>1. TypeOK
  BY DEF Init, TypeOK
<1>2. OnePlace
  BY AbsorberAssumption, Zenon DEF Init, OnePlace, Busy
<1>3. In("tasks") = {} /\ In("cache") = {}
  BY Zenon DEF Init, In
<1>4. CapacityKept
  BY <1>3, FS_EmptySet, AbsorberAssumption DEF CapacityKept
<1>5. Answered /\ Drained
  BY <1>3, Workers, Zenon DEF Init, Answered, Drained
<1> QED BY <1>1, <1>2, <1>4, <1>5, Zenon DEF IInv

\* The invariant is inductive.
LEMMA NextIInv == IInv /\ [Next]_vars => IInv'
<1> SUFFICES ASSUME IInv, [Next]_vars PROVE IInv'
  BY Zenon
<1>1. CASE Next
  <2>1. TaskStep \/ QuietStep
    BY <1>1, Shapes, Zenon
  <2>2. TypeOK' /\ Answered'
    BY <2>1, TypeStep, Zenon
  <2>3. CapacityKept' /\ OnePlace' /\ Drained'
    BY <2>1, CapacityStep, PlaceStep, DrainedStep, Zenon
  <2> QED BY <2>2, <2>3, Zenon DEF IInv
<1>2. CASE UNCHANGED vars
  BY <1>2 DEF vars, IInv, TypeOK, OnePlace, Busy, Answered, CapacityKept, Drained, In, Closed
<1> QED BY <1>1, <1>2, Zenon

\* The invariant always holds.
THEOREM Inductive == Spec => []IInv
  BY InitIInv, NextIInv, PTL DEF Spec

\* Every variable keeps its type; in particular there are never two replies to a task.
THEOREM TypeCorrect == Spec => []TypeOK
<1>1. IInv => TypeOK
  BY Zenon DEF IInv
<1> QED BY <1>1, Inductive, PTL

\* tasks_ never holds more than pool_capacity tasks, whatever the number of threads
\* that push to it.
THEOREM CapacityBound == Spec => []CapacityKept
<1>1. IInv => CapacityKept
  BY Zenon DEF IInv
<1> QED BY <1>1, Inductive, PTL

\* No task is shared or duplicated between queues and workers.
THEOREM TasksInOnePlace == Spec => []OnePlace
<1>1. IInv => OnePlace
  BY Zenon DEF IInv
<1> QED BY <1>1, Inductive, PTL

\* Neither a worker nor the destructor throws away a task that was in time.
THEOREM AcceptedAreAnswered == Spec => AcceptedAnswered
<1> DEFINE Kept == \A t \in Task : at[t] \in {"submit", "cache", "tasks", "held"}
                                     /\ at'[t] = "dropped" => hangup[t] \/ t \in late
<1>1. ASSUME IInv, [Next]_vars PROVE [Kept]_vars
  <2>1. CASE Next
    <3>1. CASE QuietStep
      BY <3>1, Zenon DEF QuietStep
    <3>2. CASE TaskStep
      <4>1. PICK t \in Task, p \in Places \ {"new"} : Move(t, p)
        BY <3>2, Zenon DEF TaskStep
      <4>2. \A u \in Task : at'[u] = IF u = t THEN p ELSE at[u]
        BY <1>1, <4>1, Zenon DEF Move, IInv, TypeOK
      <4> QED BY <4>1, <4>2, Zenon DEF Move
    <3> QED BY <1>1, <2>1, <3>1, <3>2, Shapes, Zenon
  <2>2. CASE UNCHANGED vars
    BY <2>2, Zenon
  <2> QED BY <1>1, <2>1, <2>2, Zenon
<1> QED BY <1>1, Inductive, PTL DEF Spec, AcceptedAnswered

\* The absorber gives each emitter one reply or a dropped connection.
THEOREM AbsorberImplementsLifecycle == Spec => ImplementsLifecycle
<1> DEFINE st(a) == [t \in Task |-> CASE a[t] = "new"     -> "new"
                                     [] a[t] = "done"    -> "answered"
                                     [] a[t] = "dropped" -> "dropped"
                                     [] OTHER            -> "pending"]
<1>1. Init => Life!LifeInit
  BY Zenon DEF Init, Life!LifeInit
<1>2. ASSUME IInv, [Next]_vars
      PROVE  [Life!LifeNext]_(Life!lifeVars)
  <2>1. CASE UNCHANGED <<at, answers>>
    BY <2>1, Zenon DEF Life!lifeVars
  <2>2. CASE TaskStep
    <3>1. PICK t \in Task, p \in Places \ {"new"} : Move(t, p)
      BY <2>2, Zenon DEF TaskStep
    <3>2. at' = [at EXCEPT ![t] = p] /\ at \in [Task -> Places]
      BY <1>2, <3>1, Zenon DEF Move, IInv, TypeOK, Places
    <3>3. st(at)[t] \in {"new", "pending"}
      BY <3>1, Zenon DEF Move
    <3>4. CASE p = "done"
      <4>1. answers' = [answers EXCEPT ![t] = 1]
        <5>1. answers[t] = 0
          BY <1>2, <3>1, Zenon DEF IInv, Answered, Move
        <5> QED BY <3>1, <3>4, <5>1 DEF Move
      <4>2. st(at') = [st(at) EXCEPT ![t] = "answered"]
        BY <3>2, <3>4, Zenon
      <4>3. Life!Answer(t)
        BY <3>3, <4>1, <4>2, Zenon DEF Life!Answer
      <4> QED BY <4>3, Zenon DEF Life!LifeNext
    <3>5. CASE p = "dropped"
      <4>1. answers' = answers
        BY <3>1, <3>5, Zenon DEF Move
      <4>2. st(at') = [st(at) EXCEPT ![t] = "dropped"]
        BY <3>2, <3>5, Zenon
      <4>3. Life!Drop(t)
        BY <3>3, <4>1, <4>2, Zenon DEF Life!Drop
      <4> QED BY <4>3, Zenon DEF Life!LifeNext
    <3>6. CASE p \notin {"done", "dropped"}
      <4>1. answers' = answers
        BY <3>1, <3>6, Zenon DEF Move
      <4>2. st(at') = [st(at) EXCEPT ![t] = "pending"]
        BY <3>2, <3>6, Zenon DEF Places
      <4>3. CASE st(at)[t] = "new"
        <5>1. Life!Accept(t)
          BY <4>1, <4>2, <4>3, Zenon DEF Life!Accept
        <5> QED BY <5>1, Zenon DEF Life!LifeNext
      <4>4. CASE st(at)[t] = "pending"
        <5>1. st(at') = st(at)
          BY <4>2, <4>4, Zenon
        <5> QED BY <4>1, <5>1, Zenon DEF Life!lifeVars
      <4> QED BY <3>3, <4>3, <4>4, Zenon
    <3> QED BY <3>4, <3>5, <3>6, Zenon
  <2>3. CASE QuietStep
    BY <2>1, <2>3, Zenon DEF QuietStep
  <2>4. CASE UNCHANGED vars
    BY <2>1, <2>4, Zenon DEF vars
  <2> QED BY <1>2, <2>2, <2>3, <2>4, Shapes, Zenon
<1> QED BY <1>1, <1>2, Inductive, PTL DEF Spec, ImplementsLifecycle, Life!LifeSpec
-----------------------------------------------------------------------------
(* QueueAggregator: types.                                                 *)

\* Aggregated queues are empty at first.
LEMMA AggregatorTypeInit == AggregatorInit => AggregatorTypeOK
  <1> SUFFICES ASSUME AggregatorInit PROVE AggregatorTypeOK
    BY Zenon
  <1>1. 1 \in Queue
    BY AggregatorAssumption DEF Queue
  <1>2. popper \in [Poppers -> PopperState]
    BY <1>1, Zenon DEF AggregatorInit, PopperState
  <1>3. /\ items \in [Queue -> SUBSET Nat] /\ entered \in [Queue -> Nat]
        /\ notify \in [Queue -> Nat] /\ thread \in [Queue -> ThreadState]
    BY Zenon DEF AggregatorInit, ThreadState
  <1>4. shut \in [Queue -> BOOLEAN] /\ closed \in BOOLEAN
    BY Zenon DEF AggregatorInit
  <1>5. orders \in Seq(Nat) /\ count \in Nat /\ pushed \in Nat
        /\ taken \subseteq Nat
    BY DEF AggregatorInit
  <1> QED
    BY <1>2, <1>3, <1>4, <1>5, Zenon DEF AggregatorTypeOK

\* The critical section of Pop() keeps the types.
LEMMA AfterWaitType ==
  ASSUME AggregatorTypeOK, NEW w \in Poppers, AfterWait(w)
  PROVE  /\ orders' \in Seq(Nat)
         /\ taken' \subseteq Nat
         /\ popper' \in [Poppers -> PopperState]
  <1>1. 1 \in Queue
    BY AggregatorAssumption DEF Queue
  <1>2. orders \in Seq(Nat) /\ popper \in [Poppers -> PopperState]
        /\ taken \subseteq Nat
    BY Zenon DEF AggregatorTypeOK
  <1>3. CASE TakeOrder(w)
    <2>1. Head(orders) \in Nat /\ Tail(orders) \in Seq(Nat)
      BY <1>2, <1>3 DEF TakeOrder
    <2> QED
      BY <1>2, <1>3, <2>1, Zenon DEF TakeOrder, PopperState
  <1>4. CASE ~TakeOrder(w)
    <2> DEFINE new == [pc |-> IF closed THEN "drain" ELSE "wait", at |-> 1]
    <2>1. new \in PopperState
      BY <1>1, Zenon DEF PopperState
    <2>2. popper' = [popper EXCEPT ![w] = new] /\ UNCHANGED <<orders, taken>>
      BY <1>4, Zenon DEF AfterWait
    <2> HIDE DEF new
    <2> QED
      BY <1>2, <2>1, <2>2, Zenon
  <1> QED
    BY <1>3, <1>4, Zenon

\* Every step of Pop(), DoPop() and Close() keeps the types.
LEMMA AggregatorTypeStep == AggregatorTypeOK /\ [AggregatorNext]_aggregatorVars => AggregatorTypeOK'
  <1> SUFFICES ASSUME AggregatorTypeOK, [AggregatorNext]_aggregatorVars PROVE AggregatorTypeOK'
    BY Zenon
  <1>1. ASSUME NEW q \in Queue, PushCheck(q) PROVE AggregatorTypeOK'
    BY <1>1, Zenon DEF PushCheck, AggregatorTypeOK
  <1>2. ASSUME NEW q \in Queue, PushInsert(q) PROVE AggregatorTypeOK'
    <2>1. items' \in [Queue -> SUBSET Nat]
      BY <1>2 DEF PushInsert, AggregatorTypeOK
    <2>2. entered' \in [Queue -> Nat] /\ notify' \in [Queue -> Nat]
      BY <1>2 DEF PushInsert, AggregatorTypeOK
    <2> QED
      BY <1>2, <2>1, <2>2, Zenon DEF PushInsert, AggregatorTypeOK
  <1>3. ASSUME NEW q \in Queue, PushNotify(q) PROVE AggregatorTypeOK'
    <2>1. notify' \in [Queue -> Nat]
      BY <1>3 DEF PushNotify, AggregatorTypeOK
    <2>2. thread' \in [Queue -> ThreadState]
      BY <1>3, Zenon DEF PushNotify, AggregatorTypeOK, ThreadState
    <2> QED
      BY <1>3, <2>1, <2>2, Zenon DEF PushNotify, AggregatorTypeOK
  <1>4. ASSUME NEW q \in Queue, RemotePop(q) PROVE AggregatorTypeOK'
    <2>1. PICK i \in items[q] : /\ taken' = taken \union {i}
                                /\ items' = [items EXCEPT ![q] = @ \ {i}]
      BY <1>4, Zenon DEF RemotePop
    <2>2. items' \in [Queue -> SUBSET Nat] /\ taken' \subseteq Nat
      BY <2>1, Zenon DEF AggregatorTypeOK
    <2> QED
      BY <1>4, <2>2, Zenon DEF RemotePop, AggregatorTypeOK
  <1>5. ASSUME NEW q \in Queue, CloseQueue(q) PROVE AggregatorTypeOK'
    <2>1. thread' \in [Queue -> ThreadState]
      BY <1>5, Zenon DEF CloseQueue, AggregatorTypeOK, ThreadState
    <2>2. shut' \in [Queue -> BOOLEAN]
      BY <1>5, Zenon DEF CloseQueue, AggregatorTypeOK
    <2> QED
      BY <1>5, <2>1, <2>2, Zenon DEF CloseQueue, AggregatorTypeOK
  <1>6. ASSUME NEW q \in Queue,
               Loop(q) \/ WaitOrder(q) \/ WaitQueue(q) \/ NoOrder(q)
        PROVE AggregatorTypeOK'
    <2>1. thread' \in [Queue -> ThreadState]
      BY <1>6, Zenon DEF Loop, WaitOrder, WaitQueue, NoOrder, AggregatorTypeOK, ThreadState
    <2> QED
      BY <1>6, <2>1, Zenon DEF Loop, WaitOrder, WaitQueue, NoOrder, AggregatorTypeOK
  <1>7. ASSUME NEW q \in Queue, FillOrder(q) PROVE AggregatorTypeOK'
    <2>1. PICK i \in items[q] : /\ orders' = Append(orders, i)
                                /\ items' = [items EXCEPT ![q] = @ \ {i}]
      BY <1>7, Zenon DEF FillOrder
    <2>2. i \in Nat /\ items' \in [Queue -> SUBSET Nat]
      BY <2>1, Zenon DEF AggregatorTypeOK
    <2>3. orders' \in Seq(Nat)
      BY <2>1, <2>2 DEF AggregatorTypeOK
    <2>4. count' \in Nat /\ thread' \in [Queue -> ThreadState]
      BY <1>7 DEF FillOrder, AggregatorTypeOK, ThreadState
    <2> QED
      BY <1>7, <2>2, <2>3, <2>4, Zenon DEF FillOrder, AggregatorTypeOK
  <1>8. ASSUME NEW q \in Queue, NotifyDone(q) PROVE AggregatorTypeOK'
    <2>1. popper' \in [Poppers -> PopperState]
      <3>1. CASE UNCHANGED popper
        BY <3>1, Zenon DEF AggregatorTypeOK
      <3>2. ASSUME NEW w \in Poppers, popper' = [popper EXCEPT ![w].pc = "awake"]
            PROVE  popper' \in [Poppers -> PopperState]
        BY <3>2, Zenon DEF AggregatorTypeOK, PopperState
      <3> QED
        BY <1>8, <3>1, <3>2, Zenon DEF NotifyDone, Sleeping
    <2>2. thread' \in [Queue -> ThreadState]
      BY <1>8, Zenon DEF NotifyDone, AggregatorTypeOK, ThreadState
    <2> QED
      BY <1>8, <2>1, <2>2, Zenon DEF NotifyDone, AggregatorTypeOK
  <1>9. ASSUME NEW w \in Poppers, PopEnter(w) PROVE AggregatorTypeOK'
    <2>1. thread' \in [Queue -> ThreadState]
      BY <1>9, Zenon DEF PopEnter, WakeOrders, AggregatorTypeOK, ThreadState
    <2>2. count' \in Nat
      BY <1>9 DEF PopEnter, AggregatorTypeOK
    <2> QED
      BY <1>9, <2>1, <2>2, AfterWaitType, Zenon DEF PopEnter, AggregatorTypeOK
  <1>10. ASSUME NEW w \in Poppers, PopWake(w) PROVE AggregatorTypeOK'
    BY <1>10, AfterWaitType, Zenon DEF PopWake, AggregatorTypeOK
  <1>11. ASSUME NEW w \in Poppers, Spurious(w) PROVE AggregatorTypeOK'
    <2>1. popper' \in [Poppers -> PopperState]
      BY <1>11, Zenon DEF Spurious, AggregatorTypeOK, PopperState
    <2> QED
      BY <1>11, <2>1, Zenon DEF Spurious, AggregatorTypeOK
  <1>12. ASSUME NEW w \in Poppers, Drain(w) PROVE AggregatorTypeOK'
    <2> DEFINE q == popper[w].at
    <2>1. q \in Queue /\ popper \in [Poppers -> PopperState]
      BY Zenon DEF AggregatorTypeOK, PopperState
    <2>2. CASE items[q] # {}
      <3>1. PICK i \in items[q] : /\ taken' = taken \union {i}
                                  /\ items' = [items EXCEPT ![q] = @ \ {i}]
        BY <1>12, <2>2, Zenon DEF Drain
      <3>2. items' \in [Queue -> SUBSET Nat] /\ taken' \subseteq Nat
        BY <2>1, <3>1, Zenon DEF AggregatorTypeOK
      <3>3. popper' \in [Poppers -> PopperState]
        BY <1>12, <2>1, <2>2, Zenon DEF Drain, PopperState
      <3> QED
        BY <1>12, <3>2, <3>3, Zenon DEF Drain, AggregatorTypeOK
    <2>3. CASE items[q] = {}
      <3>1. q < NQueues => q + 1 \in Queue
        BY <2>1, AggregatorAssumption DEF Queue
      <3>2. popper' \in [Poppers -> PopperState]
        BY <1>12, <2>1, <2>3, <3>1 DEF Drain, PopperState
      <3>3. UNCHANGED <<items, taken>>
        BY <1>12, <2>3, Zenon DEF Drain
      <3> QED
        BY <1>12, <3>2, <3>3, Zenon DEF Drain, AggregatorTypeOK
    <2> QED
      BY <2>2, <2>3, Zenon
  <1>13. CASE Close
    <2>1. popper' \in [Poppers -> PopperState]
      <3>1. \A w \in Poppers : [popper[w] EXCEPT !.pc = "awake"] \in PopperState
        BY Zenon DEF AggregatorTypeOK, PopperState
      <3> QED
        BY <1>13, <3>1, Zenon DEF Close, AggregatorTypeOK
    <2>2. thread' \in [Queue -> ThreadState]
      BY <1>13, Zenon DEF Close, WakeOrders, AggregatorTypeOK, ThreadState
    <2> QED
      BY <1>13, <2>1, <2>2, Zenon DEF Close, AggregatorTypeOK
  <1>14. CASE UNCHANGED aggregatorVars
    BY <1>14, Zenon DEF aggregatorVars, AggregatorTypeOK
  <1> QED
    BY <1>1, <1>2, <1>3, <1>4, <1>5, <1>6, <1>7, <1>8, <1>9, <1>10, <1>11,
       <1>12, <1>13, <1>14, Zenon DEF AggregatorNext, ThreadStep, PopperStep

\* Every field keeps its type.
THEOREM AggregatorIsTyped == AggregatorSpec => []AggregatorTypeOK
  BY AggregatorTypeInit, AggregatorTypeStep, PTL DEF AggregatorSpec
-----------------------------------------------------------------------------
(* Orders and poppers *)

\* The inductive part of OrdersMatchPoppers and OrdersCovered.
CountInv ==
  /\ ~closed => count + Len(orders) = Cardinality(Waiting)
  /\ count + Len(orders) <= Cardinality(Waiting)
  /\ closed => count = 0

\* Waiting poppers can be counted.
LEMMA WaitingFinite == IsFiniteSet(Waiting) /\ Cardinality(Waiting) \in Nat
  <1>1. Waiting \subseteq Poppers /\ IsFiniteSet(Poppers)
    BY AggregatorAssumption, Zenon DEF Waiting
  <1> QED
    BY <1>1, FS_Subset, FS_CardinalityType, Zenon

\* A popper that enters Pop() adds one order, and one that waits.
LEMMA CountEnter ==
  ASSUME AggregatorTypeOK, CountInv, NEW w \in Poppers, PopEnter(w)
  PROVE  CountInv'
  <1>1. /\ orders \in Seq(Nat) /\ Len(orders) \in Nat /\ count \in Nat
        /\ popper \in [Poppers -> PopperState] /\ popper[w].pc = "idle"
        /\ closed' = closed /\ closed \in BOOLEAN
    BY DEF AggregatorTypeOK, PopEnter
  <1>2. IsFiniteSet(Waiting) /\ Cardinality(Waiting) \in Nat
    BY WaitingFinite, Zenon
  <1>3. w \notin Waiting
    BY <1>1, Zenon DEF Waiting
  <1>4. CASE TakeOrder(w)
    <2>1. Len(orders') = Len(orders) - 1
      BY <1>1, <1>4 DEF TakeOrder
    <2>2. Waiting' = Waiting
      BY <1>1, <1>4, Zenon DEF TakeOrder, Waiting, PopperState
    <2> QED
      BY <1>1, <1>2, <2>1, <2>2 DEF CountInv, PopEnter
  <1>5. CASE ~TakeOrder(w) /\ closed
    <2>1. orders' = orders /\ count' = count
      BY <1>5, Zenon DEF PopEnter, AfterWait
    <2>2. Waiting' = Waiting
      BY <1>1, <1>5 DEF PopEnter, AfterWait, Waiting, PopperState
    <2> QED
      BY <1>1, <2>1, <2>2, Zenon DEF CountInv
  <1>6. CASE ~TakeOrder(w) /\ ~closed
    <2>1. orders' = orders /\ count' = count + 1
      BY <1>6, Zenon DEF PopEnter, AfterWait
    <2>2. Waiting' = Waiting \union {w}
      BY <1>1, <1>6 DEF PopEnter, AfterWait, Waiting, PopperState
    <2>3. Cardinality(Waiting') = Cardinality(Waiting) + 1
      BY <1>2, <1>3, <2>2, FS_AddElement, Zenon
    <2> QED
      BY <1>1, <1>2, <1>6, <2>1, <2>3 DEF CountInv
  <1> QED
    BY <1>4, <1>5, <1>6, Zenon

\* A popper that wakes up takes what it waited for, or goes on waiting.
LEMMA CountWake ==
  ASSUME AggregatorTypeOK, CountInv, NEW w \in Poppers, PopWake(w)
  PROVE  CountInv'
  <1>1. /\ orders \in Seq(Nat) /\ Len(orders) \in Nat /\ count \in Nat
        /\ popper \in [Poppers -> PopperState] /\ popper[w].pc = "awake"
        /\ closed' = closed /\ count' = count
    BY DEF AggregatorTypeOK, PopWake
  <1>2. IsFiniteSet(Waiting) /\ Cardinality(Waiting) \in Nat
    BY WaitingFinite, Zenon
  <1>3. w \in Waiting
    BY <1>1, Zenon DEF Waiting
  <1>4. Cardinality(Waiting \ {w}) = Cardinality(Waiting) - 1
    BY <1>2, <1>3, FS_RemoveElement, Zenon
  <1>5. Cardinality(Waiting) - 1 \in Nat
    <2>1. IsFiniteSet(Waiting \ {w})
      BY <1>2, FS_Subset, Zenon
    <2> QED
      BY <1>4, <2>1, FS_CardinalityType, Zenon
  <1>6. CASE TakeOrder(w)
    <2>1. Len(orders') = Len(orders) - 1
      BY <1>1, <1>6 DEF TakeOrder
    <2>2. Waiting' = Waiting \ {w}
      BY <1>1, <1>6, Zenon DEF TakeOrder, Waiting, PopperState
    <2> QED
      BY <1>1, <1>2, <1>4, <2>1, <2>2 DEF CountInv
  <1>7. CASE ~TakeOrder(w) /\ closed
    <2>1. orders' = orders /\ orders = <<>> /\ Len(orders) = 0
      BY <1>7, Zenon DEF PopWake, AfterWait
    <2>2. Waiting' = Waiting \ {w}
      BY <1>1, <1>7 DEF PopWake, AfterWait, Waiting, PopperState
    <2> QED
      BY <1>1, <1>2, <1>4, <1>5, <1>7, <2>1, <2>2 DEF CountInv
  <1>8. CASE ~TakeOrder(w) /\ ~closed
    <2>1. orders' = orders
      BY <1>8, Zenon DEF PopWake, AfterWait
    <2>2. Waiting' = Waiting
      BY <1>1, <1>8 DEF PopWake, AfterWait, Waiting, PopperState
    <2> QED
      BY <1>1, <2>1, <2>2, Zenon DEF CountInv
  <1> QED
    BY <1>6, <1>7, <1>8, Zenon

\* Every step keeps orders and waiting poppers in balance.
LEMMA CountStep == AggregatorTypeOK /\ CountInv /\ [AggregatorNext]_aggregatorVars => CountInv'
  <1> SUFFICES ASSUME AggregatorTypeOK, CountInv, [AggregatorNext]_aggregatorVars PROVE CountInv'
    BY Zenon
  <1>1. /\ orders \in Seq(Nat) /\ Len(orders) \in Nat /\ count \in Nat
        /\ popper \in [Poppers -> PopperState]
    BY DEF AggregatorTypeOK
  <1>2. Cardinality(Waiting) \in Nat
    BY WaitingFinite, Zenon
  <1>3. ASSUME UNCHANGED <<orders, count, closed>>, Waiting' = Waiting
        PROVE  CountInv'
    BY <1>3, Zenon DEF CountInv
  <1>4. ASSUME NEW q \in Queue, FillOrder(q) PROVE CountInv'
    <2>1. PICK i \in items[q] : orders' = Append(orders, i)
      BY <1>4, Zenon DEF FillOrder
    <2>2. i \in Nat
      BY Zenon DEF AggregatorTypeOK
    <2>3. Len(orders') = Len(orders) + 1
      BY <1>1, <2>1, <2>2
    <2>4. count > 0 /\ count' = count - 1 /\ closed' = closed
          /\ Waiting' = Waiting
      BY <1>4, Zenon DEF FillOrder, Waiting
    <2> QED
      BY <1>1, <1>2, <2>3, <2>4 DEF CountInv
  <1>5. CASE Close
    <2>1. Waiting' = Waiting
      BY <1>1, <1>5, Zenon DEF Close, Waiting, PopperState
    <2>2. closed' = TRUE /\ count' = 0 /\ orders' = orders
      BY <1>5, Zenon DEF Close
    <2> QED
      BY <1>1, <1>2, <2>1, <2>2 DEF CountInv
  <1>6. ASSUME NEW q \in Queue, NotifyDone(q) PROVE CountInv'
    <2>1. Waiting' = Waiting
      BY <1>1, <1>6, Zenon DEF NotifyDone, Sleeping, Waiting, PopperState
    <2> QED
      BY <1>3, <1>6, <2>1, Zenon DEF NotifyDone
  <1>7. ASSUME NEW w \in Poppers, Spurious(w) PROVE CountInv'
    <2>1. Waiting' = Waiting
      BY <1>1, <1>7, Zenon DEF Spurious, Waiting, PopperState
    <2> QED
      BY <1>3, <1>7, <2>1, Zenon DEF Spurious
  <1>8. ASSUME NEW w \in Poppers, Drain(w) PROVE CountInv'
    <2>1. /\ \A v \in Poppers : v # w => popper'[v] = popper[v]
          /\ popper[w].pc = "drain"
          /\ popper'[w].pc \in {"idle", "drain", "gone"}
      BY <1>1, <1>8 DEF Drain, PopperState
    <2>2. Waiting' = Waiting
      BY <2>1, Zenon DEF Waiting
    <2> QED
      BY <1>3, <1>8, <2>2, Zenon DEF Drain
  <1>9. ASSUME NEW q \in Queue,
               \/ PushCheck(q) \/ PushInsert(q) \/ PushNotify(q)
               \/ RemotePop(q) \/ CloseQueue(q) \/ Loop(q)
               \/ WaitOrder(q) \/ WaitQueue(q) \/ NoOrder(q)
        PROVE  CountInv'
    <2>1. UNCHANGED <<orders, count, closed, popper>>
      BY <1>9, Zenon DEF PushCheck, PushInsert, PushNotify, RemotePop, CloseQueue,
                  Loop, WaitOrder, WaitQueue, NoOrder
    <2> QED
      BY <1>3, <2>1, Zenon DEF Waiting
  <1>10. CASE UNCHANGED aggregatorVars
    BY <1>3, <1>10, Zenon DEF aggregatorVars, Waiting
  <1> QED
    BY <1>4, <1>5, <1>6, <1>7, <1>8, <1>9, <1>10, CountEnter, CountWake, Zenon
       DEF AggregatorNext, ThreadStep, PopperStep

\* At first there are neither orders nor waiting poppers.
LEMMA CountInit == AggregatorInit => CountInv
  <1> SUFFICES ASSUME AggregatorInit PROVE CountInv
    BY Zenon
  <1>1. Waiting = {} /\ count = 0 /\ Len(orders) = 0 /\ closed = FALSE
    BY Zenon DEF AggregatorInit, Waiting
  <1> QED
    BY <1>1, FS_EmptySet DEF CountInv

\* While the aggregator is open, orders that are counted or filled and poppers
\* that wait are equally many.
THEOREM OrdersMatch == AggregatorSpec => []OrdersMatchPoppers
  <1>1. CountInv => OrdersMatchPoppers
    BY Zenon DEF CountInv, OrdersMatchPoppers
  <1> QED
    BY <1>1, AggregatorTypeInit, AggregatorTypeStep, CountInit, CountStep, PTL DEF AggregatorSpec

\* No item is left in orders_ when the last popper has gone.
THEOREM OrdersAreCovered == AggregatorSpec => []OrdersCovered
  <1>1. AggregatorTypeOK /\ CountInv => OrdersCovered
    <2> SUFFICES ASSUME AggregatorTypeOK, CountInv,
                        \A w \in Poppers : popper[w].pc = "gone"
                 PROVE  orders = <<>>
      BY Zenon DEF CountInv, OrdersCovered
    <2>1. Waiting = {}
      BY Zenon DEF Waiting
    <2>2. Cardinality(Waiting) = 0
      BY <2>1, FS_EmptySet, Zenon
    <2>3. orders \in Seq(Nat) /\ count \in Nat /\ Len(orders) \in Nat
      BY DEF AggregatorTypeOK
    <2>4. Len(orders) = 0
      BY <2>2, <2>3 DEF CountInv
    <2> QED
      BY <2>3, <2>4
  <1> QED
    BY <1>1, AggregatorTypeInit, AggregatorTypeStep, CountInit, CountStep, PTL DEF AggregatorSpec
-----------------------------------------------------------------------------
(* Every item is in one place *)

Distinct(s) == \A j, k \in DOMAIN s : j # k => s[j] # s[k]

\* What is pushed to the back of orders_ is added to its elements.
LEMMA AppendElements ==
  ASSUME NEW s \in Seq(Nat), NEW i \in Nat, i \notin Elements(s), Distinct(s)
  PROVE  /\ Elements(Append(s, i)) = Elements(s) \union {i}
         /\ Distinct(Append(s, i))
  <1> DEFINE r == Append(s, i)
             n == Len(s)
  <1>1. /\ n \in Nat
        /\ DOMAIN s = 1 .. n
        /\ DOMAIN r = 1 .. n + 1
        /\ \A j \in 1 .. n : r[j] = s[j]
        /\ r[n + 1] = i
    OBVIOUS
  <1> HIDE DEF r, n
  <1>2. 1 .. n + 1 = (1 .. n) \union {n + 1} /\ n + 1 \notin 1 .. n
    BY <1>1
  <1>3. Elements(r) = Elements(s) \union {i}
    BY <1>1, <1>2 DEF Elements
  <1>4. Distinct(r)
    BY <1>1, <1>2 DEF Distinct, Elements
  <1> QED
    BY <1>3, <1>4, Zenon DEF r

\* What is popped from the front of orders_ is removed from its elements.
LEMMA TailElements ==
  ASSUME NEW s \in Seq(Nat), s # <<>>, Distinct(s)
  PROVE  /\ Elements(Tail(s)) = Elements(s) \ {Head(s)}
         /\ Head(s) \in Elements(s)
         /\ Distinct(Tail(s))
  <1> DEFINE r == Tail(s)
             n == Len(s)
  <1>1. /\ n \in Nat \ {0}
        /\ DOMAIN s = 1 .. n
        /\ DOMAIN r = 1 .. n - 1
        /\ \A j \in 1 .. n - 1 : r[j] = s[j + 1]
        /\ Head(s) = s[1]
    OBVIOUS
  <1> HIDE DEF r, n
  <1>2. 1 \in 1 .. n /\ \A j \in 1 .. n - 1 : j + 1 \in 1 .. n /\ j + 1 # 1
    BY <1>1
  <1>3. Head(s) \in Elements(s)
    BY <1>1, <1>2, Zenon DEF Elements
  <1>4. ASSUME NEW x \in Elements(r) PROVE x \in Elements(s) \ {Head(s)}
    <2>1. PICK j \in 1 .. n - 1 : x = r[j]
      BY <1>1, Zenon DEF Elements
    <2>2. x = s[j + 1] /\ j + 1 \in 1 .. n /\ j + 1 # 1
      BY <1>1, <1>2, <2>1, Zenon
    <2>3. s[j + 1] # s[1]
      BY <1>1, <1>2, <2>2, Zenon DEF Distinct
    <2> QED
      BY <1>1, <2>2, <2>3, Zenon DEF Elements
  <1>5. ASSUME NEW x \in Elements(s), x # Head(s) PROVE x \in Elements(r)
    <2>1. PICK j \in 1 .. n : x = s[j]
      BY <1>1, Zenon DEF Elements
    <2>2. j - 1 \in 1 .. n - 1 /\ (j - 1) + 1 = j
      BY <1>1, <1>5, <2>1
    <2>3. r[j - 1] = x
      BY <1>1, <2>1, <2>2, Zenon
    <2> QED
      BY <1>1, <2>2, <2>3, Zenon DEF Elements
  <1>6. Distinct(r)
    <2> SUFFICES ASSUME NEW j \in 1 .. n - 1, NEW k \in 1 .. n - 1, j # k
                 PROVE  r[j] # r[k]
      BY <1>1, Zenon DEF Distinct
    <2>1. j + 1 # k + 1
      OBVIOUS
    <2>2. s[j + 1] # s[k + 1]
      BY <1>1, <1>2, <2>1, Zenon DEF Distinct
    <2> QED
      BY <1>1, <2>2, Zenon
  <1> QED
    BY <1>3, <1>4, <1>5, <1>6, Zenon DEF r

\* An item leaves queue q.
LEMMA QueuedRemove ==
  ASSUME AggregatorTypeOK, ItemInOnePlace, NEW q \in Queue, NEW i \in items[q],
         items' = [items EXCEPT ![q] = @ \ {i}]
  PROVE  /\ Queued' = Queued \ {i}
         /\ i \in Queued
         /\ \A a, b \in Queue : a # b => items'[a] \intersect items'[b] = {}
  <1>1. /\ items \in [Queue -> SUBSET Nat]
        /\ \A a, b \in Queue : a # b => items[a] \intersect items[b] = {}
    BY Zenon DEF AggregatorTypeOK, ItemInOnePlace
  <1>2. /\ items'[q] = items[q] \ {i}
        /\ \A a \in Queue : a # q => items'[a] = items[a]
    BY <1>1, Zenon
  <1>3. i \in Queued
    BY Zenon DEF Queued
  <1>4. \A a \in Queue : a # q => i \notin items[a]
    BY <1>1, Zenon
  <1>5. \A x : x \in Queued' <=> x \in Queued \ {i}
    <2>1. \A x : x \in Queued' <=> \E a \in Queue : x \in items'[a]
      BY Zenon DEF Queued
    <2>2. \A x : x \in Queued <=> \E a \in Queue : x \in items[a]
      BY Zenon DEF Queued
    <2> QED
      BY <1>2, <1>4, <2>1, <2>2, Zenon
  <1>6. \A a, b \in Queue : a # b => items'[a] \intersect items'[b] = {}
    BY <1>1, <1>2, Zenon
  <1> QED
    BY <1>3, <1>5, <1>6, Zenon

\* An item goes from a queue to a popper or a remote worker.
LEMMA MoveToTaken ==
  ASSUME AggregatorTypeOK, ItemInOnePlace, NEW q \in Queue, NEW i \in items[q],
         items' = [items EXCEPT ![q] = @ \ {i}],
         taken' = taken \union {i}, UNCHANGED <<orders, pushed>>
  PROVE  ItemInOnePlace'
  <1>1. /\ Queued' = Queued \ {i}
        /\ i \in Queued
        /\ \A a, b \in Queue : a # b => items'[a] \intersect items'[b] = {}
    BY QueuedRemove, Zenon
  <1>2. Elements(orders)' = Elements(orders)
    BY Zenon DEF Elements
  <1> QED
    BY <1>1, <1>2 DEF ItemInOnePlace

\* A popper moves one element of orders_ to what was taken.
LEMMA MoveFromOrders ==
  ASSUME AggregatorTypeOK, ItemInOnePlace, NEW w \in Poppers, AfterWait(w),
         UNCHANGED <<items, pushed>>
  PROVE  ItemInOnePlace'
  <1>1. CASE TakeOrder(w)
    <2>1. orders \in Seq(Nat) /\ orders # <<>> /\ Distinct(orders)
      BY <1>1, Zenon DEF AggregatorTypeOK, TakeOrder, ItemInOnePlace, Distinct
    <2>2. /\ Elements(orders') = Elements(orders) \ {Head(orders)}
          /\ Head(orders) \in Elements(orders)
          /\ Distinct(orders')
      BY <1>1, <2>1, TailElements, Zenon DEF TakeOrder
    <2>3. taken' = taken \union {Head(orders)} /\ Queued' = Queued
      BY <1>1, Zenon DEF TakeOrder, Queued
    <2> QED
      BY <2>2, <2>3, Zenon DEF ItemInOnePlace, Distinct
  <1>2. CASE ~TakeOrder(w)
    <2>1. UNCHANGED <<orders, taken>>
      BY <1>2, Zenon DEF AfterWait
    <2> QED
      BY <2>1 DEF ItemInOnePlace, Queued, Elements
  <1> QED
    BY <1>1, <1>2, Zenon

\* Every hand-over keeps an item in one place.
LEMMA ItemPlaceStep == AggregatorTypeOK /\ ItemInOnePlace /\ [AggregatorNext]_aggregatorVars => ItemInOnePlace'
  <1> SUFFICES ASSUME AggregatorTypeOK, ItemInOnePlace, [AggregatorNext]_aggregatorVars PROVE ItemInOnePlace'
    BY Zenon
  <1>1. ASSUME UNCHANGED <<items, orders, taken, pushed>> PROVE ItemInOnePlace'
    BY <1>1 DEF ItemInOnePlace, Queued, Elements
  <1>2. ASSUME NEW q \in Queue, PushInsert(q) PROVE ItemInOnePlace'
    <2> DEFINE i == pushed + 1
    <2>1. /\ items \in [Queue -> SUBSET Nat] /\ pushed \in Nat
          /\ items' = [items EXCEPT ![q] = @ \union {i}]
          /\ pushed' = i /\ UNCHANGED <<orders, taken>>
      BY <1>2, Zenon DEF PushInsert, AggregatorTypeOK
    <2>2. 1 .. i = (1 .. pushed) \union {i} /\ i \notin 1 .. pushed
      BY <2>1
    <2> HIDE DEF i
    <2>3. /\ items'[q] = items[q] \union {i}
          /\ \A a \in Queue : a # q => items'[a] = items[a]
      BY <2>1, Zenon
    <2>4. Queued' = Queued \union {i}
      <3>1. \A x : x \in Queued' <=> \E a \in Queue : x \in items'[a]
        BY Zenon DEF Queued
      <3>2. \A x : x \in Queued <=> \E a \in Queue : x \in items[a]
        BY Zenon DEF Queued
      <3>3. \A x : x \in Queued' <=> x \in Queued \union {i}
        BY <2>3, <3>1, <3>2, Zenon
      <3> QED
        BY <3>3, Zenon
    <2>5. Queued \union Elements(orders) \union taken = 1 .. pushed
      BY Zenon DEF ItemInOnePlace
    <2>6. i \notin Queued /\ i \notin Elements(orders) /\ i \notin taken
      BY <2>2, <2>5, Zenon
    <2>7. \A a \in Queue : i \notin items[a]
      BY <2>6, Zenon DEF Queued
    <2>8. \A a, b \in Queue : a # b => items'[a] \intersect items'[b] = {}
      BY <2>3, <2>7 DEF ItemInOnePlace
    <2>9. Elements(orders)' = Elements(orders)
      BY <2>1, Zenon DEF Elements
    <2> QED
      BY <2>1, <2>2, <2>4, <2>5, <2>6, <2>8, <2>9 DEF ItemInOnePlace
  <1>3. ASSUME NEW q \in Queue, RemotePop(q) PROVE ItemInOnePlace'
    BY <1>3, MoveToTaken, Zenon DEF RemotePop
  <1>4. ASSUME NEW q \in Queue, FillOrder(q) PROVE ItemInOnePlace'
    <2>1. PICK i \in items[q] : /\ orders' = Append(orders, i)
                                /\ items' = [items EXCEPT ![q] = @ \ {i}]
      BY <1>4, Zenon DEF FillOrder
    <2>2. /\ Queued' = Queued \ {i}
          /\ i \in Queued
          /\ \A a, b \in Queue : a # b => items'[a] \intersect items'[b] = {}
      BY <2>1, QueuedRemove, Zenon
    <2>3. i \in Nat /\ orders \in Seq(Nat)
      BY Zenon DEF AggregatorTypeOK
    <2>4. i \notin Elements(orders) /\ Distinct(orders)
      BY <2>2, Zenon DEF ItemInOnePlace, Distinct
    <2>5. Elements(orders') = Elements(orders) \union {i} /\ Distinct(orders')
      BY <2>1, <2>3, <2>4, AppendElements, Zenon
    <2>6. UNCHANGED <<taken, pushed>>
      BY <1>4, Zenon DEF FillOrder
    <2> QED
      BY <2>2, <2>5, <2>6, Zenon DEF ItemInOnePlace, Distinct
  <1>5. ASSUME NEW w \in Poppers, PopEnter(w) \/ PopWake(w) PROVE ItemInOnePlace'
    BY <1>5, MoveFromOrders, Zenon DEF PopEnter, PopWake
  <1>6. ASSUME NEW w \in Poppers, Drain(w) PROVE ItemInOnePlace'
    <2> DEFINE q == popper[w].at
    <2>1. q \in Queue
      BY Zenon DEF AggregatorTypeOK, PopperState
    <2>2. UNCHANGED <<orders, pushed>>
      BY <1>6, Zenon DEF Drain
    <2>3. \/ \E i \in items[q] : /\ taken' = taken \union {i}
                                 /\ items' = [items EXCEPT ![q] = @ \ {i}]
          \/ UNCHANGED <<items, taken>>
      BY <1>6, Zenon DEF Drain
    <2> HIDE DEF q
    <2> QED
      BY <1>1, <2>1, <2>2, <2>3, MoveToTaken, Zenon
  <1>7. ASSUME NEW q \in Queue,
               \/ PushCheck(q) \/ PushNotify(q) \/ CloseQueue(q)
               \/ Loop(q) \/ WaitOrder(q) \/ WaitQueue(q) \/ NoOrder(q)
               \/ NotifyDone(q)
        PROVE  ItemInOnePlace'
    BY <1>1, <1>7, Zenon DEF PushCheck, PushNotify, CloseQueue, Loop, WaitOrder,
                      WaitQueue, NoOrder, NotifyDone
  <1>8. ASSUME NEW w \in Poppers, Spurious(w) PROVE ItemInOnePlace'
    BY <1>1, <1>8, Zenon DEF Spurious
  <1>9. CASE Close \/ UNCHANGED aggregatorVars
    BY <1>1, <1>9, Zenon DEF Close, aggregatorVars
  <1> QED
    BY <1>2, <1>3, <1>4, <1>5, <1>6, <1>7, <1>8, <1>9, Zenon
       DEF AggregatorNext, ThreadStep, PopperStep

\* At first there are no items.
LEMMA PlaceInit == AggregatorInit => ItemInOnePlace
  <1> SUFFICES ASSUME AggregatorInit PROVE ItemInOnePlace
    BY Zenon
  <1>1. Queued = {} /\ \A q \in Queue : items[q] = {}
    BY Zenon DEF AggregatorInit, Queued
  <1>2. Elements(orders) = {} /\ DOMAIN orders = {} /\ taken = {} /\ pushed = 0
    BY DEF AggregatorInit, Elements
  <1> QED
    BY <1>1, <1>2 DEF ItemInOnePlace

\* The hand-over between queues, orders_ and poppers neither loses nor copies
\* an item.
THEOREM ItemsConserved == AggregatorSpec => []ItemInOnePlace
  BY AggregatorTypeInit, AggregatorTypeStep, PlaceInit, ItemPlaceStep, PTL DEF AggregatorSpec
=============================================================================
