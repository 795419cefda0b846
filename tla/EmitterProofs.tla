--------------------------- MODULE EmitterProofs ----------------------------
(***************************************************************************)
(* Proofs about Emitter for any number of tasks, workers and shards.       *)
(*                                                                         *)
(* A step of Next has one of five shapes: a worker releases its task, a    *)
(* worker takes a task, a worker without a task moves on, a new task       *)
(* enters, or neither tasks nor workers move.  What keeps a task in one    *)
(* place is shown per shape.                                               *)
(***************************************************************************)
EXTENDS Emitter, TLAPS

\* FindNewShard() returns exactly the other shards: in range, and never the one
\* whose absorber could not be reached.
LEMMA NewShards ==
  ASSUME TotalShards > 1, NEW s \in Shard
  PROVE  FindNewShard(s) = Shard \ {s}
<1> DEFINE f(n) == IF n >= s THEN n + 1 ELSE n
<1>1. TotalShards \in Nat /\ Shard = 0 .. TotalShards - 1
  BY EmitterAssumption DEF Shard
<1>2. s \in 0 .. TotalShards - 1
  BY <1>1, Zenon
<1>3. \A n \in 0 .. TotalShards - 2 : f(n) \in Shard \ {s}
  BY <1>1, <1>2
<1>4. ASSUME NEW m \in Shard \ {s}
      PROVE  \E n \in 0 .. TotalShards - 2 : m = f(n)
  <2>1. CASE m > s
    <3>1. m - 1 \in 0 .. TotalShards - 2 /\ m - 1 >= s /\ (m - 1) + 1 = m
      BY <1>1, <1>2, <2>1
    <3>2. f(m - 1) = m
      BY <3>1, Zenon
    <3> QED  BY <3>1, <3>2, Zenon
  <2>2. CASE m < s
    <3>1. m \in 0 .. TotalShards - 2 /\ ~(m >= s)
      BY <1>1, <1>2, <2>2
    <3>2. f(m) = m
      BY <3>1, Zenon
    <3> QED  BY <3>1, <3>2, Zenon
  <2> QED  BY <1>1, <1>2, <2>1, <2>2
<1>5. FindNewShard(s) = {f(n) : n \in 0 .. TotalShards - 2}
  BY Zenon DEF FindNewShard
<1> HIDE DEF f
<1> QED  BY <1>3, <1>4, <1>5, Zenon

\* CalculateShard() is in range.
LEMMA ShardInRange ==
  ASSUME NEW t \in Task
  PROVE  CalculateShard(t) \in Shard
<1>1. Hash[t] \in Nat /\ TotalShards \in Nat
  BY EmitterAssumption, Zenon
<1>2. CASE TotalShards = 0
  BY <1>2, Zenon DEF CalculateShard, Shard
<1>3. CASE TotalShards # 0
  <2>1. Hash[t] % TotalShards \in 0 .. TotalShards - 1
    BY <1>1, <1>3
  <2> QED  BY <1>3, <2>1, Zenon DEF CalculateShard, Shard
<1> QED  BY <1>2, <1>3, Zenon
-----------------------------------------------------------------------------
Places == {"new", "cache", "all", "failed", "held", "done", "dropped"}
Pcs == {"resolve", "ready", "wait", "busy", "sleep", "gone"}

\* The shapes of a step.
Release(w, p) ==
  /\ Busy(w)
  /\ p \in Pcs \ {"busy"}
  /\ \E x \in Places \ {"held", "new"} : /\ at' = [at EXCEPT ![work[w].task] = x]
                                         /\ w \in LocalWorker => x = "done"
  /\ work' = [work EXCEPT ![w] = [pc |-> p, task |-> None]]

Acquire(w, t) ==
  /\ ~Busy(w)
  /\ at[t] \in {"cache", "all", "failed"}
  /\ at[t] = "failed" => w \in LocalWorker
  /\ Take(w, t)

MoveOn(w) ==
  /\ ~Busy(w)
  /\ \E p \in Pcs \ {"busy"} : work' = [work EXCEPT ![w].pc = p]
  /\ UNCHANGED taskVars

Enter(t) ==
  /\ at[t] = "new"
  /\ \E x \in Places \ {"held", "new"} : at' = [at EXCEPT ![t] = x]
  /\ UNCHANGED work

Stay == UNCHANGED <<at, work>>

\* A released task is nobody's.
LEMMA ReleasePlace ==
  ASSUME TypeOK, OnePlace, NEW w \in Worker, NEW p, Release(w, p)
  PROVE  OnePlace'
<1> DEFINE t == work[w].task
<1>0. None \notin Task
  BY EmitterAssumption, Zenon
<1>1. t \in Task /\ at[t] = "held"
  BY <1>0 DEF TypeOK, OnePlace, Release, Worker
<1>2. \A v \in Worker : v # w => work[v].task # t
  BY <1>1, Zenon DEF OnePlace, Release, Busy
<1>3. \A v \in Worker : work'[v] = IF v = w THEN [pc |-> p, task |-> None] ELSE work[v]
  BY Zenon DEF TypeOK, Release
<1>4. PICK x \in Places \ {"held", "new"} : at' = [at EXCEPT ![t] = x]
  BY Zenon DEF Release
<1>5. \A u \in Task : at'[u] = IF u = t THEN x ELSE at[u]
  BY <1>4, Zenon DEF TypeOK
<1>6. \A v \in Worker : Busy(v)' <=> work'[v].task # None
  BY <1>3 DEF OnePlace, Busy, Release, Pcs
<1>7. ASSUME NEW u \in Task
      PROVE  (at'[u] = "held") <=> \E v \in Worker : work'[v].task = u
  <2>1. CASE u = t
    BY <1>0, <1>1, <1>2, <1>3, <1>5, <2>1
  <2>2. CASE u # t
    <3>1. at'[u] = at[u]
      BY <1>5, <2>2, Zenon
    <3>2. \A v \in Worker : work'[v].task = u <=> work[v].task = u
      BY <1>0, <1>3, <2>2
    <3> QED  BY <3>1, <3>2, Zenon DEF OnePlace
  <2> QED  BY <2>1, <2>2, Zenon
<1>8. ASSUME NEW u \in Worker, NEW v \in Worker,
             work'[u].task = work'[v].task, Busy(u)'
      PROVE  u = v
  <2>1. u # w
    BY <1>3, <1>8 DEF Busy, Release
  <2>2. Busy(u) /\ work'[u] = work[u]
    BY <1>3, <1>8, <2>1, Zenon DEF Busy
  <2>3. work[u].task # None
    BY <2>2, Zenon DEF OnePlace
  <2>4. v # w
    BY <1>3, <1>8, <2>2, <2>3
  <2> QED  BY <1>3, <1>8, <2>2, <2>4, Zenon DEF OnePlace
<1> QED  BY <1>6, <1>7, <1>8, Zenon DEF OnePlace

\* A task taken from a queue was nobody's before.
LEMMA TakePlace ==
  ASSUME TypeOK, OnePlace, NEW w \in Worker, NEW t \in Task, Acquire(w, t)
  PROVE  OnePlace'
<1>0. None \notin Task /\ t # None
  BY EmitterAssumption, Zenon
<1>1. \A v \in Worker : work[v].task # t
  BY Zenon DEF OnePlace, Acquire
<1>2. work[w].task = None
  BY Zenon DEF OnePlace, Acquire
<1>3. CASE hangup[t]
  <2>1. \A v \in Worker : work'[v].task = work[v].task /\ (Busy(v)' <=> Busy(v))
    BY <1>2, <1>3, Zenon DEF TypeOK, Acquire, Take, Busy
  <2>2. \A u \in Task : (at'[u] = "held") <=> (at[u] = "held")
    BY <1>3, Zenon DEF TypeOK, Acquire, Take
  <2> QED  BY <2>1, <2>2 DEF OnePlace
<1>4. CASE ~hangup[t]
  <2>1. \A v \in Worker : work'[v] = IF v = w THEN [pc |-> "busy", task |-> t] ELSE work[v]
    BY <1>4, Zenon DEF TypeOK, Acquire, Take
  <2>2. \A u \in Task : at'[u] = IF u = t THEN "held" ELSE at[u]
    BY <1>4, Zenon DEF TypeOK, Acquire, Take
  <2>3. \A v \in Worker : Busy(v)' <=> work'[v].task # None
    BY <1>0, <2>1 DEF OnePlace, Busy
  <2>4. ASSUME NEW u \in Task
        PROVE  (at'[u] = "held") <=> \E v \in Worker : work'[v].task = u
    <3>1. CASE u = t
      BY <2>1, <2>2, <3>1
    <3>2. CASE u # t
      <4>1. \A v \in Worker : work'[v].task = u <=> work[v].task = u
        BY <1>0, <1>2, <2>1, <3>2
      <4> QED  BY <2>2, <3>2, <4>1, Zenon DEF OnePlace
    <3> QED  BY <3>1, <3>2, Zenon
  <2>5. ASSUME NEW u \in Worker, NEW v \in Worker,
               work'[u].task = work'[v].task, Busy(u)'
        PROVE  u = v
    <3>1. CASE u = w
      BY <1>1, <2>1, <2>5, <3>1
    <3>2. CASE u # w
      <4>1. work'[u] = work[u] /\ Busy(u)
        BY <2>1, <2>5, <3>2, Zenon DEF Busy
      <4>2. v # w
        BY <1>1, <2>1, <2>5, <4>1
      <4> QED  BY <2>1, <2>5, <4>1, <4>2, Zenon DEF OnePlace
    <3> QED  BY <3>1, <3>2, Zenon
  <2> QED  BY <2>3, <2>4, <2>5, Zenon DEF OnePlace
<1> QED  BY <1>3, <1>4, Zenon

\* The other shapes leave held tasks and busy workers alone.
LEMMA OtherPlace ==
  ASSUME TypeOK, OnePlace,
         \/ \E w \in Worker : MoveOn(w)
         \/ \E t \in Task : Enter(t)
         \/ Stay
  PROVE  OnePlace'
<1> DEFINE Same ==
             /\ \A v \in Worker : work'[v].task = work[v].task /\ (Busy(v)' <=> Busy(v))
             /\ \A u \in Task : (at'[u] = "held") <=> (at[u] = "held")
<1>1. Same
  <2>1. ASSUME NEW w \in Worker, MoveOn(w)
        PROVE  Same
    BY <2>1 DEF TypeOK, MoveOn, Busy, taskVars
  <2>2. ASSUME NEW t \in Task, Enter(t)
        PROVE  Same
    BY <2>2, Zenon DEF TypeOK, Enter, Busy
  <2>3. CASE Stay
    BY <2>3, Zenon DEF Stay, Busy
  <2> QED  BY <2>1, <2>2, <2>3, Zenon
<1> QED  BY <1>1 DEF OnePlace
-----------------------------------------------------------------------------
\* The task of a busy worker is a task.
LEMMA BusyTask ==
  ASSUME TypeOK, OnePlace, NEW w \in Worker, Busy(w)
  PROVE  work[w].task \in Task /\ at[work[w].task] = "held"
  BY EmitterAssumption, Zenon DEF TypeOK, OnePlace

\* A worker of a pool is a worker, and a local one is in no other pool.
LEMMA Workers ==
  /\ CacheWorker \subseteq Worker
  /\ LocalWorker \subseteq Worker
  /\ RemoteWorker \subseteq Worker
  /\ \A w \in CacheWorker \union RemoteWorker : w \notin LocalWorker
  BY EmitterAssumption, Zenon DEF Worker

\* The places a push can lead to.
LEMMA PushPlace ==
  ASSUME NEW t \in Task, NEW q \in {"cache", "all", "failed"}, Push(t, q)
  PROVE  \E x \in {q, "dropped"} : at' = [at EXCEPT ![t] = x]
  BY Zenon DEF Push

\* Every step of Next has one of the shapes.
LEMMA Shapes ==
  ASSUME TypeOK, OnePlace, Next
  PROVE  \/ \E w \in Worker : \E p \in Pcs : Release(w, p)
         \/ \E w \in Worker : \E t \in Task : Acquire(w, t)
         \/ \E w \in Worker : MoveOn(w)
         \/ \E t \in Task : Enter(t)
         \/ Stay
<1> DEFINE Shape == \/ \E w \in Worker : \E p \in Pcs : Release(w, p)
                    \/ \E w \in Worker : \E t \in Task : Acquire(w, t)
                    \/ \E w \in Worker : MoveOn(w)
                    \/ \E t \in Task : Enter(t)
                    \/ Stay
<1> USE DEF Pcs, Places
<1>1. ASSUME NEW w \in CacheWorker, CachePop(w)
      PROVE  Shape
  <2>1. w \in Worker /\ ~Busy(w)
    BY <1>1, Workers, Zenon DEF CachePop, Busy
  <2>2. PICK t \in Task : at[t] = "cache" /\ Take(w, t)
    BY <1>1, Zenon DEF CachePop, In
  <2> QED  BY <2>1, <2>2, Zenon DEF Acquire
<1>2. ASSUME NEW w \in CacheWorker, CacheNone(w)
      PROVE  Shape
  <2>1. w \in Worker /\ MoveOn(w)
    BY <1>2, Workers, Zenon DEF CacheNone, MoveOn, Busy, Leave
  <2> QED  BY <2>1, Zenon
<1>3. ASSUME NEW w \in CacheWorker, CacheAnswer(w)
      PROVE  Shape
  <2>1. w \in Worker /\ Release(w, "ready")
    BY <1>3, Workers, BusyTask, Zenon DEF CacheAnswer, ReportStatus, Finish, Release
  <2> QED  BY <2>1, Zenon
<1>4. ASSUME NEW w \in CacheWorker, CacheFail(w)
      PROVE  Shape
  <2>1. w \in Worker /\ work[w].task \in Task
    BY <1>4, Workers, BusyTask, Zenon DEF CacheFail
  <2>2. \E x \in {"failed", "dropped"} : at' = [at EXCEPT ![work[w].task] = x]
    BY <1>4, <2>1, PushPlace, Zenon DEF CacheFail
  <2>3. Release(w, "ready")
    BY <1>4, <2>2, Workers, Zenon DEF CacheFail, Finish, Release
  <2> QED  BY <2>1, <2>3, Zenon
<1>5. ASSUME NEW w \in CacheWorker, CacheMiss(w)
      PROVE  Shape
  <2>1. w \in Worker /\ work[w].task \in Task
    BY <1>5, Workers, BusyTask, Zenon DEF CacheMiss
  <2>2. \E x \in {"all", "dropped"} : at' = [at EXCEPT ![work[w].task] = x]
    BY <1>5, <2>1, PushPlace, Zenon DEF CacheMiss
  <2>3. Release(w, "ready")
    BY <1>5, <2>2, Workers, Zenon DEF CacheMiss, Finish, Release
  <2> QED  BY <2>1, <2>3, Zenon
<1>6. ASSUME NEW w \in LocalWorker, LocalPop(w)
      PROVE  Shape
  <2>1. w \in Worker /\ ~Busy(w)
    BY <1>6, Workers, Zenon DEF LocalPop, Busy
  <2>2. PICK t \in Task : at[t] \in {"cache", "all", "failed"} /\ Take(w, t)
    BY <1>6, Zenon DEF LocalPop, In, LocalQueues
  <2> QED  BY <2>1, <2>2, Zenon DEF Acquire
<1>7. ASSUME NEW w \in LocalWorker, LocalNone(w)
      PROVE  Shape
  <2>1. w \in Worker /\ MoveOn(w)
    BY <1>7, Workers, Zenon DEF LocalNone, MoveOn, Busy, Leave
  <2> QED  BY <2>1, Zenon
<1>8. ASSUME NEW w \in LocalWorker, LocalAnswer(w)
      PROVE  Shape
  <2>1. w \in Worker /\ Release(w, "ready")
    BY <1>8, Workers, BusyTask, Zenon DEF LocalAnswer, ReportStatus, Finish, Release
  <2> QED  BY <2>1, Zenon
<1>9. ASSUME NEW w \in RemoteWorker, Resolve(w)
      PROVE  Shape
  <2>1. CASE UNCHANGED work
    BY <1>9, <2>1, Zenon DEF Resolve, Stay, taskVars
  <2>2. CASE work' = [work EXCEPT ![w].pc = "ready"]
    <3>1. w \in Worker /\ MoveOn(w)
      BY <1>9, <2>2, Workers, Zenon DEF Resolve, MoveOn, Busy
    <3> QED  BY <3>1, Zenon
  <2> QED  BY <1>9, <2>1, <2>2, Zenon DEF Resolve
<1>10. ASSUME NEW w \in RemoteWorker, RemotePop(w)
      PROVE  Shape
  <2>1. w \in Worker /\ ~Busy(w)
    BY <1>10, Workers, Zenon DEF RemotePop, Busy
  <2>2. PICK t \in Task : at[t] = "all" /\ Take(w, t)
    BY <1>10, Zenon DEF RemotePop, In, Available, InShard
  <2> QED  BY <2>1, <2>2, Zenon DEF Acquire
<1>11. ASSUME NEW w \in RemoteWorker, RemoteWait(w)
      PROVE  Shape
  <2>1. w \in Worker /\ MoveOn(w)
    BY <1>11, Workers, Zenon DEF RemoteWait, MoveOn, Busy
  <2> QED  BY <2>1, Zenon
<1>12. ASSUME NEW w \in RemoteWorker, RemoteNone(w)
      PROVE  Shape
  <2>1. w \in Worker /\ MoveOn(w)
    BY <1>12, Workers, Zenon DEF RemoteNone, MoveOn, Busy, Leave
  <2> QED  BY <2>1, Zenon
<1>13. ASSUME NEW w \in RemoteWorker, RemoteAnswer(w)
      PROVE  Shape
  <2>1. w \in Worker /\ Release(w, "ready")
    BY <1>13, Workers, BusyTask, Zenon DEF RemoteAnswer, ReportStatus, Finish, Release
  <2> QED  BY <2>1, Zenon
<1>14. ASSUME NEW w \in RemoteWorker, ConnectFailed(w)
      PROVE  Shape
  <2>1. w \in Worker /\ work[w].task \in Task
    BY <1>14, Workers, BusyTask, Zenon DEF ConnectFailed
  <2>2. \E x \in {"all", "failed", "dropped"} : at' = [at EXCEPT ![work[w].task] = x]
    <3>1. Push(work[w].task, "all") \/ Push(work[w].task, "failed")
      BY <1>14, Zenon DEF ConnectFailed
    <3> QED  BY <2>1, <3>1, PushPlace, Zenon
  <2>3. Release(w, "sleep")
    BY <1>14, <2>2, Workers, Zenon DEF ConnectFailed, Finish, Release
  <2> QED  BY <2>1, <2>3, Zenon
<1>15. ASSUME NEW w \in RemoteWorker, Sleep(w)
      PROVE  Shape
  <2>1. w \in Worker /\ MoveOn(w)
    BY <1>15, Workers, Zenon DEF Sleep, MoveOn, Busy
  <2> QED  BY <2>1, Zenon
<1>16. ASSUME NEW w \in RemoteWorker, SendFailed(w)
      PROVE  Shape
  <2>1. w \in Worker /\ work[w].task \in Task
    BY <1>16, Workers, BusyTask, Zenon DEF SendFailed
  <2>2. \E x \in {"all", "dropped"} : at' = [at EXCEPT ![work[w].task] = x]
    BY <1>16, <2>1, PushPlace, Zenon DEF SendFailed
  <2>3. Release(w, "ready")
    BY <1>16, <2>2, Workers, Zenon DEF SendFailed, Finish, Release
  <2> QED  BY <2>1, <2>3, Zenon
<1>17. ASSUME NEW w \in RemoteWorker, RemoteFailed(w)
      PROVE  Shape
  <2>1. w \in Worker /\ work[w].task \in Task
    BY <1>17, Workers, BusyTask, Zenon DEF RemoteFailed
  <2>2. \E x \in {"failed", "dropped"} : at' = [at EXCEPT ![work[w].task] = x]
    BY <1>17, <2>1, PushPlace, Zenon DEF RemoteFailed
  <2>3. Release(w, "ready")
    BY <1>17, <2>2, Workers, Zenon DEF RemoteFailed, Finish, Release
  <2> QED  BY <2>1, <2>3, Zenon
<1>18. ASSUME NEW t \in Task, Submit(t) \/ Refuse(t)
      PROVE  Shape
  <2>1. Enter(t)
    BY <1>18, PushPlace, Zenon DEF Submit, Refuse, Drop, ReportStatus, Enter
  <2> QED  BY <2>1, Zenon
<1>19. ASSUME (\E t \in Task : HangUp(t)) \/ Destroy
      PROVE  Shape
  BY <1>19, Zenon DEF HangUp, Destroy, Stay, taskVars
<1>20. Shape
  <2> HIDE DEF Shape
  <2> QED  BY <1>1, <1>2, <1>3, <1>4, <1>5, <1>6, <1>7, <1>8, <1>9, <1>10, <1>11, <1>12, <1>13, <1>14, <1>15, <1>16, <1>17, <1>18, <1>19, Zenon DEF Next, CacheStep, LocalStep, RemoteStep
<1> QED  BY <1>20, Zenon
-----------------------------------------------------------------------------
(* The inductive invariant *)

\* With shards, whatever is in all_tasks_ was preprocessed.
SourceInv ==
  TotalShards > 0 =>
    /\ \A t \in Task : at[t] = "all" => source[t]
    /\ SourceReady

\* A task hopped only if its CHANGED_SHARD is set.
HopInv == \A t \in Task : hops[t] <= IF hopped[t] THEN 1 ELSE 0

\* A reply and the end of the task are one.
AnswerInv == \A t \in Task : answers[t] = IF at[t] = "done" THEN 1 ELSE 0

IInv == TypeOK /\ OnePlace /\ SourceInv /\ HopInv /\ AnswerInv

\* The types of a task are kept by a push and by the end of a worker's turn.
LEMMA TypeStep ==
  ASSUME TypeOK, OnePlace, Next
  PROVE  TypeOK'
<1> USE DEF TypeOK
<1>0. None \notin Task /\ TotalShards \in Nat /\ MaxFaults \in Nat /\ 0 \in Shard
  BY EmitterAssumption DEF Shard
<1>1. ASSUME NEW w \in CacheWorker, CachePop(w)
      PROVE  TypeOK'
  BY <1>0, <1>1, Workers DEF CachePop, In, Take, taskVars
<1>2. ASSUME NEW w \in CacheWorker, CacheNone(w)
      PROVE  TypeOK'
  BY <1>0, <1>2, Workers, Zenon DEF CacheNone, Leave, taskVars
<1>3. ASSUME NEW w \in CacheWorker, CacheAnswer(w)
      PROVE  TypeOK'
  <2>1. w \in Worker /\ work[w].task \in Task
    BY <1>3, Workers, BusyTask, Zenon DEF CacheAnswer
  <2> QED  BY <1>3, <2>1 DEF CacheAnswer, ReportStatus, Finish, taskVars
<1>4. ASSUME NEW w \in CacheWorker, CacheFail(w)
      PROVE  TypeOK'
  <2>1. w \in Worker /\ work[w].task \in Task
    BY <1>4, Workers, BusyTask, Zenon DEF CacheFail
  <2>2. \E x \in Places : at' = [at EXCEPT ![work[w].task] = x]
    BY <1>4, <2>1, PushPlace, Zenon DEF CacheFail, Places
  <2>3. at' \in [Task -> Places]
    BY <2>1, <2>2, Zenon DEF Places
  <2> QED  BY <1>0, <1>4, <2>1, <2>3, Zenon DEF CacheFail, Finish, taskVars, Places
<1>5. ASSUME NEW w \in CacheWorker, CacheMiss(w)
      PROVE  TypeOK'
  <2>1. w \in Worker /\ work[w].task \in Task
    BY <1>5, Workers, BusyTask, Zenon DEF CacheMiss
  <2>2. \E x \in Places : at' = [at EXCEPT ![work[w].task] = x]
    BY <1>5, <2>1, PushPlace, Zenon DEF CacheMiss, Places
  <2>3. at' \in [Task -> Places]
    BY <2>1, <2>2, Zenon DEF Places
  <2> QED  BY <1>0, <1>5, <2>1, <2>3, ShardInRange, Zenon DEF CacheMiss, Finish, taskVars, Places
<1>6. ASSUME NEW w \in LocalWorker, LocalPop(w)
      PROVE  TypeOK'
  BY <1>0, <1>6, Workers DEF LocalPop, In, LocalQueues, Take, taskVars
<1>7. ASSUME NEW w \in LocalWorker, LocalNone(w)
      PROVE  TypeOK'
  BY <1>0, <1>7, Workers, Zenon DEF LocalNone, Leave, taskVars
<1>8. ASSUME NEW w \in LocalWorker, LocalAnswer(w)
      PROVE  TypeOK'
  <2>1. w \in Worker /\ work[w].task \in Task
    BY <1>8, Workers, BusyTask, Zenon DEF LocalAnswer
  <2> QED  BY <1>8, <2>1 DEF LocalAnswer, ReportStatus, Finish, taskVars
<1>9. ASSUME NEW w \in RemoteWorker, Resolve(w)
      PROVE  TypeOK'
  BY <1>0, <1>9, Workers DEF Resolve, taskVars
<1>10. ASSUME NEW w \in RemoteWorker, RemotePop(w)
      PROVE  TypeOK'
  BY <1>0, <1>10, Workers DEF RemotePop, In, InShard, Available, Take, taskVars
<1>11. ASSUME NEW w \in RemoteWorker, RemoteWait(w)
      PROVE  TypeOK'
  BY <1>0, <1>11, Workers, Zenon DEF RemoteWait, taskVars
<1>12. ASSUME NEW w \in RemoteWorker, RemoteNone(w)
      PROVE  TypeOK'
  BY <1>0, <1>12, Workers, Zenon DEF RemoteNone, Leave, taskVars
<1>13. ASSUME NEW w \in RemoteWorker, RemoteAnswer(w)
      PROVE  TypeOK'
  <2>1. w \in Worker /\ work[w].task \in Task
    BY <1>13, Workers, BusyTask, Zenon DEF RemoteAnswer
  <2> QED  BY <1>13, <2>1 DEF RemoteAnswer, ReportStatus, Finish, taskVars
<1>14. ASSUME NEW w \in RemoteWorker, ConnectFailed(w)
      PROVE  TypeOK'
  <2>1. w \in Worker /\ work[w].task \in Task
    BY <1>14, Workers, BusyTask, Zenon DEF ConnectFailed
  <2>2. Home[w] \in Shard
    BY EmitterAssumption, Zenon
  <2>3. CASE TotalShards > 0 /\ Limit > 0 /\ ~hopped[work[w].task]
    <3>1. TotalShards > 1
      BY <1>0, <2>3, EmitterAssumption
    <3>2. PICK s \in Shard : shard' = [shard EXCEPT ![work[w].task] = s]
      BY <1>14, <2>2, <2>3, <3>1, NewShards DEF ConnectFailed
    <3>3. \E x \in Places : at' = [at EXCEPT ![work[w].task] = x]
      BY <1>14, <2>1, <2>3, PushPlace, Zenon DEF ConnectFailed, Places
    <3>4. at' \in [Task -> Places]
      BY <2>1, <3>3, Zenon DEF Places
    <3>5. shard' \in [Task -> Shard]
      BY <2>1, <3>2, Zenon
    <3>6. hops' \in [Task -> 0 .. 2]
      BY <1>14, <2>1, <2>3 DEF ConnectFailed, CountHop
    <3>7. source' \in [Task -> BOOLEAN] /\ hopped' \in [Task -> BOOLEAN]
      BY <1>14, <2>1, <2>3, Zenon DEF ConnectFailed
    <3>8. work' \in [Worker -> [pc : Pcs, task : Task \union {None}]]
      BY <1>14, <2>1, Zenon DEF ConnectFailed, Finish, Pcs
    <3> QED
      BY <1>14, <3>4, <3>5, <3>6, <3>7, <3>8, Zenon DEF ConnectFailed, Finish, Places, Pcs
  <2>4. CASE ~(TotalShards > 0 /\ Limit > 0 /\ ~hopped[work[w].task])
    <3>1. \E x \in Places : at' = [at EXCEPT ![work[w].task] = x]
      BY <1>14, <2>1, <2>4, PushPlace, Zenon DEF ConnectFailed, Places
    <3>2. at' \in [Task -> Places]
      BY <2>1, <3>1, Zenon DEF Places
    <3> QED  BY <1>14, <2>1, <2>4, <3>2, Zenon DEF ConnectFailed, Finish, Places
  <2> QED  BY <2>3, <2>4, Zenon
<1>15. ASSUME NEW w \in RemoteWorker, Sleep(w)
      PROVE  TypeOK'
  BY <1>0, <1>15, Workers, Zenon DEF Sleep, taskVars
<1>16. ASSUME NEW w \in RemoteWorker, SendFailed(w)
      PROVE  TypeOK'
  <2>1. w \in Worker /\ work[w].task \in Task
    BY <1>16, Workers, BusyTask, Zenon DEF SendFailed
  <2>2. \E x \in Places : at' = [at EXCEPT ![work[w].task] = x]
    BY <1>16, <2>1, PushPlace, Zenon DEF SendFailed, Places
  <2>3. at' \in [Task -> Places]
    BY <2>1, <2>2, Zenon DEF Places
  <2>4. shard' \in [Task -> Shard]
    BY <1>16, <2>1, EmitterAssumption, Zenon DEF SendFailed
  <2>5. faults' \in 0 .. MaxFaults
    BY <1>0, <1>16 DEF SendFailed
  <2> QED  BY <1>16, <2>1, <2>3, <2>4, <2>5, Zenon DEF SendFailed, Finish, taskVars, Places
<1>17. ASSUME NEW w \in RemoteWorker, RemoteFailed(w)
      PROVE  TypeOK'
  <2>1. w \in Worker /\ work[w].task \in Task
    BY <1>17, Workers, BusyTask, Zenon DEF RemoteFailed
  <2>2. \E x \in Places : at' = [at EXCEPT ![work[w].task] = x]
    BY <1>17, <2>1, PushPlace, Zenon DEF RemoteFailed, Places
  <2>3. at' \in [Task -> Places]
    BY <2>1, <2>2, Zenon DEF Places
  <2>4. source' \in [Task -> BOOLEAN]
    BY <1>17, <2>1, Zenon DEF RemoteFailed
  <2> QED  BY <1>0, <1>17, <2>1, <2>3, <2>4, Zenon DEF RemoteFailed, Finish, taskVars, Places
<1>18. ASSUME NEW t \in Task, Submit(t)
      PROVE  TypeOK'
  <2>1. \E x \in Places : at' = [at EXCEPT ![t] = x]
    BY <1>18, PushPlace, Zenon DEF Submit, Places
  <2>2. at' \in [Task -> Places]
    BY <2>1, Zenon DEF Places
  <2> QED  BY <1>18, <2>2, Zenon DEF Submit, Places
<1>19. ASSUME NEW t \in Task, Refuse(t)
      PROVE  TypeOK'
  <2>1. CASE Drop(t)
    BY <1>19, <2>1, Zenon DEF Refuse, Drop
  <2>2. CASE ReportStatus(t)
    BY <1>19, <2>2 DEF Refuse, ReportStatus
  <2> QED  BY <1>19, <2>1, <2>2, Zenon DEF Refuse
<1>20. ASSUME NEW t \in Task, HangUp(t)
      PROVE  TypeOK'
  BY <1>20, Zenon DEF HangUp, taskVars
<1>21. ASSUME Destroy
      PROVE  TypeOK'
  BY <1>21, Zenon DEF Destroy, taskVars
<1> QED
  BY <1>1, <1>2, <1>3, <1>4, <1>5, <1>6, <1>7, <1>8, <1>9, <1>10, <1>11, <1>12, <1>13, <1>14, <1>15, <1>16, <1>17, <1>18, <1>19, <1>20, <1>21, Zenon
     DEF Next, CacheStep, LocalStep, RemoteStep

\* Only ConnectFailed() counts a hop, and it sets CHANGED_SHARD with it.
LEMMA HopStep ==
  ASSUME TypeOK, OnePlace, HopInv, Next
  PROVE  HopInv'
<1>1. ASSUME NEW w \in RemoteWorker, ConnectFailed(w)
      PROVE  HopInv'
  <2>1. work[w].task \in Task
    BY <1>1, Workers, BusyTask, Zenon DEF ConnectFailed
  <2>2. CASE TotalShards > 0 /\ Limit > 0 /\ ~hopped[work[w].task]
    <3>1. hops[work[w].task] = 0
      BY <2>1, <2>2 DEF HopInv, TypeOK
    <3>2. /\ hops' = [hops EXCEPT ![work[w].task] = 1]
          /\ hopped' = [hopped EXCEPT ![work[w].task] = TRUE]
      BY <1>1, <2>1, <2>2, <3>1 DEF ConnectFailed, CountHop, TypeOK
    <3> QED  BY <2>1, <3>2 DEF HopInv, TypeOK
  <2>3. CASE ~(TotalShards > 0 /\ Limit > 0 /\ ~hopped[work[w].task])
    BY <1>1, <2>3, Zenon DEF ConnectFailed, HopInv
  <2> QED  BY <2>2, <2>3, Zenon
<1>2. CASE UNCHANGED <<hops, hopped>>
  BY <1>2, Zenon DEF HopInv
<1>3. UNCHANGED <<hops, hopped>> \/ \E w \in RemoteWorker : ConnectFailed(w)
  BY Zenon DEF Next, CacheStep, LocalStep, RemoteStep, Submit, Refuse, HangUp, Drop, ReportStatus,
         CachePop, CacheNone, CacheAnswer, CacheFail, CacheMiss, LocalPop, LocalNone,
         LocalAnswer, Resolve, RemotePop, RemoteWait, RemoteNone, RemoteAnswer,
         Sleep, SendFailed, RemoteFailed, Destroy, Take, Leave, taskVars
<1> QED  BY <1>1, <1>2, <1>3, Zenon

\* What a step does to the client's side of a task.
Replied(t) == at[t] \in {"new", "held"} /\ ReportStatus(t)

Moved(t) ==
  /\ at[t] \notin {"done", "dropped"}
  /\ \E x \in Places \ {"done", "new"} : at' = [at EXCEPT ![t] = x]
  /\ UNCHANGED answers

\* A step replies to one task, moves one task, or does neither.
LEMMA Effects ==
  ASSUME TypeOK, OnePlace, Next
  PROVE  \/ \E t \in Task : Replied(t)
         \/ \E t \in Task : Moved(t)
         \/ UNCHANGED <<at, answers>>
<1> DEFINE Effect == \/ \E t \in Task : Replied(t)
                     \/ \E t \in Task : Moved(t)
                     \/ UNCHANGED <<at, answers>>
<1> USE DEF Places
<1>1. ASSUME NEW w \in CacheWorker, CachePop(w)
      PROVE  Effect
  <2>1. PICK t \in Task : at[t] \in {"cache", "all", "failed"} /\ Take(w, t)
    BY <1>1, Zenon DEF CachePop, In
  <2>2. Moved(t)
    BY <2>1, Zenon DEF Take, Moved
  <2> QED  BY <2>2, Zenon
<1>2. ASSUME NEW w \in CacheWorker, CacheAnswer(w)
      PROVE  Effect
  <2>1. work[w].task \in Task /\ Replied(work[w].task)
    BY <1>2, Workers, BusyTask, Zenon DEF CacheAnswer, Replied
  <2> QED  BY <2>1, Zenon
<1>3. ASSUME NEW w \in CacheWorker, CacheFail(w)
      PROVE  Effect
  <2>1. work[w].task \in Task /\ at[work[w].task] = "held"
    BY <1>3, Workers, BusyTask, Zenon DEF CacheFail
  <2>2. Push(work[w].task, "all") \/ Push(work[w].task, "failed")
    BY <1>3, Zenon DEF CacheFail
  <2>3. \E x \in {"all", "failed", "dropped"} : at' = [at EXCEPT ![work[w].task] = x]
    BY <2>1, <2>2, PushPlace, Zenon
  <2>4. Moved(work[w].task)
    BY <1>3, <2>1, <2>3, Zenon DEF CacheFail, Moved
  <2> QED  BY <2>1, <2>4, Zenon
<1>4. ASSUME NEW w \in CacheWorker, CacheMiss(w)
      PROVE  Effect
  <2>1. work[w].task \in Task /\ at[work[w].task] = "held"
    BY <1>4, Workers, BusyTask, Zenon DEF CacheMiss
  <2>2. Push(work[w].task, "all") \/ Push(work[w].task, "failed")
    BY <1>4, Zenon DEF CacheMiss
  <2>3. \E x \in {"all", "failed", "dropped"} : at' = [at EXCEPT ![work[w].task] = x]
    BY <2>1, <2>2, PushPlace, Zenon
  <2>4. Moved(work[w].task)
    BY <1>4, <2>1, <2>3, Zenon DEF CacheMiss, Moved
  <2> QED  BY <2>1, <2>4, Zenon
<1>5. ASSUME NEW w \in LocalWorker, LocalPop(w)
      PROVE  Effect
  <2>1. PICK t \in Task : at[t] \in {"cache", "all", "failed"} /\ Take(w, t)
    BY <1>5, Zenon DEF LocalPop, In, LocalQueues
  <2>2. Moved(t)
    BY <2>1, Zenon DEF Take, Moved
  <2> QED  BY <2>2, Zenon
<1>6. ASSUME NEW w \in LocalWorker, LocalAnswer(w)
      PROVE  Effect
  <2>1. work[w].task \in Task /\ Replied(work[w].task)
    BY <1>6, Workers, BusyTask, Zenon DEF LocalAnswer, Replied
  <2> QED  BY <2>1, Zenon
<1>7. ASSUME NEW w \in RemoteWorker, RemotePop(w)
      PROVE  Effect
  <2>1. PICK t \in Task : at[t] \in {"cache", "all", "failed"} /\ Take(w, t)
    BY <1>7, Zenon DEF RemotePop, In, InShard, Available
  <2>2. Moved(t)
    BY <2>1, Zenon DEF Take, Moved
  <2> QED  BY <2>2, Zenon
<1>8. ASSUME NEW w \in RemoteWorker, RemoteAnswer(w)
      PROVE  Effect
  <2>1. work[w].task \in Task /\ Replied(work[w].task)
    BY <1>8, Workers, BusyTask, Zenon DEF RemoteAnswer, Replied
  <2> QED  BY <2>1, Zenon
<1>9. ASSUME NEW w \in RemoteWorker, ConnectFailed(w)
      PROVE  Effect
  <2>1. work[w].task \in Task /\ at[work[w].task] = "held"
    BY <1>9, Workers, BusyTask, Zenon DEF ConnectFailed
  <2>2. Push(work[w].task, "all") \/ Push(work[w].task, "failed")
    BY <1>9, Zenon DEF ConnectFailed
  <2>3. \E x \in {"all", "failed", "dropped"} : at' = [at EXCEPT ![work[w].task] = x]
    BY <2>1, <2>2, PushPlace, Zenon
  <2>4. Moved(work[w].task)
    BY <1>9, <2>1, <2>3, Zenon DEF ConnectFailed, Moved
  <2> QED  BY <2>1, <2>4, Zenon
<1>10. ASSUME NEW w \in RemoteWorker, SendFailed(w)
      PROVE  Effect
  <2>1. work[w].task \in Task /\ at[work[w].task] = "held"
    BY <1>10, Workers, BusyTask, Zenon DEF SendFailed
  <2>2. Push(work[w].task, "all") \/ Push(work[w].task, "failed")
    BY <1>10, Zenon DEF SendFailed
  <2>3. \E x \in {"all", "failed", "dropped"} : at' = [at EXCEPT ![work[w].task] = x]
    BY <2>1, <2>2, PushPlace, Zenon
  <2>4. Moved(work[w].task)
    BY <1>10, <2>1, <2>3, Zenon DEF SendFailed, Moved
  <2> QED  BY <2>1, <2>4, Zenon
<1>11. ASSUME NEW w \in RemoteWorker, RemoteFailed(w)
      PROVE  Effect
  <2>1. work[w].task \in Task /\ at[work[w].task] = "held"
    BY <1>11, Workers, BusyTask, Zenon DEF RemoteFailed
  <2>2. Push(work[w].task, "all") \/ Push(work[w].task, "failed")
    BY <1>11, Zenon DEF RemoteFailed
  <2>3. \E x \in {"all", "failed", "dropped"} : at' = [at EXCEPT ![work[w].task] = x]
    BY <2>1, <2>2, PushPlace, Zenon
  <2>4. Moved(work[w].task)
    BY <1>11, <2>1, <2>3, Zenon DEF RemoteFailed, Moved
  <2> QED  BY <2>1, <2>4, Zenon
<1>12. ASSUME NEW t \in Task, Submit(t)
      PROVE  Effect
  <2>1. Push(t, "cache") \/ Push(t, "all")
    BY <1>12, Zenon DEF Submit
  <2>2. \E x \in {"cache", "all", "dropped"} : at' = [at EXCEPT ![t] = x]
    BY <2>1, PushPlace, Zenon
  <2>3. Moved(t)
    BY <1>12, <2>2, Zenon DEF Submit, Moved
  <2> QED  BY <2>3, Zenon
<1>13. ASSUME NEW t \in Task, Refuse(t)
      PROVE  Effect
  <2>1. Moved(t) \/ Replied(t)
    BY <1>13, Zenon DEF Refuse, Drop, Moved, Replied
  <2> QED  BY <2>1, Zenon
<1>14. ASSUME NEW w \in Worker,
             \/ CacheNone(w) \/ LocalNone(w) \/ RemoteNone(w)
             \/ Resolve(w) \/ RemoteWait(w) \/ Sleep(w)
      PROVE  Effect
  BY <1>14, Zenon DEF CacheNone, LocalNone, RemoteNone, Resolve, RemoteWait, Sleep, Leave, taskVars
<1>15. ASSUME (\E t \in Task : HangUp(t)) \/ Destroy
      PROVE  Effect
  BY <1>15, Zenon DEF HangUp, Destroy, taskVars
<1>16. Effect
  <2> HIDE DEF Effect
  <2> QED
    BY Workers, <1>1, <1>2, <1>3, <1>4, <1>5, <1>6, <1>7, <1>8, <1>9, <1>10, <1>11, <1>12, <1>13, <1>14, <1>15, Zenon
       DEF Next, CacheStep, LocalStep, RemoteStep
<1> QED  BY <1>16, Zenon

\* A reply ends a task, and nothing else does.
LEMMA AnswerStep ==
  ASSUME TypeOK, OnePlace, AnswerInv, Next
  PROVE  AnswerInv'
<1>1. ASSUME NEW t \in Task, Replied(t)
      PROVE  AnswerInv'
  <2>1. answers[t] = 0
    BY <1>1, Zenon DEF Replied, AnswerInv
  <2> QED  BY <1>1, <2>1 DEF Replied, ReportStatus, AnswerInv, TypeOK
<1>2. ASSUME NEW t \in Task, Moved(t)
      PROVE  AnswerInv'
  BY <1>2, Zenon DEF Moved, AnswerInv, TypeOK, Places
<1>3. CASE UNCHANGED <<at, answers>>
  BY <1>3, Zenon DEF AnswerInv
<1> QED  BY <1>1, <1>2, <1>3, Effects, Zenon

\* A released task is ready if it went to all_tasks_, and no other task changed.
LEMMA ReleaseSource ==
  ASSUME TypeOK, OnePlace, SourceInv, TotalShards > 0,
         NEW w \in Worker, NEW p \in Pcs, Release(w, p), NEW b \in BOOLEAN,
         source' = [source EXCEPT ![work[w].task] = b],
         at'[work[w].task] = "all" => b
  PROVE  SourceInv'
<1> DEFINE t == work[w].task
<1>1. t \in Task
  BY BusyTask, Zenon DEF Release
<1>2. \A u \in Task : u # t => at'[u] = at[u] /\ source'[u] = source[u]
  BY <1>1, Zenon DEF Release, TypeOK
<1>3. \A u \in Task : at'[u] = "all" => source'[u]
  <2>1. source'[t] = b
    BY <1>1, Zenon DEF TypeOK
  <2> QED  BY <1>2, <2>1, Zenon DEF SourceInv
<1>4. ASSUME NEW v \in RemoteWorker, Busy(v)'
      PROVE  source'[work'[v].task]
  <2>1. v \in Worker /\ v # w
    BY <1>4, Workers, Zenon DEF Release, Busy, TypeOK
  <2>2. work'[v] = work[v] /\ Busy(v)
    BY <1>4, <2>1, Zenon DEF Release, Busy, TypeOK
  <2>3. work[v].task \in Task /\ work[v].task # t
    BY <2>1, <2>2, BusyTask, Zenon DEF OnePlace
  <2> QED  BY <1>2, <1>4, <2>2, <2>3, Zenon DEF SourceInv, SourceReady
<1> QED  BY <1>3, <1>4, Zenon DEF SourceInv, SourceReady

\* The other shapes, when they leave the sources alone and put nothing into
\* all_tasks_; a remote worker takes its task from there.
LEMMA OtherSource ==
  ASSUME TypeOK, OnePlace, SourceInv, TotalShards > 0, UNCHANGED source,
         \A u \in Task : at'[u] = "all" => at[u] = "all",
         \A v \in RemoteWorker : Busy(v)' => \/ Busy(v) /\ work'[v].task = work[v].task
                                             \/ work'[v].task \in In("all")
  PROVE  SourceInv'
  BY Zenon DEF SourceInv, SourceReady, In

\* Only preprocessed tasks come to all_tasks_ when there are shards.
LEMMA SourceStep ==
  ASSUME TypeOK, OnePlace, SourceInv, Next
  PROVE  SourceInv'
<1> SUFFICES ASSUME TotalShards > 0
             PROVE  SourceInv'
  BY Zenon DEF SourceInv
<1> DEFINE AllKept == \A u \in Task : at'[u] = "all" => at[u] = "all"
           BusyKept == \A v \in RemoteWorker :
                         Busy(v)' => \/ Busy(v) /\ work'[v].task = work[v].task
                                     \/ work'[v].task \in In("all")
<1>0. CacheWorker # {}
  BY EmitterAssumption, Zenon
<1>1. ASSUME NEW w \in CacheWorker, CachePop(w)
      PROVE  SourceInv'
  <2>1. w \in Worker /\ ~Busy(w)
    BY <1>1, Workers, Zenon DEF CachePop, Busy
  <2>2. PICK t \in Task : /\ Take(w, t)
                          /\ at[t] \in {"cache", "all", "failed"}
                          /\ w \in RemoteWorker => at[t] = "all"
    BY <1>1, EmitterAssumption, Zenon DEF CachePop, In
  <2>3. AllKept
    BY <2>2, Zenon DEF Take, TypeOK
  <2>4. BusyKept
    <3> SUFFICES ASSUME NEW v \in RemoteWorker, Busy(v)'
                 PROVE  \/ Busy(v) /\ work'[v].task = work[v].task
                        \/ work'[v].task \in In("all")
      BY Zenon
    <3>1. CASE v = w
      <4>1. work'[w] = [pc |-> "busy", task |-> t]
        BY <2>1, <2>2, <3>1, Zenon DEF Take, TypeOK, Busy
      <4> QED  BY <2>2, <3>1, <4>1 DEF In
    <3>2. CASE v # w
      <4>1. work'[v] = work[v]
        BY <2>2, <3>2, Workers, Zenon DEF Take, TypeOK
      <4> QED  BY <4>1, Zenon DEF Busy
    <3> QED  BY <3>1, <3>2, Zenon
  <2>5. UNCHANGED source
    BY <2>2, Zenon DEF Take
  <2> QED  BY <2>3, <2>4, <2>5, OtherSource, Zenon
<1>2. ASSUME NEW w \in CacheWorker, CacheAnswer(w)
      PROVE  SourceInv'
  <2>1. w \in Worker /\ work[w].task \in Task
    BY <1>2, Workers, BusyTask, Zenon DEF CacheAnswer
  <2>2. Release(w, "ready") /\ at'[work[w].task] = "done"
    BY <1>2, <2>1, Zenon DEF CacheAnswer, ReportStatus, Finish, Release, Pcs, Places, TypeOK
  <2>3. source' = [source EXCEPT ![work[w].task] = source[work[w].task]]
    BY <1>2, Zenon DEF CacheAnswer, ReportStatus, TypeOK
  <2>4. source[work[w].task] \in BOOLEAN /\ "ready" \in Pcs
    BY <2>1, Zenon DEF TypeOK, Pcs
  <2> QED  BY <2>1, <2>2, <2>3, <2>4, ReleaseSource, Zenon
<1>3. ASSUME NEW w \in CacheWorker, CacheFail(w)
      PROVE  SourceInv'
  <2>1. w \in Worker /\ work[w].task \in Task
    BY <1>3, Workers, BusyTask, Zenon DEF CacheFail
  <2>2. Push(work[w].task, "failed")
    BY <1>3, Zenon DEF CacheFail
  <2>3. \E x \in {"failed", "dropped"} : at' = [at EXCEPT ![work[w].task] = x]
    BY <2>1, <2>2, PushPlace, Zenon
  <2>4. Release(w, "ready") /\ "ready" \in Pcs
    BY <1>3, <2>3, Workers, Zenon DEF CacheFail, Finish, Release, Pcs, Places
  <2>5. \E b \in BOOLEAN : source' = [source EXCEPT ![work[w].task] = b]
    BY <1>3, <2>1, Zenon DEF CacheFail, TypeOK
  <2>6. at'[work[w].task] # "all"
    BY <2>1, <2>3, Zenon DEF TypeOK
  <2> QED  BY <2>1, <2>4, <2>5, <2>6, ReleaseSource, Zenon
<1>4. ASSUME NEW w \in CacheWorker, CacheMiss(w)
      PROVE  SourceInv'
  <2>1. w \in Worker /\ work[w].task \in Task
    BY <1>4, Workers, BusyTask, Zenon DEF CacheMiss
  <2>2. Push(work[w].task, "all")
    BY <1>4, Zenon DEF CacheMiss
  <2>3. \E x \in {"all", "dropped"} : at' = [at EXCEPT ![work[w].task] = x]
    BY <2>1, <2>2, PushPlace, Zenon
  <2>4. Release(w, "ready") /\ "ready" \in Pcs
    BY <1>4, <2>3, Workers, Zenon DEF CacheMiss, Finish, Release, Pcs, Places
  <2>5. source' = [source EXCEPT ![work[w].task] = TRUE]
    BY <1>4, Zenon DEF CacheMiss
  <2> QED  BY <2>1, <2>4, <2>5, ReleaseSource, Zenon
<1>5. ASSUME NEW w \in LocalWorker, LocalPop(w)
      PROVE  SourceInv'
  <2>1. w \in Worker /\ ~Busy(w)
    BY <1>5, Workers, Zenon DEF LocalPop, Busy
  <2>2. PICK t \in Task : /\ Take(w, t)
                          /\ at[t] \in {"cache", "all", "failed"}
                          /\ w \in RemoteWorker => at[t] = "all"
    BY <1>5, EmitterAssumption, Zenon DEF LocalPop, In, LocalQueues
  <2>3. AllKept
    BY <2>2, Zenon DEF Take, TypeOK
  <2>4. BusyKept
    <3> SUFFICES ASSUME NEW v \in RemoteWorker, Busy(v)'
                 PROVE  \/ Busy(v) /\ work'[v].task = work[v].task
                        \/ work'[v].task \in In("all")
      BY Zenon
    <3>1. CASE v = w
      <4>1. work'[w] = [pc |-> "busy", task |-> t]
        BY <2>1, <2>2, <3>1, Zenon DEF Take, TypeOK, Busy
      <4> QED  BY <2>2, <3>1, <4>1 DEF In
    <3>2. CASE v # w
      <4>1. work'[v] = work[v]
        BY <2>2, <3>2, Workers, Zenon DEF Take, TypeOK
      <4> QED  BY <4>1, Zenon DEF Busy
    <3> QED  BY <3>1, <3>2, Zenon
  <2>5. UNCHANGED source
    BY <2>2, Zenon DEF Take
  <2> QED  BY <2>3, <2>4, <2>5, OtherSource, Zenon
<1>6. ASSUME NEW w \in LocalWorker, LocalAnswer(w)
      PROVE  SourceInv'
  <2>1. w \in Worker /\ work[w].task \in Task
    BY <1>6, Workers, BusyTask, Zenon DEF LocalAnswer
  <2>2. Release(w, "ready") /\ at'[work[w].task] = "done"
    BY <1>6, <2>1, Zenon DEF LocalAnswer, ReportStatus, Finish, Release, Pcs, Places, TypeOK
  <2>3. source' = [source EXCEPT ![work[w].task] = source[work[w].task]]
    BY <1>6, Zenon DEF LocalAnswer, ReportStatus, TypeOK
  <2>4. source[work[w].task] \in BOOLEAN /\ "ready" \in Pcs
    BY <2>1, Zenon DEF TypeOK, Pcs
  <2> QED  BY <2>1, <2>2, <2>3, <2>4, ReleaseSource, Zenon
<1>7. ASSUME NEW w \in RemoteWorker, RemotePop(w)
      PROVE  SourceInv'
  <2>1. w \in Worker /\ ~Busy(w)
    BY <1>7, Workers, Zenon DEF RemotePop, Busy
  <2>2. PICK t \in Task : /\ Take(w, t)
                          /\ at[t] \in {"cache", "all", "failed"}
                          /\ w \in RemoteWorker => at[t] = "all"
    BY <1>7, EmitterAssumption, Zenon DEF RemotePop, In, InShard, Available
  <2>3. AllKept
    BY <2>2, Zenon DEF Take, TypeOK
  <2>4. BusyKept
    <3> SUFFICES ASSUME NEW v \in RemoteWorker, Busy(v)'
                 PROVE  \/ Busy(v) /\ work'[v].task = work[v].task
                        \/ work'[v].task \in In("all")
      BY Zenon
    <3>1. CASE v = w
      <4>1. work'[w] = [pc |-> "busy", task |-> t]
        BY <2>1, <2>2, <3>1, Zenon DEF Take, TypeOK, Busy
      <4> QED  BY <2>2, <3>1, <4>1 DEF In
    <3>2. CASE v # w
      <4>1. work'[v] = work[v]
        BY <2>2, <3>2, Workers, Zenon DEF Take, TypeOK
      <4> QED  BY <4>1, Zenon DEF Busy
    <3> QED  BY <3>1, <3>2, Zenon
  <2>5. UNCHANGED source
    BY <2>2, Zenon DEF Take
  <2> QED  BY <2>3, <2>4, <2>5, OtherSource, Zenon
<1>8. ASSUME NEW w \in RemoteWorker, RemoteAnswer(w)
      PROVE  SourceInv'
  <2>1. w \in Worker /\ work[w].task \in Task
    BY <1>8, Workers, BusyTask, Zenon DEF RemoteAnswer
  <2>2. Release(w, "ready") /\ at'[work[w].task] = "done"
    BY <1>8, <2>1, Zenon DEF RemoteAnswer, ReportStatus, Finish, Release, Pcs, Places, TypeOK
  <2>3. source' = [source EXCEPT ![work[w].task] = source[work[w].task]]
    BY <1>8, Zenon DEF RemoteAnswer, ReportStatus, TypeOK
  <2>4. source[work[w].task] \in BOOLEAN /\ "ready" \in Pcs
    BY <2>1, Zenon DEF TypeOK, Pcs
  <2> QED  BY <2>1, <2>2, <2>3, <2>4, ReleaseSource, Zenon
<1>9. ASSUME NEW w \in RemoteWorker, ConnectFailed(w)
      PROVE  SourceInv'
  <2>1. w \in Worker /\ work[w].task \in Task
    BY <1>9, Workers, BusyTask, Zenon DEF ConnectFailed
  <2>2. Push(work[w].task, "all") \/ Push(work[w].task, "failed")
    BY <1>9, Zenon DEF ConnectFailed
  <2>3. \E x \in {"all", "failed", "dropped"} : at' = [at EXCEPT ![work[w].task] = x]
    BY <2>1, <2>2, PushPlace, Zenon
  <2>4. Release(w, "sleep") /\ "sleep" \in Pcs
    BY <1>9, <2>3, Workers, Zenon DEF ConnectFailed, Finish, Release, Pcs, Places
  <2>5. source' = [source EXCEPT ![work[w].task] = TRUE]
    BY <1>9, Zenon DEF ConnectFailed
  <2> QED  BY <2>1, <2>4, <2>5, ReleaseSource, Zenon
<1>10. ASSUME NEW w \in RemoteWorker, SendFailed(w)
      PROVE  SourceInv'
  <2>1. w \in Worker /\ work[w].task \in Task
    BY <1>10, Workers, BusyTask, Zenon DEF SendFailed
  <2>2. Push(work[w].task, "all")
    BY <1>10, Zenon DEF SendFailed
  <2>3. \E x \in {"all", "dropped"} : at' = [at EXCEPT ![work[w].task] = x]
    BY <2>1, <2>2, PushPlace, Zenon
  <2>4. Release(w, "ready") /\ "ready" \in Pcs
    BY <1>10, <2>3, Workers, Zenon DEF SendFailed, Finish, Release, Pcs, Places
  <2>5. source' = [source EXCEPT ![work[w].task] = TRUE]
    BY <1>10, Zenon DEF SendFailed
  <2> QED  BY <2>1, <2>4, <2>5, ReleaseSource, Zenon
<1>11. ASSUME NEW w \in RemoteWorker, RemoteFailed(w)
      PROVE  SourceInv'
  <2>1. w \in Worker /\ work[w].task \in Task
    BY <1>11, Workers, BusyTask, Zenon DEF RemoteFailed
  <2>2. Push(work[w].task, "failed")
    BY <1>11, Zenon DEF RemoteFailed
  <2>3. \E x \in {"failed", "dropped"} : at' = [at EXCEPT ![work[w].task] = x]
    BY <2>1, <2>2, PushPlace, Zenon
  <2>4. Release(w, "ready") /\ "ready" \in Pcs
    BY <1>11, <2>3, Workers, Zenon DEF RemoteFailed, Finish, Release, Pcs, Places
  <2>5. \E b \in BOOLEAN : source' = [source EXCEPT ![work[w].task] = b]
    BY <1>11, <2>1, Zenon DEF RemoteFailed, TypeOK
  <2>6. at'[work[w].task] # "all"
    BY <2>1, <2>3, Zenon DEF TypeOK
  <2> QED  BY <2>1, <2>4, <2>5, <2>6, ReleaseSource, Zenon
<1>12. ASSUME NEW t \in Task, Submit(t) \/ Refuse(t)
      PROVE  SourceInv'
  <2>1. Push(t, "cache") \/ Drop(t) \/ ReportStatus(t)
    BY <1>0, <1>12, Zenon DEF Submit, Refuse
  <2>2. \E x \in {"cache", "dropped", "done"} : at' = [at EXCEPT ![t] = x]
    BY <2>1, PushPlace, Zenon DEF Drop, ReportStatus
  <2>3. AllKept
    BY <2>2, Zenon DEF TypeOK
  <2>4. UNCHANGED source /\ BusyKept
    BY <1>12, Zenon DEF Submit, Refuse, Drop, ReportStatus, Busy
  <2> QED  BY <2>3, <2>4, OtherSource, Zenon
<1>13. ASSUME NEW w \in Worker,
             \/ CacheNone(w) \/ LocalNone(w) \/ RemoteNone(w)
             \/ Resolve(w) \/ RemoteWait(w) \/ Sleep(w)
      PROVE  SourceInv'
  <2>1. UNCHANGED <<source, at>>
    BY <1>13, Zenon DEF CacheNone, LocalNone, RemoteNone, Resolve, RemoteWait, Sleep, Leave, taskVars
  <2>2. UNCHANGED work \/ \E x \in Pcs \ {"busy"} : work' = [work EXCEPT ![w].pc = x]
    BY <1>13, Zenon DEF CacheNone, LocalNone, RemoteNone, Resolve, RemoteWait, Sleep, Leave, Pcs
  <2>3. BusyKept
    BY <2>2, Workers, Zenon DEF Busy, TypeOK
  <2> QED  BY <2>1, <2>3, OtherSource, Zenon
<1>14. ASSUME (\E t \in Task : HangUp(t)) \/ Destroy
      PROVE  SourceInv'
  BY <1>14, Zenon DEF HangUp, Destroy, taskVars, SourceInv, SourceReady, Busy
<1> QED
  BY Workers, <1>1, <1>2, <1>3, <1>4, <1>5, <1>6, <1>7, <1>8, <1>9, <1>10, <1>11, <1>12, <1>13, <1>14, Zenon
     DEF Next, CacheStep, LocalStep, RemoteStep
-----------------------------------------------------------------------------
(* The end: what workers leave behind *)

LocalClosed == stage \notin {"running", "allClosed", "cacheClosed", "failedClosed"}

\* Whoever left has seen its queue closed and empty, and the stages of the destructor
\* follow those who left.
EndInv ==
  /\ \A w \in CacheWorker : work[w].pc = "gone" => Closed("cache") /\ In("cache") = {}
  /\ \A w \in LocalWorker :
       work[w].pc = "gone" => LocalClosed /\ \A q \in LocalQueues : In(q) = {}
  /\ \A w \in RemoteWorker :
       work[w].pc = "gone" => /\ Closed("all") /\ InShard(Home[w]) = {}
                              /\ Limit = 0 => In("all") = {}
  /\ CacheWorker = {} => In("cache") = {}
  /\ stage \in {"workersJoined", "exited"} => Gone(CacheWorker \union LocalWorker)
  /\ stage = "exited" => Gone(RemoteWorker)

Queues == {"cache", "all", "failed"}

\* What a task does that comes into a queue.
Comes(t) ==
  /\ ~Closed(at'[t])
  /\ at'[t] = "cache" => CacheWorker # {}

\* Only open queues get new tasks, and a task does not change its shard in the queue.
NoGrowth ==
  \A t \in Task : at'[t] \in Queues =>
    \/ at'[t] = at[t] /\ (at[t] = "all" => shard'[t] = shard[t])
    \/ Comes(t)

\* What w found when it left.
FoundNothing(w) ==
  /\ w \in CacheWorker => Closed("cache") /\ In("cache") = {}
  /\ w \in LocalWorker => LocalClosed /\ \A q \in LocalQueues : In(q) = {}
  /\ w \in RemoteWorker => /\ Closed("all") /\ InShard(Home[w]) = {}
                           /\ Limit = 0 => In("all") = {}

\* Nobody comes back, and who leaves found nothing.
Leaves ==
  \A w \in Worker :
    /\ work[w].pc = "gone" => work'[w].pc = "gone"
    /\ work'[w].pc = "gone" => work[w].pc = "gone" \/ FoundNothing(w)

\* A push of a task that is in no queue.
LEMMA PushGrowth ==
  ASSUME TypeOK, NEW t \in Task, NEW q \in Queues, Push(t, q),
         q = "cache" => CacheWorker # {},
         \A u \in Task \ {t} : shard'[u] = shard[u]
  PROVE  NoGrowth
<1>1. \A u \in Task : at'[u] = IF u = t THEN (IF Closed(q) THEN "dropped" ELSE q) ELSE at[u]
  BY Zenon DEF Push, TypeOK
<1>2. ASSUME NEW u \in Task, at'[u] \in Queues
      PROVE  (at'[u] = at[u] /\ (at[u] = "all" => shard'[u] = shard[u])) \/ Comes(u)
  <2>1. CASE u = t
    <3>1. ~Closed(q) /\ at'[u] = q
      BY <1>1, <1>2, <2>1, Zenon DEF Queues
    <3> QED  BY <3>1, Zenon DEF Comes
  <2>2. CASE u # t
    BY <1>1, <2>2, Zenon
  <2> QED  BY <2>1, <2>2, Zenon
<1> QED  BY <1>2, Zenon DEF NoGrowth

\* A step that takes tasks out of queues, or leaves them alone.
LEMMA TakeGrowth ==
  ASSUME TypeOK, UNCHANGED shard,
         \A u \in Task : at'[u] \in Queues => at'[u] = at[u]
  PROVE  NoGrowth
  BY Zenon DEF NoGrowth

\* One worker moves.
Only(w) == \A v \in Worker : v # w => work'[v] = work[v]

\* A worker that goes on was not gone.
LEMMA GoesOn ==
  ASSUME NEW w \in Worker, Only(w), work[w].pc # "gone", work'[w].pc # "gone"
  PROVE  Leaves
  BY Zenon DEF Leaves, Only

\* Nobody moves.
LEMMA NobodyMoves ==
  ASSUME UNCHANGED work
  PROVE  Leaves
  BY Zenon DEF Leaves

\* What every step does to the queues and to the workers.
LEMMA EndShape ==
  ASSUME TypeOK, OnePlace, Next
  PROVE  NoGrowth /\ Leaves /\ (UNCHANGED stage \/ (Destroy /\ UNCHANGED <<at, shard, work>>))
<1> DEFINE Good == NoGrowth /\ Leaves /\ (UNCHANGED stage \/ (Destroy /\ UNCHANGED <<at, shard, work>>))
<1>1. ASSUME NEW w \in CacheWorker, CacheFail(w)
      PROVE  Good
  <2>1. w \in Worker /\ work[w].task \in Task /\ work[w].pc = "busy"
    BY <1>1, Workers, BusyTask, Zenon DEF CacheFail, Busy
  <2>2. \E q \in {"all", "failed"} : Push(work[w].task, q)
    BY <1>1, Zenon DEF CacheFail
  <2>3. \A u \in Task \ {work[w].task} : shard'[u] = shard[u]
    BY <1>1, <2>1, Zenon DEF CacheFail, TypeOK
  <2>4. NoGrowth
    BY <2>1, <2>2, <2>3, PushGrowth, Zenon DEF Queues
  <2>5. UNCHANGED stage /\ Only(w) /\ work'[w].pc = "ready"
    BY <1>1, <2>1, Zenon DEF CacheFail, Finish, Only, TypeOK
  <2>6. Leaves
    BY <2>1, <2>5, GoesOn, Zenon
  <2> QED  BY <2>4, <2>5, <2>6, Zenon
<1>2. ASSUME NEW w \in CacheWorker, CacheMiss(w)
      PROVE  Good
  <2>1. w \in Worker /\ work[w].task \in Task /\ work[w].pc = "busy"
    BY <1>2, Workers, BusyTask, Zenon DEF CacheMiss, Busy
  <2>2. \E q \in {"all", "failed"} : Push(work[w].task, q)
    BY <1>2, Zenon DEF CacheMiss
  <2>3. \A u \in Task \ {work[w].task} : shard'[u] = shard[u]
    BY <1>2, <2>1, Zenon DEF CacheMiss, TypeOK
  <2>4. NoGrowth
    BY <2>1, <2>2, <2>3, PushGrowth, Zenon DEF Queues
  <2>5. UNCHANGED stage /\ Only(w) /\ work'[w].pc = "ready"
    BY <1>2, <2>1, Zenon DEF CacheMiss, Finish, Only, TypeOK
  <2>6. Leaves
    BY <2>1, <2>5, GoesOn, Zenon
  <2> QED  BY <2>4, <2>5, <2>6, Zenon
<1>3. ASSUME NEW w \in RemoteWorker, ConnectFailed(w)
      PROVE  Good
  <2>1. w \in Worker /\ work[w].task \in Task /\ work[w].pc = "busy"
    BY <1>3, Workers, BusyTask, Zenon DEF ConnectFailed, Busy
  <2>2. \E q \in {"all", "failed"} : Push(work[w].task, q)
    BY <1>3, Zenon DEF ConnectFailed
  <2>3. \A u \in Task \ {work[w].task} : shard'[u] = shard[u]
    BY <1>3, <2>1, Zenon DEF ConnectFailed, TypeOK
  <2>4. NoGrowth
    BY <2>1, <2>2, <2>3, PushGrowth, Zenon DEF Queues
  <2>5. UNCHANGED stage /\ Only(w) /\ work'[w].pc = "sleep"
    BY <1>3, <2>1, Zenon DEF ConnectFailed, Finish, Only, TypeOK
  <2>6. Leaves
    BY <2>1, <2>5, GoesOn, Zenon
  <2> QED  BY <2>4, <2>5, <2>6, Zenon
<1>4. ASSUME NEW w \in RemoteWorker, SendFailed(w)
      PROVE  Good
  <2>1. w \in Worker /\ work[w].task \in Task /\ work[w].pc = "busy"
    BY <1>4, Workers, BusyTask, Zenon DEF SendFailed, Busy
  <2>2. \E q \in {"all", "failed"} : Push(work[w].task, q)
    BY <1>4, Zenon DEF SendFailed
  <2>3. \A u \in Task \ {work[w].task} : shard'[u] = shard[u]
    BY <1>4, <2>1, Zenon DEF SendFailed, TypeOK
  <2>4. NoGrowth
    BY <2>1, <2>2, <2>3, PushGrowth, Zenon DEF Queues
  <2>5. UNCHANGED stage /\ Only(w) /\ work'[w].pc = "ready"
    BY <1>4, <2>1, Zenon DEF SendFailed, Finish, Only, TypeOK
  <2>6. Leaves
    BY <2>1, <2>5, GoesOn, Zenon
  <2> QED  BY <2>4, <2>5, <2>6, Zenon
<1>5. ASSUME NEW w \in RemoteWorker, RemoteFailed(w)
      PROVE  Good
  <2>1. w \in Worker /\ work[w].task \in Task /\ work[w].pc = "busy"
    BY <1>5, Workers, BusyTask, Zenon DEF RemoteFailed, Busy
  <2>2. \E q \in {"all", "failed"} : Push(work[w].task, q)
    BY <1>5, Zenon DEF RemoteFailed
  <2>3. \A u \in Task \ {work[w].task} : shard'[u] = shard[u]
    BY <1>5, <2>1, Zenon DEF RemoteFailed, TypeOK
  <2>4. NoGrowth
    BY <2>1, <2>2, <2>3, PushGrowth, Zenon DEF Queues
  <2>5. UNCHANGED stage /\ Only(w) /\ work'[w].pc = "ready"
    BY <1>5, <2>1, Zenon DEF RemoteFailed, Finish, Only, TypeOK
  <2>6. Leaves
    BY <2>1, <2>5, GoesOn, Zenon
  <2> QED  BY <2>4, <2>5, <2>6, Zenon
<1>6. ASSUME NEW w \in CacheWorker, CacheAnswer(w)
      PROVE  Good
  <2>1. w \in Worker /\ work[w].task \in Task /\ work[w].pc = "busy"
    BY <1>6, Workers, BusyTask, Zenon DEF CacheAnswer, Busy
  <2>2. UNCHANGED shard /\ at' = [at EXCEPT ![work[w].task] = "done"]
    BY <1>6, Zenon DEF CacheAnswer, ReportStatus
  <2>3. NoGrowth
    BY <2>1, <2>2, TakeGrowth, Zenon DEF Queues, TypeOK
  <2>4. UNCHANGED stage /\ Only(w) /\ work'[w].pc = "ready"
    BY <1>6, <2>1, Zenon DEF CacheAnswer, Finish, Only, TypeOK
  <2>5. Leaves
    BY <2>1, <2>4, GoesOn, Zenon
  <2> QED  BY <2>3, <2>4, <2>5, Zenon
<1>7. ASSUME NEW w \in LocalWorker, LocalAnswer(w)
      PROVE  Good
  <2>1. w \in Worker /\ work[w].task \in Task /\ work[w].pc = "busy"
    BY <1>7, Workers, BusyTask, Zenon DEF LocalAnswer, Busy
  <2>2. UNCHANGED shard /\ at' = [at EXCEPT ![work[w].task] = "done"]
    BY <1>7, Zenon DEF LocalAnswer, ReportStatus
  <2>3. NoGrowth
    BY <2>1, <2>2, TakeGrowth, Zenon DEF Queues, TypeOK
  <2>4. UNCHANGED stage /\ Only(w) /\ work'[w].pc = "ready"
    BY <1>7, <2>1, Zenon DEF LocalAnswer, Finish, Only, TypeOK
  <2>5. Leaves
    BY <2>1, <2>4, GoesOn, Zenon
  <2> QED  BY <2>3, <2>4, <2>5, Zenon
<1>8. ASSUME NEW w \in RemoteWorker, RemoteAnswer(w)
      PROVE  Good
  <2>1. w \in Worker /\ work[w].task \in Task /\ work[w].pc = "busy"
    BY <1>8, Workers, BusyTask, Zenon DEF RemoteAnswer, Busy
  <2>2. UNCHANGED shard /\ at' = [at EXCEPT ![work[w].task] = "done"]
    BY <1>8, Zenon DEF RemoteAnswer, ReportStatus
  <2>3. NoGrowth
    BY <2>1, <2>2, TakeGrowth, Zenon DEF Queues, TypeOK
  <2>4. UNCHANGED stage /\ Only(w) /\ work'[w].pc = "ready"
    BY <1>8, <2>1, Zenon DEF RemoteAnswer, Finish, Only, TypeOK
  <2>5. Leaves
    BY <2>1, <2>4, GoesOn, Zenon
  <2> QED  BY <2>3, <2>4, <2>5, Zenon
<1>9. ASSUME NEW w \in Worker, work[w].pc \in {"ready", "wait"}, NEW t \in Task, Take(w, t)
      PROVE  Good
  <2>1. UNCHANGED <<shard, stage>>
        /\ at' = [at EXCEPT ![t] = IF hangup[t] THEN "dropped" ELSE "held"]
    BY <1>9, Zenon DEF Take
  <2>2. NoGrowth
    BY <2>1, TakeGrowth, Zenon DEF Queues, TypeOK
  <2>3. Only(w) /\ work'[w].pc \in {"ready", "busy"}
    BY <1>9, Zenon DEF Take, Only, TypeOK
  <2>4. Leaves
    BY <1>9, <2>3, GoesOn, Zenon
  <2> QED  BY <2>1, <2>2, <2>4, Zenon
<1>10. ASSUME NEW w \in Worker,
             \/ w \in CacheWorker /\ CachePop(w)
             \/ w \in LocalWorker /\ LocalPop(w)
             \/ w \in RemoteWorker /\ RemotePop(w)
      PROVE  Good
  <2>1. CASE CachePop(w)
    BY <1>9, <2>1, Zenon DEF CachePop, In
  <2>2. CASE LocalPop(w)
    BY <1>9, <2>2, Zenon DEF LocalPop, In
  <2>3. CASE RemotePop(w)
    BY <1>9, <2>3, Zenon DEF RemotePop, In, InShard, Available
  <2> QED  BY <1>10, <2>1, <2>2, <2>3, Zenon
<1>11. ASSUME NEW w \in Worker,
             \/ w \in CacheWorker /\ CacheNone(w)
             \/ w \in LocalWorker /\ LocalNone(w)
             \/ w \in RemoteWorker /\ RemoteNone(w)
      PROVE  Good
  <2>1. FoundNothing(w)
    BY <1>11, EmitterAssumption, Zenon
       DEF CacheNone, LocalNone, RemoteNone, FoundNothing, LocalClosed, Available
  <2>2. UNCHANGED <<at, shard, stage>> /\ work' = [work EXCEPT ![w].pc = "gone"]
    BY <1>11, Zenon DEF CacheNone, LocalNone, RemoteNone, Leave, taskVars
  <2>3. NoGrowth
    BY <2>2, TakeGrowth, Zenon
  <2>4. Only(w)
    BY <2>2, Zenon DEF TypeOK, Only
  <2>5. work'[w].pc = "gone"
    BY <2>2, Zenon DEF TypeOK
  <2>6. Leaves
    BY <2>1, <2>4, <2>5, Zenon DEF Leaves, Only
  <2> QED  BY <2>2, <2>3, <2>6, Zenon
<1>12. ASSUME NEW w \in RemoteWorker, Resolve(w) \/ RemoteWait(w) \/ Sleep(w)
      PROVE  Good
  <2>1. UNCHANGED <<at, shard, stage>>
    BY <1>12, Zenon DEF Resolve, RemoteWait, Sleep, taskVars
  <2>2. NoGrowth
    BY <2>1, TakeGrowth, Zenon
  <2>3. w \in Worker /\ work[w].pc # "gone"
    BY <1>12, Workers, Zenon DEF Resolve, RemoteWait, Sleep
  <2>4. UNCHANGED work \/ \E p \in {"ready", "wait"} : work' = [work EXCEPT ![w].pc = p]
    BY <1>12, Zenon DEF Resolve, RemoteWait, Sleep
  <2>5. ASSUME NEW p \in {"ready", "wait"}, work' = [work EXCEPT ![w].pc = p]
        PROVE  Leaves
    <3>1. Only(w) /\ work'[w].pc # "gone"
      BY <2>3, <2>5, Zenon DEF TypeOK, Only
    <3> QED  BY <2>3, <3>1, GoesOn, Zenon
  <2> QED  BY <2>1, <2>2, <2>4, <2>5, NobodyMoves, Zenon
<1>13. ASSUME NEW t \in Task, Submit(t)
      PROVE  Good
  <2>1. UNCHANGED <<shard, stage, work>>
        /\ Push(t, IF CacheWorker # {} THEN "cache" ELSE "all")
    BY <1>13, Zenon DEF Submit
  <2>2. NoGrowth
    BY <2>1, PushGrowth, Zenon DEF Queues
  <2> QED  BY <2>1, <2>2, NobodyMoves, Zenon
<1>14. ASSUME NEW t \in Task, Refuse(t)
      PROVE  Good
  <2>1. UNCHANGED <<shard, stage, work>> /\ \E x \in {"done", "dropped"} : at' = [at EXCEPT ![t] = x]
    BY <1>14, Zenon DEF Refuse, Drop, ReportStatus
  <2>2. NoGrowth
    BY <2>1, TakeGrowth, Zenon DEF Queues, TypeOK
  <2> QED  BY <2>1, <2>2, NobodyMoves, Zenon
<1>15. ASSUME (\E t \in Task : HangUp(t)) \/ Destroy
      PROVE  Good
  <2>1. UNCHANGED <<at, shard, work>> /\ (UNCHANGED stage \/ Destroy)
    BY <1>15, Zenon DEF HangUp, Destroy, taskVars
  <2> QED  BY <2>1, TakeGrowth, NobodyMoves, Zenon
<1>16. Good
  <2> HIDE DEF Good
  <2>1. ASSUME NEW w \in CacheWorker, CacheStep(w)
        PROVE  Good
    <3>1. w \in Worker
      BY Workers, Zenon
    <3>2. CachePop(w) => Good
      BY <3>1, <1>10, Zenon
    <3>3. CacheNone(w) => Good
      BY <3>1, <1>11, Zenon
    <3> QED  BY <2>1, <3>2, <3>3, <1>1, <1>2, <1>6, Zenon DEF CacheStep
  <2>2. ASSUME NEW w \in LocalWorker, LocalStep(w)
        PROVE  Good
    <3>1. w \in Worker
      BY Workers, Zenon
    <3>2. LocalPop(w) => Good
      BY <3>1, <1>10, Zenon
    <3>3. LocalNone(w) => Good
      BY <3>1, <1>11, Zenon
    <3> QED  BY <2>2, <3>2, <3>3, <1>7, Zenon DEF LocalStep
  <2>3. CASE \E w \in RemoteWorker : RemoteStep(w)
    BY <2>3, Workers, <1>3, <1>4, <1>5, <1>8, <1>10, <1>11, <1>12, Zenon DEF RemoteStep
  <2> QED  BY <2>1, <2>2, <2>3, <1>13, <1>14, <1>15, Zenon DEF Next
<1> QED  BY <1>16, Zenon

\* A closed queue that is empty stays so.
LEMMA ClosedStays ==
  ASSUME TypeOK, NoGrowth, UNCHANGED stage \/ Destroy
  PROVE  /\ \A q \in Queues : Closed(q) => Closed(q)'
         /\ \A q \in Queues : Closed(q) /\ In(q) = {} => In(q)' = {}
         /\ \A s \in Shard : Closed("all") /\ InShard(s) = {} => InShard(s)' = {}
         /\ LocalClosed => LocalClosed' /\ Closed("all") /\ Closed("failed")
<1>1. \A q \in Queues : Closed(q) => Closed(q)'
  <2>1. UNCHANGED stage \/ stage' \in {"allClosed", "cacheClosed", "failedClosed", "localClosed",
                                       "workersJoined", "exited"}
    BY Zenon DEF Destroy, TypeOK
  <2>2. Closed("all") => Closed("all")'
    BY <2>1, Zenon DEF Closed
  <2>3. Closed("cache") => Closed("cache")'
    BY Zenon DEF TypeOK, Destroy, Closed
  <2>4. Closed("failed") => Closed("failed")'
    BY Zenon DEF TypeOK, Destroy, Closed
  <2> QED  BY <2>2, <2>3, <2>4, Zenon DEF Queues
<1>2. \A q \in Queues : Closed(q) /\ In(q) = {} => In(q)' = {}
  BY Zenon DEF NoGrowth, Comes, In
<1>3. \A s \in Shard : Closed("all") /\ InShard(s) = {} => InShard(s)' = {}
  BY Zenon DEF NoGrowth, Comes, In, InShard, Queues
<1>4. LocalClosed => LocalClosed' /\ Closed("all") /\ Closed("failed")
  BY Zenon DEF TypeOK, Destroy, LocalClosed, Closed
<1> QED  BY <1>1, <1>2, <1>3, <1>4, Zenon

\* Every step keeps what those who left found.
LEMMA EndStep ==
  ASSUME TypeOK, OnePlace, EndInv, Next
  PROVE  EndInv'
<1>1. NoGrowth /\ Leaves /\ (UNCHANGED stage \/ (Destroy /\ UNCHANGED <<at, shard, work>>))
  BY EndShape, Zenon
<1>2. /\ \A q \in Queues : Closed(q) => Closed(q)'
      /\ \A q \in Queues : Closed(q) /\ In(q) = {} => In(q)' = {}
      /\ \A s \in Shard : Closed("all") /\ InShard(s) = {} => InShard(s)' = {}
      /\ LocalClosed => LocalClosed' /\ Closed("all") /\ Closed("failed")
  BY <1>1, ClosedStays, Zenon
<1>3. ASSUME NEW w \in Worker, work'[w].pc = "gone"
      PROVE  FoundNothing(w)
  BY <1>1, <1>3, Zenon DEF Leaves, EndInv, FoundNothing
<1>4. ASSUME NEW w \in CacheWorker, work'[w].pc = "gone"
      PROVE  Closed("cache")' /\ In("cache")' = {}
  BY <1>2, <1>3, <1>4, Workers, Zenon DEF FoundNothing, Queues
<1>5. ASSUME NEW w \in LocalWorker, work'[w].pc = "gone"
      PROVE  LocalClosed' /\ \A q \in LocalQueues : In(q)' = {}
  BY <1>2, <1>3, <1>5, Workers, Zenon DEF FoundNothing, Queues, LocalQueues
<1>6. ASSUME NEW w \in RemoteWorker, work'[w].pc = "gone"
      PROVE  /\ Closed("all")' /\ InShard(Home[w])' = {}
             /\ Limit = 0 => In("all")' = {}
  <2>1. Home[w] \in Shard
    BY EmitterAssumption, Zenon
  <2> QED  BY <1>2, <1>3, <1>6, <2>1, Workers, Zenon DEF FoundNothing, Queues
<1>7. ASSUME CacheWorker = {}
      PROVE  In("cache")' = {}
  BY <1>1, <1>7, Zenon DEF NoGrowth, Comes, In, EndInv, Queues
<1>8. ASSUME stage' \in {"workersJoined", "exited"}
      PROVE  Gone(CacheWorker \union LocalWorker)'
  <2>1. Gone(CacheWorker \union LocalWorker)
    BY <1>1, <1>8, Zenon DEF Destroy, EndInv, TypeOK
  <2> QED  BY <1>1, <2>1, Zenon DEF Gone, Leaves, Worker
<1>9. ASSUME stage' = "exited"
      PROVE  Gone(RemoteWorker)'
  <2>1. Gone(RemoteWorker)
    BY <1>1, <1>9, Zenon DEF Destroy, EndInv, TypeOK
  <2> QED  BY <1>1, <2>1, Zenon DEF Gone, Leaves, Worker
<1> QED  BY <1>4, <1>5, <1>6, <1>7, <1>8, <1>9, Zenon DEF EndInv
-----------------------------------------------------------------------------
(* The theorems *)

\* The invariant holds at the start.
LEMMA InitIInv == Init => IInv
<1> SUFFICES ASSUME Init
             PROVE  IInv
  BY Zenon
<1>1. None \notin Task /\ 0 \in Shard /\ MaxFaults \in Nat
  BY EmitterAssumption DEF Shard
<1>2. TypeOK
  BY <1>1 DEF Init, TypeOK
<1>3. OnePlace
  <2>1. \A w \in Worker : work[w].pc # "busy" /\ work[w].task = None
    BY Zenon DEF Init
  <2>2. \A t \in Task : at[t] # "held" /\ t # None
    BY <1>1, Zenon DEF Init
  <2> QED  BY <2>1, <2>2, Zenon DEF OnePlace, Busy
<1>4. SourceInv /\ HopInv /\ AnswerInv
  BY Workers DEF Init, SourceInv, SourceReady, HopInv, AnswerInv, Busy
<1> QED  BY <1>2, <1>3, <1>4, Zenon DEF IInv

\* A step keeps every task in one place.
LEMMA PlaceStep ==
  ASSUME TypeOK, OnePlace, Next
  PROVE  OnePlace'
  BY Shapes, ReleasePlace, TakePlace, OtherPlace, Zenon

\* The invariant is inductive.
LEMMA NextIInv == IInv /\ [Next]_vars => IInv'
<1> SUFFICES ASSUME IInv, [Next]_vars
             PROVE  IInv'
  BY Zenon
<1>1. CASE Next
  BY <1>1, TypeStep, PlaceStep, SourceStep, HopStep, AnswerStep, Zenon DEF IInv
<1>2. CASE UNCHANGED vars
  BY <1>2 DEF IInv, vars, TypeOK, OnePlace, SourceInv, SourceReady, HopInv, AnswerInv, Busy
<1> QED  BY <1>1, <1>2, Zenon

\* The invariant always holds.
THEOREM Inductive == Spec => []IInv
  BY InitIInv, NextIInv, PTL DEF Spec

\* Every field keeps its type; in particular FindNewShard() and CalculateShard() stay
\* in range.
THEOREM TypeCorrect == Spec => []TypeOK
<1>1. IInv => TypeOK
  BY Zenon DEF IInv
<1> QED  BY <1>1, Inductive, PTL

\* However the destructor, the workers and the tasks meet: nothing is left in a queue or
\* with a worker when it is over.
THEOREM DestructorLeavesNothing == Spec => []NothingLeft
<1>1. Init => EndInv
  <2> SUFFICES ASSUME Init
               PROVE  EndInv
    BY Zenon
  <2>1. stage = "running" /\ In("cache") = {}
    BY Zenon DEF Init, In
  <2>2. \A w \in Worker : work[w].pc # "gone"
    BY Zenon DEF Init
  <2> QED  BY <2>1, <2>2, Workers, Zenon DEF EndInv
<1>2. ASSUME IInv, EndInv, [Next]_vars
      PROVE  EndInv'
  <2>1. CASE Next
    BY <1>2, <2>1, EndStep, Zenon DEF IInv
  <2>2. CASE UNCHANGED vars
    BY <1>2, <2>2, Zenon DEF vars, EndInv, Closed, LocalClosed, In, InShard, Gone
  <2> QED  BY <1>2, <2>1, <2>2, Zenon
<1>3. ASSUME IInv, EndInv, Served, stage = "exited", NEW t \in Task
      PROVE  at[t] \in {"new", "done", "dropped"}
  <2>0. TypeOK /\ OnePlace
    BY <1>3, Zenon DEF IInv
  <2>1. \A w \in Worker : work[w].pc = "gone"
    BY <1>3, Zenon DEF EndInv, Gone, Worker
  <2>2. at[t] # "held"
    <3>1. \A w \in Worker : work[w].task = None
      BY <2>0, <2>1, Zenon DEF OnePlace, Busy
    <3> QED  BY <2>0, <3>1, EmitterAssumption, Zenon DEF OnePlace
  <2>3. at[t] # "cache"
    BY <1>3, <2>1, Workers, Zenon DEF EndInv, In
  <2>4. PICK l \in LocalWorker : work[l].pc = "gone"
    BY <2>1, Workers, EmitterAssumption, Zenon
  <2>5. at[t] # "failed"
    BY <1>3, <2>4, Zenon DEF EndInv, In, LocalQueues
  <2>6. at[t] # "all"
    <3>1. CASE ~OnlyFailed
      BY <1>3, <2>4, <3>1, Zenon DEF EndInv, In, LocalQueues
    <3>2. CASE OnlyFailed /\ Limit = 0
      <4>1. PICK w \in RemoteWorker : work[w].pc = "gone"
        BY <2>1, <3>2, Workers, EmitterAssumption, Zenon
      <4> QED  BY <1>3, <3>2, <4>1, Zenon DEF EndInv, In
    <3>3. CASE OnlyFailed /\ Limit # 0
      <4>1. shard[t] \in Shard /\ Limit > 0
        BY <2>0, <3>3, EmitterAssumption DEF TypeOK
      <4>2. PICK w \in RemoteWorker : Home[w] = shard[t]
        BY <1>3, <3>3, <4>1, Zenon DEF Served
      <4>3. InShard(shard[t]) = {}
        BY <1>3, <2>1, <4>2, Workers, Zenon DEF EndInv
      <4> QED  BY <4>3, Zenon DEF InShard, In
    <3> QED  BY <3>1, <3>2, <3>3, Zenon
  <2> QED  BY <2>0, <2>2, <2>3, <2>5, <2>6, Zenon DEF TypeOK
<1>4. IInv /\ EndInv => NothingLeft
  BY <1>3, Zenon DEF NothingLeft
<1>5. Spec => []EndInv
  BY <1>1, <1>2, Inductive, PTL DEF Spec
<1> QED  BY <1>4, <1>5, Inductive, PTL

\* No task is shared or duplicated, whatever fails.
THEOREM TasksInOnePlace == Spec => []OnePlace
<1>1. IInv => OnePlace
  BY Zenon DEF IInv
<1> QED  BY <1>1, Inductive, PTL

\* The DCHECK of DoRemoteExecute() holds for every configuration Check() accepts.
THEOREM SourcesReady == Spec => []SourceReady
<1>1. IInv => SourceReady
  <2>1. CASE TotalShards > 0
    BY <2>1, Zenon DEF IInv, SourceInv
  <2>2. CASE ~(TotalShards > 0)
    BY <2>2, Zenon DEF SourceReady
  <2> QED  BY <2>1, <2>2, Zenon
<1> QED  BY <1>1, Inductive, PTL

\* A failed connect moves a task to another shard at most once.
THEOREM HopsOnce == Spec => []OneHop
<1>1. IInv => OneHop
  BY DEF IInv, HopInv, OneHop, TypeOK
<1> QED  BY <1>1, Inductive, PTL

\* What is left to the local workers stays with them: a step that takes a task from
\* failed_tasks_ or from a local worker ends it or gives it to a local worker.
THEOREM FailedTasksStayLocal == Spec => FailedStaysLocal
<1> DEFINE Kept(t) == StaysLocal(t) => StaysLocal(t)' \/ at'[t] \in {"done", "dropped"}
<1>1. ASSUME IInv, Next, NEW t \in Task
      PROVE  Kept(t)
  <2>0. TypeOK /\ OnePlace
    BY <1>1, Zenon DEF IInv
  <2>1. ASSUME NEW w \in Worker, NEW p \in Pcs, Release(w, p)
        PROVE  Kept(t)
    <3>1. work[w].task \in Task /\ at[work[w].task] = "held"
      BY <2>0, <2>1, BusyTask, Zenon DEF Release
    <3>2. CASE work[w].task = t
      <4>1. StaysLocal(t) => w \in LocalWorker
        BY <2>0, <2>1, <3>1, <3>2, Workers, Zenon DEF StaysLocal, OnePlace, Release
      <4> QED  BY <2>0, <2>1, <3>1, <3>2, <4>1, Zenon DEF Release, TypeOK
    <3>3. CASE work[w].task # t
      <4>1. at'[t] = at[t]
        BY <2>0, <2>1, <3>3, Zenon DEF Release, TypeOK
      <4>2. \A v \in Worker : work[v].task = t => work'[v].task = t
        BY <2>0, <2>1, <3>3, Zenon DEF Release, TypeOK
      <4> QED  BY <4>1, <4>2, Workers, Zenon DEF StaysLocal
    <3> QED  BY <3>2, <3>3, Zenon
  <2>2. ASSUME NEW w \in Worker, NEW u \in Task, Acquire(w, u)
        PROVE  Kept(t)
    <3>1. work[w].task = None /\ t # None
      BY <2>0, <2>2, EmitterAssumption, Zenon DEF Acquire, OnePlace
    <3>2. \A v \in Worker : work[v].task = t => work'[v].task = t
      BY <2>0, <2>2, <3>1, Zenon DEF Acquire, Take, TypeOK
    <3>3. CASE u = t
      <4>1. at[t] = "failed" => StaysLocal(t)' \/ at'[t] = "dropped"
        BY <2>0, <2>2, <3>3, Zenon DEF Acquire, Take, TypeOK, StaysLocal
      <4> QED  BY <3>2, <4>1, Workers, Zenon DEF StaysLocal
    <3>4. CASE u # t
      <4>1. at'[t] = at[t]
        BY <2>0, <2>2, <3>4, Zenon DEF Acquire, Take, TypeOK
      <4> QED  BY <3>2, <4>1, Workers, Zenon DEF StaysLocal
    <3> QED  BY <3>3, <3>4, Zenon
  <2>3. ASSUME \/ \E w \in Worker : MoveOn(w)
               \/ \E u \in Task : Enter(u)
               \/ Stay
        PROVE  Kept(t)
    <3>1. \A v \in Worker : work'[v].task = work[v].task
      BY <2>0, <2>3 DEF MoveOn, Enter, Stay, TypeOK
    <3>2. at[t] = "failed" => at'[t] = "failed"
      BY <2>0, <2>3, Zenon DEF MoveOn, Enter, Stay, TypeOK, taskVars
    <3> QED  BY <3>1, <3>2, Workers, Zenon DEF StaysLocal
  <2> QED  BY <1>1, <2>0, <2>1, <2>2, <2>3, Shapes, Zenon
<1>2. IInv /\ [Next]_vars => [\A t \in Task : Kept(t)]_vars
  BY <1>1, Zenon
<1> QED  BY <1>2, Inductive, PTL DEF Spec, FailedStaysLocal

\* The emitter gives each client one reply or a dropped connection.
THEOREM EmitterImplementsLifecycle == Spec => ImplementsLifecycle
<1>1. Init => Life!LifeInit
  BY Zenon DEF Init, Life!LifeInit
<1>2. ASSUME IInv, [Next]_vars
      PROVE  [Life!LifeNext]_(Life!lifeVars)
  <2> DEFINE st(a) == [t \in Task |-> CASE a[t] = "new"     -> "new"
                                       [] a[t] = "done"    -> "answered"
                                       [] a[t] = "dropped" -> "dropped"
                                       [] OTHER            -> "pending"]
  <2>1. ASSUME NEW t \in Task, Replied(t)
        PROVE  Life!LifeNext
    <3>1. answers[t] = 0
      BY <1>2, <2>1, Zenon DEF IInv, AnswerInv, Replied
    <3>2. answers' = [answers EXCEPT ![t] = 1]
      BY <2>1, <3>1 DEF Replied, ReportStatus
    <3>3. at' = [at EXCEPT ![t] = "done"]
      BY <2>1, Zenon DEF Replied, ReportStatus
    <3>4. st(at)[t] \in {"new", "pending"}
      BY <2>1, Zenon DEF Replied
    <3>5. st(at') = [st(at) EXCEPT ![t] = "answered"]
      BY <1>2, <3>3, Zenon DEF IInv, TypeOK
    <3>6. Life!Answer(t)
      BY <3>2, <3>4, <3>5, Zenon DEF Life!Answer
    <3> QED  BY <3>6, Zenon DEF Life!LifeNext
  <2>2. ASSUME NEW t \in Task, Moved(t)
        PROVE  [Life!LifeNext]_(Life!lifeVars)
    <3>1. PICK x \in Places \ {"done", "new"} : at' = [at EXCEPT ![t] = x]
      BY <2>2, Zenon DEF Moved
    <3>2. UNCHANGED answers /\ st(at)[t] \in {"new", "pending"}
      BY <2>2, Zenon DEF Moved
    <3>3. CASE x = "dropped"
      <4>1. st(at') = [st(at) EXCEPT ![t] = "dropped"]
        BY <1>2, <3>1, <3>3, Zenon DEF IInv, TypeOK
      <4>2. Life!Drop(t)
        BY <3>2, <4>1, Zenon DEF Life!Drop
      <4> QED  BY <4>2, Zenon DEF Life!LifeNext
    <3>4. CASE x # "dropped"
      <4>1. st(at') = [st(at) EXCEPT ![t] = "pending"]
        BY <1>2, <3>1, <3>4, Zenon DEF IInv, TypeOK, Places
      <4>2. CASE st(at)[t] = "new"
        <5>1. Life!Accept(t)
          BY <3>2, <4>1, <4>2, Zenon DEF Life!Accept
        <5> QED  BY <5>1, Zenon DEF Life!LifeNext
      <4>3. CASE st(at)[t] = "pending"
        <5>1. st(at') = st(at)
          BY <4>1, <4>3, Zenon
        <5> QED  BY <3>2, <5>1, Zenon DEF Life!lifeVars
      <4> QED  BY <3>2, <4>2, <4>3, Zenon
    <3> QED  BY <3>3, <3>4, Zenon
  <2>3. CASE UNCHANGED <<at, answers>>
    BY <2>3, Zenon DEF Life!lifeVars
  <2>4. CASE Next
    BY <1>2, <2>1, <2>2, <2>3, <2>4, Effects, Zenon DEF IInv
  <2>5. CASE UNCHANGED vars
    BY <2>3, <2>5, Zenon DEF vars
  <2> QED  BY <1>2, <2>4, <2>5, Zenon
<1> QED  BY <1>1, <1>2, Inductive, PTL DEF Spec, ImplementsLifecycle, Life!LifeSpec
=============================================================================
