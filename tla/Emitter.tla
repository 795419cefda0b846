------------------------------ MODULE Emitter -------------------------------
(***************************************************************************)
(* daemon::Emitter (daemon/emitter.cc): the way of a task through          *)
(* cache_tasks_, all_tasks_ and failed_tasks_ and the workers between      *)
(* them, with failing absorbers, clients that hang up, and the destructor. *)
(*                                                                         *)
(* A worker that holds a task has it for itself, so what it does with it   *)
(* up to the next push or reply is one step; a step of its own is the pop. *)
(* The queues are base::LockedQueue: all_tasks_ keeps a shard per task,    *)
(* the order inside of a shard is the subject of LockedQueue, and          *)
(* local_tasks_ pops failed_tasks_ and all_tasks_ as one, which is the     *)
(* subject of QueueAggregator.  The configuration is fixed here: with      *)
(* coordinators, EmitterReload has the changes and the end.                *)
(***************************************************************************)
EXTENDS Integers, FiniteSets

CONSTANTS
  Task,          \* messages of clients
  CacheWorker,   \* threads in DoCheckCache(), none when the cache is disabled
  LocalWorker,   \* threads in DoLocalExecute()
  RemoteWorker,  \* threads in DoRemoteExecute()
  Home,          \* the shard of a remote worker
  TotalShards,   \* total_shards, 0 when it is not set
  Limit,         \* shard_queue_limit, 0 is NOT_STRICT_SHARDING
  OnlyFailed,    \* only_failed
  Hash,          \* what handled_hash of a task hashes to
  Impatient,     \* bound: the tasks whose clients may hang up
  MaxFaults      \* bound: failures to resolve a name or to send a message

Shard == IF TotalShards = 0 THEN {0} ELSE 0 .. TotalShards - 1
Worker == CacheWorker \union LocalWorker \union RemoteWorker
None == "none"

\* What Check() accepts.
ASSUME EmitterAssumption ==
  /\ TotalShards \in Nat /\ TotalShards # 1
  /\ TotalShards > 0 => CacheWorker # {}
  /\ OnlyFailed \in BOOLEAN
  /\ OnlyFailed => RemoteWorker # {}
  /\ Home \in [RemoteWorker -> Shard]
  /\ Limit \in Nat
  /\ Hash \in [Task -> Nat]
  /\ LocalWorker # {}
  /\ CacheWorker \intersect LocalWorker = {}
  /\ CacheWorker \intersect RemoteWorker = {}
  /\ LocalWorker \intersect RemoteWorker = {}
  /\ None \notin Task
  /\ Impatient \subseteq Task
  /\ MaxFaults \in Nat

VARIABLES
  at,        \* where a task is
  shard,     \* its shard in all_tasks_
  source,    \* SOURCE is not empty
  hopped,    \* CHANGED_SHARD
  hops,      \* how often a failed connect moved the task to another shard
  answers,   \* calls of ReportStatus() on the task's connection
  hangup,    \* IsClosed() of the task's connection
  work,      \* where a worker is, and the task it holds
  stage,     \* how far ~Emitter() is
  faults     \* failures so far

taskVars == <<at, shard, source, hopped, hops, answers>>
vars == <<at, shard, source, hopped, hops, answers, hangup, work, stage, faults>>

Init ==
  /\ at = [t \in Task |-> "new"]
  /\ shard = [t \in Task |-> 0]
  /\ source = [t \in Task |-> FALSE]
  /\ hopped = [t \in Task |-> FALSE]
  /\ hops = [t \in Task |-> 0]
  /\ answers = [t \in Task |-> 0]
  /\ hangup = [t \in Task |-> FALSE]
  /\ work = [w \in Worker |-> [pc |-> IF w \in RemoteWorker THEN "resolve"
                                                            ELSE "ready",
                               task |-> None]]
  /\ stage = "running"
  /\ faults = 0
-----------------------------------------------------------------------------
(* Queues: a push to a closed queue destroys the task *)

\* Faulty: all_tasks_ is left open.
AllLeftOpen(q) ==
  CASE q = "all"    -> FALSE
    [] q = "cache"  -> stage \notin {"running", "allClosed"}
    [] q = "failed" -> stage \notin {"running", "allClosed", "cacheClosed"}

Closed(q) ==
  CASE q = "all"    -> stage # "running"
    [] q = "cache"  -> stage \notin {"running", "allClosed"}
    [] q = "failed" -> stage \notin {"running", "allClosed", "cacheClosed"}

In(q) == {t \in Task : at[t] = q}
InShard(s) == {t \in In("all") : shard[t] = s}

Push(t, q) == at' = [at EXCEPT ![t] = IF Closed(q) THEN "dropped" ELSE q]

Drop(t) ==
  /\ at' = [at EXCEPT ![t] = "dropped"]
  /\ UNCHANGED <<shard, source, hopped, hops, answers>>

\* Faulty: the answered task is still queued for local execution.
ReportAndFail(t) ==
  /\ at' = [at EXCEPT ![t] = "failed"]
  /\ answers' = [answers EXCEPT ![t] = @ + 1]
  /\ UNCHANGED <<shard, source, hopped, hops>>

ReportStatus(t) ==
  /\ at' = [at EXCEPT ![t] = "done"]
  /\ answers' = [answers EXCEPT ![t] = @ + 1]
  /\ UNCHANGED <<shard, source, hopped, hops>>

\* The worker has done with its task and goes on at pc p.
Finish(w, p) ==
  /\ work' = [work EXCEPT ![w] = [pc |-> p, task |-> None]]
  /\ UNCHANGED <<hangup, stage>>

Leave(w) ==
  /\ work' = [work EXCEPT ![w].pc = "gone"]
  /\ UNCHANGED <<taskVars, hangup, stage, faults>>

\* A popped task is destroyed at once if IsClosed().
Take(w, t) ==
  /\ at' = [at EXCEPT ![t] = IF hangup[t] THEN "dropped" ELSE "held"]
  /\ work' = [work EXCEPT ![w] = IF hangup[t] THEN [pc |-> "ready", task |-> None]
                                              ELSE [pc |-> "busy", task |-> t]]
  /\ UNCHANGED <<shard, source, hopped, hops, answers, hangup, stage, faults>>

Busy(w) == work[w].pc = "busy"
-----------------------------------------------------------------------------
(* HandleNewMessage() *)

\* Faulty: the caching workers are bypassed.
SubmitToAll(t) ==
  /\ at[t] = "new"
  /\ Push(t, "all")
  /\ UNCHANGED <<shard, source, hopped, hops, answers, hangup, work, stage,
                 faults>>

Submit(t) ==
  /\ at[t] = "new"
  /\ Push(t, IF CacheWorker # {} THEN "cache" ELSE "all")
  /\ UNCHANGED <<shard, source, hopped, hops, answers, hangup, work, stage,
                 faults>>

\* A message that is not initialized, or a status other than OK.
Refuse(t) ==
  /\ at[t] = "new"
  /\ Drop(t) \/ ReportStatus(t)
  /\ UNCHANGED <<hangup, work, stage, faults>>

HangUp(t) ==
  /\ t \in Impatient
  /\ at[t] \notin {"new", "done", "dropped"}
  /\ ~hangup[t]
  /\ hangup' = [hangup EXCEPT ![t] = TRUE]
  /\ UNCHANGED <<taskVars, work, stage, faults>>
-----------------------------------------------------------------------------
(* DoCheckCache() *)

CachePop(w) ==
  /\ work[w].pc = "ready"
  /\ \E t \in In("cache") : Take(w, t)

CacheNone(w) ==
  /\ work[w].pc = "ready"
  /\ In("cache") = {} /\ Closed("cache")
  /\ Leave(w)

\* A hit in the direct or in the simple cache, or no such compiler.
CacheAnswer(w) ==
  /\ Busy(w)
  /\ ReportStatus(work[w].task)
  /\ Finish(w, "ready")
  /\ UNCHANGED faults

\* GenerateSource() or ReadExtraFiles() failed.
CacheFail(w) ==
  LET t == work[w].task
  IN /\ Busy(w)
     /\ Push(t, "failed")
     /\ \E b \in BOOLEAN : source' = [source EXCEPT ![t] = b]
     /\ UNCHANGED <<shard, hopped, hops, answers, faults>>
     /\ Finish(w, "ready")

CalculateShard(t) == IF TotalShards = 0 THEN 0 ELSE Hash[t] % TotalShards

CacheMiss(w) ==
  LET t == work[w].task
  IN /\ Busy(w)
     /\ source' = [source EXCEPT ![t] = TRUE]
     /\ shard' = [shard EXCEPT ![t] = CalculateShard(t)]
     /\ Push(t, "all")
     /\ UNCHANGED <<hopped, hops, answers, faults>>
     /\ Finish(w, "ready")
-----------------------------------------------------------------------------
(* DoLocalExecute() *)

LocalQueues == IF OnlyFailed THEN {"failed"} ELSE {"failed", "all"}

LocalPop(w) ==
  /\ work[w].pc = "ready"
  /\ \E q \in LocalQueues : \E t \in In(q) : Take(w, t)

LocalNone(w) ==
  /\ work[w].pc = "ready"
  /\ \A q \in LocalQueues : In(q) = {}
  /\ stage \notin {"running", "allClosed", "cacheClosed", "failedClosed"}
  /\ Leave(w)

\* Faulty: a failed compilation is queued again.
LocalRetries(w) ==
  /\ Busy(w)
  /\ Push(work[w].task, "all")
  /\ Finish(w, "ready")
  /\ UNCHANGED <<shard, source, hopped, hops, answers, faults>>

\* The compiler is unknown, it fails, or it compiles: the client is told.
LocalAnswer(w) ==
  /\ Busy(w)
  /\ ReportStatus(work[w].task)
  /\ Finish(w, "ready")
  /\ UNCHANGED faults
-----------------------------------------------------------------------------
(* DoRemoteExecute() *)

\* The resolver fails and the worker sleeps, or it has its end_point.
Resolve(w) ==
  /\ work[w].pc = "resolve"
  /\ \/ /\ faults < MaxFaults
        /\ faults' = faults + 1
        /\ UNCHANGED work
     \/ /\ work' = [work EXCEPT ![w].pc = "ready"]
        /\ UNCHANGED faults
  /\ UNCHANGED <<taskVars, hangup, stage>>

\* The tasks that Pop(pool, limit, shard) may return: those of the worker's own
\* shard; else any task, or with strict sharding a task of an overloaded shard,
\* which is looked for only before the worker starts to wait.
Available(w) ==
  IF InShard(Home[w]) # {} THEN InShard(Home[w])
  ELSE IF Limit = 0 THEN In("all")
  ELSE IF work[w].pc = "ready"
  THEN {t \in In("all") : Cardinality(InShard(shard[t])) > Limit}
  ELSE {}

RemotePop(w) ==
  /\ work[w].pc \in {"ready", "wait"}
  /\ \E t \in Available(w) : Take(w, t)

RemoteWait(w) ==
  /\ work[w].pc = "ready"
  /\ Available(w) = {} /\ ~Closed("all")
  /\ work' = [work EXCEPT ![w].pc = "wait"]
  /\ UNCHANGED <<taskVars, hangup, stage, faults>>

\* Faulty: a worker leaves as soon as the queue is closed.
RemoteNoneEarly(w) ==
  /\ work[w].pc \in {"ready", "wait"}
  /\ Closed("all")
  /\ Leave(w)

RemoteNone(w) ==
  /\ work[w].pc \in {"ready", "wait"}
  /\ Available(w) = {} /\ Closed("all")
  /\ Leave(w)

\* SetupCompiler() failed, or the result is written: the client is told.
RemoteAnswer(w) ==
  /\ Busy(w)
  /\ ReportStatus(work[w].task)
  /\ Finish(w, "ready")
  /\ UNCHANGED faults

FindNewShard(s) == {IF n >= s THEN n + 1 ELSE n : n \in 0 .. TotalShards - 2}

\* hops is capped at 2.
CountHop(t) == hops' = [hops EXCEPT ![t] = IF @ < 2 THEN @ + 1 ELSE @]

ConnectFailed(w) ==
  LET t == work[w].task
  IN /\ Busy(w)
     /\ source' = [source EXCEPT ![t] = TRUE]
     /\ \/ /\ TotalShards > 0 /\ Limit > 0 /\ ~hopped[t]
           /\ hopped' = [hopped EXCEPT ![t] = TRUE]
           /\ \E s \in FindNewShard(Home[w]) : shard' = [shard EXCEPT ![t] = s]
           /\ Push(t, "all")
           /\ CountHop(t)
        \/ /\ ~(TotalShards > 0 /\ Limit > 0 /\ ~hopped[t])
           /\ Push(t, "failed")
           /\ UNCHANGED <<shard, hopped, hops>>
     /\ UNCHANGED <<answers, faults>>
     /\ Finish(w, "sleep")

Sleep(w) ==
  /\ work[w].pc = "sleep"
  /\ work' = [work EXCEPT ![w].pc = "ready"]
  /\ UNCHANGED <<taskVars, hangup, stage, faults>>

\* SendSync() failed: back to all_tasks_, into the shard of the worker.
SendFailed(w) ==
  LET t == work[w].task
  IN /\ Busy(w)
     /\ faults < MaxFaults
     /\ faults' = faults + 1
     /\ source' = [source EXCEPT ![t] = TRUE]
     /\ shard' = [shard EXCEPT ![t] = Home[w]]
     /\ Push(t, "all")
     /\ UNCHANGED <<hopped, hops, answers>>
     /\ Finish(w, "ready")

\* Faulty: the task stays in the queue of the remote workers.
RemoteFailedRequeues(w) ==
  LET t == work[w].task
  IN /\ Busy(w)
     /\ source' = [source EXCEPT ![t] = TRUE]
     /\ shard' = [shard EXCEPT ![t] = Home[w]]
     /\ Push(t, "all")
     /\ UNCHANGED <<hopped, hops, answers, faults>>
     /\ Finish(w, "ready")

\* GenerateSource() failed, which leaves a task without its source; or ReadSync()
\* failed, the absorber reports an error or sends no result, or the result can't be
\* written.
RemoteFailed(w) ==
  LET t == work[w].task
  IN /\ Busy(w)
     /\ \E b \in {source[t], TRUE} : source' = [source EXCEPT ![t] = b]
     /\ Push(t, "failed")
     /\ UNCHANGED <<shard, hopped, hops, answers, faults>>
     /\ Finish(w, "ready")
-----------------------------------------------------------------------------
(* ~Emitter() *)

Gone(W) == \A w \in W : work[w].pc = "gone"

Destroy ==
  /\ stage' = CASE stage = "running"       -> "allClosed"
                [] stage = "allClosed"     -> "cacheClosed"
                [] stage = "cacheClosed"   -> "failedClosed"
                [] stage = "failedClosed"  -> "localClosed"
                [] stage = "localClosed"   -> "workersJoined"
                [] stage = "workersJoined" -> "exited"
                [] OTHER                   -> "exited"
  /\ stage # "exited"
  /\ stage = "localClosed" => Gone(CacheWorker \union LocalWorker)
  /\ stage = "workersJoined" => Gone(RemoteWorker)
  /\ UNCHANGED <<taskVars, hangup, work, faults>>
-----------------------------------------------------------------------------
CacheStep(w) == CachePop(w) \/ CacheNone(w) \/ CacheAnswer(w) \/ CacheFail(w)
                \/ CacheMiss(w)
LocalStep(w) == LocalPop(w) \/ LocalNone(w) \/ LocalAnswer(w)
RemoteStep(w) == \/ Resolve(w) \/ RemotePop(w) \/ RemoteWait(w) \/ RemoteNone(w)
                 \/ RemoteAnswer(w) \/ ConnectFailed(w)
                 \/ Sleep(w) \/ SendFailed(w) \/ RemoteFailed(w)

Next ==
  \/ \E t \in Task : Submit(t) \/ Refuse(t) \/ HangUp(t)
  \/ \E w \in CacheWorker : CacheStep(w)
  \/ \E w \in LocalWorker : LocalStep(w)
  \/ \E w \in RemoteWorker : RemoteStep(w)
  \/ Destroy

Spec == Init /\ [][Next]_vars

\* Threads go on while they can; nobody has to send a task, to hang up, or to
\* start the destructor.
Fairness ==
  /\ \A w \in CacheWorker : WF_vars(CacheStep(w))
  /\ \A w \in LocalWorker : WF_vars(LocalStep(w))
  /\ \A w \in RemoteWorker : WF_vars(RemoteStep(w))
  /\ WF_vars(stage # "running" /\ Destroy)

FairSpec == Spec /\ Fairness
-----------------------------------------------------------------------------
(* Properties *)

\* Every variable keeps its type.
TypeOK ==
  /\ at \in [Task -> {"new", "cache", "all", "failed", "held", "done", "dropped"}]
  /\ shard \in [Task -> Shard]
  /\ source \in [Task -> BOOLEAN]
  /\ hopped \in [Task -> BOOLEAN]
  /\ hops \in [Task -> 0 .. 2]
  /\ answers \in [Task -> Nat]
  /\ hangup \in [Task -> BOOLEAN]
  /\ work \in [Worker -> [pc : {"resolve", "ready", "wait", "busy", "sleep", "gone"},
                           task : Task \union {None}]]
  /\ stage \in {"running", "allClosed", "cacheClosed", "failedClosed",
                "localClosed", "workersJoined", "exited"}
  /\ faults \in 0 .. MaxFaults

\* A task is moved between queues and workers, never shared: the task of a busy
\* worker is in no queue, and no other worker has it.
OnePlace ==
  /\ \A w \in Worker : Busy(w) <=> work[w].task # None
  /\ \A t \in Task : (at[t] = "held") <=> \E w \in Worker : work[w].task = t
  /\ \A v, w \in Worker : work[v].task = work[w].task /\ Busy(v) => v = w

\* DCHECK in DoRemoteExecute(): with shards, a task comes to a remote worker with
\* its source already preprocessed by a caching worker.
SourceReady ==
  TotalShards > 0 => \A w \in RemoteWorker : Busy(w) => source[work[w].task]

\* "task shouldn't hop more than once": however many absorbers can't be reached
\* and whatever else happens in between, a failed connect moves a task to another
\* shard at most once.
OneHop == \A t \in Task : hops[t] <= 1

Life == INSTANCE TaskLifecycle
          WITH status <- [t \in Task |-> CASE at[t] = "new"     -> "new"
                                           [] at[t] = "done"    -> "answered"
                                           [] at[t] = "dropped" -> "dropped"
                                           [] OTHER             -> "pending"]

\* Whatever fails, the client of a task gets one reply or a dropped connection,
\* and a task that was replied to is never taken up again.
ImplementsLifecycle == Life!LifeSpec

StaysLocal(t) == at[t] = "failed" \/ \E w \in LocalWorker : work[w].task = t

\* "we will try only local compilation next time": once a task is in failed_tasks_ or
\* with a local worker, it stays there until it is answered or dropped and never comes
\* back to a remote worker, whose absorber it may have brought down.
FailedStaysLocal ==
  [][\A t \in Task : StaysLocal(t) => StaysLocal(t)' \/ at'[t] \in {"done", "dropped"}]_vars

\* Every task is answered while the daemon runs, if every shard has a remote worker
\* or local workers may take any task, and sending fails only finitely often: no
\* task is forgotten in a queue or goes round for ever.
EveryTaskAnswered ==
  \A t \in Task : at[t] \in {"cache", "all", "failed", "held"}
                   ~> (at[t] = "done" \/ hangup[t] \/ stage # "running")

\* Every shard has a remote worker, or local workers may take any task.
Served == OnlyFailed /\ Limit > 0 => \A s \in Shard : \E w \in RemoteWorker : Home[w] = s

\* Workers leave only when there is nothing left for them: when the destructor is over,
\* no task is in a queue or with a worker, in whatever order the queues were closed, the
\* tasks moved between them and the pools joined.
NothingLeft ==
  Served /\ stage = "exited" => \A t \in Task : at[t] \in {"new", "done", "dropped"}

\* The destructor returns: all workers leave once the queues are closed.
DestructorReturns == (stage # "running") ~> (stage = "exited")
=============================================================================
