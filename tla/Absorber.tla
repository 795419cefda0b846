------------------------------ MODULE Absorber ------------------------------
(***************************************************************************)
(* daemon::Absorber (daemon/absorber.cc): tasks of emitters come in on the *)
(* threads of the event loop, go through cache_tasks_ if there is a cache, *)
(* and through tasks_, which has a capacity, to the executing workers.     *)
(*                                                                         *)
(* LockedQueue::Push() reads closed_ before it takes the mutex: these are  *)
(* two steps here, so that a task may still get into a queue that was      *)
(* closed in between.  Whether the cache has an entry is left open: it may *)
(* be from an earlier run, be cleaned away, or be locked by a writer.      *)
(***************************************************************************)
EXTENDS Naturals, FiniteSets

CONSTANTS
  Task,         \* messages of emitters, each on a connection of its own
  CacheWorker,  \* threads in DoCheckCache(), none when the cache is disabled
  ExecWorker,   \* threads in DoExecute()
  Capacity,     \* pool_capacity, 0 is UNLIMITED
  Impatient     \* bound: the tasks whose emitters may hang up

None == "none"
Worker == CacheWorker \union ExecWorker

ASSUME AbsorberAssumption ==
  /\ IsFiniteSet(Task) /\ None \notin Task
  /\ ExecWorker # {}
  /\ CacheWorker \intersect ExecWorker = {}
  /\ Capacity \in Nat
  /\ Impatient \subseteq Task

VARIABLES
  at,       \* where a task is; "submit" is in Push(), past the look at closed_
  answers,  \* messages sent on the task's connection
  late,     \* history: the tasks that came to a closed queue
  hangup,   \* IsClosed() of the task's connection
  work,     \* where a worker is, and the task it holds
  stage     \* how far ~Absorber() is

vars == <<at, answers, late, hangup, work, stage>>

Init ==
  /\ at = [t \in Task |-> "new"]
  /\ answers = [t \in Task |-> 0]
  /\ late = {}
  /\ hangup = [t \in Task |-> FALSE]
  /\ work = [w \in Worker |-> [pc |-> "ready", task |-> None]]
  /\ stage = "running"
-----------------------------------------------------------------------------
(* Queues and replies *)

\* Faulty: cache_tasks_ is left open.
ClosedTasks(q) == q = "tasks" /\ stage # "running"

Closed(q) ==
  IF q = "tasks" THEN stage # "running" ELSE stage \notin {"running", "tasksClosed"}

In(q) == {t \in Task : at[t] = q}

\* cache_tasks_ is unlimited.
Full(q) == q = "tasks" /\ Capacity # 0 /\ Cardinality(In(q)) >= Capacity

First == IF CacheWorker # {} THEN "cache" ELSE "tasks"

\* Faulty: the task is replied to and still queued.
ReplyAndQueue(t) ==
  /\ at' = [at EXCEPT ![t] = "tasks"]
  /\ answers' = [answers EXCEPT ![t] = @ + 1]

\* ReportStatus(), or SendAsync() of a result.
Reply(t) ==
  /\ at' = [at EXCEPT ![t] = "done"]
  /\ answers' = [answers EXCEPT ![t] = @ + 1]

Place(t, p) == at' = [at EXCEPT ![t] = p] /\ UNCHANGED answers

\* Under the mutex: the capacity is looked at and the task is inserted, although
\* the queue may be closed by now.
Insert(t, q) ==
  IF Full(q) THEN Reply(t) /\ UNCHANGED late
  ELSE Place(t, q) /\ late' = IF Closed(q) THEN late \union {t} ELSE late
-----------------------------------------------------------------------------
(* HandleNewMessage() *)

\* A message that is not initialized is dropped, a bad status is sent back.
Refuse(t) ==
  /\ at[t] = "new"
  /\ Place(t, "dropped") \/ Reply(t)
  /\ UNCHANGED <<late, hangup, work, stage>>

Submit(t) ==
  /\ at[t] = "new" /\ ~Closed(First)
  /\ Place(t, "submit")
  /\ UNCHANGED <<late, hangup, work, stage>>

\* A closed tasks_ is an overload; what cache_tasks_ says is ignored, and the
\* connection goes with the task.
SubmitClosed(t) ==
  /\ at[t] = "new" /\ Closed(First)
  /\ IF First = "tasks" THEN Reply(t) ELSE Place(t, "dropped")
  /\ late' = late \union {t}
  /\ UNCHANGED <<hangup, work, stage>>

SubmitInsert(t) ==
  /\ at[t] = "submit"
  /\ Insert(t, First)
  /\ UNCHANGED <<hangup, work, stage>>

HangUp(t) ==
  /\ t \in Impatient
  /\ at[t] \notin {"new", "done", "dropped"}
  /\ ~hangup[t]
  /\ hangup' = [hangup EXCEPT ![t] = TRUE]
  /\ UNCHANGED <<at, answers, late, work, stage>>
-----------------------------------------------------------------------------
(* DoCheckCache() and DoExecute() *)

Busy(w) == work[w].pc \in {"busy", "push"}
Free(w) == work' = [work EXCEPT ![w] = [pc |-> "ready", task |-> None]]

\* Faulty: a closed connection is an end of the work.
TakeOrLeave(w, t) ==
  /\ Place(t, IF hangup[t] THEN "dropped" ELSE "held")
  /\ work' = [work EXCEPT ![w] = IF hangup[t] THEN [pc |-> "gone", task |-> None]
                                              ELSE [pc |-> "busy", task |-> t]]
  /\ UNCHANGED <<late, hangup, stage>>

\* The popped task is destroyed at once if IsClosed().
Take(w, t) ==
  /\ Place(t, IF hangup[t] THEN "dropped" ELSE "held")
  /\ work' = [work EXCEPT ![w] = IF hangup[t] THEN [pc |-> "ready", task |-> None]
                                              ELSE [pc |-> "busy", task |-> t]]
  /\ UNCHANGED <<late, hangup, stage>>

Pop(w, q) ==
  /\ work[w].pc = "ready"
  /\ \E t \in In(q) : Take(w, t)

\* Faulty: a closed queue is not emptied first.
PopClosed(w, q) ==
  /\ work[w].pc = "ready"
  /\ Closed(q)
  /\ work' = [work EXCEPT ![w].pc = "gone"]
  /\ UNCHANGED <<at, answers, late, hangup, stage>>

\* Pop() returns nothing only from a queue that is closed and empty.  The pool is
\* shutting down only after its threads are joined.
PopNone(w, q) ==
  /\ work[w].pc = "ready"
  /\ In(q) = {} /\ Closed(q)
  /\ work' = [work EXCEPT ![w].pc = "gone"]
  /\ UNCHANGED <<at, answers, late, hangup, stage>>

\* A hit in the simple cache.
CacheHit(w) ==
  /\ work[w].pc = "busy"
  /\ Reply(work[w].task)
  /\ Free(w)
  /\ UNCHANGED <<late, hangup, stage>>

\* A miss; tasks_ is closed: the emitter is told of an overload.
CacheMissClosed(w) ==
  /\ work[w].pc = "busy" /\ Closed("tasks")
  /\ Reply(work[w].task)
  /\ Free(w)
  /\ UNCHANGED <<late, hangup, stage>>

CacheMiss(w) ==
  /\ work[w].pc = "busy" /\ ~Closed("tasks")
  /\ work' = [work EXCEPT ![w].pc = "push"]
  /\ UNCHANGED <<at, answers, late, hangup, stage>>

CacheInsert(w) ==
  /\ work[w].pc = "push"
  /\ Insert(work[w].task, "tasks")
  /\ Free(w)
  /\ UNCHANGED <<hangup, stage>>

\* No such compiler, no extra files, a failed, killed or successful run, the last
\* also stored in the cache: there is a reply in every case.
Execute(w) ==
  /\ work[w].pc = "busy"
  /\ Reply(work[w].task)
  /\ Free(w)
  /\ UNCHANGED <<late, hangup, stage>>
-----------------------------------------------------------------------------
(* ~Absorber() *)

CloseTasks ==
  /\ stage = "running" /\ stage' = "tasksClosed"
  /\ UNCHANGED <<at, answers, late, hangup, work>>

CloseCache ==
  /\ stage = "tasksClosed" /\ stage' = "cacheClosed"
  /\ UNCHANGED <<at, answers, late, hangup, work>>

\* workers_.reset() joins the workers.
Join ==
  /\ stage = "cacheClosed" /\ stage' = "joined"
  /\ \A w \in Worker : work[w].pc = "gone"
  /\ UNCHANGED <<at, answers, late, hangup, work>>

\* The members go: the queues destroy what is left in them.  A handler that is inside
\* of Push() at that time is not defined and left out.
Discard(t) ==
  /\ stage = "joined" /\ at[t] \in {"cache", "tasks"}
  /\ Place(t, "dropped")
  /\ UNCHANGED <<late, hangup, work, stage>>

Destroy ==
  /\ stage = "joined" /\ stage' = "destroyed"
  /\ In("submit") = {} /\ In("cache") = {} /\ In("tasks") = {}
  /\ UNCHANGED <<at, answers, late, hangup, work>>
-----------------------------------------------------------------------------
Handle(t) == Refuse(t) \/ Submit(t) \/ SubmitClosed(t)
CacheStep(w) == \/ Pop(w, "cache") \/ PopNone(w, "cache") \/ CacheHit(w)
                \/ CacheMissClosed(w) \/ CacheMiss(w) \/ CacheInsert(w)
ExecStep(w) == Pop(w, "tasks") \/ PopNone(w, "tasks") \/ Execute(w)

Next ==
  \/ /\ stage # "destroyed"
     /\ \E t \in Task : Handle(t) \/ SubmitInsert(t) \/ HangUp(t)
  \/ \E w \in CacheWorker : CacheStep(w)
  \/ \E w \in ExecWorker : ExecStep(w)
  \/ CloseTasks \/ CloseCache \/ Join \/ Destroy
  \/ \E t \in Task : Discard(t)

Spec == Init /\ [][Next]_vars

\* Threads go on while they can; nobody has to send a task, to hang up, or to
\* start the destructor.
Fairness ==
  /\ \A t \in Task : WF_vars(SubmitInsert(t))
  /\ \A w \in CacheWorker : WF_vars(CacheStep(w))
  /\ \A w \in ExecWorker : WF_vars(ExecStep(w))
  /\ WF_vars(CloseCache \/ Join \/ Destroy)
  /\ \A t \in Task : WF_vars(Discard(t))

FairSpec == Spec /\ Fairness
-----------------------------------------------------------------------------
(* Properties *)

\* Every variable keeps its type.
TypeOK ==
  /\ at \in [Task -> {"new", "submit", "cache", "tasks", "held", "done", "dropped"}]
  /\ answers \in [Task -> 0 .. 1]
  /\ late \subseteq Task
  /\ hangup \in [Task -> BOOLEAN]
  /\ work \in [Worker -> [pc : {"ready", "busy", "push", "gone"},
                          task : Task \union {None}]]
  /\ stage \in {"running", "tasksClosed", "cacheClosed", "joined", "destroyed"}

\* pool_capacity bounds tasks_ although any number of event loop threads and caching
\* workers push at once, and 0 is no bound.
CapacityKept == Capacity # 0 => Cardinality(In("tasks")) <= Capacity

\* A task is moved between queues and workers, never shared, also when Push() refuses
\* the task and its connection is used for the reply.
OnePlace ==
  /\ \A w \in Worker : Busy(w) <=> work[w].task # None
  /\ \A t \in Task : (at[t] = "held") <=> \E w \in Worker : work[w].task = t
  /\ \A v, w \in Worker : work[v].task = work[w].task /\ Busy(v) => v = w

Life == INSTANCE TaskLifecycle
          WITH status <- [t \in Task |-> CASE at[t] = "new"     -> "new"
                                           [] at[t] = "done"    -> "answered"
                                           [] at[t] = "dropped" -> "dropped"
                                           [] OTHER             -> "pending"]

\* An emitter gets one reply to its task, be it a result, an error or OVERLOAD, or
\* none at all if the task is dropped.
ImplementsLifecycle == Life!LifeSpec

\* No task that was taken up is thrown away, by a worker or by the destructor: without
\* an answer stay only tasks whose emitter hung up, or that got into a queue after it
\* was closed.
AcceptedAnswered ==
  [][\A t \in Task : at[t] \in {"submit", "cache", "tasks", "held"} /\ at'[t] = "dropped"
                       => hangup[t] \/ t \in late]_vars

\* Every task is answered while the daemon runs.
EveryTaskAnswered ==
  \A t \in Task : at[t] \in {"submit", "cache", "tasks", "held"}
                   ~> (at[t] = "done" \/ hangup[t] \/ stage # "running")

\* The destructor returns: the workers empty the queues and leave.
DestructorReturns == (stage # "running") ~> (stage = "destroyed")
=============================================================================
