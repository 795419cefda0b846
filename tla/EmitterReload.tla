--------------------------- MODULE EmitterReload ----------------------------
(***************************************************************************)
(* Emitter::DoPoll(), BaseDaemon::Update(), Emitter::Reload() and          *)
(* ~Emitter() (daemon/emitter.cc, daemon/base_daemon.cc), with             *)
(* coordinators, strict sharding and only_failed: coordinators are asked   *)
(* in turn, and a new number of shards arrives while caching and remote    *)
(* workers go on.  conf_ is stored last; until then everybody who asks for *)
(* conf() gets the old one, and a remote worker asks only once, when its   *)
(* thread starts.  Pools are numbered like the configurations they were    *)
(* made for; pool 0 is the one of the last Reload(), which is not forced   *)
(* to shut down.  There is one remote worker per shard and pool;           *)
(* failed_tasks_ is where a task leaves this model.                        *)
(***************************************************************************)
EXTENDS Integers, FiniteSets, Sequences

CONSTANTS
  Task,
  Cacher,      \* threads in DoCheckCache()
  Totals,      \* total_shards of the configurations, in the order they come
  Limit,       \* shard_queue_limit
  Hash,        \* what handled_hash of a task hashes to
  Coordinators,    \* the coordinators, in the order of the configuration
  Healthy,         \* those of them that never fail
  MaxTotalShards   \* max_total_shards

Gen == 1 .. Len(Totals)
Shard == UNION {0 .. Totals[g] - 1 : g \in Gen}
Last == 0
Remote == {w \in Gen \X Shard : w[2] < Totals[w[1]]} \union ({Last} \X Shard)
None == "none"
NoShard == -1
Unset == 0

ASSUME ReloadAssumption ==
  /\ Totals \in Seq(Nat) /\ Len(Totals) > 0
  /\ \A g \in Gen : Totals[g] \in 2 .. MaxTotalShards
  /\ Limit \in Nat \ {0}
  /\ Hash \in [Task -> Nat]
  /\ Cacher # {}
  /\ None \notin Task

VARIABLES
  at,        \* where a task is
  shard,     \* its shard in all_tasks_
  hopped,    \* CHANGED_SHARD
  pushed,    \* which pool was current when the task was put into all_tasks_
  remote,    \* the threads of DoRemoteExecute(): pc, total_shards read, task
  cacher,    \* the threads of DoCheckCache(): the same
  conf,      \* conf_, by its number
  pool,      \* remote_workers_, by its number
  stop,      \* IsShuttingDown() of the pools
  resolvers, \* of DoPoll(): the coordinators in the order they are asked
  update,    \* DoPoll(): pc, the shard to redistribute, the task in hand
  stage      \* how far ~Emitter() is

taskVars == <<at, shard, hopped, pushed>>
vars == <<at, shard, hopped, pushed, remote, cacher, conf, pool, stop, resolvers, update, stage>>

Thread(p) == [pc |-> p, total |-> 0, task |-> None]

Init ==
  /\ at = [t \in Task |-> "new"]
  /\ shard = [t \in Task |-> 0]
  /\ hopped = [t \in Task |-> FALSE]
  /\ pushed = [t \in Task |-> 0]
  /\ remote = [w \in Remote |-> IF w[1] = 1
                               THEN [Thread("ready") EXCEPT !.total = Totals[1]]
                               ELSE Thread("unborn")]
  /\ cacher = [c \in Cacher |-> Thread("start")]
  /\ conf = 1 /\ pool = 1
  /\ stop = [g \in Gen \union {Last} |-> FALSE]
  /\ resolvers = Coordinators
  /\ update = [pc |-> "idle", shard |-> 0, task |-> None]
  /\ stage = "running"

\* A push to a closed queue destroys the task.
AllClosed == stage # "running"
CacheClosed == stage \notin {"running", "allClosed"}

Push(t, s) ==
  /\ at' = [at EXCEPT ![t] = IF AllClosed THEN "dropped" ELSE "all"]
  /\ shard' = [shard EXCEPT ![t] = s]
  /\ pushed' = [pushed EXCEPT ![t] = pool]

InShard(s) == {t \in Task : at[t] = "all" /\ shard[t] = s}

Hold(t) ==
  /\ at' = [at EXCEPT ![t] = "held"]
  /\ UNCHANGED <<shard, hopped, pushed>>

End(t, where) ==
  /\ at' = [at EXCEPT ![t] = where]
  /\ UNCHANGED <<shard, hopped, pushed>>
-----------------------------------------------------------------------------
Submit(t) ==
  /\ at[t] = "new"
  /\ End(t, IF CacheClosed THEN "dropped" ELSE "cache")
  /\ UNCHANGED <<remote, cacher, conf, pool, stop, resolvers, update, stage>>

(* DoCheckCache(): conf() is read before the task is waited for *)

CacheConf(c) ==
  /\ cacher[c].pc = "start"
  /\ cacher' = [cacher EXCEPT ![c].pc = "ready", ![c].total = Totals[conf]]
  /\ UNCHANGED <<taskVars, remote, conf, pool, stop, resolvers, update, stage>>

CachePop(c) ==
  /\ cacher[c].pc = "ready"
  /\ \E t \in Task :
       /\ at[t] = "cache"
       /\ Hold(t)
       /\ cacher' = [cacher EXCEPT ![c].pc = "busy", ![c].task = t]
  /\ UNCHANGED <<remote, conf, pool, stop, resolvers, update, stage>>

CacheNone(c) ==
  /\ cacher[c].pc = "ready"
  /\ CacheClosed /\ \A t \in Task : at[t] # "cache"
  /\ cacher' = [cacher EXCEPT ![c] = Thread("gone")]
  /\ UNCHANGED <<taskVars, remote, conf, pool, stop, resolvers, update, stage>>

CacheMiss(c) ==
  /\ cacher[c].pc = "busy"
  /\ Push(cacher[c].task, Hash[cacher[c].task] % cacher[c].total)
  /\ cacher' = [cacher EXCEPT ![c] = Thread("start")]
  /\ UNCHANGED <<hopped, remote, conf, pool, stop, resolvers, update, stage>>

\* A cache hit, or the task fails before it gets its shard.
CacheOut(c) ==
  /\ cacher[c].pc = "busy"
  /\ \E x \in {"done", "failed"} : End(cacher[c].task, x)
  /\ cacher' = [cacher EXCEPT ![c] = Thread("start")]
  /\ UNCHANGED <<remote, conf, pool, stop, resolvers, update, stage>>
-----------------------------------------------------------------------------
(* DoRemoteExecute(): conf() is read once *)

RemoteConf(w) ==
  /\ remote[w].pc = "start"
  /\ remote' = [remote EXCEPT ![w].pc = "ready", ![w].total = Totals[conf]]
  /\ UNCHANGED <<taskVars, cacher, conf, pool, stop, resolvers, update, stage>>

\* Emitter looks for an overloaded shard before it waits; here a worker may do so at any
\* time.
Available(w) ==
  IF InShard(w[2]) # {} THEN InShard(w[2])
  ELSE {t \in Task : at[t] = "all" /\ Cardinality(InShard(shard[t])) > Limit}

RemotePop(w) ==
  /\ remote[w].pc = "ready"
  /\ ~stop[w[1]]
  /\ \E t \in Available(w) :
       /\ Hold(t)
       /\ remote' = [remote EXCEPT ![w].pc = "busy", ![w].task = t]
  /\ UNCHANGED <<cacher, conf, pool, stop, resolvers, update, stage>>

\* A worker that waits is a ready one that has not moved, like one that sleeps after a
\* failure: it looks at IsShuttingDown() when pop_timeout has passed, and leaves a closed
\* queue once there is nothing for it.
RemoteLeave(w) ==
  /\ remote[w].pc = "ready"
  /\ stop[w[1]] \/ (AllClosed /\ Available(w) = {})
  /\ remote' = [remote EXCEPT ![w] = Thread("gone")]
  /\ UNCHANGED <<taskVars, cacher, conf, pool, stop, resolvers, update, stage>>

Release(w) == remote' = [remote EXCEPT ![w].pc = "ready", ![w].task = None]

RemoteOut(w) ==
  /\ remote[w].pc = "busy"
  /\ \E x \in {"done", "failed"} : End(remote[w].task, x)
  /\ Release(w)
  /\ UNCHANGED <<cacher, conf, pool, stop, resolvers, update, stage>>

FindNewShard(total, s) == {IF n >= s THEN n + 1 ELSE n : n \in 0 .. total - 2}

ConnectFailed(w) ==
  LET t == remote[w].task
  IN /\ remote[w].pc = "busy"
     /\ \/ /\ ~hopped[t]
           /\ hopped' = [hopped EXCEPT ![t] = TRUE]
           /\ \E s \in FindNewShard(remote[w].total, w[2]) : Push(t, s)
        \/ /\ hopped[t]
           /\ End(t, "failed")
     /\ Release(w)
     /\ UNCHANGED <<cacher, conf, pool, stop, resolvers, update, stage>>

SendFailed(w) ==
  /\ remote[w].pc = "busy"
  /\ Push(remote[w].task, w[2])
  /\ Release(w)
  /\ UNCHANGED <<hopped, cacher, conf, pool, stop, resolvers, update, stage>>
-----------------------------------------------------------------------------
(* DoPoll(): one thread that asks a coordinator every poll_interval *)

Updating(p, s, t) == update' = [pc |-> p, shard |-> s, task |-> t]

\* std::rotate(): the i-th becomes the first.
Rotate(i) == SubSeq(resolvers, i, Len(resolvers)) \o SubSeq(resolvers, 1, i - 1)

\* The first coordinator that can be connected to comes first from now on.  The
\* bound: coordinators are asked until Totals is exhausted.
PollConnect ==
  /\ update.pc = "idle"
  /\ stage \in {"running", "allClosed", "cacheClosed"}
  /\ pool < Len(Totals)
  /\ \E i \in DOMAIN resolvers :
       /\ \A j \in 1 .. i - 1 : resolvers[j] \notin Healthy
       /\ resolvers' = Rotate(i)
  /\ Updating("asked", 0, None)
  /\ UNCHANGED <<taskVars, remote, cacher, conf, pool, stop, stage>>

\* What coordinators answer: total_shards, and the shards of the active remotes.
Offer == [total |-> Totals[pool + 1], remotes |-> 0 .. Totals[pool + 1] - 1]
Rejects ==
  {[total |-> 1, remotes |-> {0}], [total |-> MaxTotalShards + 1, remotes |-> {0}],
   [total |-> 2, remotes |-> {0, 2}], [total |-> Unset, remotes |-> {NoShard}],
   [total |-> Unset, remotes |-> {}]}
Replies == {Offer} \cup (IF Head(resolvers) \in Healthy THEN {} ELSE Rejects)

\* The remotes are replaced, the number of shards only if there is one.
Merge(reply) ==
  [reply EXCEPT !.total = IF @ = Unset THEN Totals[conf] ELSE @]

\* With an enabled cache and only_failed, neither of which a coordinator changes.
Check(c) ==
  /\ c.total # Unset => c.total \in 2 .. MaxTotalShards
  /\ \A s \in c.remotes : IF s = NoShard THEN c.total = Unset
                                        ELSE c.total # Unset /\ s < c.total
  /\ c.remotes # {}

\* Faulty: the next poll begins with the coordinator that failed.
SameCoordinator == Updating("idle", 0, None) /\ UNCHANGED resolvers

\* The next poll begins with the next coordinator.
NextCoordinator == Updating("idle", 0, None) /\ resolvers' = Rotate(2)

\* SendSync() or ReadSync() fails, or the reply has no configuration.
PollFailed ==
  /\ update.pc = "asked"
  /\ Head(resolvers) \notin Healthy
  /\ NextCoordinator
  /\ UNCHANGED <<taskVars, remote, cacher, conf, pool, stop, stage>>

\* Update() returns false.
PollRejected ==
  /\ update.pc = "asked"
  /\ \E reply \in Replies : ~Check(Merge(reply))
  /\ NextCoordinator
  /\ UNCHANGED <<taskVars, remote, cacher, conf, pool, stop, stage>>
-----------------------------------------------------------------------------
(* Update(): Reload() and then the new conf_ *)

\* Faulty: the first abandoned shard is skipped.
AfterSwapShort ==
  IF Totals[pool + 1] + 1 < Totals[conf]
  THEN Updating("drain", Totals[pool + 1] + 1, None)
  ELSE Updating("stop", 0, None)

\* Where the redistribution of abandoned shards begins, if there are any.
AfterSwap ==
  IF Totals[pool + 1] < Totals[conf] THEN Updating("drain", Totals[pool + 1], None)
                                     ELSE Updating("stop", 0, None)

\* Faulty: the last remote of the configuration is left out.
SwapPoolsShort ==
  /\ update.pc = "asked"
  /\ Offer \in Replies /\ Check(Merge(Offer))
  /\ pool' = pool + 1
  /\ remote' = [w \in Remote |-> IF w[1] = pool + 1 /\ w[2] < Totals[pool + 1] - 1
                                 THEN Thread("start") ELSE remote[w]]
  /\ AfterSwap
  /\ UNCHANGED <<taskVars, cacher, conf, stop, resolvers, stage>>

SwapPools ==
  /\ update.pc = "asked"
  /\ Offer \in Replies /\ Check(Merge(Offer))
  /\ pool' = pool + 1
  /\ remote' = [w \in Remote |-> IF w[1] = pool + 1 THEN Thread("start") ELSE remote[w]]
  /\ AfterSwap
  /\ UNCHANGED <<taskVars, cacher, conf, stop, resolvers, stage>>

DrainPop ==
  /\ update.pc = "drain"
  /\ \E t \in InShard(update.shard) :
       /\ Hold(t)
       /\ Updating("push", update.shard, t)
  /\ UNCHANGED <<remote, cacher, conf, pool, stop, resolvers, stage>>

DrainPush ==
  /\ update.pc = "push"
  /\ Push(update.task, Hash[update.task] % Totals[pool])
  /\ Updating("drain", update.shard, None)
  /\ UNCHANGED <<hopped, remote, cacher, conf, pool, stop, resolvers, stage>>

DrainNext ==
  /\ update.pc = "drain"
  /\ InShard(update.shard) = {}
  /\ IF update.shard + 1 < Totals[conf] THEN Updating("drain", update.shard + 1, None)
                                        ELSE Updating("stop", 0, None)
  /\ UNCHANGED <<taskVars, remote, cacher, conf, pool, stop, resolvers, stage>>

\* The old pool is destroyed at the end of Reload().
StopOldPool ==
  /\ update.pc = "stop"
  /\ stop' = [stop EXCEPT ![conf] = TRUE]
  /\ Updating("join", 0, None)
  /\ UNCHANGED <<taskVars, remote, cacher, conf, pool, resolvers, stage>>

StoreConf ==
  /\ update.pc = "join" /\ stage # "reloaded"
  /\ \A w \in Remote : w[1] = conf => remote[w].pc = "gone"
  /\ conf' = pool
  /\ Updating("idle", 0, None)
  /\ UNCHANGED <<taskVars, remote, cacher, pool, stop, resolvers, stage>>
-----------------------------------------------------------------------------
(* ~Emitter(), and the last thing that DoPoll() does *)

Destroy(from, to) == stage = from /\ stage' = to

CloseQueues ==
  /\ \/ Destroy("running", "allClosed")
     \/ Destroy("allClosed", "cacheClosed")
     \/ Destroy("cacheClosed", "ending")
  /\ UNCHANGED <<taskVars, remote, cacher, conf, pool, stop, resolvers, update>>

\* Faulty: handle_all_tasks_ stays false, so that ~Emitter() forces the last pool.
LastReloadForced ==
  /\ update.pc = "idle"
  /\ Destroy("ending", "reloaded")
  /\ remote' = [w \in Remote |-> IF w[1] = Last /\ w[2] < Totals[conf]
                                 THEN Thread("start") ELSE remote[w]]
  /\ stop' = [stop EXCEPT ![Last] = TRUE]
  /\ Updating("stop", 0, None)
  /\ UNCHANGED <<taskVars, cacher, conf, pool, resolvers>>

\* "To ensure all remote tasks are handled before exit - create a pool that is not forced
\* to shut down."  The configuration is the same: nothing is redistributed.
LastReload ==
  /\ update.pc = "idle"
  /\ Destroy("ending", "reloaded")
  /\ remote' = [w \in Remote |-> IF w[1] = Last /\ w[2] < Totals[conf]
                                 THEN Thread("start") ELSE remote[w]]
  /\ Updating("stop", 0, None)
  /\ UNCHANGED <<taskVars, cacher, conf, pool, stop, resolvers>>

\* The old pool is joined by Reload(), and its thread by coordinator_workers_.reset().
PollEnd ==
  /\ update.pc = "join"
  /\ \A w \in Remote : w[1] = conf => remote[w].pc = "gone"
  /\ Destroy("reloaded", "polled")
  /\ Updating("ended", 0, None)
  /\ UNCHANGED <<taskVars, remote, cacher, conf, pool, stop, resolvers>>

JoinWorkers ==
  /\ \/ Destroy("polled", "joined") /\ \A c \in Cacher : cacher[c].pc = "gone"
     \/ Destroy("joined", "exited") /\ \A w \in Remote : remote[w].pc \in {"unborn", "gone"}
  /\ UNCHANGED <<taskVars, remote, cacher, conf, pool, stop, resolvers, update>>
-----------------------------------------------------------------------------
CacheStep(c) == CacheConf(c) \/ CachePop(c) \/ CacheNone(c) \/ CacheMiss(c) \/ CacheOut(c)
RemoteStep(w) == \/ RemoteConf(w) \/ RemotePop(w) \/ RemoteLeave(w) \/ RemoteOut(w)
                 \/ ConnectFailed(w) \/ SendFailed(w)
ReloadStep == DrainPop \/ DrainPush \/ DrainNext \/ StopOldPool \/ StoreConf
PollStep == \/ PollConnect \/ PollFailed \/ PollRejected \/ SwapPools \/ ReloadStep
            \/ LastReload \/ PollEnd
DestroyStep == CloseQueues \/ JoinWorkers

Next ==
  \/ \E t \in Task : Submit(t)
  \/ \E c \in Cacher : CacheStep(c)
  \/ \E w \in Remote : RemoteStep(w)
  \/ PollStep
  \/ DestroyStep

Spec == Init /\ [][Next]_vars

\* Threads go on while they can.
FairSpec ==
  /\ Spec
  /\ \A c \in Cacher : WF_vars(CacheStep(c))
  /\ \A w \in Remote : WF_vars(RemoteStep(w))
  /\ WF_vars(PollStep)
  /\ WF_vars(stage # "running" /\ DestroyStep)
-----------------------------------------------------------------------------
(* Properties *)

\* Every variable keeps its type.
TypeOK ==
  /\ at \in [Task -> {"new", "cache", "all", "held", "done", "failed", "dropped"}]
  /\ shard \in [Task -> Shard]
  /\ hopped \in [Task -> BOOLEAN]
  /\ pushed \in [Task -> 0 .. Len(Totals)]
  /\ \A w \in Remote : remote[w].pc \in {"unborn", "start", "ready", "busy", "gone"}
  /\ \A c \in Cacher : cacher[c].pc \in {"start", "ready", "busy", "gone"}
  /\ conf \in Gen /\ pool \in Gen
  /\ stop \in [Gen \union {Last} -> BOOLEAN]
  /\ resolvers \in Seq(Healthy \cup {Coordinators[i] : i \in DOMAIN Coordinators})
  /\ update.pc \in {"idle", "asked", "drain", "push", "stop", "join", "ended"}
  /\ update.shard \in Shard
  /\ stage \in {"running", "allClosed", "cacheClosed", "ending", "reloaded", "polled",
                "joined", "exited"}

Live(w) == remote[w].pc \notin {"unborn", "gone"} /\ ~stop[w[1]]

\* "Create new pool before swapping, so we won't postpone new tasks": every shard of the
\* current pool is served by a worker that goes on, at every moment of an update.
AlwaysServed ==
  stage = "running" => \A s \in 0 .. Totals[pool] - 1 : \E w \in Remote : w[2] = s /\ Live(w)

\* The redistribution is complete for what was queued before it began: between updates,
\* a task that was put into a shard of the pool of its time is in a shard of the current
\* one, however many updates there were since.
QueuedTasksRedistributed ==
  update.pc \in {"idle", "asked"} =>
    \A t \in Task : at[t] = "all" /\ pushed[t] < pool /\ shard[t] < Totals[pushed[t]]
                     => shard[t] < Totals[conf]

\* The loop makes progress: one coordinator that works is enough for every
\* configuration to be stored, whatever the others do.  Coordinators that can't be
\* connected to, hang up or send nonsense are passed over, and each update ends: the
\* redistribution stops and the workers of the old pool leave.
ConfigurationArrives == <>(conf = Len(Totals) \/ stage # "running")

\* "To ensure all remote tasks are handled before exit": when the destructor is over, no
\* task is with a worker or in a shard of the last configuration, whether the end came
\* before, during or after an update.  (What a thread with an older configuration pushed
\* into an abandoned shard is destroyed with the queue.)
RemoteTasksHandled ==
  stage = "exited" =>
    \A t \in Task : at[t] \notin {"cache", "held"} /\ (at[t] = "all" => shard[t] >= Totals[conf])

\* The destructor returns, at whatever moment of an update it begins.
DestructorReturns == (stage # "running") ~> (stage = "exited")
=============================================================================
