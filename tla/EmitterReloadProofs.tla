------------------------- MODULE EmitterReloadProofs ------------------------
(***************************************************************************)
(* Proofs about EmitterReload for any tasks, caching workers, sequence of  *)
(* configurations and coordinators: no shard of the current pool is        *)
(* without a worker, what was queued is redistributed, and nothing is left *)
(* when the destructor is over.                                            *)
(*                                                                         *)
(* The invariant has five parts: the types, how far an update and the end  *)
(* are (UpdateInv), where queued tasks are (QueueInv), and who holds a     *)
(* task or has left (HoldInv, EndInv).                                     *)
(***************************************************************************)
EXTENDS EmitterReload, TLAPS

Places == {"new", "cache", "all", "held", "done", "failed", "dropped"}
Stages == {"running", "allClosed", "cacheClosed", "ending", "reloaded", "polled", "joined",
           "exited"}
Pcs == {"unborn", "start", "ready", "busy", "gone"}
Threads == [pc : Pcs, total : Nat, task : Task \union {None}]
Updates == [pc : {"idle", "asked", "drain", "push", "stop", "join", "ended"},
            shard : Nat, task : Task \union {None}]

\* The total_shards that a thread may have read.
Known(n) == \E g \in Gen : n = Totals[g]

TypeInv ==
  /\ at \in [Task -> Places] /\ shard \in [Task -> Shard]
  /\ hopped \in [Task -> BOOLEAN] /\ pushed \in [Task -> Nat]
  /\ remote \in [Remote -> Threads] /\ cacher \in [Cacher -> Threads]
  /\ \A w \in Remote : /\ remote[w].pc \in {"ready", "busy"} => Known(remote[w].total)
                       /\ remote[w].pc = "busy" => remote[w].task \in Task
  /\ \A c \in Cacher : /\ cacher[c].pc \in {"ready", "busy"} => Known(cacher[c].total)
                       /\ cacher[c].pc = "busy" => cacher[c].task \in Task
  /\ conf \in Gen /\ pool \in Gen
  /\ stop \in [Gen \union {Last} -> BOOLEAN]
  /\ update \in Updates
  /\ update.pc = "push" => update.task \in Task
  /\ stage \in Stages

\* The stages after the last Reload() has begun.
Ending == stage \in {"reloaded", "polled", "joined", "exited"}

\* An update is between the pools and conf_.
Swapped == update.pc \in {"drain", "push"} \/ (update.pc \in {"stop", "join"} /\ ~Ending)

\* The new pool is ahead of conf_ while an update is going on; the pools that stop are
\* older, until the end; the workers of the current pool are there.
UpdateInv ==
  /\ pool = IF Swapped THEN conf + 1 ELSE conf
  /\ update.pc = "asked" => pool < Len(Totals)
  /\ update.pc \in {"drain", "push"} => update.shard \in Totals[pool] .. Totals[conf] - 1
  /\ Ending => update.pc \in {"stop", "join", "ended"}
  /\ \A g \in Gen : stop[g] => g < pool \/ Ending
  /\ ~stop[Last]
  /\ stage = "running" => \A s \in 0 .. Totals[pool] - 1 :
                            remote[<<pool, s>>].pc \notin {"unborn", "gone"}
  /\ Ending => \A s \in 0 .. Totals[conf] - 1 : remote[<<Last, s>>].pc # "unborn"
  /\ \A w \in Remote : w[1] > pool \/ (w[1] = Last /\ ~Ending) => remote[w].pc = "unborn"

\* A task that was put into a shard of its pool is in a shard of the current one, or in
\* one that is still to be emptied.
QueueInv ==
  \A t \in Task : at[t] = "all" =>
    /\ pushed[t] \in 1 .. pool
    /\ pushed[t] < pool /\ shard[t] < Totals[pushed[t]] =>
         \/ shard[t] < Totals[pool]
         \/ update.pc \in {"drain", "push"} /\ shard[t] \in update.shard .. Totals[conf] - 1

\* A task that is in no queue is with somebody.
HeldBy(t) ==
  \/ \E c \in Cacher : cacher[c].pc = "busy" /\ cacher[c].task = t
  \/ \E w \in Remote : remote[w].pc = "busy" /\ remote[w].task = t
  \/ update.pc = "push" /\ update.task = t

HoldInv == \A t \in Task : at[t] = "held" => HeldBy(t)

\* Whoever left, unless it was told to, has seen its queue closed and empty.
Left ==
  /\ \A c \in Cacher : cacher[c].pc = "gone" => CacheClosed /\ \A t \in Task : at[t] # "cache"
  /\ \A w \in Remote : w[1] = Last /\ remote[w].pc = "gone" => AllClosed /\ InShard(w[2]) = {}

\* And how far the end is.
EndInv ==
  /\ Left
  /\ stage \in {"joined", "exited"} => \A c \in Cacher : cacher[c].pc = "gone"
  /\ stage = "exited" => /\ \A w \in Remote : remote[w].pc \in {"unborn", "gone"}
                         /\ update.pc = "ended"
  /\ stage \in {"polled", "joined"} => update.pc = "ended"

IInv == TypeInv /\ UpdateInv /\ QueueInv /\ HoldInv /\ EndInv
-----------------------------------------------------------------------------
(* Facts about shards *)

\* The configurations.
LEMMA TotalsFacts ==
  /\ Len(Totals) \in Nat /\ 1 \in Gen
  /\ \A g \in Gen : g \in Nat /\ Totals[g] \in Nat /\ Totals[g] >= 2
  /\ \A g \in Gen, s \in Nat : s < Totals[g] => s \in Shard /\ <<g, s>> \in Remote
  /\ \A s \in Shard : s \in Nat /\ <<Last, s>> \in Remote
<1>1. Len(Totals) \in Nat /\ 1 \in Gen
  BY ReloadAssumption DEF Gen
<1>2. ASSUME NEW g \in Gen
      PROVE  g \in Nat /\ Totals[g] \in Nat /\ Totals[g] >= 2
  BY ReloadAssumption DEF Gen
<1>3. ASSUME NEW g \in Gen, NEW s \in Nat, s < Totals[g]
      PROVE  s \in Shard /\ <<g, s>> \in Remote
  <2>1. s \in Shard
    BY <1>2, <1>3 DEF Shard
  <2> QED  BY <1>3, <2>1, Zenon DEF Remote
<1>4. ASSUME NEW s \in Shard
      PROVE  s \in Nat /\ <<Last, s>> \in Remote
  BY <1>2 DEF Shard, Remote
<1> QED  BY <1>1, <1>2, <1>3, <1>4, Zenon

\* A pool is not the last one, and a worker has a shard.
LEMMA RemoteFacts ==
  ASSUME NEW w \in Remote
  PROVE  /\ w = <<w[1], w[2]>> /\ w[2] \in Shard
         /\ w[1] \in Gen \union {Last}
         /\ w[1] # Last => w[2] < Totals[w[1]]
  BY TotalsFacts DEF Remote, Last

\* A shard of a configuration has a worker in its pool and, in the end, in the last one.
LEMMA ShardFacts ==
  ASSUME NEW g \in Gen, NEW s \in 0 .. Totals[g] - 1
  PROVE  /\ g \in Nat /\ s \in Nat /\ s < Totals[g] /\ s \in Shard
         /\ <<g, s>> \in Remote /\ <<Last, s>> \in Remote
<1>1. g \in Nat /\ Totals[g] \in Nat
  BY TotalsFacts, Zenon
<1>2. s \in Nat /\ s < Totals[g]
  BY <1>1
<1>3. s \in Shard /\ <<g, s>> \in Remote
  BY <1>2, TotalsFacts, Zenon
<1> QED  BY <1>1, <1>2, <1>3, TotalsFacts, Zenon

\* CalculateShard() is in range.
LEMMA HashInRange ==
  ASSUME NEW t \in Task, NEW g \in Gen
  PROVE  Hash[t] % Totals[g] \in 0 .. Totals[g] - 1 /\ Hash[t] % Totals[g] \in Shard
<1>1. Hash[t] \in Nat /\ Totals[g] \in Nat /\ Totals[g] > 0
  BY ReloadAssumption, TotalsFacts
<1>2. Hash[t] % Totals[g] \in 0 .. Totals[g] - 1
  BY <1>1
<1>3. Hash[t] % Totals[g] \in Nat /\ Hash[t] % Totals[g] < Totals[g]
  BY <1>1, <1>2
<1>4. Hash[t] % Totals[g] \in Shard
  BY <1>3, TotalsFacts, Zenon
<1> QED  BY <1>2, <1>4, Zenon

\* So is FindNewShard().
LEMMA NewShardInRange ==
  ASSUME NEW g \in Gen, NEW s \in Shard, NEW n \in FindNewShard(Totals[g], s)
  PROVE  n \in Shard
<1>1. Totals[g] \in Nat /\ Totals[g] >= 2 /\ s \in Nat
  BY TotalsFacts, Zenon
<1>2. PICK m \in 0 .. Totals[g] - 2 : n = IF m >= s THEN m + 1 ELSE m
  BY Zenon DEF FindNewShard
<1>3. n \in Nat /\ n < Totals[g]
  BY <1>1, <1>2
<1> QED  BY <1>3, TotalsFacts, Zenon
-----------------------------------------------------------------------------
(* What a step does to the tasks *)

TaskTypes ==
  /\ at \in [Task -> Places] /\ shard \in [Task -> Shard]
  /\ hopped \in [Task -> BOOLEAN] /\ pushed \in [Task -> Nat]

\* Closed queues get no new tasks, and a queued task stays where it is.
Calm ==
  \A t \in Task :
    /\ at'[t] = "cache" => at[t] = "cache" \/ ~CacheClosed
    /\ at'[t] = "all" => \/ at[t] = "all" /\ shard'[t] = shard[t] /\ pushed'[t] = pushed[t]
                         \/ ~AllClosed /\ pushed'[t] = pool

\* Of the tasks that are held afterwards, only those in new were not held before, and
\* none of gone is held any more.
Held(new, gone) ==
  \A t \in Task : at'[t] = "held" => t \in new \/ (at[t] = "held" /\ t \notin gone)

\* A push.
LEMMA PushTasks ==
  ASSUME TypeInv, NEW t \in Task, NEW s \in Shard, Push(t, s), hopped' \in [Task -> BOOLEAN]
  PROVE  TaskTypes' /\ Calm /\ Held({}, {t})
<1>1. TaskTypes'
  BY TotalsFacts, Zenon DEF TypeInv, TaskTypes, Push, Places
<1>2. \A u \in Task : u # t => at'[u] = at[u] /\ shard'[u] = shard[u] /\ pushed'[u] = pushed[u]
  BY Zenon DEF TypeInv, Push
<1>3. at'[t] = (IF AllClosed THEN "dropped" ELSE "all") /\ pushed'[t] = pool
  BY Zenon DEF TypeInv, Push
<1> QED  BY <1>1, <1>2, <1>3, Zenon DEF Calm, Held

\* A task is handed over, dropped, or enters the open cache_tasks_.
LEMMA EndTasks ==
  ASSUME TypeInv, NEW t \in Task, NEW x \in {"done", "failed", "dropped", "cache"}, End(t, x),
         x = "cache" => ~CacheClosed
  PROVE  TaskTypes' /\ Calm /\ Held({}, {t})
<1>1. TaskTypes'
  BY Zenon DEF TypeInv, TaskTypes, End, Places
<1>2. UNCHANGED <<shard, pushed>> /\ \A u \in Task : at'[u] = IF u = t THEN x ELSE at[u]
  BY Zenon DEF TypeInv, End
<1> QED  BY <1>1, <1>2, Zenon DEF Calm, Held

\* A task is popped.
LEMMA HoldTasks ==
  ASSUME TypeInv, NEW t \in Task, Hold(t)
  PROVE  TaskTypes' /\ Calm /\ Held({t}, {})
<1>1. TaskTypes'
  BY Zenon DEF TypeInv, TaskTypes, Hold, Places
<1>2. UNCHANGED <<shard, pushed>> /\ \A u \in Task : at'[u] = IF u = t THEN "held" ELSE at[u]
  BY Zenon DEF TypeInv, Hold
<1> QED  BY <1>1, <1>2, Zenon DEF Calm, Held

\* Nothing happens to the tasks.
LEMMA SameTasks ==
  ASSUME TypeInv, UNCHANGED taskVars
  PROVE  TaskTypes' /\ Calm /\ Held({}, {})
  BY Zenon DEF TypeInv, TaskTypes, taskVars, Calm, Held

\* Between the steps of an update, what is queued stays where it should be.
LEMMA QueueKeeps ==
  ASSUME TypeInv, QueueInv, Calm, UNCHANGED <<conf, pool>>,
         update.pc \in {"drain", "push"} =>
           update'.pc \in {"drain", "push"} /\ update'.shard = update.shard
  PROVE  QueueInv'
<1> SUFFICES ASSUME NEW t \in Task, at'[t] = "all"
             PROVE  /\ pushed'[t] \in 1 .. pool
                    /\ pushed'[t] < pool /\ shard'[t] < Totals[pushed'[t]] =>
                         \/ shard'[t] < Totals[pool]
                         \/ /\ update'.pc \in {"drain", "push"}
                            /\ shard'[t] \in update'.shard .. Totals[conf] - 1
  BY Zenon DEF QueueInv
<1>1. pool \in Nat /\ pool >= 1
  BY TotalsFacts DEF TypeInv, Gen
<1>2. CASE pushed'[t] = pool
  BY <1>1, <1>2
<1>3. CASE at[t] = "all" /\ shard'[t] = shard[t] /\ pushed'[t] = pushed[t]
  BY <1>3, Zenon DEF QueueInv
<1> QED  BY <1>2, <1>3, Zenon DEF Calm

\* What is closed and empty stays so.
LEMMA EmptyStays ==
  ASSUME TypeInv, Calm
  PROVE  /\ CacheClosed /\ (\A t \in Task : at[t] # "cache") => \A t \in Task : at'[t] # "cache"
         /\ \A s \in Shard : AllClosed /\ InShard(s) = {} => InShard(s)' = {}
  BY Zenon DEF Calm, InShard
-----------------------------------------------------------------------------
(* The caching workers *)

OnlyCacher(c) ==
  /\ cacher' \in [Cacher -> Threads]
  /\ \A d \in Cacher \ {c} : cacher'[d] = cacher[d]
  /\ UNCHANGED <<remote, conf, pool, stop, update, stage>>

\* A step of a caching worker keeps the invariant.
LEMMA CacherKeeps ==
  ASSUME IInv, NEW c \in Cacher, OnlyCacher(c), TaskTypes', Calm,
         NEW new, NEW gone, Held(new, gone),
         \A t \in Task : t \in new => cacher'[c].pc = "busy" /\ cacher'[c].task = t,
         cacher[c].pc = "busy" => cacher[c].task \in gone,
         cacher'[c].pc \in {"ready", "busy"} => Known(cacher'[c].total),
         cacher'[c].pc = "busy" => cacher'[c].task \in Task,
         cacher[c].pc # "gone",
         cacher'[c].pc = "gone" => CacheClosed /\ \A t \in Task : at[t] # "cache"
  PROVE  IInv'
<1>1. TypeInv'
  BY Zenon DEF IInv, TypeInv, TaskTypes, OnlyCacher
<1>2. UpdateInv'
  BY Zenon DEF IInv, UpdateInv, OnlyCacher, Swapped, Ending
<1>3. QueueInv'
  BY QueueKeeps, Zenon DEF IInv, OnlyCacher
<1>4. HoldInv'
  <2> SUFFICES ASSUME NEW t \in Task, at'[t] = "held"
               PROVE  HeldBy(t)'
    BY Zenon DEF HoldInv
  <2>1. CASE t \in new
    BY <2>1, Zenon DEF HeldBy
  <2>2. CASE at[t] = "held" /\ t \notin gone
    <3>1. HeldBy(t)
      BY <2>2, Zenon DEF IInv, HoldInv
    <3>2. ASSUME NEW d \in Cacher, cacher[d].pc = "busy", cacher[d].task = t
          PROVE  cacher'[d] = cacher[d]
      BY <2>2, <3>2, Zenon DEF OnlyCacher
    <3> QED  BY <3>1, <3>2, Zenon DEF HeldBy, OnlyCacher
  <2> QED  BY <2>1, <2>2, Zenon DEF Held
<1>5. EndInv'
  <2>0. EndInv /\ TypeInv
    BY Zenon DEF IInv
  <2>1. CacheClosed' = CacheClosed /\ AllClosed' = AllClosed /\ UNCHANGED <<remote, stage, update>>
    BY Zenon DEF OnlyCacher, CacheClosed, AllClosed
  <2>2. ASSUME NEW d \in Cacher, cacher'[d].pc = "gone"
        PROVE  CacheClosed /\ \A t \in Task : at'[t] # "cache"
    <3>1. CacheClosed /\ \A t \in Task : at[t] # "cache"
      BY <2>0, <2>2, Zenon DEF EndInv, Left, OnlyCacher
    <3> QED  BY <2>0, <3>1, EmptyStays, Zenon
  <2>3. ASSUME NEW w \in Remote, w[1] = Last, remote[w].pc = "gone"
        PROVE  AllClosed /\ InShard(w[2])' = {}
    BY <2>0, <2>3, EmptyStays, RemoteFacts, Zenon DEF EndInv, Left
  <2>4. \A d \in Cacher : cacher[d].pc = "gone" => cacher'[d].pc = "gone"
    BY Zenon DEF OnlyCacher
  <2> QED  BY <2>0, <2>1, <2>2, <2>3, <2>4, Zenon DEF EndInv, Left
<1> QED  BY <1>1, <1>2, <1>3, <1>4, <1>5, Zenon DEF IInv

\* Every step of a caching worker is one of these.
LEMMA CacheStepKeeps ==
  ASSUME IInv, NEW c \in Cacher, CacheStep(c)
  PROVE  IInv'
<1>0. TypeInv /\ cacher \in [Cacher -> Threads] /\ conf \in Gen /\ None \notin Task
  BY ReloadAssumption, Zenon DEF IInv, TypeInv
<1>1. CASE CacheConf(c)
  <2>1. TaskTypes' /\ Calm /\ Held({}, {})
    BY <1>0, <1>1, SameTasks, Zenon DEF CacheConf
  <2>2. /\ cacher[c].pc = "start" /\ cacher'[c].pc = "ready" /\ cacher'[c].total = Totals[conf]
        /\ OnlyCacher(c)
    BY <1>0, <1>1, TotalsFacts, Zenon DEF CacheConf, OnlyCacher, Threads, Pcs
  <2> QED  BY <1>0, <2>1, <2>2, CacherKeeps DEF Known
<1>2. CASE CachePop(c)
  <2>1. PICK t \in Task : /\ at[t] = "cache" /\ Hold(t) /\ cacher[c].pc = "ready"
                          /\ cacher' = [cacher EXCEPT ![c].pc = "busy", ![c].task = t]
    BY <1>2, Zenon DEF CachePop
  <2>2. TaskTypes' /\ Calm /\ Held({t}, {})
    BY <1>0, <2>1, HoldTasks, Zenon
  <2>3. /\ cacher'[c].pc = "busy" /\ cacher'[c].task = t /\ cacher'[c].total = cacher[c].total
        /\ OnlyCacher(c)
    BY <1>0, <1>2, <2>1, Zenon DEF CachePop, OnlyCacher, Threads, Pcs
  <2>4. Known(cacher'[c].total)
    BY <1>0, <2>1, <2>3, Zenon DEF TypeInv
  <2>5. \A u \in Task : u \in {t} => cacher'[c].pc = "busy" /\ cacher'[c].task = u
    BY <2>3, Zenon
  <2>6. cacher[c].pc = "ready" /\ cacher'[c].pc = "busy" /\ cacher'[c].task \in Task
    BY <2>1, <2>3, Zenon
  <2> QED  BY <2>2, <2>3, <2>4, <2>5, <2>6, CacherKeeps, Zenon
<1>3. CASE CacheNone(c)
  <2>1. TaskTypes' /\ Calm /\ Held({}, {})
    BY <1>0, <1>3, SameTasks, Zenon DEF CacheNone
  <2>2. /\ cacher[c].pc = "ready" /\ cacher'[c].pc = "gone" /\ OnlyCacher(c)
        /\ CacheClosed /\ \A t \in Task : at[t] # "cache"
    BY <1>0, <1>3, Zenon DEF CacheNone, OnlyCacher, Threads, Thread, Pcs
  <2> QED  BY <2>1, <2>2, CacherKeeps
<1>4. CASE CacheMiss(c)
  <2> DEFINE t == cacher[c].task
  <2>1. cacher[c].pc = "busy" /\ t \in Task /\ Known(cacher[c].total)
    BY <1>0, <1>4, Zenon DEF CacheMiss, TypeInv
  <2>2. Hash[t] % cacher[c].total \in Shard
    BY <2>1, HashInRange, Zenon DEF Known
  <2>3. Push(t, Hash[t] % cacher[c].total) /\ hopped' \in [Task -> BOOLEAN]
    BY <1>0, <1>4, Zenon DEF CacheMiss, TypeInv
  <2>4. TaskTypes' /\ Calm /\ Held({}, {t})
    BY <1>0, <2>1, <2>2, <2>3, PushTasks, Zenon
  <2>5. cacher'[c].pc = "start" /\ OnlyCacher(c)
    BY <1>0, <1>4, Zenon DEF CacheMiss, OnlyCacher, Threads, Thread, Pcs
  <2> QED  BY <2>1, <2>4, <2>5, CacherKeeps
<1>5. CASE CacheOut(c)
  <2> DEFINE t == cacher[c].task
  <2>1. cacher[c].pc = "busy" /\ t \in Task
    BY <1>0, <1>5, Zenon DEF CacheOut, TypeInv
  <2>2. TaskTypes' /\ Calm /\ Held({}, {t})
    BY <1>0, <1>5, <2>1, EndTasks, Zenon DEF CacheOut
  <2>3. cacher'[c].pc = "start" /\ OnlyCacher(c)
    BY <1>0, <1>5, Zenon DEF CacheOut, OnlyCacher, Threads, Thread, Pcs
  <2> QED  BY <2>1, <2>2, <2>3, CacherKeeps
<1> QED  BY <1>1, <1>2, <1>3, <1>4, <1>5, Zenon DEF CacheStep
-----------------------------------------------------------------------------
(* The remote workers *)

OnlyRemote(w) ==
  /\ remote' \in [Remote -> Threads]
  /\ \A v \in Remote \ {w} : remote'[v] = remote[v]
  /\ UNCHANGED <<cacher, conf, pool, stop, update, stage>>

\* A worker leaves when its pool is told to stop, or when it finds nothing in the closed
\* queue.
MayLeave(w) == stop[w[1]] \/ (AllClosed /\ InShard(w[2]) = {})

\* A step of a remote worker keeps the invariant.
LEMMA RemoteKeeps ==
  ASSUME IInv, NEW w \in Remote, OnlyRemote(w), TaskTypes', Calm,
         NEW new, NEW gone, Held(new, gone),
         \A t \in Task : t \in new => remote'[w].pc = "busy" /\ remote'[w].task = t,
         remote[w].pc = "busy" => remote[w].task \in gone,
         remote'[w].pc \in {"ready", "busy"} => Known(remote'[w].total),
         remote'[w].pc = "busy" => remote'[w].task \in Task,
         remote[w].pc \notin {"unborn", "gone"}, remote'[w].pc # "unborn",
         remote'[w].pc = "gone" => MayLeave(w)
  PROVE  IInv'
<1>0. TypeInv /\ UpdateInv /\ EndInv
  BY Zenon DEF IInv
<1>1. TypeInv'
  BY <1>0, Zenon DEF TypeInv, TaskTypes, OnlyRemote
<1>2. UpdateInv'
  <2>1. Swapped' = Swapped /\ Ending' = Ending /\ UNCHANGED <<conf, pool, stop, update, stage>>
    BY Zenon DEF OnlyRemote, Swapped, Ending
  <2>2. \A v \in Remote : remote[v].pc # "unborn" => remote'[v].pc # "unborn"
    BY Zenon DEF OnlyRemote
  <2>3. ASSUME Ending, NEW s \in 0 .. Totals[conf] - 1
        PROVE  remote'[<<Last, s>>].pc # "unborn"
    <3>1. conf \in Gen
      BY <1>0, Zenon DEF TypeInv
    <3>2. <<Last, s>> \in Remote
      BY <3>1, ShardFacts, Zenon
    <3> QED  BY <1>0, <2>2, <2>3, <3>2, Zenon DEF UpdateInv
  <2>4. ASSUME stage = "running", NEW s \in 0 .. Totals[pool] - 1
        PROVE  remote'[<<pool, s>>].pc \notin {"unborn", "gone"}
    <3>1. <<pool, s>> \in Remote /\ pool \in Gen
      BY <1>0, TotalsFacts DEF TypeInv
    <3>2. remote[<<pool, s>>].pc \notin {"unborn", "gone"}
      BY <1>0, <2>4, Zenon DEF UpdateInv
    <3>3. ~stop[pool]
      <4>1. ~Ending /\ ~(pool < pool)
        BY <2>4, <3>1, TotalsFacts DEF Ending
      <4> QED  BY <1>0, <3>1, <4>1, Zenon DEF UpdateInv
    <3>4. CASE w = <<pool, s>>
      <4>1. ~MayLeave(w)
        BY <2>4, <3>3, <3>4, Zenon DEF MayLeave, AllClosed
      <4> QED  BY <3>4, <4>1, Zenon
    <3>5. CASE w # <<pool, s>>
      BY <3>1, <3>2, <3>5, Zenon DEF OnlyRemote
    <3> QED  BY <3>4, <3>5, Zenon
  <2>5. ASSUME NEW v \in Remote, v[1] > pool \/ (v[1] = Last /\ ~Ending)
        PROVE  remote'[v].pc = "unborn"
    BY <1>0, <2>5, Zenon DEF UpdateInv, OnlyRemote
  <2> QED  BY <1>0, <2>1, <2>3, <2>4, <2>5, Zenon DEF UpdateInv
<1>3. QueueInv'
  BY QueueKeeps, Zenon DEF IInv, OnlyRemote
<1>4. HoldInv'
  <2> SUFFICES ASSUME NEW t \in Task, at'[t] = "held"
               PROVE  HeldBy(t)'
    BY Zenon DEF HoldInv
  <2>1. CASE t \in new
    BY <2>1, Zenon DEF HeldBy
  <2>2. CASE at[t] = "held" /\ t \notin gone
    <3>1. HeldBy(t)
      BY <2>2, Zenon DEF IInv, HoldInv
    <3>2. ASSUME NEW v \in Remote, remote[v].pc = "busy", remote[v].task = t
          PROVE  remote'[v] = remote[v]
      BY <2>2, <3>2, Zenon DEF OnlyRemote
    <3> QED  BY <3>1, <3>2, Zenon DEF HeldBy, OnlyRemote
  <2> QED  BY <2>1, <2>2, Zenon DEF Held
<1>5. EndInv'
  <2>1. CacheClosed' = CacheClosed /\ AllClosed' = AllClosed /\ UNCHANGED <<cacher, stage, update>>
    BY Zenon DEF OnlyRemote, CacheClosed, AllClosed
  <2>2. ASSUME NEW c \in Cacher, cacher[c].pc = "gone"
        PROVE  CacheClosed /\ \A t \in Task : at'[t] # "cache"
    BY <1>0, <2>2, EmptyStays, Zenon DEF EndInv, Left
  <2>3. ASSUME NEW v \in Remote, v[1] = Last, remote'[v].pc = "gone"
        PROVE  AllClosed /\ InShard(v[2])' = {}
    <3>1. AllClosed /\ InShard(v[2]) = {}
      <4>1. CASE v = w
        BY <1>0, <2>3, <4>1, Zenon DEF MayLeave, UpdateInv
      <4>2. CASE v # w
        BY <1>0, <2>3, <4>2, Zenon DEF EndInv, Left, OnlyRemote
      <4> QED  BY <4>1, <4>2, Zenon
    <3> QED  BY <1>0, <3>1, EmptyStays, RemoteFacts, Zenon
  <2>4. stage # "exited"
    BY <1>0, Zenon DEF EndInv, Left
  <2> QED  BY <1>0, <2>1, <2>2, <2>3, <2>4, Zenon DEF EndInv, Left
<1> QED  BY <1>1, <1>2, <1>3, <1>4, <1>5, Zenon DEF IInv

\* What a worker keeps when it lets its task go.
LEMMA ReleaseThread ==
  ASSUME TypeInv, NEW w \in Remote, remote[w].pc = "busy", Release(w),
         UNCHANGED <<cacher, conf, pool, stop, update, stage>>
  PROVE  /\ OnlyRemote(w) /\ remote'[w].pc = "ready" /\ Known(remote'[w].total)
         /\ remote[w].task \in Task
<1>1. /\ remote \in [Remote -> Threads] /\ None \notin Task
      /\ Known(remote[w].total) /\ remote[w].task \in Task
  BY ReloadAssumption, Zenon DEF TypeInv
<1>2. remote'[w].pc = "ready" /\ remote'[w].total = remote[w].total /\ OnlyRemote(w)
  BY <1>1, Zenon DEF Release, OnlyRemote, Threads, Pcs
<1> QED  BY <1>1, <1>2, Zenon

\* Every step of a remote worker is one of these.
LEMMA RemoteStepKeeps ==
  ASSUME IInv, NEW w \in Remote, RemoteStep(w)
  PROVE  IInv'
<1>0. /\ TypeInv /\ remote \in [Remote -> Threads] /\ conf \in Gen /\ None \notin Task
      /\ w[2] \in Shard
  BY ReloadAssumption, RemoteFacts, Zenon DEF IInv, TypeInv
<1>1. CASE RemoteConf(w)
  <2>1. TaskTypes' /\ Calm /\ Held({}, {})
    BY <1>0, <1>1, SameTasks, Zenon DEF RemoteConf
  <2>2. /\ remote[w].pc = "start" /\ remote'[w].pc = "ready" /\ remote'[w].total = Totals[conf]
        /\ OnlyRemote(w)
    BY <1>0, <1>1, TotalsFacts, Zenon DEF RemoteConf, OnlyRemote, Threads, Pcs
  <2> QED  BY <1>0, <2>1, <2>2, RemoteKeeps DEF Known
<1>2. CASE RemotePop(w)
  <2>1. PICK t \in Task : /\ Hold(t) /\ remote[w].pc = "ready"
                          /\ remote' = [remote EXCEPT ![w].pc = "busy", ![w].task = t]
    BY <1>2, Zenon DEF RemotePop, Available, InShard
  <2>2. TaskTypes' /\ Calm /\ Held({t}, {})
    BY <1>0, <2>1, HoldTasks, Zenon
  <2>3. /\ remote'[w].pc = "busy" /\ remote'[w].task = t /\ remote'[w].total = remote[w].total
        /\ OnlyRemote(w)
    BY <1>0, <1>2, <2>1, Zenon DEF RemotePop, OnlyRemote, Threads, Pcs
  <2>4. Known(remote'[w].total)
    BY <1>0, <2>1, <2>3, Zenon DEF TypeInv
  <2>5. \A u \in Task : u \in {t} => remote'[w].pc = "busy" /\ remote'[w].task = u
    BY <2>3, Zenon
  <2>6. remote[w].pc = "ready" /\ remote'[w].pc = "busy" /\ remote'[w].task \in Task
    BY <2>1, <2>3, Zenon
  <2> QED  BY <2>2, <2>3, <2>4, <2>5, <2>6, RemoteKeeps, Zenon
<1>3. CASE RemoteLeave(w)
  <2>1. TaskTypes' /\ Calm /\ Held({}, {})
    BY <1>0, <1>3, SameTasks, Zenon DEF RemoteLeave
  <2>2. remote[w].pc = "ready" /\ remote'[w].pc = "gone" /\ OnlyRemote(w)
    BY <1>0, <1>3, Zenon DEF RemoteLeave, OnlyRemote, Threads, Thread, Pcs
  <2>3. MayLeave(w)
    BY <1>3, Zenon DEF RemoteLeave, MayLeave, Available
  <2> QED  BY <2>1, <2>2, <2>3, RemoteKeeps
<1>4. CASE RemoteOut(w)
  <2> DEFINE t == remote[w].task
  <2>1. OnlyRemote(w) /\ remote'[w].pc = "ready" /\ Known(remote'[w].total) /\ t \in Task
    BY <1>0, <1>4, ReleaseThread, Zenon DEF RemoteOut
  <2>2. TaskTypes' /\ Calm /\ Held({}, {t})
    BY <1>0, <1>4, <2>1, EndTasks, Zenon DEF RemoteOut
  <2> QED  BY <1>4, <2>1, <2>2, RemoteKeeps DEF RemoteOut
<1>5. CASE ConnectFailed(w)
  <2> DEFINE t == remote[w].task
  <2>1. /\ OnlyRemote(w) /\ remote'[w].pc = "ready" /\ Known(remote'[w].total) /\ t \in Task
        /\ remote[w].pc = "busy"
    BY <1>0, <1>5, ReleaseThread, Zenon DEF ConnectFailed
  <2>2. TaskTypes' /\ Calm /\ Held({}, {t})
    <3>1. CASE End(t, "failed")
      BY <1>0, <2>1, <3>1, EndTasks, Zenon
    <3>2. CASE /\ hopped' = [hopped EXCEPT ![t] = TRUE]
               /\ \E s \in FindNewShard(remote[w].total, w[2]) : Push(t, s)
      <4>1. hopped' \in [Task -> BOOLEAN]
        BY <1>0, <3>2, Zenon DEF TypeInv
      <4>2. PICK s \in FindNewShard(remote[w].total, w[2]) : Push(t, s)
        BY <3>2, Zenon
      <4>3. Known(remote[w].total)
        BY <1>0, <2>1, Zenon DEF TypeInv
      <4>4. s \in Shard
        BY <1>0, <4>2, <4>3, NewShardInRange, Zenon DEF Known
      <4> QED  BY <1>0, <2>1, <4>1, <4>2, <4>4, PushTasks, Zenon
    <3> QED  BY <1>5, <3>1, <3>2, Zenon DEF ConnectFailed
  <2> QED  BY <2>1, <2>2, RemoteKeeps
<1>6. CASE SendFailed(w)
  <2> DEFINE t == remote[w].task
  <2>1. /\ OnlyRemote(w) /\ remote'[w].pc = "ready" /\ Known(remote'[w].total) /\ t \in Task
        /\ remote[w].pc = "busy"
    BY <1>0, <1>6, ReleaseThread, Zenon DEF SendFailed
  <2>2. Push(t, w[2]) /\ hopped' \in [Task -> BOOLEAN]
    BY <1>0, <1>6, Zenon DEF SendFailed, TypeInv
  <2>3. TaskTypes' /\ Calm /\ Held({}, {t})
    BY <1>0, <2>1, <2>2, PushTasks, Zenon
  <2> QED  BY <2>1, <2>3, RemoteKeeps
<1> QED  BY <1>1, <1>2, <1>3, <1>4, <1>5, <1>6, Zenon DEF RemoteStep
-----------------------------------------------------------------------------
(* Clients, the polling thread and the destructor *)

\* Only tasks that nobody holds move.
LEMMA QuietKeeps ==
  ASSUME IInv, TaskTypes', Calm, Held({}, {}),
         UNCHANGED <<remote, cacher, conf, pool, stop, update, stage>>
  PROVE  IInv'
<1>1. TypeInv'
  BY Zenon DEF IInv, TypeInv, TaskTypes
<1>2. UpdateInv'
  BY Zenon DEF IInv, UpdateInv, Swapped, Ending
<1>3. QueueInv'
  BY QueueKeeps, Zenon DEF IInv
<1>4. HoldInv'
  BY Zenon DEF IInv, HoldInv, HeldBy, Held
<1>5. EndInv'
  <2>1. EndInv /\ TypeInv
    BY Zenon DEF IInv
  <2>2. CacheClosed' = CacheClosed /\ AllClosed' = AllClosed
    BY Zenon DEF CacheClosed, AllClosed
  <2>3. Left'
    BY <2>1, <2>2, EmptyStays, RemoteFacts, Zenon DEF EndInv, Left
  <2> QED  BY <2>1, <2>3, Zenon DEF EndInv
<1> QED  BY <1>1, <1>2, <1>3, <1>4, <1>5, Zenon DEF IInv

\* A new task.
LEMMA SubmitKeeps ==
  ASSUME IInv, NEW t \in Task, Submit(t)
  PROVE  IInv'
<1> DEFINE x == IF CacheClosed THEN "dropped" ELSE "cache"
<1>1. TypeInv /\ End(t, x) /\ x \in {"done", "failed", "dropped", "cache"}
  BY Zenon DEF IInv, Submit
<1>2. TaskTypes' /\ Calm /\ Held({}, {t})
  BY <1>1, EndTasks, Zenon
<1>3. Held({}, {})
  BY <1>2, Zenon DEF Held
<1> QED  BY <1>2, <1>3, QuietKeeps, Zenon DEF Submit

\* In a step of the polling thread or the destructor, whoever holds a task still does, and
\* whoever left has left.
LEMMA OthersKeep ==
  ASSUME IInv, Calm, NEW new, NEW gone, Held(new, gone), UNCHANGED cacher,
         \A w \in Remote : \/ remote'[w] = remote[w]
                           \/ remote[w].pc = "unborn" /\ remote'[w].pc # "gone",
         \A t \in Task : t \in new => update'.pc = "push" /\ update'.task = t,
         update.pc = "push" => update.task \in gone \/ UNCHANGED update,
         CacheClosed => CacheClosed', AllClosed => AllClosed'
  PROVE  HoldInv' /\ Left'
<1>1. HoldInv'
  <2> SUFFICES ASSUME NEW t \in Task, at'[t] = "held"
               PROVE  HeldBy(t)'
    BY Zenon DEF HoldInv
  <2>1. CASE t \in new
    BY <2>1, Zenon DEF HeldBy
  <2>2. CASE at[t] = "held" /\ t \notin gone
    <3>1. HeldBy(t)
      BY <2>2, Zenon DEF IInv, HoldInv
    <3>2. ASSUME NEW v \in Remote, remote[v].pc = "busy", remote[v].task = t
          PROVE  remote'[v] = remote[v]
      BY <3>2, Zenon
    <3>3. ASSUME update.pc = "push", update.task = t
          PROVE  UNCHANGED update
      BY <2>2, <3>3, Zenon
    <3> QED  BY <3>1, <3>2, <3>3, Zenon DEF HeldBy
  <2> QED  BY <2>1, <2>2, Zenon DEF Held
<1>2. Left'
  <2>1. EndInv /\ TypeInv
    BY Zenon DEF IInv
  <2>2. ASSUME NEW c \in Cacher, cacher[c].pc = "gone"
        PROVE  CacheClosed' /\ \A t \in Task : at'[t] # "cache"
    BY <2>1, <2>2, EmptyStays, Zenon DEF EndInv, Left
  <2>3. ASSUME NEW v \in Remote, v[1] = Last, remote'[v].pc = "gone"
        PROVE  AllClosed' /\ InShard(v[2])' = {}
    <3>1. AllClosed /\ InShard(v[2]) = {}
      BY <2>1, <2>3, Zenon DEF EndInv, Left
    <3> QED  BY <2>1, <3>1, EmptyStays, RemoteFacts, Zenon
  <2> QED  BY <2>2, <2>3, Zenon DEF Left
<1> QED  BY <1>1, <1>2, Zenon

\* So it is when no task moves.
LEMMA NothingMoves ==
  ASSUME IInv, UNCHANGED taskVars, UNCHANGED <<remote, cacher>>,
         update.pc = "push" => UNCHANGED update,
         CacheClosed => CacheClosed', AllClosed => AllClosed'
  PROVE  HoldInv' /\ Left'
<1>1. Calm /\ Held({}, {})
  BY SameTasks, Zenon DEF IInv
<1> QED  BY <1>1, OthersKeep

\* A coordinator is asked, or fails.
LEMMA AskKeeps ==
  ASSUME IInv, PollConnect \/ PollFailed \/ PollRejected
  PROVE  IInv'
<1>0. TypeInv /\ UpdateInv /\ QueueInv /\ EndInv
  BY Zenon DEF IInv
<1>1. /\ UNCHANGED taskVars /\ UNCHANGED <<remote, cacher, conf, pool, stop, stage>>
      /\ \/ update.pc = "idle" /\ pool < Len(Totals)
         \/ update.pc = "asked"
      /\ \/ update' = [pc |-> "asked", shard |-> 0, task |-> None] /\ pool < Len(Totals)
         \/ update' = [pc |-> "idle", shard |-> 0, task |-> None]
  BY Zenon DEF PollConnect, PollFailed, PollRejected, NextCoordinator, Updating
<1>2. TaskTypes' /\ Calm /\ Held({}, {})
  BY <1>0, <1>1, SameTasks, Zenon
<1>3. ~Ending /\ ~Ending' /\ ~Swapped /\ ~Swapped'
  BY <1>0, <1>1 DEF UpdateInv, Ending, Swapped
<1>4. TypeInv'
  <2>1. update' \in Updates /\ update'.pc # "push"
    BY <1>1 DEF Updates
  <2> QED  BY <1>0, <1>1, <1>2, <2>1, Zenon DEF TypeInv, TaskTypes
<1>5. UpdateInv'
  <2>1. update'.pc \in {"idle", "asked"} /\ pool < Len(Totals)
    BY <1>0, <1>1 DEF UpdateInv
  <2>2. UNCHANGED <<remote, conf, pool, stop, stage>>
    BY <1>1, Zenon
  <2> QED  BY <1>0, <1>3, <2>1, <2>2, Zenon DEF UpdateInv
<1>6. QueueInv'
  BY <1>0, <1>1, <1>2, QueueKeeps, Zenon
<1>7. HoldInv' /\ Left'
  BY <1>1, <1>2, OthersKeep DEF CacheClosed, AllClosed
<1>8. EndInv'
  BY <1>0, <1>1, <1>3, <1>7, Zenon DEF EndInv, Ending
<1> QED  BY <1>4, <1>5, <1>6, <1>7, <1>8, Zenon DEF IInv

\* The pools are swapped.
LEMMA SwapKeeps ==
  ASSUME IInv, SwapPools
  PROVE  IInv'
<1>0. TypeInv /\ UpdateInv /\ QueueInv /\ EndInv
  BY Zenon DEF IInv
<1>1. /\ update.pc = "asked" /\ ~Ending /\ ~Ending' /\ ~Swapped /\ pool = conf
      /\ pool' = pool + 1 /\ pool' \in Gen /\ pool \in Gen /\ pool \in Nat
      /\ UNCHANGED taskVars /\ UNCHANGED <<cacher, conf, stop, stage>>
  <2>1. /\ update.pc = "asked" /\ pool' = pool + 1
        /\ UNCHANGED taskVars /\ UNCHANGED <<cacher, conf, stop, stage>>
    BY Zenon DEF SwapPools
  <2>2. ~Ending /\ ~Swapped
    BY <1>0, <2>1, Zenon DEF UpdateInv, Swapped
  <2>3. ~Ending'
    BY <2>1, <2>2, Zenon DEF Ending
  <2>4. pool = conf /\ pool < Len(Totals) /\ pool \in Gen
    BY <1>0, <2>1, <2>2, Zenon DEF UpdateInv, TypeInv
  <2>5. pool \in Nat /\ pool + 1 \in Gen
    BY <2>4, TotalsFacts DEF Gen
  <2> QED  BY <2>1, <2>2, <2>3, <2>4, <2>5, Zenon
<1>2. \/ /\ Totals[pool'] < Totals[conf]
         /\ update' = [pc |-> "drain", shard |-> Totals[pool'], task |-> None]
      \/ /\ ~(Totals[pool'] < Totals[conf])
         /\ update' = [pc |-> "stop", shard |-> 0, task |-> None]
  BY <1>1, Zenon DEF SwapPools, AfterSwap, Updating
<1>3. TaskTypes' /\ Calm /\ Held({}, {})
  BY <1>0, <1>1, SameTasks, Zenon
<1>4. /\ remote' \in [Remote -> Threads]
      /\ \A w \in Remote : w[1] = pool' => remote[w].pc = "unborn" /\ remote'[w] = Thread("start")
      /\ \A w \in Remote : w[1] # pool' => remote'[w] = remote[w]
  <2>1. \A w \in Remote : w[1] = pool' => w[1] > pool
    BY <1>1
  <2>2. remote' = [w \in Remote |-> IF w[1] = pool' THEN Thread("start") ELSE remote[w]]
    BY <1>1, Zenon DEF SwapPools
  <2>3. Thread("start") \in Threads
    BY Zenon DEF Thread, Threads, Pcs
  <2> QED  BY <1>0, <2>1, <2>2, <2>3, Zenon DEF UpdateInv, TypeInv
<1>5. TypeInv'
  <2>1. \A w \in Remote : /\ remote'[w].pc \in {"ready", "busy"} => Known(remote'[w].total)
                          /\ remote'[w].pc = "busy" => remote'[w].task \in Task
    BY <1>0, <1>4 DEF TypeInv, Thread
  <2>2. update' \in Updates /\ update'.pc # "push"
    <3>1. Totals[pool'] \in Nat
      BY <1>1, TotalsFacts, Zenon
    <3> QED  BY <1>2, <3>1 DEF Updates
  <2>3. /\ cacher' = cacher /\ conf' = conf /\ stop' = stop /\ stage' = stage /\ pool' \in Gen
        /\ remote' \in [Remote -> Threads]
    BY <1>1, <1>4, Zenon
  <2>4. TaskTypes'
    BY <1>3, Zenon
  <2> QED  BY <1>0, <2>1, <2>2, <2>3, <2>4, Zenon DEF TypeInv, TaskTypes, Known
<1>6. UpdateInv'
  <2>1. Swapped'
    BY <1>1, <1>2 DEF Swapped
  <2>2. update'.pc \in {"drain", "push"} => update'.shard \in Totals[pool'] .. Totals[conf] - 1
    BY <1>1, <1>2, TotalsFacts
  <2>3. ASSUME NEW s \in 0 .. Totals[pool'] - 1
        PROVE  remote'[<<pool', s>>].pc \notin {"unborn", "gone"}
    <3>1. s \in Nat /\ s < Totals[pool']
      BY <1>1, TotalsFacts
    <3>2. <<pool', s>> \in Remote
      BY <1>1, <3>1, TotalsFacts, Zenon
    <3> QED  BY <1>4, <3>2 DEF Thread
  <2>4. \A g \in Gen : stop[g] => g < pool'
    BY <1>0, <1>1, TotalsFacts DEF UpdateInv
  <2>5. ASSUME NEW w \in Remote, w[1] > pool' \/ w[1] = Last
        PROVE  remote'[w].pc = "unborn"
    <3>1. (w[1] > pool \/ w[1] = Last) /\ w[1] # pool'
      BY <1>1, <2>5, RemoteFacts, TotalsFacts DEF Last
    <3> QED  BY <1>0, <1>1, <1>4, <3>1, Zenon DEF UpdateInv
  <2>6. update'.pc # "asked"
    BY <1>2
  <2> QED  BY <1>0, <1>1, <2>1, <2>2, <2>3, <2>4, <2>5, <2>6, Zenon DEF UpdateInv
<1>7. QueueInv'
  <2> SUFFICES ASSUME NEW t \in Task, at[t] = "all"
               PROVE  /\ pushed[t] \in 1 .. pool'
                      /\ pushed[t] < pool' /\ shard[t] < Totals[pushed[t]] =>
                           \/ shard[t] < Totals[pool']
                           \/ /\ update'.pc \in {"drain", "push"}
                              /\ shard[t] \in update'.shard .. Totals[conf] - 1
    BY <1>1, Zenon DEF QueueInv, taskVars
  <2>1. pushed[t] \in 1 .. pool /\ shard[t] \in Nat
    BY <1>0, TotalsFacts, Zenon DEF QueueInv, TypeInv
  <2>2. ASSUME shard[t] < Totals[pushed[t]]
        PROVE  shard[t] < Totals[conf]
    <3>1. CASE pushed[t] = pool
      BY <1>1, <2>2, <3>1, Zenon
    <3>2. CASE pushed[t] < pool
      BY <1>0, <1>1, <2>2, <3>2, Zenon DEF QueueInv
    <3> QED  BY <1>1, <2>1, <3>1, <3>2
  <2>3. Totals[conf] \in Nat /\ Totals[pool'] \in Nat
    BY <1>1, TotalsFacts, Zenon
  <2> QED  BY <1>1, <1>2, <2>1, <2>2, <2>3
<1>8. HoldInv' /\ Left'
  <2>1. \A w \in Remote : \/ remote'[w] = remote[w]
                          \/ remote[w].pc = "unborn" /\ remote'[w].pc # "gone"
    BY <1>4 DEF Thread
  <2> QED  BY <1>1, <1>3, <2>1, OthersKeep DEF CacheClosed, AllClosed
<1>9. EndInv'
  BY <1>0, <1>1, <1>8, Zenon DEF EndInv, Ending
<1> QED  BY <1>5, <1>6, <1>7, <1>8, <1>9, Zenon DEF IInv

\* The steps of the redistribution that stay in a shard.
LEMMA DrainKeeps ==
  ASSUME IInv, DrainPop \/ DrainPush
  PROVE  IInv'
<1>0. TypeInv /\ UpdateInv /\ QueueInv /\ EndInv /\ pool \in Gen /\ None \notin Task
  BY ReloadAssumption, Zenon DEF IInv, TypeInv
<1>1. /\ UNCHANGED <<remote, cacher, conf, pool, stop, stage>>
      /\ update.pc \in {"drain", "push"}
      /\ update' = [pc |-> update'.pc, shard |-> update.shard, task |-> update'.task]
      /\ update'.pc \in {"drain", "push"}
  BY DEF DrainPop, DrainPush, Updating
<1>2. ~Ending /\ ~Ending' /\ Swapped /\ Swapped' /\ update'.shard = update.shard
  BY <1>0, <1>1 DEF UpdateInv, Ending, Swapped
<1>3. /\ TaskTypes' /\ Calm /\ HoldInv' /\ Left'
      /\ update'.task \in Task \union {None}
      /\ update'.pc = "push" => update'.task \in Task
  <2>1. CASE DrainPop
    <3>1. PICK t \in Task : Hold(t) /\ update.pc = "drain" /\ update'.pc = "push" /\ update'.task = t
      BY <2>1 DEF DrainPop, InShard, Updating
    <3>2. TaskTypes' /\ Calm /\ Held({t}, {})
      BY <1>0, <3>1, HoldTasks, Zenon
    <3>3. \A u \in Task : u \in {t} => update'.pc = "push" /\ update'.task = u
      BY <3>1, Zenon
    <3>4. update.pc # "push" /\ CacheClosed' = CacheClosed /\ AllClosed' = AllClosed
      BY <1>1, <3>1, Zenon DEF CacheClosed, AllClosed
    <3>5. HoldInv' /\ Left'
      BY <1>1, <3>2, <3>3, <3>4, OthersKeep, Zenon
    <3> QED  BY <3>1, <3>2, <3>5, Zenon
  <2>2. CASE DrainPush
    <3> DEFINE t == update.task
    <3>1. t \in Task /\ update'.pc = "drain" /\ update'.task = None
      BY <1>0, <2>2, Zenon DEF DrainPush, Updating, TypeInv
    <3>2. Push(t, Hash[t] % Totals[pool]) /\ hopped' \in [Task -> BOOLEAN]
      BY <1>0, <2>2, Zenon DEF DrainPush, TypeInv
    <3>3. TaskTypes' /\ Calm /\ Held({}, {t})
      BY <1>0, <3>1, <3>2, HashInRange, PushTasks, Zenon
    <3>4. t \in {t} /\ CacheClosed' = CacheClosed /\ AllClosed' = AllClosed
      BY <1>1, Zenon DEF CacheClosed, AllClosed
    <3>5. HoldInv' /\ Left'
      BY <1>1, <3>3, <3>4, OthersKeep
    <3> QED  BY <3>1, <3>3, <3>5, Zenon
  <2> QED  BY <2>1, <2>2, Zenon
<1>4. TypeInv'
  <2>1. update.shard \in Nat
    BY <1>0, Zenon DEF TypeInv, Updates
  <2>2. update' \in Updates
    BY <1>1, <1>3, <2>1 DEF Updates
  <2> QED  BY <1>0, <1>1, <1>3, <2>2, Zenon DEF TypeInv, TaskTypes
<1>5. UpdateInv'
  <2>1. /\ Ending' = Ending /\ Swapped' = Swapped /\ update'.pc # "asked"
        /\ UNCHANGED <<remote, conf, pool, stop, stage>>
    BY <1>1, <1>2, Zenon DEF Ending, Swapped
  <2> QED  BY <1>0, <1>1, <1>2, <2>1, Zenon DEF UpdateInv
<1>6. QueueInv'
  BY <1>0, <1>1, <1>2, <1>3, QueueKeeps, Zenon
<1>7. EndInv'
  BY <1>0, <1>1, <1>2, <1>3, Zenon DEF EndInv, Ending
<1> QED  BY <1>3, <1>4, <1>5, <1>6, <1>7, Zenon DEF IInv

\* The next abandoned shard.
LEMMA DrainNextKeeps ==
  ASSUME IInv, DrainNext
  PROVE  IInv'
<1>0. TypeInv /\ UpdateInv /\ QueueInv /\ EndInv
  BY Zenon DEF IInv
<1>1. /\ UNCHANGED taskVars /\ UNCHANGED <<remote, cacher, conf, pool, stop, stage>>
      /\ update.pc = "drain" /\ InShard(update.shard) = {}
      /\ update.shard \in Totals[pool] .. Totals[conf] - 1
      /\ \/ /\ update.shard + 1 < Totals[conf]
            /\ update' = [pc |-> "drain", shard |-> update.shard + 1, task |-> None]
         \/ /\ ~(update.shard + 1 < Totals[conf])
            /\ update' = [pc |-> "stop", shard |-> 0, task |-> None]
  BY <1>0, Zenon DEF DrainNext, Updating, UpdateInv
<1>2. /\ Totals[conf] \in Nat /\ Totals[pool] \in Nat /\ update.shard \in Nat
      /\ ~Ending /\ ~Ending' /\ Swapped /\ Swapped'
  <2>1. Totals[conf] \in Nat /\ Totals[pool] \in Nat
    BY <1>0, TotalsFacts, Zenon DEF TypeInv
  <2>2. update.shard \in Nat
    BY <1>1, <2>1
  <2>3. ~Ending /\ ~Ending'
    BY <1>0, <1>1, Zenon DEF UpdateInv, Ending
  <2>4. Swapped /\ Swapped'
    BY <1>1, <2>3 DEF Swapped
  <2> QED  BY <2>1, <2>2, <2>3, <2>4, Zenon
<1>3. TaskTypes' /\ Calm /\ Held({}, {})
  BY <1>0, <1>1, SameTasks, Zenon
<1>4. TypeInv'
  <2>1. update' \in Updates /\ update'.pc # "push"
    BY <1>1, <1>2 DEF Updates
  <2> QED  BY <1>0, <1>1, <1>2, <1>3, <2>1, Zenon DEF TypeInv, TaskTypes
<1>5. UpdateInv'
  <2>1. /\ update'.pc \in {"drain", "push"} => update'.shard \in Totals[pool] .. Totals[conf] - 1
        /\ update'.pc # "asked"
    BY <1>1, <1>2
  <2> QED  BY <1>0, <1>1, <1>2, <2>1, Zenon DEF UpdateInv
<1>6. QueueInv'
  <2> SUFFICES ASSUME NEW t \in Task, at[t] = "all"
               PROVE  /\ pushed[t] \in 1 .. pool
                      /\ pushed[t] < pool /\ shard[t] < Totals[pushed[t]] =>
                           \/ shard[t] < Totals[pool]
                           \/ /\ update'.pc \in {"drain", "push"}
                              /\ shard[t] \in update'.shard .. Totals[conf] - 1
    BY <1>1, Zenon DEF QueueInv, taskVars
  <2>1. shard[t] # update.shard /\ shard[t] \in Nat
    BY <1>0, <1>1, TotalsFacts, Zenon DEF InShard, TypeInv
  <2>2. /\ pushed[t] \in 1 .. pool
        /\ pushed[t] < pool /\ shard[t] < Totals[pushed[t]] =>
             shard[t] < Totals[pool] \/ shard[t] \in update.shard .. Totals[conf] - 1
    BY <1>0, Zenon DEF QueueInv
  <2>3. ASSUME shard[t] \in update.shard .. Totals[conf] - 1
        PROVE  update'.pc = "drain" /\ shard[t] \in update'.shard .. Totals[conf] - 1
    <3>1. shard[t] \in update.shard + 1 .. Totals[conf] - 1 /\ update.shard + 1 < Totals[conf]
      BY <1>2, <2>1, <2>3
    <3>2. update' = [pc |-> "drain", shard |-> update.shard + 1, task |-> None]
      BY <1>1, <3>1, Zenon
    <3> QED  BY <3>1, <3>2, Zenon
  <2> QED  BY <2>2, <2>3, Zenon
<1>7. HoldInv' /\ Left'
  BY <1>1, <1>3, OthersKeep, Zenon DEF CacheClosed, AllClosed
<1>8. EndInv'
  BY <1>0, <1>1, <1>2, <1>7, Zenon DEF EndInv, Ending
<1> QED  BY <1>4, <1>5, <1>6, <1>7, <1>8, Zenon DEF IInv

\* The old pool is told to stop.
LEMMA StopKeeps ==
  ASSUME IInv, StopOldPool
  PROVE  IInv'
<1>0. TypeInv /\ UpdateInv /\ QueueInv /\ EndInv
  BY Zenon DEF IInv
<1>1. /\ UNCHANGED taskVars /\ UNCHANGED <<remote, cacher, conf, pool, stage>>
      /\ update.pc = "stop" /\ update' = [pc |-> "join", shard |-> 0, task |-> None]
      /\ stop' = [stop EXCEPT ![conf] = TRUE]
  BY Zenon DEF StopOldPool, Updating
<1>2. conf \in Gen /\ conf \in Nat /\ conf # Last
  BY <1>0, TotalsFacts DEF TypeInv, Gen, Last
<1>3. TaskTypes' /\ Calm /\ Held({}, {})
  BY <1>0, <1>1, SameTasks, Zenon
<1>4. Ending' = Ending /\ Swapped' = Swapped
  BY <1>1, Zenon DEF Ending, Swapped
<1>5. TypeInv'
  <2>1. update' \in Updates /\ update'.pc # "push"
    BY <1>1, Zenon DEF Updates
  <2> QED  BY <1>0, <1>1, <1>2, <1>3, <2>1, Zenon DEF TypeInv, TaskTypes
<1>6. UpdateInv'
  <2>1. \A g \in Gen \union {Last} : stop'[g] => g = conf \/ stop[g]
    BY <1>0, <1>1, Zenon DEF TypeInv
  <2>2. conf < pool \/ Ending
    <3>1. Swapped \/ Ending
      BY <1>1, Zenon DEF Swapped
    <3>2. Swapped => pool = conf + 1
      BY <1>0, Zenon DEF UpdateInv
    <3> QED  BY <1>2, <3>1, <3>2
  <2>3. (\A g \in Gen : stop'[g] => g < pool \/ Ending) /\ ~stop'[Last]
    BY <1>0, <1>2, <2>1, <2>2, Zenon DEF UpdateInv
  <2> QED  BY <1>0, <1>1, <1>4, <2>3, Zenon DEF UpdateInv
<1>7. QueueInv'
  BY <1>0, <1>1, <1>3, QueueKeeps, Zenon
<1>8. HoldInv' /\ Left'
  <2>1. /\ UNCHANGED taskVars /\ UNCHANGED <<remote, cacher>> /\ (update.pc = "push" => UNCHANGED update)
        /\ (CacheClosed => CacheClosed') /\ (AllClosed => AllClosed')
    BY <1>1, Zenon DEF CacheClosed, AllClosed
  <2> QED  BY <2>1, NothingMoves, Zenon
<1>9. EndInv'
  BY <1>0, <1>1, <1>8, Zenon DEF EndInv
<1> QED  BY <1>5, <1>6, <1>7, <1>8, <1>9, Zenon DEF IInv

\* conf_ is stored.
LEMMA StoreKeeps ==
  ASSUME IInv, StoreConf
  PROVE  IInv'
<1>0. TypeInv /\ UpdateInv /\ QueueInv /\ EndInv
  BY Zenon DEF IInv
<1>1. /\ UNCHANGED taskVars /\ UNCHANGED <<remote, cacher, pool, stop, stage>>
      /\ update.pc = "join" /\ update' = [pc |-> "idle", shard |-> 0, task |-> None]
      /\ conf' = pool
  BY Zenon DEF StoreConf, Updating
<1>2. ~Ending /\ ~Ending' /\ Swapped /\ ~Swapped'
  BY <1>0, <1>1, Zenon DEF StoreConf, EndInv, Ending, Swapped
<1>3. TaskTypes' /\ Calm /\ Held({}, {})
  BY <1>0, <1>1, SameTasks, Zenon
<1>4. TypeInv'
  <2>1. update' \in Updates /\ update'.pc # "push"
    BY <1>1, Zenon DEF Updates
  <2> QED  BY <1>0, <1>1, <1>3, <2>1, Zenon DEF TypeInv, TaskTypes
<1>5. UpdateInv'
  BY <1>0, <1>1, <1>2, Zenon DEF UpdateInv
<1>6. QueueInv'
  BY <1>0, <1>1, ZenonT(30) DEF QueueInv, taskVars
<1>7. HoldInv' /\ Left'
  <2>1. /\ UNCHANGED taskVars /\ UNCHANGED <<remote, cacher>> /\ (update.pc = "push" => UNCHANGED update)
        /\ (CacheClosed => CacheClosed') /\ (AllClosed => AllClosed')
    BY <1>1, Zenon DEF CacheClosed, AllClosed
  <2> QED  BY <2>1, NothingMoves, Zenon
<1>8. EndInv'
  BY <1>0, <1>1, <1>2, <1>7, Zenon DEF EndInv, Ending
<1> QED  BY <1>4, <1>5, <1>6, <1>7, <1>8, Zenon DEF IInv

\* The last pool is made.
LEMMA LastKeeps ==
  ASSUME IInv, LastReload
  PROVE  IInv'
<1>0. TypeInv /\ UpdateInv /\ QueueInv /\ EndInv
  BY Zenon DEF IInv
<1>1. /\ UNCHANGED taskVars /\ UNCHANGED <<cacher, conf, pool, stop>>
      /\ update.pc = "idle" /\ update' = [pc |-> "stop", shard |-> 0, task |-> None]
      /\ stage = "ending" /\ stage' = "reloaded"
  BY Zenon DEF LastReload, Updating, Destroy
<1>2. ~Ending /\ Ending' /\ ~Swapped /\ ~Swapped'
  BY <1>1, Zenon DEF Ending, Swapped
<1>3. TaskTypes' /\ Calm /\ Held({}, {})
  BY <1>0, <1>1, SameTasks, Zenon
<1>4. /\ remote' \in [Remote -> Threads]
      /\ \A w \in Remote : \/ remote'[w] = remote[w] /\ (w[1] = Last => ~(w[2] < Totals[conf]))
                           \/ /\ w[1] = Last /\ remote[w].pc = "unborn"
                              /\ remote'[w] = Thread("start")
  <2>1. Thread("start") \in Threads
    BY Zenon DEF Thread, Threads, Pcs
  <2> QED  BY <1>0, <1>2, <2>1, Zenon DEF LastReload, UpdateInv, TypeInv
<1>5. TypeInv'
  <2>1. \A w \in Remote : /\ remote'[w].pc \in {"ready", "busy"} => Known(remote'[w].total)
                          /\ remote'[w].pc = "busy" => remote'[w].task \in Task
    BY <1>0, <1>4 DEF TypeInv, Thread
  <2>2. update' \in Updates /\ update'.pc # "push"
    BY <1>1, Zenon DEF Updates
  <2> QED  BY <1>0, <1>1, <1>3, <1>4, <2>1, <2>2, Zenon DEF TypeInv, TaskTypes, Known, Stages
<1>6. UpdateInv'
  <2>1. ASSUME NEW s \in 0 .. Totals[conf] - 1
        PROVE  remote'[<<Last, s>>].pc # "unborn"
    <3>1. conf \in Gen
      BY <1>0, Zenon DEF TypeInv
    <3>2. <<Last, s>> \in Remote /\ s < Totals[conf]
      BY <3>1, ShardFacts, Zenon
    <3>3. remote'[<<Last, s>>] = Thread("start")
      <4> DEFINE w == <<Last, s>>
      <4>1. w \in Remote /\ w[1] = Last /\ w[2] < Totals[conf]
        BY <3>2, Zenon
      <4> HIDE DEF w
      <4>2. remote'[w] = Thread("start")
        BY <1>4, <4>1, Zenon
      <4> QED  BY <4>2, Zenon DEF w
    <3>4. Thread("start").pc = "start"
      BY Zenon DEF Thread
    <3> QED  BY <3>3, <3>4, Zenon
  <2>2. ASSUME NEW w \in Remote, w[1] > pool
        PROVE  remote'[w].pc = "unborn"
    <3>2. pool \in Gen
      BY <1>0, Zenon DEF TypeInv
    <3>3. pool \in Nat
      BY <3>2, TotalsFacts, Zenon
    <3>1. w[1] # Last
      BY <2>2, <3>3 DEF Last
    <3> QED  BY <1>0, <1>4, <2>2, <3>1, Zenon DEF UpdateInv
  <2> QED  BY <1>0, <1>1, <1>2, <2>1, <2>2, Zenon DEF UpdateInv
<1>7. QueueInv'
  BY <1>0, <1>1, <1>3, QueueKeeps, Zenon
<1>8. HoldInv' /\ Left'
  <2>1. \A w \in Remote : \/ remote'[w] = remote[w]
                          \/ remote[w].pc = "unborn" /\ remote'[w].pc # "gone"
    BY <1>4 DEF Thread
  <2> QED  BY <1>1, <1>3, <2>1, OthersKeep DEF CacheClosed, AllClosed
<1>9. EndInv'
  BY <1>0, <1>1, <1>8, Zenon DEF EndInv
<1> QED  BY <1>5, <1>6, <1>7, <1>8, <1>9, Zenon DEF IInv

\* The steps of the destructor, and the end of the polling thread.
LEMMA DestroyKeeps ==
  ASSUME IInv, CloseQueues \/ PollEnd \/ JoinWorkers
  PROVE  IInv'
<1>0. TypeInv /\ UpdateInv /\ QueueInv /\ EndInv
  BY Zenon DEF IInv
<1>1. /\ UNCHANGED taskVars /\ UNCHANGED <<remote, cacher, conf, pool, stop>>
      /\ \/ UNCHANGED update
         \/ /\ update.pc = "join" /\ Ending
            /\ update' = [pc |-> "ended", shard |-> 0, task |-> None]
  BY Zenon DEF CloseQueues, PollEnd, JoinWorkers, Updating, Destroy, Ending
<1>2. /\ stage' \in Stages /\ (Ending' <=> Ending) /\ stage' # "running"
      /\ CacheClosed => CacheClosed'
  <2>1. CASE CloseQueues
    BY <2>1, Zenon DEF CloseQueues, Destroy, Ending, Stages, CacheClosed
  <2>2. CASE PollEnd
    BY <2>2, Zenon DEF PollEnd, Destroy, Ending, Stages, CacheClosed
  <2>3. CASE JoinWorkers
    BY <2>3, Zenon DEF JoinWorkers, Destroy, Ending, Stages, CacheClosed
  <2> QED  BY <2>1, <2>2, <2>3, Zenon
<1>3. (Swapped' <=> Swapped) /\ (update' = update \/ (update'.pc = "ended" /\ update' \in Updates))
  <2>1. CASE update' = update
    <3>1. update'.pc = update.pc /\ (Ending' <=> Ending)
      BY <1>2, <2>1, Zenon
    <3>2. Swapped' <=> Swapped
      BY <3>1, Zenon DEF Swapped
    <3> QED  BY <2>1, <3>2, Zenon
  <2>2. CASE update.pc = "join" /\ Ending
             /\ update' = [pc |-> "ended", shard |-> 0, task |-> None]
    <3>1. ~Swapped /\ update'.pc = "ended"
      BY <2>2, Zenon DEF Swapped
    <3>2. ~Swapped'
      BY <3>1, Zenon DEF Swapped
    <3>3. update' \in Updates
      BY <2>2, Zenon DEF Updates
    <3> QED  BY <3>1, <3>2, <3>3, Zenon
  <2> QED  BY <1>1, <2>1, <2>2, Zenon
<1>4. TaskTypes' /\ Calm /\ Held({}, {})
  BY <1>0, <1>1, SameTasks, Zenon
<1>5. TypeInv'
  <2>1. UNCHANGED <<remote, cacher, conf, pool, stop>>
    BY <1>1, Zenon
  <2> QED  BY <1>0, <1>2, <1>3, <1>4, <2>1, Zenon DEF TypeInv, TaskTypes
<1>6. UpdateInv'
  <2>1. UNCHANGED <<remote, conf, pool, stop>>
    BY <1>1, Zenon
  <2>2. CASE update' = update
    BY <1>0, <1>2, <1>3, <2>1, <2>2, Zenon DEF UpdateInv
  <2>3. CASE update'.pc = "ended"
    BY <1>0, <1>2, <1>3, <2>1, <2>3, Zenon DEF UpdateInv
  <2> QED  BY <1>3, <2>2, <2>3, Zenon
<1>7. QueueInv'
  BY <1>0, <1>1, <1>4, QueueKeeps, Zenon
<1>8. HoldInv' /\ Left'
  <2>1. CacheClosed => CacheClosed'
    BY <1>2, Zenon
  <2>2. AllClosed => AllClosed'
    BY <1>2, Zenon DEF AllClosed
  <2>3. (update.pc = "push" => UNCHANGED update) /\ UNCHANGED <<remote, cacher>>
    BY <1>1, Zenon
  <2> QED  BY <1>1, <2>1, <2>2, <2>3, NothingMoves, Zenon
<1>9. EndInv'
  <2>1. CASE CloseQueues
    BY <1>0, <1>8, <2>1, Zenon DEF CloseQueues, Destroy, EndInv
  <2>2. CASE PollEnd
    BY <1>0, <1>8, <2>2, Zenon DEF PollEnd, Destroy, Updating, EndInv
  <2>3. CASE JoinWorkers
    BY <1>0, <1>8, <2>3, Zenon DEF JoinWorkers, Destroy, EndInv
  <2> QED  BY <2>1, <2>2, <2>3, Zenon
<1> QED  BY <1>5, <1>6, <1>7, <1>8, <1>9, Zenon DEF IInv
-----------------------------------------------------------------------------
\* The workers of the first pool are ready when the daemon starts.
LEMMA InitIInv == Init => IInv
<1> SUFFICES ASSUME Init PROVE IInv
  BY Zenon
<1>0. /\ 1 \in Gen /\ 1 # Last /\ 0 \in Shard /\ None \notin Task
      /\ Totals[1] \in Nat /\ Thread("unborn") \in Threads /\ Thread("start") \in Threads
      /\ [Thread("ready") EXCEPT !.total = Totals[1]] \in Threads
  <2>1. 1 \in Gen /\ Totals[1] \in Nat /\ 0 < Totals[1]
    BY TotalsFacts
  <2>2. 0 \in Shard
    BY <2>1, TotalsFacts, Zenon
  <2> QED  BY <2>1, <2>2, ReloadAssumption DEF Last, Thread, Threads, Pcs
<1>1. /\ remote \in [Remote -> Threads]
      /\ \A w \in Remote : /\ w[1] = 1 => remote[w].pc = "ready" /\ remote[w].total = Totals[1]
                           /\ w[1] # 1 => remote[w].pc = "unborn"
  BY <1>0, Zenon DEF Init, Thread, Threads
<1>2. cacher \in [Cacher -> Threads] /\ \A c \in Cacher : cacher[c].pc = "start"
  BY <1>0, Zenon DEF Init, Thread
<1>3. TypeInv
  <2>1. update \in Updates /\ update.pc # "push"
    BY Zenon DEF Init, Updates
  <2> QED  BY <1>0, <1>1, <1>2, <2>1, Zenon DEF Init, TypeInv, Places, Stages, Known
<1>4. UpdateInv
  <2>1. ~Ending /\ ~Swapped
    BY Zenon DEF Init, Ending, Swapped
  <2>2. ASSUME NEW s \in 0 .. Totals[1] - 1
        PROVE  remote[<<1, s>>].pc \notin {"unborn", "gone"}
    <3>1. <<1, s>> \in Remote
      BY <1>0, TotalsFacts
    <3> QED  BY <1>1, <3>1, Zenon
  <2>3. \A w \in Remote : w[1] > 1 \/ w[1] = Last => w[1] # 1
    BY <1>0, RemoteFacts, TotalsFacts
  <2> QED  BY <1>0, <1>1, <2>1, <2>2, <2>3, Zenon DEF Init, UpdateInv
<1>5. QueueInv /\ HoldInv
  BY Zenon DEF Init, QueueInv, HoldInv
<1>6. EndInv
  BY <1>1, <1>2, Zenon DEF Init, EndInv, Left
<1> QED  BY <1>3, <1>4, <1>5, <1>6, Zenon DEF IInv

\* Every step keeps the invariant.
LEMMA NextIInv == IInv /\ [Next]_vars => IInv'
<1> SUFFICES ASSUME IInv, [Next]_vars PROVE IInv'
  BY Zenon
<1>1. CASE \E t \in Task : Submit(t)
  BY <1>1, SubmitKeeps, Zenon
<1>2. CASE \E c \in Cacher : CacheStep(c)
  BY <1>2, CacheStepKeeps, Zenon
<1>3. CASE \E w \in Remote : RemoteStep(w)
  BY <1>3, RemoteStepKeeps, Zenon
<1>4. CASE PollStep
  BY <1>4, AskKeeps, SwapKeeps, DrainKeeps, DrainNextKeeps, StopKeeps, StoreKeeps, LastKeeps,
     DestroyKeeps, Zenon DEF PollStep, ReloadStep
<1>5. CASE DestroyStep
  BY <1>5, DestroyKeeps, Zenon DEF DestroyStep
<1>6. CASE UNCHANGED vars
  <2>1. TypeInv /\ UNCHANGED taskVars
    BY <1>6, Zenon DEF IInv, vars, taskVars
  <2> QED  BY <1>6, <2>1, SameTasks, QuietKeeps, Zenon DEF vars
<1> QED  BY <1>1, <1>2, <1>3, <1>4, <1>5, <1>6, Zenon DEF Next

\* The invariant holds throughout.
LEMMA Invariance == Spec => []IInv
  BY InitIInv, NextIInv, PTL DEF Spec

\* No shard of the pool that is current is ever without a worker that goes on: the new
\* pool is there before the old one stops, and an old one is all that stops (Reload(),
\* emitter.cc).
THEOREM ShardsAlwaysServed == Spec => []AlwaysServed
<1>1. IInv => AlwaysServed
  <2> SUFFICES ASSUME IInv, stage = "running", NEW s \in 0 .. Totals[pool] - 1
               PROVE  \E w \in Remote : w[2] = s /\ Live(w)
    BY Zenon DEF AlwaysServed
  <2>1. TypeInv /\ UpdateInv /\ ~Ending
    BY Zenon DEF IInv, Ending
  <2>2. pool \in Gen
    BY <2>1, Zenon DEF TypeInv
  <2>3. <<pool, s>> \in Remote /\ pool \in Nat
    BY <2>2, ShardFacts, Zenon
  <2>4. Live(<<pool, s>>)
    BY <2>1, <2>2, <2>3, Zenon DEF UpdateInv, Live
  <2> QED  BY <2>3, <2>4, Zenon
<1> QED  BY <1>1, Invariance, PTL

\* What was put into a shard of its pool is in a shard of the current one whenever no
\* update is going on (the redistribution of Reload(), emitter.cc).
THEOREM QueuedAreRedistributed == Spec => []QueuedTasksRedistributed
<1>1. IInv => QueuedTasksRedistributed
  BY Zenon DEF IInv, UpdateInv, QueueInv, Swapped, QueuedTasksRedistributed
<1> QED  BY <1>1, Invariance, PTL

\* When ~Emitter() is over, no task is with a thread or in a shard of the configuration:
\* the last pool left each of its shards closed and empty.
THEOREM AllRemoteTasksHandled == Spec => []RemoteTasksHandled
<1>1. IInv => RemoteTasksHandled
  <2> SUFFICES ASSUME IInv, stage = "exited", NEW t \in Task
               PROVE  /\ at[t] \notin {"cache", "held"}
                      /\ at[t] = "all" => shard[t] >= Totals[conf]
    BY Zenon DEF RemoteTasksHandled
  <2>1. /\ TypeInv /\ UpdateInv /\ HoldInv /\ EndInv /\ Left /\ Ending
        /\ \A c \in Cacher : cacher[c].pc = "gone"
        /\ \A w \in Remote : remote[w].pc \in {"unborn", "gone"}
        /\ update.pc = "ended"
    BY Zenon DEF IInv, EndInv, Ending
  <2>2. at[t] # "held"
    BY <2>1, Zenon DEF HoldInv, HeldBy
  <2>3. at[t] # "cache"
    BY <2>1, ReloadAssumption, Zenon DEF Left
  <2>4. ASSUME at[t] = "all", ~(shard[t] >= Totals[conf])
        PROVE  FALSE
    <3>0. shard[t] \in Shard /\ conf \in Gen
      BY <2>1, Zenon DEF TypeInv
    <3>5. shard[t] \in Nat /\ Totals[conf] \in Nat
      BY <3>0, TotalsFacts, Zenon
    <3>1. shard[t] \in 0 .. Totals[conf] - 1
      <4>1. \A s, n \in Nat : ~(s >= n) => s \in 0 .. n - 1
        OBVIOUS
      <4> QED  BY <2>4, <3>5, <4>1, Zenon
    <3>4. <<Last, shard[t]>> \in Remote
      BY <3>0, <3>1, ShardFacts, ZenonT(30)
    <3>2. remote[<<Last, shard[t]>>].pc = "gone"
      BY <2>1, <3>1, <3>4, Zenon DEF UpdateInv
    <3>3. InShard(shard[t]) = {}
      BY <2>1, <3>2, <3>4, Zenon DEF Left
    <3> QED  BY <2>4, <3>3, Zenon DEF InShard
  <2> QED  BY <2>2, <2>3, <2>4, Zenon
<1> QED  BY <1>1, Invariance, PTL
=============================================================================
