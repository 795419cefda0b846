---------------------------- MODULE CacheCleaner ----------------------------
(***************************************************************************)
(* How the cache keeps to its size (cache/file_cache.cc): lookups and      *)
(* stores append the hash they used to a list, a worker hands the list to  *)
(* the cleaner every clean_period seconds, and the cleaner enters the      *)
(* hashes into the index and removes the least recently used entries.      *)
(* At start-up, also after a kill, Run() brings the manifests of older     *)
(* programs up to date and rebuilds the account from the files and, if it  *)
(* is stored, from the index.                                              *)
(*                                                                         *)
(* FileCache has the files of an entry and the locks in detail; here an    *)
(* entry is its size on the disk, 0 if there is no manifest.               *)
(***************************************************************************)
EXTENDS Integers, Sequences, FiniteSets, FiniteSetsExt, LockedList

CONSTANTS
  User,         \* threads that find and store
  Hash,
  Direct,       \* unhandled hashes: the entry is a manifest with headers
  Sizes(_),     \* the sizes an entry may have when it is stored
  Old,          \* versions of the manifests that an older program left
  MaxSize,      \* max_size_
  Modulus,      \* cache_size_ is unsigned: 2^64
  StoreIndex,   \* the index is a file
  MaxOps,       \* bound: lookups and stores
  MaxFailures,  \* bound: stores that fail
  MaxCrashes    \* bound: kills

kManifestVersion == 2

ASSUME CleanerAssumption ==
  /\ IsFiniteSet(Hash) /\ Hash # {}
  /\ \A h \in Hash : Sizes(h) \subseteq Nat \ {0}
  /\ MaxSize \in Nat \ {0} /\ Modulus \in Nat /\ MaxSize < Modulus
  /\ StoreIndex \in BOOLEAN
  /\ Direct \subseteq Hash
  /\ Old \subseteq 0 .. kManifestVersion
  /\ {MaxOps, MaxFailures, MaxCrashes} \subseteq Nat

VARIABLES
  disk,          \* the size of the entry by hash
  version,       \* the version of its manifest
  index,         \* entries_: the order of use and the sizes
  committed,     \* entries_ as of the last transaction
  cache_size_,
  new_entries_,  \* the list that users append to
  batches,       \* lists in the queue of the cleaner
  cleaner, user,
  used,          \* the hashes of all lookups and stores so far
  failures, crashes

cleanerVars == <<disk, version, index, committed, cache_size_, new_entries_, batches,
                 cleaner, user, used, failures, crashes>>

EmptyIndex == [order |-> <<>>, size |-> [h \in Hash |-> 0]]
Resting == [pc |-> "idle", list |-> EmptyList, hash |-> CHOOSE h \in Hash : TRUE, size |-> 0]
Outside == [pc |-> "idle", op |-> "none", hash |-> CHOOSE h \in Hash : TRUE,
            size |-> 0, sum |-> 0, node |-> 0]

\* An order without an entry, and the orders in which a set may be entered.
Without(order, h) ==
  IF h \in Range(order)
  THEN LET i == CHOOSE i \in DOMAIN order : order[i] = h
       IN  SubSeq(order, 1, i - 1) \o SubSeq(order, i + 1, Len(order))
  ELSE order
Orders(S) == Injection(1 .. Cardinality(S), S)

\* SQLite: Get, Set, Delete and First, the entry with the smallest mtime.
Indexed(h) == h \in Range(index.order)
Set(i, h, s) == [order |-> Append(Without(i.order, h), h), size |-> [i.size EXCEPT ![h] = s]]
Drop(i, h) == [order |-> Without(i.order, h), size |-> [i.size EXCEPT ![h] = 0]]
First(i) == Head(i.order)

\* What was written since BeginTransaction() survives a kill only from here on.
EndTransaction == committed' = index

WriteLocked(h) ==
  \/ \E u \in User : user[u].op = "store" /\ user[u].hash = h
  \/ cleaner.pc = "remove" /\ cleaner.hash = h
Locked(h) == WriteLocked(h) \/ \E u \in User : user[u].op = "find" /\ user[u].hash = h

Move(u, l) == user' = [user EXCEPT ![u].pc = l]
Return(u) == user' = [user EXCEPT ![u] = Outside]
-----------------------------------------------------------------------------
(* Find() and Store() *)

Begin(u, h, o, l) ==
  /\ user[u].pc = "idle"
  /\ Len(used) < MaxOps
  /\ used' = Append(used, h)
  /\ user' = [user EXCEPT ![u] = [Outside EXCEPT !.pc = l, !.op = o, !.hash = h]]

\* A manifest of version 0 has neither headers nor sizes where Find() looks for them.
FindBegin(u, h) ==
  /\ disk[h] > 0 /\ version[h] # 0
  /\ ~WriteLocked(h)
  /\ Begin(u, h, "find", "append")
  /\ UNCHANGED <<disk, version, index, committed, cache_size_, new_entries_, batches, cleaner, failures, crashes>>

FindEnd(u) ==
  /\ user[u].pc = "read"
  /\ Return(u)
  /\ UNCHANGED <<disk, version, index, committed, cache_size_, new_entries_, batches, cleaner, used, failures, crashes>>

StoreBegin(u, h) ==
  /\ ~Locked(h)
  /\ Begin(u, h, "store", "write")
  /\ UNCHANGED <<disk, version, index, committed, cache_size_, new_entries_, batches, cleaner, failures, crashes>>

StoreWrite(u) ==
  /\ user[u].pc = "write"
  /\ \E s \in Sizes(user[u].hash) : disk' = [disk EXCEPT ![user[u].hash] = s]
  /\ version' = [version EXCEPT ![user[u].hash] = kManifestVersion]
  /\ Move(u, "append")
  /\ UNCHANGED <<index, committed, cache_size_, new_entries_, batches, cleaner, used, failures, crashes>>

\* new_entries_->Append(): the load of tail_hint_, ...
AppendLoad(u) ==
  /\ user[u].pc = "append"
  /\ user' = [user EXCEPT ![u].pc = "link", ![u].node = new_entries_.hint]
  /\ UNCHANGED <<disk, version, index, committed, cache_size_, new_entries_, batches, cleaner, used, failures, crashes>>

\* ... the compare-exchange, once or more, ...
AppendLink(u) ==
  /\ user[u].pc = "link"
  /\ LET r == Link(new_entries_, user[u].node, user[u].hash)
     IN /\ new_entries_' = r.list
        /\ user' = [user EXCEPT ![u].pc = IF r.linked THEN "hint" ELSE "link", ![u].node = r.node]
  /\ UNCHANGED <<disk, version, index, committed, cache_size_, batches, cleaner, used, failures, crashes>>

\* ... and the store of tail_hint_.  Store() ends here, Find() reads the files first.
AppendHint(u) ==
  /\ user[u].pc = "hint"
  /\ new_entries_' = SetHint(new_entries_, user[u].node)
  /\ IF user[u].op = "find" THEN Move(u, "read") ELSE Return(u)
  /\ UNCHANGED <<disk, version, index, committed, cache_size_, batches, cleaner, used, failures, crashes>>

\* RemoveEntry() in a thread other than the cleaner: cache_size_ is read and
\* written without a lock.
StoreFailed(u) ==
  /\ failures < MaxFailures /\ failures' = failures + 1
  /\ user[u].pc = "write"
  /\ user' = [user EXCEPT ![u].pc = "files", ![u].size = index.size[user[u].hash]]
  /\ index' = Drop(index, user[u].hash)
  /\ UNCHANGED <<disk, version, committed, cache_size_, new_entries_, batches, cleaner, used, crashes>>

StoreRemoveFiles(u) ==
  /\ user[u].pc = "files"
  /\ disk' = [disk EXCEPT ![user[u].hash] = 0]
  /\ user' = [user EXCEPT ![u].pc = "subtract", ![u].sum = cache_size_]
  /\ UNCHANGED <<version, index, committed, cache_size_, new_entries_, batches, cleaner, used, failures, crashes>>

StoreSubtract(u) ==
  /\ user[u].pc = "subtract"
  /\ cache_size_' = IF user[u].size = 0 THEN cache_size_
                    ELSE (user[u].sum - user[u].size) % Modulus
  /\ Return(u)
  /\ UNCHANGED <<disk, version, index, committed, new_entries_, batches, cleaner, used, failures, crashes>>
-----------------------------------------------------------------------------
(* The resetter and Clean() *)

\* Faulty: one more byte is let pass.
OverusedLess == cache_size_ > MaxSize + 1

Overused == cache_size_ > MaxSize

\* Threads that append hold no reference to the list: the model assumes that none is
\* between its load and its store when the list is replaced.  An empty list is handed
\* over, too, but makes a difference only after Run().
Reset ==
  /\ \A u \in User : user[u].pc \notin {"link", "hint"}
  /\ ~IsEmpty(new_entries_) \/ (Overused /\ batches = <<>> /\ cleaner.pc = "idle")
  /\ batches' = Append(batches, new_entries_)
  /\ new_entries_' = EmptyList
  /\ UNCHANGED <<disk, version, index, committed, cache_size_, cleaner, user, used, failures, crashes>>

CleanStart ==
  /\ cleaner.pc = "idle" /\ batches # <<>>
  /\ cleaner' = [Resting EXCEPT !.pc = "pop", !.list = Head(batches)]
  /\ batches' = Tail(batches)
  /\ UNCHANGED <<disk, version, index, committed, cache_size_, new_entries_, user, used, failures, crashes>>

\* Faulty: an entry that is indexed is inserted again.
CleanTouchNever ==
  /\ cleaner.pc = "pop" /\ ~IsEmpty(cleaner.list) /\ Indexed(FirstNode(cleaner.list))
  /\ cleaner' = [cleaner EXCEPT !.pc = "insert", !.list = Pop(@), !.hash = FirstNode(cleaner.list),
                                !.size = disk[FirstNode(cleaner.list)]]
  /\ UNCHANGED <<disk, version, index, committed, cache_size_, new_entries_, batches, user, used, failures, crashes>>

\* "Update mtime of an existing entry."
CleanTouch ==
  /\ cleaner.pc = "pop" /\ ~IsEmpty(cleaner.list) /\ Indexed(FirstNode(cleaner.list))
  /\ LET h == FirstNode(cleaner.list) IN index' = Set(index, h, index.size[h])
  /\ cleaner' = [cleaner EXCEPT !.list = Pop(@)]
  /\ UNCHANGED <<disk, version, committed, cache_size_, new_entries_, batches, user, used, failures, crashes>>

\* GetEntrySize() of an entry that may be gone by now.
CleanMeasure ==
  /\ cleaner.pc = "pop" /\ ~IsEmpty(cleaner.list) /\ ~Indexed(FirstNode(cleaner.list))
  /\ cleaner' = [cleaner EXCEPT !.pc = "insert", !.list = Pop(@), !.hash = FirstNode(cleaner.list),
                                !.size = disk[FirstNode(cleaner.list)]]
  /\ UNCHANGED <<disk, version, index, committed, cache_size_, new_entries_, batches, user, used, failures, crashes>>

CleanInsert ==
  /\ cleaner.pc = "insert"
  /\ index' = Set(index, cleaner.hash, cleaner.size)
  /\ cache_size_' = (cache_size_ + cleaner.size) % Modulus
  /\ cleaner' = [cleaner EXCEPT !.pc = "pop"]
  /\ UNCHANGED <<disk, version, committed, new_entries_, batches, user, used, failures, crashes>>

CleanEnd ==
  /\ cleaner.pc = "pop" /\ IsEmpty(cleaner.list)
  /\ ~Overused
  /\ EndTransaction
  /\ cleaner' = Resting
  /\ UNCHANGED <<disk, version, index, cache_size_, new_entries_, batches, user, used, failures, crashes>>

\* The loop turns without a step while the first entry is locked.
CleanLock ==
  /\ cleaner.pc = "pop" /\ IsEmpty(cleaner.list)
  /\ Overused
  /\ index.order # <<>> /\ ~Locked(First(index))
  /\ cleaner' = [cleaner EXCEPT !.pc = "remove", !.hash = First(index)]
  /\ UNCHANGED <<disk, version, index, committed, cache_size_, new_entries_, batches, user, used, failures, crashes>>

\* Faulty: the size of the entry stays in the account.
CleanRemoveUncounted ==
  /\ cleaner.pc = "remove"
  /\ index' = Drop(index, cleaner.hash)
  /\ disk' = [disk EXCEPT ![cleaner.hash] = 0]
  /\ cleaner' = [cleaner EXCEPT !.pc = "pop"]
  /\ UNCHANGED <<version, cache_size_, committed, new_entries_, batches, user, used, failures, crashes>>

CleanRemove ==
  /\ cleaner.pc = "remove"
  /\ index' = Drop(index, cleaner.hash)
  /\ disk' = [disk EXCEPT ![cleaner.hash] = 0]
  /\ cache_size_' = (cache_size_ - index.size[cleaner.hash]) % Modulus
  /\ cleaner' = [cleaner EXCEPT !.pc = "pop"]
  /\ UNCHANGED <<version, committed, new_entries_, batches, user, used, failures, crashes>>
-----------------------------------------------------------------------------
(* A kill, and Run() *)

Total(S, size) == MapThenSumSet(LAMBDA h : size[h], S)

\* All that can be stored fits into cache_size_: there is no disk of 2^64 bytes.
ASSUME SizesFit ==
  \A f \in [Hash -> {0} \union UNION {Sizes(h) : h \in Hash}] :
    (\A h \in Hash : f[h] \in {0} \union Sizes(h)) => Total(Hash, f) < Modulus

\* Faulty: absolute paths are kept.
MigrateHeaders(h, v, missing) == v = 0 => h \in Direct \/ h \notin missing

\* Migrate(): headers of version 1 are absolute paths and cannot be brought up to date;
\* the sizes of version 0 are read from the files, which may be missing.  A manifest of
\* version 1 is not written again.
Migrate(h, v, missing) == v = kManifestVersion \/ (h \notin Direct /\ (v = 0 => h \notin missing))
Migrated(v) == IF v = 0 THEN kManifestVersion ELSE v

\* The rows of the index keep their mtime, and what is entered now comes after them.
Older(i, g, h) == \E j \in DOMAIN i.order : i.order[j] = g /\ h \notin Range(SubSeq(i.order, 1, j))

\* The walk migrates the manifests that the index does not have.  It enters those it
\* finds, with the size that the index has or that the files have, and removes an entry
\* that cannot be migrated or that the index has with size 0.
Run(i, d, v, missing) ==
  LET known == Range(i.order)
      walked == {h \in Hash : d[h] > 0}
      broken == {h \in walked : IF h \in known THEN i.size[h] = 0 ELSE ~Migrate(h, v[h], missing)}
      fresh == (walked \ known) \ broken
      size == [h \in Hash |-> IF h \in fresh THEN d[h] ELSE i.size[h]]
  IN {[index |-> [order |-> order, size |-> size],
       disk |-> [h \in Hash |-> IF h \in broken THEN 0 ELSE d[h]],
       version |-> [h \in Hash |-> IF h \in fresh THEN Migrated(v[h]) ELSE v[h]],
       size |-> Total(walked \ broken, size) % Modulus] :
        order \in {o \in Orders((known \ broken) \union fresh) :
                    \A j, k \in DOMAIN o : Older(i, o[j], o[k]) => j < k}}

\* The first start, in a directory that an older program may have left, without an index
\* and with files missing.
CleanerInit ==
  /\ \E d \in [Hash -> {0} \union UNION {Sizes(h) : h \in Hash}], v \in [Hash -> Old \union {kManifestVersion}] :
     \E missing \in SUBSET {h \in Hash : d[h] > 0} :
       /\ \A h \in Hash : d[h] \in {0} \union Sizes(h)
       /\ \A h \in Hash : IF d[h] = 0 THEN v[h] = kManifestVersion ELSE v[h] \in Old
       /\ \E r \in Run(EmptyIndex, d, v, missing) :
            /\ index = r.index /\ committed = r.index
            /\ disk = r.disk /\ version = r.version
            /\ cache_size_ = r.size
  /\ new_entries_ = EmptyList
  /\ batches = <<>>
  /\ cleaner = Resting
  /\ user = [u \in User |-> Outside]
  /\ used = <<>>
  /\ failures = 0 /\ crashes = 0

\* SQLite::SQLite(): the file of the index, or an empty one in memory.
Opened == IF StoreIndex THEN committed ELSE EmptyIndex

Crash ==
  /\ crashes < MaxCrashes
  /\ crashes' = crashes + 1
  /\ \E r \in Run(Opened, disk, version, {}) :
       /\ index' = r.index /\ committed' = r.index
       /\ disk' = r.disk /\ version' = r.version
       /\ cache_size_' = r.size
  /\ new_entries_' = EmptyList /\ batches' = <<>>
  /\ cleaner' = Resting
  /\ user' = [u \in User |-> Outside]
  /\ UNCHANGED <<used, failures>>
-----------------------------------------------------------------------------
UserStep(u) == FindEnd(u) \/ StoreWrite(u) \/ AppendLoad(u) \/ AppendLink(u) \/ AppendHint(u)
               \/ StoreFailed(u) \/ StoreRemoveFiles(u) \/ StoreSubtract(u)
CleanStep == CleanStart \/ CleanTouch \/ CleanMeasure \/ CleanInsert \/ CleanEnd
             \/ CleanLock \/ CleanRemove

CleanerNext ==
  \/ \E u \in User : UserStep(u) \/ \E h \in Hash : FindBegin(u, h) \/ StoreBegin(u, h)
  \/ Reset \/ CleanStep
  \/ Crash

CleanerSpec == CleanerInit /\ [][CleanerNext]_cleanerVars

\* Threads go on, and the resetter wakes up every clean_period seconds.
CleanerFairSpec == CleanerSpec /\ WF_cleanerVars(CleanStep) /\ WF_cleanerVars(Reset)
                   /\ \A u \in User : WF_cleanerVars(UserStep(u))
-----------------------------------------------------------------------------
Pending == Range(Listed(new_entries_)) \union Range(Listed(cleaner.list))
             \union (UNION {Range(Listed(batches[i])) : i \in DOMAIN batches})
             \union (IF cleaner.pc = "insert" THEN {cleaner.hash} ELSE {})

Rows == [order : Seq(Hash), size : [Hash -> Nat]]
Lists == {l \in [items : Seq(Hash), popped : Nat, hint : Nat] : l.popped <= Len(l.items)}
Cleaning == [pc : {"idle", "pop", "insert", "remove"}, list : Lists, hash : Hash, size : Nat]
Using == [pc : {"idle", "read", "write", "append", "link", "hint", "files", "subtract"},
          op : {"none", "find", "store"}, hash : Hash, size : Nat, sum : Nat, node : Nat]

\* The types of the disk, the index, the lists and the threads.
CleanerTypeOK ==
  /\ disk \in [Hash -> Nat]
  /\ version \in [Hash -> 0 .. kManifestVersion]
  /\ index \in Rows /\ committed \in Rows
  /\ cache_size_ \in 0 .. Modulus - 1
  /\ new_entries_ \in Lists /\ batches \in Seq(Lists)
  /\ cleaner \in Cleaning
  /\ user \in [User -> Using]
  /\ used \in Seq(Hash)
  /\ failures \in Nat /\ crashes \in Nat

\* No store has failed, and no index was restored after a kill: both leave rows and
\* account at odds (see FirstExists).
Undisturbed == failures = 0 /\ (crashes > 0 => ~StoreIndex)

\* The account is the sum over the index, whatever is found, stored, touched, measured
\* and removed in between.
AccountingExact ==
  Undisturbed => /\ IsInjective(index.order)
                 /\ cache_size_ = Total(Range(index.order), index.size)

\* An entry on the disk that nobody works on is indexed or on its way to the cleaner,
\* after a kill and failing stores as well: otherwise it would stay there for good,
\* unaccounted for.
EntriesConsidered ==
  \A h \in Hash : disk[h] > 0 /\ ~WriteLocked(h) => Indexed(h) \/ h \in Pending

\* The size of an entry follows from its hash, as it does for entries that hold the
\* result of one deterministic compilation.
OneSizeEach == \A h \in Hash : \A r, s \in Sizes(h) : r = s

\* When the cleaner has seen everything and finds nothing to remove, the files fit into
\* the size that is configured, if no entry is stored with another size than it had
\* and no hash was used a second time.
DiskBounded ==
  /\ Undisturbed /\ OneSizeEach /\ IsInjective(used)
  /\ cleaner.pc = "idle" /\ ~Overused /\ batches = <<>> /\ Pending = {}
  /\ \A u \in User : user[u].pc = "idle"
  => Total(Hash, disk) <= MaxSize

\* "Remove old direct cache entries since they contain absolute paths": what is on the
\* disk can be read and used by this program, whatever older programs left there.
EntriesReadable ==
  \A h \in Hash : disk[h] > 0 => version[h] # 0 /\ (h \in Direct => version[h] = kManifestVersion)

\* Every list is worked off: the loop in Clean() ends, although it spins on locked entries.
CleanEnds ==
  (batches # <<>>) ~> ((batches = <<>> /\ cleaner.pc = "idle") \/ ~Undisturbed)

\* CHECK(entries_->First(...)) in Clean(): there is something to remove as long as the
\* cache is overused.
FirstExists == cleaner.pc = "pop" /\ IsEmpty(cleaner.list) /\ Overused => index.order # <<>>
=============================================================================
