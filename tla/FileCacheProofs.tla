--------------------------- MODULE FileCacheProofs ---------------------------
(***************************************************************************)
(* Proofs about FileCache: the locks are counted exactly and exclude, for  *)
(* any number of threads and paths, and on a disk that obeys the locks     *)
(* keep entries whole whatever their sizes are.                            *)
(***************************************************************************)
EXTENDS FileCache, FiniteSetTheorems, TLAPS

\* Where a thread is decides what its variables hold.
LocalInv ==
  \A t \in Thread :
    /\ pc[t] \in {"read_lock"} \union Reading \union Writing => path[t] \in Path
    /\ pc[t] = "unlock_outer" => outer[t] \in DirectPath
    /\ pc[t] \in {"idle"} \union Writing => outer[t] = None
    /\ outer[t] # None => path[t] \notin DirectPath
    /\ pc[t] \in {"read_object", "read_deps", "write_object", "write_deps"} => entry[t] \in Entry
    /\ pc[t] = "read_deps" => got[t].object \in Entry \union {Broken}
    /\ pc[t] = "write_manifest" =>
         \/ entry[t] \in Entry /\ path[t] \notin DirectPath
         \/ entry[t] = Headers /\ path[t] \in DirectPath
    /\ pc[t] \in {"write_object", "write_deps"} => path[t] \notin DirectPath

\* Manifests of the direct cache are on paths of its own.
ManifestInv == \A p \in Path : /\ manifest[p] = Headers => p \in DirectPath
                               /\ manifest[p] \in Entry => p \notin DirectPath

\* Nobody reads what is locked for writing, and one thread writes it.
LockInv ==
  \A p \in Path :
    /\ p \in write_locks_ => read_locks_[p] = 0
    /\ \A t, w \in Writers(p) : t = w

IInv == TypeOK /\ LocalInv /\ ManifestInv /\ LocksCounted /\ LockInv

\* The parts of an entry that are on the disk.
Whole(p, e) == object[p] = e /\ (e \in WithDeps => deps[p] = e)

\* An entry that nobody writes is whole.
PathInv(p) == manifest[p] \in Entry /\ Writers(p) = {} => Whole(p, manifest[p])

\* How far a writer is, and what a reader has seen.
ThreadInv(t) ==
  /\ pc[t] = "write_deps" => object[path[t]] = entry[t] /\ entry[t] \in WithDeps
  /\ pc[t] = "write_manifest" /\ entry[t] \in Entry => Whole(path[t], entry[t])
  /\ pc[t] \in {"write_object", "write_unlock"} /\ manifest[path[t]] \in Entry =>
       Whole(path[t], manifest[path[t]])
  /\ pc[t] \in {"read_object", "read_deps"} => manifest[path[t]] = entry[t]
  /\ pc[t] = "read_deps" => got[t].object = entry[t]
  /\ pc[t] \in {"read_lock", "load", "read_object", "read_deps"} => ~found[t]
  /\ found[t] /\ pc[t] = "read_unlock" =>
       got[t].object = entry[t] /\ (entry[t] \in WithDeps => got[t].deps = entry[t])

FilesInv == (\A p \in Path : PathInv(p)) /\ (\A t \in Thread : ThreadInv(t))
-----------------------------------------------------------------------------
\* Every step keeps the types and what the threads know.  (ReadUnlock and
\* UnlockOuter need that a lock that is held is counted.)
LEMMA Counted ==
  ASSUME IInv, NEW t \in Thread
  PROVE  /\ pc[t] \in Reading => read_locks_[path[t]] > 0
         /\ outer[t] # None => read_locks_[outer[t]] > 0
<1> USE FileCacheAssumption
<1>1. \A p \in Path : IsFiniteSet(Readers(p)) /\ IsFiniteSet(OuterReaders(p))
  BY FS_Subset, Zenon DEF Readers, OuterReaders
<1>2. \A p \in Path : Cardinality(Readers(p)) \in Nat /\ Cardinality(OuterReaders(p)) \in Nat
  BY <1>1, FS_CardinalityType, Zenon
<1>3. ASSUME pc[t] \in Reading
      PROVE  read_locks_[path[t]] > 0
  <2>1. path[t] \in Path /\ t \in Readers(path[t])
    BY <1>3, Zenon DEF IInv, LocalInv, Readers
  <2>2. Cardinality(Readers(path[t])) # 0
    BY <1>1, <2>1, FS_EmptySet, Zenon
  <2>3. read_locks_[path[t]] = Cardinality(Readers(path[t])) + Cardinality(OuterReaders(path[t]))
    BY <2>1, Zenon DEF IInv, LocksCounted
  <2>4. Cardinality(Readers(path[t])) \in Nat /\ Cardinality(OuterReaders(path[t])) \in Nat
    BY <1>2, <2>1, Zenon
  <2> QED BY <2>2, <2>3, <2>4
<1>4. ASSUME outer[t] # None
      PROVE  read_locks_[outer[t]] > 0
  <2>1. outer[t] \in Path /\ t \in OuterReaders(outer[t])
    BY <1>4, Zenon DEF IInv, TypeOK, OuterReaders
  <2>2. Cardinality(OuterReaders(outer[t])) # 0
    BY <1>1, <2>1, FS_EmptySet, Zenon
  <2>3. read_locks_[outer[t]] = Cardinality(Readers(outer[t])) + Cardinality(OuterReaders(outer[t]))
    BY <2>1, Zenon DEF IInv, LocksCounted
  <2>4. Cardinality(Readers(outer[t])) \in Nat /\ Cardinality(OuterReaders(outer[t])) \in Nat
    BY <1>2, <2>1, Zenon
  <2> QED BY <2>2, <2>3, <2>4
<1> QED BY <1>3, <1>4, Zenon

\* Every operation on files and locks keeps the types.
LEMMA TypeStep ==
  IInv /\ [Next]_vars => TypeOK'
<1> SUFFICES ASSUME IInv, [Next]_vars PROVE TypeOK'
  BY Zenon
<1> USE FileCacheAssumption DEF IInv, TypeOK, Reading, Writing
<1>1. ASSUME NEW t \in Thread, FindExists(t) PROVE TypeOK'
  BY <1>1 DEF FindExists, Missing, Goto, files, locks, local, LocalInv, ManifestInv
<1>2. ASSUME NEW t \in Thread, ReadLock(t) PROVE TypeOK'
  BY <1>2 DEF ReadLock, Goto, files, locks, local, LocalInv, ManifestInv
<1>3. ASSUME NEW t \in Thread, ReadRefused(t) PROVE TypeOK'
  BY <1>3, Zenon DEF ReadRefused, Goto, files, locks, local, Return, LocalInv, ManifestInv
<1>4. ASSUME NEW t \in Thread, LoadFailed(t) PROVE TypeOK'
  BY <1>4, Zenon DEF LoadFailed, Goto, files, locks, local, LocalInv, ManifestInv
<1>5. ASSUME NEW t \in Thread, LoadManifest(t) PROVE TypeOK'
  BY <1>5, Zenon DEF LoadManifest, Goto, files, locks, local, LocalInv, ManifestInv
<1>6. ASSUME NEW t \in Thread, LoadDirect(t) PROVE TypeOK'
  BY <1>6 DEF LoadDirect, Goto, files, locks, local, LocalInv, ManifestInv
<1>7. ASSUME NEW t \in Thread, DirectMiss(t) PROVE TypeOK'
  BY <1>7, Zenon DEF DirectMiss, Goto, files, locks, local, LocalInv, ManifestInv
<1>8. ASSUME NEW t \in Thread, ReadObject(t) PROVE TypeOK'
  BY <1>8 DEF ReadObject, Goto, files, locks, local, LocalInv, ManifestInv
<1>9. ASSUME NEW t \in Thread, ReadDeps(t) PROVE TypeOK'
  BY <1>9 DEF ReadDeps, Goto, files, locks, local, LocalInv, ManifestInv
<1>10. ASSUME NEW t \in Thread, ReadUnlock(t) PROVE TypeOK'
  BY <1>10, Counted DEF ReadUnlock, Goto, files, locks, local, Return, LocalInv, ManifestInv
<1>11. ASSUME NEW t \in Thread, UnlockOuter(t) PROVE TypeOK'
  BY <1>11, Counted DEF UnlockOuter, Goto, files, locks, local, LocalInv, ManifestInv
<1>12. ASSUME NEW t \in Thread, WriteLock(t) PROVE TypeOK'
  <2>1. PICK p \in Path : WriteLock(t)!2!(p)
    BY <1>12, Zenon DEF WriteLock
  <2>2. pc' \in [Thread -> {"idle", "read_lock", "unlock_outer"} \union Reading \union Writing]
    BY <2>1, Zenon DEF Goto
  <2>3. entry' \in [Thread -> Entry \union {Headers, None}]
    BY <2>1, Zenon
  <2>4. write_locks_' \subseteq Path /\ path' \in [Thread -> Path \union {None}]
    BY <2>1, Zenon
  <2> QED BY <1>12, <2>2, <2>3, <2>4, Zenon DEF WriteLock, files
<1>13. ASSUME NEW t \in Thread, WriteFailed(t) PROVE TypeOK'
  BY <1>13, Zenon DEF WriteFailed, Goto, files, locks, local, LocalInv, ManifestInv
<1>24. ASSUME NEW t \in Thread, WriteShort(t) PROVE TypeOK'
  BY <1>24, Zenon DEF WriteShort, Goto, locks, local
<1>14. ASSUME NEW t \in Thread, WriteObject(t) PROVE TypeOK'
  BY <1>14, Zenon DEF WriteObject, Goto, files, locks, local, LocalInv, ManifestInv
<1>15. ASSUME NEW t \in Thread, WriteDeps(t) PROVE TypeOK'
  BY <1>15, Zenon DEF WriteDeps, Goto, files, locks, local, LocalInv, ManifestInv
<1>16. ASSUME NEW t \in Thread, WriteManifest(t) PROVE TypeOK'
  BY <1>16, Zenon DEF WriteManifest, Goto, files, locks, local, LocalInv, ManifestInv
<1>17. ASSUME NEW t \in Thread, RemoveObject(t) PROVE TypeOK'
  BY <1>17, Zenon DEF RemoveObject, Goto, locks, local, Delete
<1>18. ASSUME NEW t \in Thread, RemoveDeps(t) PROVE TypeOK'
  BY <1>18, Zenon DEF RemoveDeps, Goto, locks, local, Delete
<1>19. ASSUME NEW t \in Thread, RemoveManifest(t) PROVE TypeOK'
  BY <1>19 DEF RemoveManifest, Goto, files, locks, local, Delete, LocalInv, ManifestInv
<1>20. ASSUME NEW t \in Thread, WriteUnlock(t) PROVE TypeOK'
  BY <1>20, Zenon DEF WriteUnlock, Goto, files, locks, local, LocalInv, ManifestInv
<1>23. ASSUME NEW t \in Thread, StoreNothing(t) PROVE TypeOK'
  BY <1>23, Zenon DEF StoreNothing, Goto, files, locks, local
<1>21. CASE Crash
  BY <1>21, Zenon DEF Crash, Missing, files
<1>22. CASE UNCHANGED vars
  BY <1>22, Zenon DEF vars
<1> QED BY <1>1, <1>2, <1>3, <1>4, <1>5, <1>6, <1>7, <1>8, <1>9, <1>10, <1>11, <1>12, <1>13, <1>14, <1>15, <1>16, <1>17, <1>18, <1>19, <1>20, <1>21, <1>22, <1>23, <1>24, Zenon DEF Next, Step

\* Every step keeps what a thread's position says of its path, locks and entry.
LEMMA LocalStep ==
  IInv /\ [Next]_vars => LocalInv' /\ ManifestInv'
<1> SUFFICES ASSUME IInv, [Next]_vars PROVE LocalInv' /\ ManifestInv'
  BY Zenon
<1> USE FileCacheAssumption DEF IInv, TypeOK, LocalInv, ManifestInv, Reading, Writing
<1>1. ASSUME NEW t \in Thread, FindExists(t) PROVE LocalInv' /\ ManifestInv'
  BY <1>1 DEF FindExists, Goto, files, locks, local
<1>2. ASSUME NEW t \in Thread, ReadLock(t) PROVE LocalInv' /\ ManifestInv'
  BY <1>2 DEF ReadLock, Goto, files, locks, local
<1>3. ASSUME NEW t \in Thread, ReadRefused(t) PROVE LocalInv' /\ ManifestInv'
  BY <1>3 DEF ReadRefused, Goto, files, locks, local, Return
<1>4. ASSUME NEW t \in Thread, LoadFailed(t) PROVE LocalInv' /\ ManifestInv'
  BY <1>4 DEF LoadFailed, Goto, files, locks, local
<1>5. ASSUME NEW t \in Thread, LoadManifest(t) PROVE LocalInv' /\ ManifestInv'
  BY <1>5 DEF LoadManifest, Goto, files, locks, local
<1>6. ASSUME NEW t \in Thread, LoadDirect(t) PROVE LocalInv' /\ ManifestInv'
  BY <1>6 DEF LoadDirect, Goto, files, locks, local
<1>7. ASSUME NEW t \in Thread, DirectMiss(t) PROVE LocalInv' /\ ManifestInv'
  BY <1>7 DEF DirectMiss, Goto, files, locks, local
<1>8. ASSUME NEW t \in Thread, ReadObject(t) PROVE LocalInv' /\ ManifestInv'
  BY <1>8 DEF ReadObject, Goto, files, locks, local
<1>9. ASSUME NEW t \in Thread, ReadDeps(t) PROVE LocalInv' /\ ManifestInv'
  BY <1>9 DEF ReadDeps, Goto, files, locks, local
<1>10. ASSUME NEW t \in Thread, ReadUnlock(t) PROVE LocalInv' /\ ManifestInv'
  BY <1>10 DEF ReadUnlock, Goto, files, locks, local, Return
<1>11. ASSUME NEW t \in Thread, UnlockOuter(t) PROVE LocalInv' /\ ManifestInv'
  BY <1>11 DEF UnlockOuter, Goto, files, locks, local
<1>12. ASSUME NEW t \in Thread, WriteLock(t) PROVE LocalInv' /\ ManifestInv'
  BY <1>12 DEF WriteLock, Goto, files, locks, local
<1>13. ASSUME NEW t \in Thread, WriteFailed(t) PROVE LocalInv' /\ ManifestInv'
  BY <1>13 DEF WriteFailed, Goto, files, locks, local
<1>24. ASSUME NEW t \in Thread, WriteShort(t) PROVE LocalInv' /\ ManifestInv'
  <2>1. \A p \in Path : manifest'[p] = manifest[p] \/ manifest'[p] = Broken
    BY <1>24 DEF WriteShort
  <2>2. ManifestInv'
    BY <2>1
  <2> QED BY <1>24, <2>2 DEF WriteShort, Goto, local
<1>14. ASSUME NEW t \in Thread, WriteObject(t) PROVE LocalInv' /\ ManifestInv'
  BY <1>14 DEF WriteObject, Goto, files, locks, local
<1>15. ASSUME NEW t \in Thread, WriteDeps(t) PROVE LocalInv' /\ ManifestInv'
  BY <1>15 DEF WriteDeps, Goto, files, locks, local
<1>16. ASSUME NEW t \in Thread, WriteManifest(t) PROVE LocalInv' /\ ManifestInv'
  BY <1>16 DEF WriteManifest, Goto, files, locks, local
<1>17. ASSUME NEW t \in Thread, RemoveObject(t) PROVE LocalInv' /\ ManifestInv'
  BY <1>17 DEF RemoveObject, Goto, files, locks, local, Delete
<1>18. ASSUME NEW t \in Thread, RemoveDeps(t) PROVE LocalInv' /\ ManifestInv'
  BY <1>18 DEF RemoveDeps, Goto, files, locks, local, Delete
<1>19. ASSUME NEW t \in Thread, RemoveManifest(t) PROVE LocalInv' /\ ManifestInv'
  <2>1. \A p \in Path : manifest'[p] = manifest[p] \/ manifest'[p] = None
    BY <1>19 DEF RemoveManifest, Delete
  <2>2. ManifestInv'
    BY <2>1
  <2> QED BY <1>19, <2>2 DEF RemoveManifest, Goto, local
<1>20. ASSUME NEW t \in Thread, WriteUnlock(t) PROVE LocalInv' /\ ManifestInv'
  BY <1>20 DEF WriteUnlock, Goto, files, locks, local
<1>23. ASSUME NEW t \in Thread, StoreNothing(t) PROVE LocalInv' /\ ManifestInv'
  BY <1>23 DEF StoreNothing, Goto, files, locks, local
<1>21. CASE Crash
  BY <1>21, Zenon DEF Crash, Missing, files
<1>22. CASE UNCHANGED vars
  BY <1>22, Zenon DEF vars
<1> QED BY <1>1, <1>2, <1>3, <1>4, <1>5, <1>6, <1>7, <1>8, <1>9, <1>10, <1>11, <1>12, <1>13, <1>14, <1>15, <1>16, <1>17, <1>18, <1>19, <1>20, <1>21, <1>22, <1>23, <1>24, Zenon DEF Next, Step
-----------------------------------------------------------------------------
\* Who holds the lock of a path stays the same.
Kept(p) ==
  /\ Readers(p)' = Readers(p) /\ OuterReaders(p)' = OuterReaders(p)
  /\ Writers(p)' = Writers(p)

\* The threads that hold a lock on a path are finitely many, so they can be counted.
LEMMA Finite ==
  ASSUME NEW p \in Path
  PROVE  /\ IsFiniteSet(Readers(p)) /\ IsFiniteSet(OuterReaders(p))
         /\ Cardinality(Readers(p)) \in Nat /\ Cardinality(OuterReaders(p)) \in Nat
  BY FileCacheAssumption, FS_Subset, FS_CardinalityType, Zenon DEF Readers, OuterReaders

\* LocksCounted and LockInv, path by path.
Sound(p) ==
  /\ read_locks_[p] = Cardinality(Readers(p)) + Cardinality(OuterReaders(p))
  /\ p \in write_locks_ <=> Writers(p) # {}
  /\ p \in write_locks_ => read_locks_[p] = 0
  /\ \A t, w \in Writers(p) : t = w

\* The lock tables are right when they are right for every path.
LEMMA AllSound ==
  LocksCounted /\ LockInv <=> \A p \in Path : Sound(p)
  BY Zenon DEF LocksCounted, LockInv, Sound

\* A step that changes neither the tables nor the holders of a path keeps it right.
LEMMA KeptSound ==
  ASSUME IInv, NEW p \in Path, Kept(p), read_locks_'[p] = read_locks_[p],
         p \in write_locks_' <=> p \in write_locks_
  PROVE  Sound(p)'
<1>1. Sound(p)
  BY AllSound, Zenon DEF IInv
<1> QED BY <1>1, Zenon DEF Sound, Kept

\* One reader more and one reader less.
LEMMA Arrives ==
  ASSUME NEW S, IsFiniteSet(S), NEW t, t \notin S
  PROVE  Cardinality(S \union {t}) = Cardinality(S) + 1
  BY FS_AddElement, Zenon

\* One holder less is counted as one less.
LEMMA Leaves ==
  ASSUME NEW S, IsFiniteSet(S), NEW t \in S
  PROVE  Cardinality(S \ {t}) = Cardinality(S) - 1
  BY FS_RemoveElement, Zenon

\* ReadLock, WriteLock and both Unlock() keep the tables right for every path.
LEMMA LockStep ==
  IInv /\ [Next]_vars => LocksCounted' /\ LockInv'
<1> SUFFICES ASSUME IInv, [Next]_vars, NEW p \in Path PROVE Sound(p)'
  BY AllSound, Zenon DEF LocksCounted, LockInv, Sound
<1> USE FileCacheAssumption
<1>0. Sound(p)
  BY AllSound, Zenon DEF IInv
<1>1. ASSUME NEW t \in Thread, FindExists(t) PROVE Sound(p)'
  <2>1. Kept(p)
    BY <1>1 DEF Kept, FindExists, Goto, files, locks, local, IInv, TypeOK, LocalInv, Reading, Writing, Readers, OuterReaders, Writers
  <2> QED BY <1>1, <2>1, KeptSound, Zenon DEF FindExists, Goto, files, locks, local
<1>2. ASSUME NEW t \in Thread, ReadLock(t) PROVE Sound(p)'
  <2>1. CASE p # path[t]
    <3>1. Kept(p)
      BY <1>2, <2>1 DEF Kept, ReadLock, Goto, files, locks, local, IInv, TypeOK, LocalInv, Reading, Writing, Readers, OuterReaders, Writers
    <3> QED BY <1>2, <2>1, <3>1, KeptSound, Zenon DEF ReadLock, Goto, files, locks, local, IInv, TypeOK
  <2>2. CASE p = path[t]
    <3>1. /\ t \notin Readers(p) /\ Readers(p)' = Readers(p) \union {t}
          /\ OuterReaders(p)' = OuterReaders(p) /\ Writers(p)' = Writers(p)
      BY <1>2, <2>2 DEF ReadLock, Goto, files, locks, local, IInv, TypeOK, LocalInv, Reading, Writing, Readers, OuterReaders, Writers
    <3>2. Cardinality(Readers(p)') = Cardinality(Readers(p)) + 1
      BY <3>1, Finite, Arrives, Zenon
    <3>3. read_locks_'[p] = read_locks_[p] + 1 /\ p \notin write_locks_ /\ p \notin write_locks_'
      BY <1>2, <2>2, Zenon DEF ReadLock, Goto, files, locks, local, IInv, TypeOK
    <3> QED BY <1>0, <3>1, <3>2, <3>3, Finite DEF Sound
  <2> QED BY <2>1, <2>2, Zenon
<1>3. ASSUME NEW t \in Thread, ReadRefused(t) PROVE Sound(p)'
  <2>1. Kept(p)
    BY <1>3, Zenon DEF Kept, ReadRefused, Goto, files, locks, local, Return, IInv, TypeOK, LocalInv, Reading, Writing, Readers, OuterReaders, Writers
  <2> QED BY <1>3, <2>1, KeptSound, Zenon DEF ReadRefused, Goto, files, locks, local, Return
<1>4. ASSUME NEW t \in Thread, LoadFailed(t) PROVE Sound(p)'
  <2>1. Kept(p)
    BY <1>4, Zenon DEF Kept, LoadFailed, Goto, files, locks, local, IInv, TypeOK, LocalInv, Reading, Writing, Readers, OuterReaders, Writers
  <2> QED BY <1>4, <2>1, KeptSound, Zenon DEF LoadFailed, Goto, files, locks, local
<1>5. ASSUME NEW t \in Thread, LoadManifest(t) PROVE Sound(p)'
  <2>1. Kept(p)
    BY <1>5, Zenon DEF Kept, LoadManifest, Goto, files, locks, local, IInv, TypeOK, LocalInv, Reading, Writing, Readers, OuterReaders, Writers
  <2> QED BY <1>5, <2>1, KeptSound, Zenon DEF LoadManifest, Goto, files, locks, local
<1>6. ASSUME NEW t \in Thread, LoadDirect(t) PROVE Sound(p)'
  <2>0. outer[t] = None /\ path[t] \in Path
    BY <1>6, Zenon DEF LoadDirect, Goto, files, locks, local, IInv, LocalInv, ManifestInv, Reading
  <2>1. CASE p # path[t]
    <3>1. Kept(p)
      BY <1>6, <2>0, <2>1 DEF Kept, LoadDirect, Goto, files, locks, local, IInv, TypeOK, LocalInv, Reading, Writing, Readers, OuterReaders, Writers
    <3> QED BY <1>6, <2>1, <3>1, KeptSound, Zenon DEF LoadDirect, Goto, files, locks, local, IInv, TypeOK
  <2>2. CASE p = path[t]
    <3>1. outer[t] = None /\ p # None
      BY <2>0, Zenon
    <3>2. /\ t \in Readers(p) /\ Readers(p)' = Readers(p) \ {t}
          /\ t \notin OuterReaders(p) /\ OuterReaders(p)' = OuterReaders(p) \union {t}
          /\ Writers(p)' = Writers(p)
      BY <1>6, <2>2, <3>1 DEF LoadDirect, Goto, files, locks, local, IInv, TypeOK, LocalInv, Reading, Writing, Readers, OuterReaders, Writers
    <3>3. /\ Cardinality(Readers(p)') = Cardinality(Readers(p)) - 1
          /\ Cardinality(OuterReaders(p)') = Cardinality(OuterReaders(p)) + 1
      BY <3>2, Finite, Leaves, Arrives, Zenon
    <3>4. UNCHANGED locks
      BY <1>6, Zenon DEF LoadDirect, Goto, files, locks, local
    <3> QED BY <1>0, <3>2, <3>3, <3>4, Finite DEF Sound, locks
  <2> QED BY <2>1, <2>2, Zenon
<1>7. ASSUME NEW t \in Thread, DirectMiss(t) PROVE Sound(p)'
  <2>1. Kept(p)
    BY <1>7, Zenon DEF Kept, DirectMiss, Goto, files, locks, local, IInv, TypeOK, LocalInv, Reading, Writing, Readers, OuterReaders, Writers
  <2> QED BY <1>7, <2>1, KeptSound, Zenon DEF DirectMiss, Goto, files, locks, local
<1>8. ASSUME NEW t \in Thread, ReadObject(t) PROVE Sound(p)'
  <2>1. Kept(p)
    BY <1>8, Zenon DEF Kept, ReadObject, Goto, files, locks, local, IInv, TypeOK, LocalInv, Reading, Writing, Readers, OuterReaders, Writers
  <2> QED BY <1>8, <2>1, KeptSound, Zenon DEF ReadObject, Goto, files, locks, local
<1>9. ASSUME NEW t \in Thread, ReadDeps(t) PROVE Sound(p)'
  <2>1. Kept(p)
    BY <1>9, Zenon DEF Kept, ReadDeps, Goto, files, locks, local, IInv, TypeOK, LocalInv, Reading, Writing, Readers, OuterReaders, Writers
  <2> QED BY <1>9, <2>1, KeptSound, Zenon DEF ReadDeps, Goto, files, locks, local
<1>10. ASSUME NEW t \in Thread, ReadUnlock(t) PROVE Sound(p)'
  <2>1. CASE p # path[t]
    <3>1. Kept(p)
      BY <1>10, <2>1 DEF Kept, ReadUnlock, Goto, files, locks, local, Return, IInv, TypeOK, LocalInv, Reading, Writing, Readers, OuterReaders, Writers
    <3> QED BY <1>10, <2>1, <3>1, KeptSound, Zenon DEF ReadUnlock, Goto, files, locks, local, Return, IInv, TypeOK
  <2>2. CASE p = path[t]
    <3>1. /\ t \in Readers(p) /\ Readers(p)' = Readers(p) \ {t}
          /\ OuterReaders(p)' = OuterReaders(p) /\ Writers(p)' = Writers(p)
      BY <1>10, <2>2, Zenon DEF ReadUnlock, Goto, files, locks, local, Return, IInv, TypeOK, LocalInv, Reading, Writing, Readers, OuterReaders, Writers
    <3>2. Cardinality(Readers(p)') = Cardinality(Readers(p)) - 1
      BY <3>1, Finite, Leaves, Zenon
    <3>3. /\ read_locks_'[p] = read_locks_[p] - 1 /\ read_locks_[p] > 0
          /\ write_locks_' = write_locks_
      BY <1>10, <2>2, Counted, Zenon DEF ReadUnlock, Goto, files, locks, local, Return, IInv, TypeOK, Reading
    <3> QED BY <1>0, <3>1, <3>2, <3>3, Finite DEF Sound
  <2> QED BY <2>1, <2>2, Zenon
<1>11. ASSUME NEW t \in Thread, UnlockOuter(t) PROVE Sound(p)'
  <2>1. CASE p # outer[t]
    <3>1. Kept(p)
      BY <1>11, <2>1, Zenon DEF Kept, UnlockOuter, Goto, files, locks, local, IInv, TypeOK, LocalInv, Reading, Writing, Readers, OuterReaders, Writers
    <3> QED BY <1>11, <2>1, <3>1, KeptSound, Zenon DEF UnlockOuter, Goto, files, locks, local, IInv, TypeOK
  <2>2. CASE p = outer[t]
    <3>1. p # None
      BY Zenon
    <3>2. /\ t \in OuterReaders(p) /\ OuterReaders(p)' = OuterReaders(p) \ {t}
          /\ Readers(p)' = Readers(p) /\ Writers(p)' = Writers(p)
      BY <1>11, <2>2, <3>1, Zenon DEF UnlockOuter, Goto, files, locks, local, IInv, TypeOK, LocalInv, Reading, Writing, Readers, OuterReaders, Writers
    <3>3. Cardinality(OuterReaders(p)') = Cardinality(OuterReaders(p)) - 1
      BY <3>2, Finite, Leaves, Zenon
    <3>4. /\ read_locks_'[p] = read_locks_[p] - 1 /\ read_locks_[p] > 0
          /\ write_locks_' = write_locks_
      BY <1>11, <2>2, <3>1, Counted, Zenon DEF UnlockOuter, Goto, files, locks, local, IInv, TypeOK
    <3> QED BY <1>0, <3>2, <3>3, <3>4, Finite DEF Sound
  <2> QED BY <2>1, <2>2, Zenon
<1>12. ASSUME NEW t \in Thread, WriteLock(t) PROVE Sound(p)'
  <2>1. PICK q \in Path \ write_locks_ : WriteLock(t)!2!(q)
    BY <1>12, Zenon DEF WriteLock
  <2>2. PICK l \in Writing : pc' = [pc EXCEPT ![t] = l]
    BY <2>1, Zenon DEF Goto, Writing
  <2>3. Readers(p)' = Readers(p) /\ OuterReaders(p)' = OuterReaders(p)
    BY <1>12, <2>1, <2>2, Zenon DEF WriteLock, IInv, TypeOK, LocalInv, Reading, Writing, Readers, OuterReaders, Writers
  <2>4. CASE p # q
    <3>1. Kept(p)
      BY <1>12, <2>1, <2>2, <2>3, <2>4, Zenon DEF Kept, WriteLock, IInv, TypeOK, LocalInv, Reading, Writing, Readers, OuterReaders, Writers
    <3> QED BY <1>12, <2>1, <2>4, <3>1, KeptSound, Zenon DEF WriteLock
  <2>5. CASE p = q
    <3>1. Writers(p) = {}
      BY <1>0, <2>5, Zenon DEF Sound
    <3>2. Writers(p)' = {t}
      BY <2>1, <2>2, <2>5, <3>1 DEF IInv, TypeOK, LocalInv, Reading, Writing, Readers, OuterReaders, Writers
    <3>3. p \in write_locks_' /\ read_locks_'[p] = 0 /\ read_locks_' = read_locks_
      BY <1>12, <2>1, <2>5, Zenon DEF WriteLock
    <3> QED BY <1>0, <2>3, <3>2, <3>3, Zenon DEF Sound
  <2> QED BY <2>4, <2>5, Zenon
<1>13. ASSUME NEW t \in Thread, WriteFailed(t) PROVE Sound(p)'
  <2>1. Kept(p)
    BY <1>13, Zenon DEF Kept, WriteFailed, Goto, files, locks, local, IInv, TypeOK, LocalInv, Reading, Writing, Readers, OuterReaders, Writers
  <2> QED BY <1>13, <2>1, KeptSound, Zenon DEF WriteFailed, Goto, files, locks, local
<1>24. ASSUME NEW t \in Thread, WriteShort(t) PROVE Sound(p)'
  <2>1. Kept(p)
    BY <1>24, Zenon DEF Kept, WriteShort, Goto, locks, local, IInv, TypeOK, LocalInv, Reading, Writing, Readers, OuterReaders, Writers
  <2> QED BY <1>24, <2>1, KeptSound, Zenon DEF WriteShort, Goto, locks, local
<1>14. ASSUME NEW t \in Thread, WriteObject(t) PROVE Sound(p)'
  <2>1. Kept(p)
    BY <1>14, Zenon DEF Kept, WriteObject, Goto, files, locks, local, IInv, TypeOK, LocalInv, Reading, Writing, Readers, OuterReaders, Writers
  <2> QED BY <1>14, <2>1, KeptSound, Zenon DEF WriteObject, Goto, files, locks, local
<1>15. ASSUME NEW t \in Thread, WriteDeps(t) PROVE Sound(p)'
  <2>1. Kept(p)
    BY <1>15, Zenon DEF Kept, WriteDeps, Goto, files, locks, local, IInv, TypeOK, LocalInv, Reading, Writing, Readers, OuterReaders, Writers
  <2> QED BY <1>15, <2>1, KeptSound, Zenon DEF WriteDeps, Goto, files, locks, local
<1>16. ASSUME NEW t \in Thread, WriteManifest(t) PROVE Sound(p)'
  <2>1. Kept(p)
    BY <1>16, Zenon DEF Kept, WriteManifest, Goto, files, locks, local, IInv, TypeOK, LocalInv, Reading, Writing, Readers, OuterReaders, Writers
  <2> QED BY <1>16, <2>1, KeptSound, Zenon DEF WriteManifest, Goto, files, locks, local
<1>17. ASSUME NEW t \in Thread, RemoveObject(t) PROVE Sound(p)'
  <2>1. Kept(p)
    BY <1>17, Zenon DEF Kept, RemoveObject, Goto, files, locks, local, Delete, IInv, TypeOK, LocalInv, Reading, Writing, Readers, OuterReaders, Writers
  <2> QED BY <1>17, <2>1, KeptSound, Zenon DEF RemoveObject, Goto, files, locks, local, Delete
<1>18. ASSUME NEW t \in Thread, RemoveDeps(t) PROVE Sound(p)'
  <2>1. Kept(p)
    BY <1>18, Zenon DEF Kept, RemoveDeps, Goto, files, locks, local, Delete, IInv, TypeOK, LocalInv, Reading, Writing, Readers, OuterReaders, Writers
  <2> QED BY <1>18, <2>1, KeptSound, Zenon DEF RemoveDeps, Goto, files, locks, local, Delete
<1>19. ASSUME NEW t \in Thread, RemoveManifest(t) PROVE Sound(p)'
  <2>1. Kept(p)
    BY <1>19, Zenon DEF Kept, RemoveManifest, Goto, files, locks, local, Delete, IInv, TypeOK, LocalInv, Reading, Writing, Readers, OuterReaders, Writers
  <2> QED BY <1>19, <2>1, KeptSound, Zenon DEF RemoveManifest, Goto, files, locks, local, Delete
<1>20. ASSUME NEW t \in Thread, WriteUnlock(t) PROVE Sound(p)'
  <2>1. CASE p # path[t]
    <3>1. Kept(p)
      BY <1>20, <2>1 DEF Kept, WriteUnlock, Goto, files, locks, local, IInv, TypeOK, LocalInv, Reading, Writing, Readers, OuterReaders, Writers
    <3> QED BY <1>20, <2>1, <3>1, KeptSound, Zenon DEF WriteUnlock, Goto, files, locks, local, IInv, TypeOK
  <2>2. CASE p = path[t]
    <3>1. t \in Writers(p)
      BY <1>20, <2>2, Zenon DEF WriteUnlock, Goto, files, locks, local, IInv, TypeOK, LocalInv, Reading, Writing, Readers, OuterReaders, Writers
    <3>2. Writers(p) = {t}
      BY <1>0, <3>1, Zenon DEF Sound
    <3>3. /\ Readers(p)' = Readers(p) /\ OuterReaders(p)' = OuterReaders(p)
          /\ Writers(p)' = Writers(p) \ {t}
      BY <1>20, <2>2, Zenon DEF WriteUnlock, Goto, files, locks, local, IInv, TypeOK, LocalInv, Reading, Writing, Readers, OuterReaders, Writers
    <3>4. p \notin write_locks_' /\ read_locks_' = read_locks_
      BY <1>20, <2>2, Zenon DEF WriteUnlock, Goto, files, locks, local
    <3> QED BY <1>0, <3>2, <3>3, <3>4, Zenon DEF Sound
  <2> QED BY <2>1, <2>2, Zenon
<1>23. ASSUME NEW t \in Thread, StoreNothing(t) PROVE Sound(p)'
  <2>1. Kept(p)
    BY <1>23, Zenon DEF Kept, StoreNothing, Goto, files, locks, local, IInv, TypeOK, LocalInv, Reading, Writing, Readers, OuterReaders, Writers
  <2> QED BY <1>23, <2>1, KeptSound, Zenon DEF StoreNothing, Goto, files, locks, local
<1>21. CASE Crash
  <2>1. Readers(p)' = {} /\ OuterReaders(p)' = {} /\ Writers(p)' = {}
    BY <1>21, Zenon DEF Crash, Readers, OuterReaders, Writers, Reading, Writing
  <2>2. read_locks_'[p] = 0 /\ p \notin write_locks_'
    BY <1>21, Zenon DEF Crash
  <2> QED BY <2>1, <2>2, FS_EmptySet DEF Sound
<1>22. CASE UNCHANGED vars
  <2>1. Kept(p)
    BY <1>22, Zenon DEF vars, Kept, Readers, OuterReaders, Writers
  <2> QED BY <1>22, <2>1, KeptSound, Zenon DEF vars
<1> QED BY <1>1, <1>2, <1>3, <1>4, <1>5, <1>6, <1>7, <1>8, <1>9, <1>10, <1>11, <1>12, <1>13, <1>14, <1>15, <1>16, <1>17, <1>18, <1>19, <1>20, <1>21, <1>22, <1>23, <1>24, Zenon DEF Next, Step
-----------------------------------------------------------------------------
\* At first nothing is locked and no thread is at work.
LEMMA InitIInv ==
  Init => IInv
<1> SUFFICES ASSUME Init PROVE IInv
  BY Zenon
<1> USE FileCacheAssumption
<1>1. TypeOK
  BY Zenon DEF Init, TypeOK, Missing, Reading, Writing
<1>2. LocalInv /\ ManifestInv
  BY Zenon DEF Init, LocalInv, ManifestInv, Reading, Writing
<1>3. \A p \in Path : Readers(p) = {} /\ OuterReaders(p) = {} /\ Writers(p) = {}
  BY Zenon DEF Init, Readers, OuterReaders, Writers, Reading, Writing
<1>4. \A p \in Path : Sound(p)
  <2>1. Cardinality({}) = 0
    BY FS_EmptySet, Zenon
  <2> TAKE p \in Path
  <2>2. read_locks_[p] = 0 /\ p \notin write_locks_
    BY Zenon DEF Init
  <2>3. Readers(p) = {} /\ OuterReaders(p) = {} /\ Writers(p) = {}
    BY <1>3, Zenon
  <2>4. Cardinality(Readers(p)) + Cardinality(OuterReaders(p)) = 0
    BY <2>1, <2>3
  <2> QED BY <2>2, <2>3, <2>4, Zenon DEF Sound
<1> QED BY <1>1, <1>2, <1>4, AllSound, Zenon DEF IInv

\* The inductive invariant: the types, what a thread's position says of its
\* variables, and that the locks count those who hold them.
THEOREM Inductive ==
  Spec => []IInv
<1>1. IInv /\ [Next]_vars => IInv'
  BY TypeStep, LocalStep, LockStep, Zenon DEF IInv
<1> QED BY InitIInv, <1>1, PTL DEF Spec

\* The type invariant; in particular no counter of readers goes below zero.
THEOREM TypeCorrect ==
  Spec => []TypeOK
<1>1. IInv => TypeOK
  BY Zenon DEF IInv
<1> QED BY Inductive, <1>1, PTL

\* The CHECKs in ReadLock::Unlock() and WriteLock::Unlock() never fail.
THEOREM LocksAreCounted ==
  Spec => []LocksCounted
<1>1. IInv => LocksCounted
  BY Zenon DEF IInv
<1> QED BY Inductive, <1>1, PTL

\* The thread that writes a path is the only one that works on it.
LEMMA Alone ==
  IInv => Exclusive
<1> SUFFICES ASSUME IInv, NEW p \in Path, NEW w \in Writers(p)
             PROVE  Writers(p) = {w} /\ Readers(p) = {} /\ OuterReaders(p) = {}
  BY Zenon DEF Exclusive
<1>1. Sound(p)
  BY AllSound, Zenon DEF IInv
<1>2. Cardinality(Readers(p)) + Cardinality(OuterReaders(p)) = 0
  BY <1>1, Zenon DEF Sound
<1>3. Cardinality(Readers(p)) = 0 /\ Cardinality(OuterReaders(p)) = 0
  BY <1>2, Finite
<1> QED BY <1>1, <1>3, Finite, FS_EmptySet, Zenon DEF Sound

\* WriteLock and ReadLock exclude each other and WriteLock itself.
THEOREM ExclusiveAccess ==
  Spec => []Exclusive
<1> QED BY Inductive, Alone, PTL
-----------------------------------------------------------------------------
\* A disk on which deletes succeed, and no kills.
Reliable == ~DeletesFail /\ ~Crashes

\* A thread is not concerned by what happens elsewhere.
LEMMA OtherThread ==
  ASSUME NEW u \in Thread, ThreadInv(u),
         pc'[u] = pc[u], path'[u] = path[u], entry'[u] = entry[u],
         got'[u] = got[u], found'[u] = found[u],
         pc[u] \in Reading \union Writing =>
           /\ object'[path[u]] = object[path[u]]
           /\ deps'[path[u]] = deps[path[u]]
           /\ manifest'[path[u]] = manifest[path[u]]
  PROVE  ThreadInv(u)'
  BY Zenon DEF ThreadInv, Whole, Reading, Writing

\* A step of one thread that leaves the files alone.
LEMMA QuietStep ==
  ASSUME FilesInv, NEW t \in Thread, NEW l, NEW S, pc \in [Thread -> S],
         pc' = [pc EXCEPT ![t] = l], UNCHANGED files,
         \A u \in Thread \ {t} : /\ path'[u] = path[u] /\ entry'[u] = entry[u]
                                 /\ got'[u] = got[u] /\ found'[u] = found[u],
         pc[t] \in Writing => l \in Writing /\ path'[t] = path[t],
         ThreadInv(t)'
  PROVE  FilesInv'
<1>1. \A u \in Thread \ {t} : ThreadInv(u)'
  <2> TAKE u \in Thread \ {t}
  <2>1. ThreadInv(u) /\ pc'[u] = pc[u]
    BY Zenon DEF FilesInv
  <2> QED BY <2>1, OtherThread, Zenon DEF files
<1>2. \A p \in Path : Writers(p)' = {} => Writers(p) = {}
  BY Zenon DEF Writers
<1>3. \A p \in Path : PathInv(p)'
  BY <1>2, Zenon DEF FilesInv, PathInv, Whole, files
<1> QED BY <1>1, <1>3, Zenon DEF FilesInv

\* A step of a writer that changes the files of its own entry.
LEMMA WritingStep ==
  ASSUME IInv, Exclusive, FilesInv, NEW t \in Thread, NEW l \in Writing, pc[t] \in Writing,
         pc' = [pc EXCEPT ![t] = l], UNCHANGED local,
         \A p \in Path \ {path[t]} : /\ object'[p] = object[p] /\ deps'[p] = deps[p]
                                     /\ manifest'[p] = manifest[p],
         ThreadInv(t)'
  PROVE  FilesInv'
<1>1. path[t] \in Path /\ pc \in [Thread -> {"idle", "read_lock", "unlock_outer"} \union Reading \union Writing]
  BY Zenon DEF IInv, LocalInv, TypeOK
<1>2. t \in Writers(path[t])
  BY Zenon DEF Writers
<1>3. \A u \in Thread \ {t} : ThreadInv(u)'
  <2> TAKE u \in Thread \ {t}
  <2>1. ThreadInv(u) /\ pc'[u] = pc[u]
    BY <1>1, Zenon DEF FilesInv
  <2>2. pc[u] \in Reading \union Writing => path[u] \in Path \ {path[t]}
    <3>1. Writers(path[t]) = {t} /\ Readers(path[t]) = {}
      BY <1>1, <1>2, Zenon DEF Exclusive
    <3> QED BY <3>1, Zenon DEF Writers, Readers, IInv, LocalInv
  <2> QED BY <2>1, <2>2, OtherThread, Zenon DEF local
<1>4. \A p \in Path : Writers(p)' = Writers(p)
  BY <1>1, Zenon DEF Writers, local
<1>5. \A p \in Path : PathInv(p)'
  <2> TAKE p \in Path
  <2>1. CASE p = path[t]
    BY <1>2, <1>4, <2>1, Zenon DEF PathInv
  <2>2. CASE p # path[t]
    BY <1>4, <2>2, Zenon DEF FilesInv, PathInv, Whole
  <2> QED BY <2>1, <2>2, Zenon
<1> QED BY <1>3, <1>5, Zenon DEF FilesInv

\* Every step keeps whole what is on the disk and consistent what a reader saw.
LEMMA FilesStep ==
  ASSUME Reliable, IInv, Exclusive, FilesInv, [Next]_vars
  PROVE  FilesInv'
<1> USE FileCacheAssumption
<1>0. pc \in [Thread -> {"idle", "read_lock", "unlock_outer"} \union Reading \union Writing]
  BY Zenon DEF IInv, TypeOK
<1>t. \A t \in Thread : ThreadInv(t)
  BY Zenon DEF FilesInv
<1>1. ASSUME NEW t \in Thread, FindExists(t) PROVE FilesInv'
  <2>1. /\ pc[t] = "idle" /\ UNCHANGED files
        /\ pc' = [pc EXCEPT ![t] = "read_lock"]
    BY <1>1, Zenon DEF FindExists, Goto
  <2>2. \A u \in Thread \ {t} : /\ path'[u] = path[u] /\ entry'[u] = entry[u]
                                 /\ got'[u] = got[u] /\ found'[u] = found[u]
    BY <1>1, Zenon DEF FindExists, local, IInv, TypeOK
  <2>4. ThreadInv(t)'
    BY <1>1, <1>0, <1>t, <2>1, Zenon DEF FindExists, ThreadInv, Whole, files, local, IInv, TypeOK
  <2> QED BY <1>0, <2>1, <2>2, <2>4, QuietStep, Zenon DEF Writing
<1>2. ASSUME NEW t \in Thread, ReadLock(t) PROVE FilesInv'
  <2>1. /\ pc[t] = "read_lock" /\ UNCHANGED files
        /\ pc' = [pc EXCEPT ![t] = "load"]
    BY <1>2, Zenon DEF ReadLock, Goto
  <2>2. \A u \in Thread \ {t} : /\ path'[u] = path[u] /\ entry'[u] = entry[u]
                                 /\ got'[u] = got[u] /\ found'[u] = found[u]
    BY <1>2, Zenon DEF ReadLock, local, IInv, TypeOK
  <2>4. ThreadInv(t)'
    BY <1>2, <1>0, <1>t, <2>1, Zenon DEF ReadLock, ThreadInv, Whole, files, local, IInv, TypeOK
  <2> QED BY <1>0, <2>1, <2>2, <2>4, QuietStep, Zenon DEF Writing
<1>3. ASSUME NEW t \in Thread, ReadRefused(t) PROVE FilesInv'
  <2>1. /\ pc[t] = "read_lock" /\ UNCHANGED files
        /\ pc' = [pc EXCEPT ![t] = IF outer[t] = None THEN "idle" ELSE "unlock_outer"]
    BY <1>3, Zenon DEF ReadRefused, Goto, Return
  <2>2. \A u \in Thread \ {t} : /\ path'[u] = path[u] /\ entry'[u] = entry[u]
                                 /\ got'[u] = got[u] /\ found'[u] = found[u]
    BY <1>3, Zenon DEF ReadRefused, local, IInv, TypeOK
  <2>4. ThreadInv(t)'
    BY <1>3, <1>0, <1>t, <2>1, Zenon DEF ReadRefused, ThreadInv, Whole, files, local, IInv, TypeOK
  <2> QED BY <1>0, <2>1, <2>2, <2>4, QuietStep, Zenon DEF Writing
<1>4. ASSUME NEW t \in Thread, LoadFailed(t) PROVE FilesInv'
  <2>1. /\ pc[t] = "load" /\ UNCHANGED files
        /\ pc' = [pc EXCEPT ![t] = "read_unlock"]
    BY <1>4, Zenon DEF LoadFailed, Goto
  <2>2. \A u \in Thread \ {t} : /\ path'[u] = path[u] /\ entry'[u] = entry[u]
                                 /\ got'[u] = got[u] /\ found'[u] = found[u]
    BY <1>4, Zenon DEF LoadFailed, local, IInv, TypeOK
  <2>4. ThreadInv(t)'
    BY <1>4, <1>0, <1>t, <2>1, Zenon DEF LoadFailed, ThreadInv, Whole, files, local, IInv, TypeOK
  <2> QED BY <1>0, <2>1, <2>2, <2>4, QuietStep, Zenon DEF Writing
<1>5. ASSUME NEW t \in Thread, LoadManifest(t) PROVE FilesInv'
  <2>1. /\ pc[t] = "load" /\ UNCHANGED files
        /\ pc' = [pc EXCEPT ![t] = "read_object"]
    BY <1>5, Zenon DEF LoadManifest, Goto
  <2>2. \A u \in Thread \ {t} : /\ path'[u] = path[u] /\ entry'[u] = entry[u]
                                 /\ got'[u] = got[u] /\ found'[u] = found[u]
    BY <1>5, Zenon DEF LoadManifest, local, IInv, TypeOK
  <2>4. ThreadInv(t)'
    BY <1>5, <1>0, <1>t, <2>1, Zenon DEF LoadManifest, ThreadInv, Whole, files, local, IInv, TypeOK
  <2> QED BY <1>0, <2>1, <2>2, <2>4, QuietStep, Zenon DEF Writing
<1>6. ASSUME NEW t \in Thread, LoadDirect(t) PROVE FilesInv'
  <2>1. /\ pc[t] = "load" /\ UNCHANGED files
        /\ pc' = [pc EXCEPT ![t] = "read_lock"]
    BY <1>6, Zenon DEF LoadDirect, Goto
  <2>2. \A u \in Thread \ {t} : /\ path'[u] = path[u] /\ entry'[u] = entry[u]
                                 /\ got'[u] = got[u] /\ found'[u] = found[u]
    BY <1>6, Zenon DEF LoadDirect, local, IInv, TypeOK
  <2>4. ThreadInv(t)'
    BY <1>6, <1>0, <1>t, <2>1, Zenon DEF LoadDirect, ThreadInv, Whole, files, local, IInv, TypeOK
  <2> QED BY <1>0, <2>1, <2>2, <2>4, QuietStep, Zenon DEF Writing
<1>7. ASSUME NEW t \in Thread, DirectMiss(t) PROVE FilesInv'
  <2>1. /\ pc[t] = "load" /\ UNCHANGED files
        /\ pc' = [pc EXCEPT ![t] = "read_unlock"]
    BY <1>7, Zenon DEF DirectMiss, Goto
  <2>2. \A u \in Thread \ {t} : /\ path'[u] = path[u] /\ entry'[u] = entry[u]
                                 /\ got'[u] = got[u] /\ found'[u] = found[u]
    BY <1>7, Zenon DEF DirectMiss, local, IInv, TypeOK
  <2>4. ThreadInv(t)'
    BY <1>7, <1>0, <1>t, <2>1, Zenon DEF DirectMiss, ThreadInv, Whole, files, local, IInv, TypeOK
  <2> QED BY <1>0, <2>1, <2>2, <2>4, QuietStep, ZenonT(30) DEF Writing
<1>8. ASSUME NEW t \in Thread, ReadObject(t) PROVE FilesInv'
  <2>1. /\ pc[t] = "read_object" /\ UNCHANGED files
        /\ pc' = [pc EXCEPT ![t] = IF object[path[t]] = None THEN "read_unlock" ELSE "read_deps"]
    BY <1>8, Zenon DEF ReadObject, Goto
  <2>2. \A u \in Thread \ {t} : /\ path'[u] = path[u] /\ entry'[u] = entry[u]
                                 /\ got'[u] = got[u] /\ found'[u] = found[u]
    BY <1>8, Zenon DEF ReadObject, local, IInv, TypeOK
  <2>3. Whole(path[t], entry[t])
    <3>1. /\ path[t] \in Path /\ t \in Readers(path[t]) /\ entry[t] \in Entry
          /\ manifest[path[t]] = entry[t]
      BY <1>t, <2>1, Zenon DEF Readers, Reading, IInv, LocalInv, ThreadInv
    <3>2. Writers(path[t]) = {}
      <4>1. Writers(path[t]) \subseteq Thread
        BY Zenon DEF Writers
      <4> QED BY <3>1, <4>1, Zenon DEF Exclusive
    <3> QED BY <3>1, <3>2, Zenon DEF FilesInv, PathInv
  <2>4. ThreadInv(t)'
    BY <1>8, <1>0, <1>t, <2>1, <2>3 DEF ReadObject, ThreadInv, Whole, files, local, IInv, TypeOK
  <2> QED BY <1>0, <2>1, <2>2, <2>4, QuietStep, ZenonT(30) DEF Writing
<1>9. ASSUME NEW t \in Thread, ReadDeps(t) PROVE FilesInv'
  <2>1. /\ pc[t] = "read_deps" /\ UNCHANGED files
        /\ pc' = [pc EXCEPT ![t] = "read_unlock"]
    BY <1>9, Zenon DEF ReadDeps, Goto
  <2>2. \A u \in Thread \ {t} : /\ path'[u] = path[u] /\ entry'[u] = entry[u]
                                 /\ got'[u] = got[u] /\ found'[u] = found[u]
    BY <1>9, Zenon DEF ReadDeps, local, IInv, TypeOK
  <2>3. Whole(path[t], entry[t])
    <3>1. /\ path[t] \in Path /\ t \in Readers(path[t]) /\ entry[t] \in Entry
          /\ manifest[path[t]] = entry[t]
      BY <1>t, <2>1, Zenon DEF Readers, Reading, IInv, LocalInv, ThreadInv
    <3>2. Writers(path[t]) = {}
      <4>1. Writers(path[t]) \subseteq Thread
        BY Zenon DEF Writers
      <4> QED BY <3>1, <4>1, Zenon DEF Exclusive
    <3> QED BY <3>1, <3>2, Zenon DEF FilesInv, PathInv
  <2>4. ThreadInv(t)'
    BY <1>9, <1>0, <1>t, <2>1, <2>3 DEF ReadDeps, ThreadInv, Whole, files, local, IInv, TypeOK
  <2> QED BY <1>0, <2>1, <2>2, <2>4, QuietStep, Zenon DEF Writing
<1>10. ASSUME NEW t \in Thread, ReadUnlock(t) PROVE FilesInv'
  <2>1. /\ pc[t] = "read_unlock" /\ UNCHANGED files
        /\ pc' = [pc EXCEPT ![t] = IF outer[t] = None THEN "idle" ELSE "unlock_outer"]
    BY <1>10, Zenon DEF ReadUnlock, Goto, Return
  <2>2. \A u \in Thread \ {t} : /\ path'[u] = path[u] /\ entry'[u] = entry[u]
                                 /\ got'[u] = got[u] /\ found'[u] = found[u]
    BY <1>10, Zenon DEF ReadUnlock, local, IInv, TypeOK
  <2>4. ThreadInv(t)'
    BY <1>10, <1>0, <1>t, <2>1, Zenon DEF ReadUnlock, ThreadInv, Whole, files, local, IInv, TypeOK
  <2> QED BY <1>0, <2>1, <2>2, <2>4, QuietStep, Zenon DEF Writing
<1>11. ASSUME NEW t \in Thread, UnlockOuter(t) PROVE FilesInv'
  <2>1. /\ pc[t] = "unlock_outer" /\ UNCHANGED files
        /\ pc' = [pc EXCEPT ![t] = "idle"]
    BY <1>11, Zenon DEF UnlockOuter, Goto
  <2>2. \A u \in Thread \ {t} : /\ path'[u] = path[u] /\ entry'[u] = entry[u]
                                 /\ got'[u] = got[u] /\ found'[u] = found[u]
    BY <1>11, Zenon DEF UnlockOuter, local, IInv, TypeOK
  <2>4. ThreadInv(t)'
    BY <1>11, <1>0, <1>t, <2>1, Zenon DEF UnlockOuter, ThreadInv, Whole, files, local, IInv, TypeOK
  <2> QED BY <1>0, <2>1, <2>2, <2>4, QuietStep, Zenon DEF Writing
<1>12. ASSUME NEW t \in Thread, WriteLock(t) PROVE FilesInv'
  <2>1. PICK q \in Path \ write_locks_ : WriteLock(t)!2!(q)
    BY <1>12, Zenon DEF WriteLock
  <2>2. PICK l \in {"write_object", "write_manifest", "remove_object"} :
          /\ pc' = [pc EXCEPT ![t] = l]
          /\ l = "write_manifest" => entry'[t] = Headers
    BY <2>1, Zenon DEF Goto, IInv, TypeOK
  <2>3. pc[t] = "idle" /\ UNCHANGED files /\ path'[t] = q /\ path' = [path EXCEPT ![t] = q]
    BY <1>12, <2>1, Zenon DEF WriteLock, IInv, TypeOK
  <2>4. \A u \in Thread \ {t} : /\ path'[u] = path[u] /\ entry'[u] = entry[u]
                                 /\ got'[u] = got[u] /\ found'[u] = found[u]
    BY <1>12, <2>1, <2>3 DEF WriteLock, IInv, TypeOK
  <2>5. manifest[q] \in Entry => Whole(q, manifest[q])
    <3>1. Writers(q) = {}
      BY <2>1, Zenon DEF IInv, LocksCounted
    <3> QED BY <3>1, Zenon DEF FilesInv, PathInv
  <2>6. ThreadInv(t)'
    BY <1>0, <2>2, <2>3, <2>5, Zenon DEF ThreadInv, Whole, files
  <2> QED BY <1>0, <2>2, <2>3, <2>4, <2>6, QuietStep, Zenon DEF Writing
<1>13. ASSUME NEW t \in Thread, StoreNothing(t) PROVE FilesInv'
  <2>1. /\ pc[t] \in {"write_object", "write_manifest"} /\ UNCHANGED local
        /\ pc' = [pc EXCEPT ![t] = "write_unlock"]
    BY <1>13, Zenon DEF StoreNothing, Goto
  <2>2. \A p \in Path \ {path[t]} : /\ object'[p] = object[p] /\ deps'[p] = deps[p]
                                     /\ manifest'[p] = manifest[p]
    BY <1>13, Zenon DEF StoreNothing, files, IInv, TypeOK
  <2>3. ThreadInv(t)'
    <3>1. pc'[t] = "write_unlock"
      BY <2>1, Zenon DEF IInv, TypeOK
    <3>2. path[t] \in Path /\ path' = path /\ UNCHANGED files
      BY <1>13, <2>1, Zenon DEF StoreNothing, IInv, LocalInv, Writing, local
    <3>3. manifest[path[t]] \in Entry => Whole(path[t], manifest[path[t]])
      <4>1. CASE pc[t] = "write_object"
        BY <1>t, <4>1, Zenon DEF ThreadInv
      <4>2. CASE pc[t] = "write_manifest" /\ entry[t] = Headers
        <5>1. path[t] \in DirectPath
          BY <4>2, Zenon DEF IInv, LocalInv
        <5> QED BY <3>2, <5>1, Zenon DEF IInv, ManifestInv
      <4> QED BY <1>13, <4>1, <4>2, Zenon DEF StoreNothing
    <3> QED BY <3>1, <3>2, <3>3, Zenon DEF ThreadInv, Whole, files
  <2> QED BY <2>1, <2>2, <2>3, WritingStep, Zenon DEF Writing
<1>14. ASSUME NEW t \in Thread, WriteFailed(t) PROVE FilesInv'
  <2>1. /\ pc[t] \in {"write_object", "write_deps", "write_manifest"} /\ UNCHANGED local
        /\ pc' = [pc EXCEPT ![t] = "remove_object"]
    BY <1>14, Zenon DEF WriteFailed, Goto
  <2>2. \A p \in Path \ {path[t]} : /\ object'[p] = object[p] /\ deps'[p] = deps[p]
                                     /\ manifest'[p] = manifest[p]
    BY <1>14, Zenon DEF WriteFailed, files, IInv, TypeOK
  <2>3. ThreadInv(t)'
    <3>1. pc'[t] = "remove_object"
      BY <2>1, Zenon DEF IInv, TypeOK
    <3> QED BY <3>1, Zenon DEF ThreadInv
  <2> QED BY <2>1, <2>2, <2>3, WritingStep, Zenon DEF Writing
<1>24. ASSUME NEW t \in Thread, WriteShort(t) PROVE FilesInv'
  <2>1. /\ pc[t] \in {"write_object", "write_deps", "write_manifest"} /\ UNCHANGED local
        /\ pc' = [pc EXCEPT ![t] = "remove_object"]
    BY <1>24, Zenon DEF WriteShort, Goto
  <2>2. \A p \in Path \ {path[t]} : /\ object'[p] = object[p] /\ deps'[p] = deps[p]
                                     /\ manifest'[p] = manifest[p]
    BY <1>24, Zenon DEF WriteShort, IInv, TypeOK
  <2>3. ThreadInv(t)'
    <3>1. pc'[t] = "remove_object"
      BY <2>1, Zenon DEF IInv, TypeOK
    <3> QED BY <3>1, Zenon DEF ThreadInv
  <2> QED BY <2>1, <2>2, <2>3, WritingStep, Zenon DEF Writing
<1>15. ASSUME NEW t \in Thread, WriteObject(t) PROVE FilesInv'
  <2>1. /\ pc[t] = "write_object" /\ UNCHANGED local
        /\ pc' = [pc EXCEPT ![t] = IF entry[t] \in WithDeps THEN "write_deps" ELSE "write_manifest"]
    BY <1>15, Zenon DEF WriteObject, Goto
  <2>2. \A p \in Path \ {path[t]} : /\ object'[p] = object[p] /\ deps'[p] = deps[p]
                                     /\ manifest'[p] = manifest[p]
    BY <1>15, Zenon DEF WriteObject, files, IInv, TypeOK
  <2>3. ThreadInv(t)'
    BY <1>15, <1>0, <1>t, <2>1 DEF WriteObject, ThreadInv, Whole, files, local, Writing, IInv, TypeOK, LocalInv
  <2> QED BY <2>1, <2>2, <2>3, WritingStep, ZenonT(30) DEF Writing
<1>16. ASSUME NEW t \in Thread, WriteDeps(t) PROVE FilesInv'
  <2>1. /\ pc[t] = "write_deps" /\ UNCHANGED local
        /\ pc' = [pc EXCEPT ![t] = "write_manifest"]
    BY <1>16, Zenon DEF WriteDeps, Goto
  <2>2. \A p \in Path \ {path[t]} : /\ object'[p] = object[p] /\ deps'[p] = deps[p]
                                     /\ manifest'[p] = manifest[p]
    BY <1>16, Zenon DEF WriteDeps, files, IInv, TypeOK
  <2>3. ThreadInv(t)'
    BY <1>16, <1>0, <1>t, <2>1 DEF WriteDeps, ThreadInv, Whole, files, local, Writing, IInv, TypeOK, LocalInv
  <2> QED BY <2>1, <2>2, <2>3, WritingStep, Zenon DEF Writing
<1>17. ASSUME NEW t \in Thread, WriteManifest(t) PROVE FilesInv'
  <2>1. /\ pc[t] = "write_manifest" /\ UNCHANGED local
        /\ pc' = [pc EXCEPT ![t] = "write_unlock"]
    BY <1>17, Zenon DEF WriteManifest, Goto
  <2>2. \A p \in Path \ {path[t]} : /\ object'[p] = object[p] /\ deps'[p] = deps[p]
                                     /\ manifest'[p] = manifest[p]
    BY <1>17, Zenon DEF WriteManifest, files, IInv, TypeOK
  <2>3. ThreadInv(t)'
    BY <1>17, <1>0, <1>t, <2>1 DEF WriteManifest, ThreadInv, Whole, files, local, Writing, IInv, TypeOK, LocalInv
  <2> QED BY <2>1, <2>2, <2>3, WritingStep, Zenon DEF Writing
<1>18. ASSUME NEW t \in Thread, RemoveObject(t) PROVE FilesInv'
  <2>1. /\ pc[t] = "remove_object" /\ UNCHANGED local
        /\ pc' = [pc EXCEPT ![t] = "remove_deps"]
    BY <1>18, Zenon DEF RemoveObject, Goto
  <2>2. \A p \in Path \ {path[t]} : /\ object'[p] = object[p] /\ deps'[p] = deps[p]
                                     /\ manifest'[p] = manifest[p]
    BY <1>18, Zenon DEF RemoveObject, files, Delete, Reliable, IInv, TypeOK
  <2>3. ThreadInv(t)'
    <3>1. pc'[t] = "remove_deps"
      BY <2>1, Zenon DEF IInv, TypeOK
    <3> QED BY <3>1, Zenon DEF ThreadInv
  <2> QED BY <2>1, <2>2, <2>3, WritingStep, Zenon DEF Writing
<1>19. ASSUME NEW t \in Thread, RemoveDeps(t) PROVE FilesInv'
  <2>1. /\ pc[t] = "remove_deps" /\ UNCHANGED local
        /\ pc' = [pc EXCEPT ![t] = "remove_manifest"]
    BY <1>19, Zenon DEF RemoveDeps, Goto
  <2>2. \A p \in Path \ {path[t]} : /\ object'[p] = object[p] /\ deps'[p] = deps[p]
                                     /\ manifest'[p] = manifest[p]
    BY <1>19, Zenon DEF RemoveDeps, files, Delete, Reliable, IInv, TypeOK
  <2>3. ThreadInv(t)'
    <3>1. pc'[t] = "remove_manifest"
      BY <2>1, Zenon DEF IInv, TypeOK
    <3> QED BY <3>1, Zenon DEF ThreadInv
  <2> QED BY <2>1, <2>2, <2>3, WritingStep, Zenon DEF Writing
<1>20. ASSUME NEW t \in Thread, RemoveManifest(t) PROVE FilesInv'
  <2>1. /\ pc[t] = "remove_manifest" /\ UNCHANGED local
        /\ pc' = [pc EXCEPT ![t] = "write_unlock"]
    BY <1>20, Zenon DEF RemoveManifest, Goto
  <2>2. \A p \in Path \ {path[t]} : /\ object'[p] = object[p] /\ deps'[p] = deps[p]
                                     /\ manifest'[p] = manifest[p]
    BY <1>20, Zenon DEF RemoveManifest, files, Delete, Reliable, IInv, TypeOK
  <2>3. ThreadInv(t)'
    <3>1. pc'[t] = "write_unlock"
      BY <2>1, Zenon DEF IInv, TypeOK
    <3>2. path[t] \in Path /\ path' = path
      BY <2>1, Zenon DEF IInv, LocalInv, Writing, local
    <3>3. manifest'[path'[t]] = None
      BY <1>20, <3>2 DEF RemoveManifest, Delete, Reliable, IInv, TypeOK
    <3> QED BY <3>1, <3>3, Zenon DEF ThreadInv
  <2> QED BY <2>1, <2>2, <2>3, WritingStep, Zenon DEF Writing
<1>21. ASSUME NEW t \in Thread, WriteUnlock(t) PROVE FilesInv'
  <2>1. pc[t] = "write_unlock" /\ pc' = [pc EXCEPT ![t] = "idle"] /\ UNCHANGED <<files, local>>
    BY <1>21, Zenon DEF WriteUnlock, Goto
  <2>2. \A u \in Thread : ThreadInv(u)'
    <3> TAKE u \in Thread
    <3>1. CASE u = t
      BY <1>0, <2>1, <3>1, Zenon DEF ThreadInv
    <3>2. CASE u # t
      BY <1>0, <1>t, <2>1, <3>2, OtherThread, Zenon DEF files, local
    <3> QED BY <3>1, <3>2, Zenon
  <2>3. ASSUME NEW p \in Path PROVE PathInv(p)'
    <3>1. CASE p = path[t]
      BY <1>t, <2>1, <3>1, Zenon DEF ThreadInv, PathInv, Whole, files
    <3>2. CASE p # path[t]
      <4>1. Writers(p)' = Writers(p)
        BY <1>0, <2>1, <3>2, Zenon DEF Writers, local
      <4> QED BY <2>1, <4>1, Zenon DEF FilesInv, PathInv, Whole, files
    <3> QED BY <3>1, <3>2, Zenon
  <2> QED BY <2>2, <2>3, Zenon DEF FilesInv
<1>22. CASE Crash
  BY <1>22, Zenon DEF Crash, Reliable
<1>23. CASE UNCHANGED vars
  <2>1. \A u \in Thread : ThreadInv(u)'
    BY <1>23, <1>t, Zenon DEF vars, ThreadInv, Whole
  <2>2. \A p \in Path : PathInv(p)'
    BY <1>23, Zenon DEF vars, FilesInv, PathInv, Whole, Writers
  <2> QED BY <2>1, <2>2, Zenon DEF FilesInv
<1> QED BY <1>1, <1>2, <1>3, <1>4, <1>5, <1>6, <1>7, <1>8, <1>9, <1>10, <1>11, <1>12, <1>13, <1>14, <1>15, <1>16, <1>17, <1>18, <1>19, <1>20, <1>21, <1>22, <1>23, <1>24, Zenon DEF Next, Step

\* At first there are no entries.
LEMMA InitFiles ==
  Init => FilesInv
  BY FileCacheAssumption, Zenon DEF Init, FilesInv, PathInv, ThreadInv, Whole

\* FilesInv is inductive relative to the locks.
LEMMA FilesInductive ==
  ASSUME Reliable
  PROVE  Spec => []FilesInv
<1>1. IInv /\ Exclusive /\ FilesInv /\ [Next]_vars => FilesInv'
  BY FilesStep, Zenon
<1> QED BY InitFiles, <1>1, Inductive, ExclusiveAccess, PTL DEF Spec

\* Where deletes succeed and the daemon is not killed, Find() returns the files of
\* one Store(), even if the sizes of entries are equal and writes fail.
THEOREM FindsAtomic ==
  ASSUME Reliable
  PROVE  Spec => []FindAtomic
<1>1. FilesInv => FindAtomic
  BY Zenon DEF FilesInv, ThreadInv, FindAtomic
<1> QED BY FilesInductive, <1>1, PTL

\* Under the same assumption a manifest is never left without its files.
THEOREM EntriesComplete ==
  ASSUME Reliable
  PROVE  Spec => []EntryComplete
<1>1. FilesInv => EntryComplete
  BY Zenon DEF FilesInv, PathInv, Whole, EntryComplete
<1> QED BY FilesInductive, <1>1, PTL
=============================================================================
