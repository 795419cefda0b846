------------------------------ MODULE FileCache ------------------------------
(***************************************************************************)
(* The files of the cache and the locks that protect them                  *)
(* (cache/file_cache.cc): Find() of both caches, Store(), DoStore() and    *)
(* RemoveEntry() by concurrent threads, file by file.  A file is written   *)
(* to a temporary name and renamed, so one write is one step; a write that *)
(* falls short is renamed, too.                                            *)
(*                                                                         *)
(* A path stands for a hash.  An entry of the simple cache has an object   *)
(* and may have deps (stderr is handled as deps are); an entry of the      *)
(* direct cache, on a path in DirectPath, has a manifest only.             *)
(***************************************************************************)
EXTENDS Naturals, FiniteSets

CONSTANTS
  Thread, Path, DirectPath,
  Entry,        \* what is stored in the simple cache
  WithDeps,     \* the entries that have deps
  Headers,      \* what is stored in the direct cache: a list of headers
  ObjectSize(_), DepsSize(_),
  WritesFail,   \* a write may fail
  DeletesFail,  \* a delete may fail
  Crashes,      \* the daemon may be killed and started again
  Broken,       \* what is in a file that was not written to its end
  None

ASSUME FileCacheAssumption ==
  /\ IsFiniteSet(Thread)
  /\ DirectPath \subseteq Path
  /\ WithDeps \subseteq Entry
  /\ Headers \notin Entry /\ None \notin Entry /\ None # Headers
  /\ Broken \notin Entry /\ Broken # Headers /\ Broken # None
  /\ None \notin Path
  /\ \A e \in Entry : ObjectSize(e) \in Nat /\ DepsSize(e) \in Nat
  /\ {WritesFail, DeletesFail, Crashes} \subseteq BOOLEAN

VARIABLES
  object, deps, manifest,   \* the files by path; a manifest names what was stored
  read_locks_, write_locks_,
  pc,      \* what a thread does next
  path,    \* the path it works on
  outer,   \* the path of the direct manifest it holds a read lock on
  entry,   \* what it stores, or the manifest it has read
  got,     \* the object and deps it has read
  found    \* what Find() returns

files == <<object, deps, manifest>>
locks == <<read_locks_, write_locks_>>
local == <<path, outer, entry, got, found>>
vars == <<object, deps, manifest, read_locks_, write_locks_, pc, path, outer, entry, got, found>>

Missing == [object |-> None, deps |-> None]

Init ==
  /\ object = [p \in Path |-> None]
  /\ deps = [p \in Path |-> None]
  /\ manifest = [p \in Path |-> None]
  /\ read_locks_ = [p \in Path |-> 0]
  /\ write_locks_ = {}
  /\ pc = [t \in Thread |-> "idle"]
  /\ path = [t \in Thread |-> None]
  /\ outer = [t \in Thread |-> None]
  /\ entry = [t \in Thread |-> None]
  /\ got = [t \in Thread |-> Missing]
  /\ found = [t \in Thread |-> FALSE]

Goto(t, l) == pc' = [pc EXCEPT ![t] = l]
-----------------------------------------------------------------------------
(* Find() *)

\* ReadLock looks for the file before it takes the mutex.
FindExists(t) ==
  /\ pc[t] = "idle"
  /\ \E p \in Path :
       /\ manifest[p] # None
       /\ path' = [path EXCEPT ![t] = p]
  /\ Goto(t, "read_lock")
  /\ found' = [found EXCEPT ![t] = FALSE]
  /\ got' = [got EXCEPT ![t] = Missing]
  /\ UNCHANGED <<files, locks, outer, entry>>

\* Faulty: writers are not looked for.
ReadLockAlways(t) ==
  /\ pc[t] = "read_lock"
  /\ read_locks_' = [read_locks_ EXCEPT ![path[t]] = @ + 1]
  /\ Goto(t, "load")
  /\ UNCHANGED <<files, write_locks_, local>>

ReadLock(t) ==
  /\ pc[t] = "read_lock"
  /\ path[t] \notin write_locks_
  /\ read_locks_' = [read_locks_ EXCEPT ![path[t]] = @ + 1]
  /\ Goto(t, "load")
  /\ UNCHANGED <<files, write_locks_, local>>

\* Find() of the simple cache may have been called by the one of the direct cache.
Return(t) == Goto(t, IF outer[t] = None THEN "idle" ELSE "unlock_outer")

ReadRefused(t) ==
  /\ pc[t] = "read_lock"
  /\ path[t] \in write_locks_
  /\ Return(t)
  /\ UNCHANGED <<files, locks, local>>

\* The file may be gone since it was looked for, or can't be parsed.
LoadFailed(t) ==
  /\ pc[t] = "load"
  /\ manifest[path[t]] \in {None, Broken}
  /\ Goto(t, "read_unlock")
  /\ UNCHANGED <<files, locks, local>>

LoadManifest(t) ==
  /\ pc[t] = "load"
  /\ manifest[path[t]] \in Entry
  /\ entry' = [entry EXCEPT ![t] = manifest[path[t]]]
  /\ Goto(t, "read_object")
  /\ UNCHANGED <<files, locks, path, outer, got, found>>

\* The database knows the handled hash, and the file of its entry exists.
LoadDirect(t) ==
  /\ pc[t] = "load"
  /\ manifest[path[t]] = Headers
  /\ \E p \in Path \ DirectPath :
       /\ manifest[p] # None
       /\ path' = [path EXCEPT ![t] = p]
  /\ outer' = [outer EXCEPT ![t] = path[t]]
  /\ Goto(t, "read_lock")
  /\ UNCHANGED <<files, locks, entry, got, found>>

DirectMiss(t) ==
  /\ pc[t] = "load"
  /\ manifest[path[t]] = Headers
  /\ Goto(t, "read_unlock")
  /\ UNCHANGED <<files, locks, local>>

ReadObject(t) ==
  /\ pc[t] = "read_object"
  /\ got' = [got EXCEPT ![t].object = object[path[t]]]
  /\ Goto(t, IF object[path[t]] = None THEN "read_unlock" ELSE "read_deps")
  /\ UNCHANGED <<files, locks, path, outer, entry, found>>

SizeOf(e, g) == ObjectSize(g.object) + (IF e \in WithDeps THEN DepsSize(g.deps) ELSE 0)
StoredSize(e) == ObjectSize(e) + (IF e \in WithDeps THEN DepsSize(e) ELSE 0)

\* Faulty: the size is not compared.
ReadDepsAny(t) ==
  LET e == entry[t]
      d == IF e \in WithDeps THEN deps[path[t]] ELSE None
  IN /\ pc[t] = "read_deps"
     /\ got' = [got EXCEPT ![t].deps = d]
     /\ found' = [found EXCEPT ![t] = e \in WithDeps => d # None]
     /\ Goto(t, "read_unlock")
     /\ UNCHANGED <<files, locks, path, outer, entry>>

ReadDeps(t) ==
  LET e == entry[t]
      d == IF e \in WithDeps THEN deps[path[t]] ELSE None
  IN /\ pc[t] = "read_deps"
     /\ got' = [got EXCEPT ![t].deps = d]
     /\ found' = [found EXCEPT ![t] =
          /\ e \in WithDeps => d # None
          /\ SizeOf(e, [got[t] EXCEPT !.deps = d]) = StoredSize(e)]
     /\ Goto(t, "read_unlock")
     /\ UNCHANGED <<files, locks, path, outer, entry>>

ReadUnlock(t) ==
  /\ pc[t] = "read_unlock"
  /\ read_locks_' = [read_locks_ EXCEPT ![path[t]] = @ - 1]
  /\ Return(t)
  /\ UNCHANGED <<files, write_locks_, local>>

UnlockOuter(t) ==
  /\ pc[t] = "unlock_outer"
  /\ read_locks_' = [read_locks_ EXCEPT ![outer[t]] = @ - 1]
  /\ outer' = [outer EXCEPT ![t] = None]
  /\ Goto(t, "idle")
  /\ UNCHANGED <<files, write_locks_, path, entry, got, found>>
-----------------------------------------------------------------------------
(* Store(), DoStore() and Clean() *)

\* A refused lock makes Store() return and Clean() look for the first entry again.
WriteLock(t) ==
  /\ pc[t] = "idle"
  /\ \E p \in Path \ write_locks_ :
       /\ read_locks_[p] = 0
       /\ write_locks_' = write_locks_ \union {p}
       /\ path' = [path EXCEPT ![t] = p]
       /\ \/ /\ \E e \in IF p \in DirectPath THEN {Headers} ELSE Entry :
                  entry' = [entry EXCEPT ![t] = e]
             /\ Goto(t, IF p \in DirectPath THEN "write_manifest" ELSE "write_object")
          \/ Goto(t, "remove_object") /\ UNCHANGED entry
  /\ found' = [found EXCEPT ![t] = FALSE]
  /\ UNCHANGED <<files, read_locks_, outer, got>>

\* No directory for the files, or no answer from the database: nothing is written.
StoreNothing(t) ==
  /\ WritesFail
  /\ \/ pc[t] = "write_object"
     \/ pc[t] = "write_manifest" /\ entry[t] = Headers
  /\ Goto(t, "write_unlock")
  /\ UNCHANGED <<files, locks, local>>

WriteFailed(t) ==
  /\ WritesFail
  /\ pc[t] \in {"write_object", "write_deps", "write_manifest"}
  /\ Goto(t, "remove_object")
  /\ UNCHANGED <<files, locks, local>>

\* The disk takes a part of the contents: File::Write() returns false, but only
\* after Close() has given the file its name.
WriteShort(t) ==
  /\ WritesFail
  /\ \/ /\ pc[t] = "write_object"
        /\ object' = [object EXCEPT ![path[t]] = Broken]
        /\ UNCHANGED <<deps, manifest>>
     \/ /\ pc[t] = "write_deps"
        /\ deps' = [deps EXCEPT ![path[t]] = Broken]
        /\ UNCHANGED <<object, manifest>>
     \/ /\ pc[t] = "write_manifest"
        /\ manifest' = [manifest EXCEPT ![path[t]] = Broken]
        /\ UNCHANGED <<object, deps>>
  /\ Goto(t, "remove_object")
  /\ UNCHANGED <<locks, local>>

WriteObject(t) ==
  /\ pc[t] = "write_object"
  /\ object' = [object EXCEPT ![path[t]] = entry[t]]
  /\ Goto(t, IF entry[t] \in WithDeps THEN "write_deps" ELSE "write_manifest")
  /\ UNCHANGED <<deps, manifest, locks, local>>

WriteDeps(t) ==
  /\ pc[t] = "write_deps"
  /\ deps' = [deps EXCEPT ![path[t]] = entry[t]]
  /\ Goto(t, "write_manifest")
  /\ UNCHANGED <<object, manifest, locks, local>>

WriteManifest(t) ==
  /\ pc[t] = "write_manifest"
  /\ manifest' = [manifest EXCEPT ![path[t]] = entry[t]]
  /\ Goto(t, "write_unlock")
  /\ UNCHANGED <<object, deps, locks, local>>

\* RemoveEntry().  One fault at a time: what fell short can be deleted, and the
\* daemon is not killed before that; the file has its full size, so that nothing
\* else would tell.
Delete(file, p) ==
  \/ file' = [file EXCEPT ![p] = None]
  \/ DeletesFail /\ file[p] # Broken /\ UNCHANGED file

RemoveObject(t) ==
  /\ pc[t] = "remove_object"
  /\ Delete(object, path[t])
  /\ Goto(t, "remove_deps")
  /\ UNCHANGED <<deps, manifest, locks, local>>

RemoveDeps(t) ==
  /\ pc[t] = "remove_deps"
  /\ Delete(deps, path[t])
  /\ Goto(t, "remove_manifest")
  /\ UNCHANGED <<object, manifest, locks, local>>

RemoveManifest(t) ==
  /\ pc[t] = "remove_manifest"
  /\ Delete(manifest, path[t])
  /\ Goto(t, "write_unlock")
  /\ UNCHANGED <<object, deps, locks, local>>

WriteUnlock(t) ==
  /\ pc[t] = "write_unlock"
  /\ write_locks_' = write_locks_ \ {path[t]}
  /\ Goto(t, "idle")
  /\ UNCHANGED <<files, read_locks_, local>>

\* The files outlive the process.
Crash ==
  /\ Crashes
  /\ \A p \in Path : Broken \notin {object[p], deps[p], manifest[p]}
  /\ read_locks_' = [p \in Path |-> 0]
  /\ write_locks_' = {}
  /\ pc' = [t \in Thread |-> "idle"]
  /\ path' = [t \in Thread |-> None]
  /\ outer' = [t \in Thread |-> None]
  /\ entry' = [t \in Thread |-> None]
  /\ got' = [t \in Thread |-> Missing]
  /\ found' = [t \in Thread |-> FALSE]
  /\ UNCHANGED files
-----------------------------------------------------------------------------
Step(t) ==
  \/ FindExists(t) \/ ReadLock(t) \/ ReadRefused(t) \/ LoadFailed(t) \/ LoadManifest(t)
  \/ LoadDirect(t) \/ DirectMiss(t) \/ ReadObject(t) \/ ReadDeps(t) \/ ReadUnlock(t)
  \/ UnlockOuter(t) \/ WriteLock(t) \/ StoreNothing(t) \/ WriteFailed(t) \/ WriteShort(t)
  \/ WriteObject(t) \/ WriteDeps(t) \/ WriteManifest(t)
  \/ RemoveObject(t) \/ RemoveDeps(t) \/ RemoveManifest(t) \/ WriteUnlock(t)

Next == (\E t \in Thread : Step(t)) \/ Crash

Spec == Init /\ [][Next]_vars
-----------------------------------------------------------------------------
Reading == {"load", "read_object", "read_deps", "read_unlock"}
Writing == {"write_object", "write_deps", "write_manifest",
            "remove_object", "remove_deps", "remove_manifest", "write_unlock"}

Readers(p) == {t \in Thread : pc[t] \in Reading /\ path[t] = p}
OuterReaders(p) == {t \in Thread : outer[t] = p}
Writers(p) == {t \in Thread : pc[t] \in Writing /\ path[t] = p}

\* The types of the files, the locks and the local variables.
TypeOK ==
  /\ object \in [Path -> Entry \union {Broken, None}]
  /\ deps \in [Path -> Entry \union {Broken, None}]
  /\ manifest \in [Path -> Entry \union {Headers, Broken, None}]
  /\ read_locks_ \in [Path -> Nat]
  /\ write_locks_ \subseteq Path
  /\ pc \in [Thread -> {"idle", "read_lock", "unlock_outer"} \union Reading \union Writing]
  /\ path \in [Thread -> Path \union {None}]
  /\ outer \in [Thread -> DirectPath \union {None}]
  /\ entry \in [Thread -> Entry \union {Headers, None}]
  /\ got \in [Thread -> [object : Entry \union {Broken, None}, deps : Entry \union {Broken, None}]]
  /\ found \in [Thread -> BOOLEAN]

\* The CHECKs of both Unlock(): a lock is counted as long as someone holds it, and
\* no longer.
LocksCounted ==
  \A p \in Path :
    /\ read_locks_[p] = Cardinality(Readers(p)) + Cardinality(OuterReaders(p))
    /\ p \in write_locks_ <=> Writers(p) # {}

\* Whoever writes or removes the files of an entry is alone with it, although readers
\* look for the file without the mutex and one Find() holds two locks.
Exclusive ==
  \A p \in Path, w \in Thread :
    w \in Writers(p) => /\ Writers(p) = {w}
                        /\ Readers(p) = {} /\ OuterReaders(p) = {}

\* Find() returns the object and the deps of one and the same Store(), the one that
\* the manifest tells of.
FindAtomic ==
  \A t \in Thread :
    found[t] /\ pc[t] = "read_unlock" =>
      /\ got[t].object = entry[t]
      /\ entry[t] \in WithDeps => got[t].deps = entry[t]

\* A manifest that no one is working on promises files that are there: Store()
\* writes it last and a failed Store() removes it.
EntryComplete ==
  \A p \in Path :
    manifest[p] \in Entry /\ Writers(p) = {} =>
      /\ object[p] = manifest[p]
      /\ manifest[p] \in WithDeps => deps[p] = manifest[p]
=============================================================================
