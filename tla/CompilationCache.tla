-------------------------- MODULE CompilationCache --------------------------
(***************************************************************************)
(* How the emitter uses its two caches (daemon/emitter.cc,                 *)
(* daemon/compilation_daemon.cc, cache/file_cache.cc) while a user edits   *)
(* the files: the direct cache is looked up by the contents of a source    *)
(* and of the headers its manifest lists, the simple cache by the          *)
(* preprocessed source.  A hash is modelled by what it is the hash of, and *)
(* an object by the preprocessed source it was compiled from.              *)
(*                                                                         *)
(* The source "src" includes "h1", and "h1" includes "h2" in some of its   *)
(* versions.                                                               *)
(***************************************************************************)
EXTENDS Naturals, Sequences

CONSTANTS
  Job,          \* compilations that run at a time
  MaxVersion,   \* bound: versions of a file
  Includes,     \* the versions of h1 that include h2
  Dated,        \* <<file, version>> that contain __DATE__ or __TIME__
  Where,        \* where compilations may run: "local", "remote"
  BusyEdits     \* files are also edited while jobs run

File == {"src", "h1", "h2"}
Version == 0 .. MaxVersion

ASSUME CacheAssumption ==
  /\ MaxVersion \in Nat
  /\ Includes \subseteq Version
  /\ Dated \subseteq File \X Version
  /\ Where \subseteq {"local", "remote"}
  /\ BusyEdits \in BOOLEAN

VARIABLES
  content,    \* the files
  simple,     \* the entries by handled hash: object and deps, <<>> for none
  manifest,   \* the headers listed by the unhandled hash
  database,   \* LevelDB: handled hash by the hash with headers
  job,        \* the jobs: pc, deps file requested, source and deps of GenerateSource()
  restored    \* what was last restored from a cache, and what was asked for

cacheVars == <<content, simple, manifest, database, job, restored>>

Idle == [pc |-> "idle", deps |-> FALSE, source |-> <<>>, headers |-> <<>>]
Nothing == [object |-> <<>>, asked |-> <<>>]

CacheInit ==
  /\ content = [f \in File |-> 0]
  /\ simple = <<>> /\ manifest = <<>> /\ database = <<>>
  /\ job = [j \in Job |-> Idle]
  /\ restored = Nothing

\* What the compiler lists in a deps file, and what it makes of the files.
Headers(c) == IF c["h1"] \in Includes THEN <<"src", "h1", "h2">> ELSE <<"src", "h1">>
Contents(hs, c) == [i \in 1 .. Len(hs) |-> c[hs[i]]]
Preprocess(c) == Contents(Headers(c), c)

Put(f, k, v) == [x \in DOMAIN f \union {k} |-> IF x = k THEN v ELSE f[x]]

\* The user, or a build step, writes a file.
Edit(f) ==
  /\ content[f] < MaxVersion
  /\ BusyEdits \/ \A j \in Job : job[j].pc = "idle"
  /\ content' = [content EXCEPT ![f] = @ + 1]
  /\ UNCHANGED <<simple, manifest, database, job, restored>>

Start(j) ==
  /\ job[j].pc = "idle"
  /\ \E d \in BOOLEAN :
       job' = [job EXCEPT ![j] = [Idle EXCEPT !.pc = "direct", !.deps = d]]
  /\ UNCHANGED <<content, simple, manifest, database, restored>>
-----------------------------------------------------------------------------
(* FileCache: the direct cache *)

UnhandledHash == <<content["src"]>>

\* Faulty: only the first header is hashed.
FirstHeaderOnly(hs, c) == SubSeq(Contents(hs, c), 1, 1)

\* The hash over the unhandled source and the headers.
HashWithHeaders(hs, c) == Contents(hs, c)

\* Find(UnhandledSource): the handled hash, or nothing.
FindDirect ==
  IF UnhandledHash \notin DOMAIN manifest THEN {}
  ELSE LET hs == manifest[UnhandledHash]
           key == <<UnhandledHash, HashWithHeaders(hs, content)>>
       IN IF hs # <<>> /\ key \in DOMAIN database /\ database[key] \in DOMAIN simple
          THEN {database[key]} ELSE {}

\* hash_headers() stops at the first header that it can't hash.
Hashable(hs) ==
  LET bad == {i \in 1 .. Len(hs) : <<hs[i], content[hs[i]]>> \in Dated}
  IN IF bad = {} THEN hs
     ELSE SubSeq(hs, 1, (CHOOSE i \in bad : \A k \in bad : i <= k) - 1)

\* UpdateDirectCache() and DoStore(), with the files as they are now.  Without
\* deps there is nothing to list.
UpdateDirectCache(source, deps) ==
  LET hs == Hashable(deps)
      key == <<UnhandledHash, HashWithHeaders(hs, content)>>
  IN IF deps # <<>>
     THEN /\ database' = Put(database, key, source)
          /\ manifest' = Put(manifest, UnhandledHash, hs)
     ELSE UNCHANGED <<manifest, database>>
-----------------------------------------------------------------------------
(* DoCheckCache() *)

Restore(hash, asked) == restored' = [object |-> simple[hash].object, asked |-> asked]

DirectHit(j) ==
  /\ job[j].pc = "direct"
  /\ \E hash \in FindDirect : Restore(hash, Preprocess(content))
  /\ job' = [job EXCEPT ![j] = Idle]
  /\ UNCHANGED <<content, simple, manifest, database>>

\* A miss, and then GenerateSource(), which also writes the deps file.
DirectMiss(j) ==
  /\ job[j].pc = "direct"
  /\ FindDirect = {}
  /\ job' = [job EXCEPT ![j].pc = "simple", ![j].source = Preprocess(content),
                        ![j].headers = Headers(content)]
  /\ UNCHANGED <<content, simple, manifest, database, restored>>

SimpleHit(j) ==
  LET hash == job[j].source
  IN /\ job[j].pc = "simple"
     /\ hash \in DOMAIN simple
     /\ Restore(hash, hash)
     /\ UpdateDirectCache(hash, simple[hash].deps)
     /\ job' = [job EXCEPT ![j] = Idle]
     /\ UNCHANGED <<content, simple>>

SimpleMiss(j) ==
  /\ job[j].pc = "simple"
  /\ job[j].source \notin DOMAIN simple
  /\ job' = [job EXCEPT ![j].pc = "compile"]
  /\ UNCHANGED <<content, simple, manifest, database, restored>>

\* DoLocalExecute() compiles the files as they are now and so rewrites the deps
\* file, DoRemoteExecute() has the preprocessed source compiled.
Object(j, where) == IF where = "local" THEN Preprocess(content) ELSE job[j].source
Deps(j, where) == CASE ~job[j].deps      -> <<>>
                    [] where = "local" -> Headers(content)
                    [] OTHER           -> job[j].headers

\* Both then update the simple and the direct cache.
Compile(j) ==
  \E where \in Where :
    /\ job[j].pc = "compile"
    /\ simple' = Put(simple, job[j].source, [object |-> Object(j, where),
                                            deps |-> Deps(j, where)])
    /\ UpdateDirectCache(job[j].source, Deps(j, where))
    /\ job' = [job EXCEPT ![j] = Idle]
    /\ UNCHANGED <<content, restored>>
-----------------------------------------------------------------------------
CacheNext ==
  \/ \E f \in File : Edit(f)
  \/ \E j \in Job : \/ Start(j) \/ DirectHit(j) \/ DirectMiss(j)
                    \/ SimpleHit(j) \/ SimpleMiss(j) \/ Compile(j)

CacheSpec == CacheInit /\ [][CacheNext]_cacheVars
-----------------------------------------------------------------------------
\* The types of the files, the caches and the jobs.
CacheTypeOK ==
  /\ content \in [File -> Version]
  /\ \A k \in DOMAIN manifest : Len(k) = 1 /\ manifest[k] \in Seq(File)
  /\ \A k \in DOMAIN database : database[k] \in Seq(Version)
  /\ \A k \in DOMAIN simple : /\ simple[k].object \in Seq(Version)
                              /\ simple[k].deps \in Seq(File)
  /\ \A j \in Job : job[j].pc \in {"idle", "direct", "simple", "compile"}

\* What is restored from a cache is what the compiler would make of the files that
\* were asked for: a changed header leads to "true cache miss" (DoStore()).
RestoredIsFresh == restored.object = restored.asked
=============================================================================
