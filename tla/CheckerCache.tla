---------------------------- MODULE CheckerCache ----------------------------
(***************************************************************************)
(* The compiled-checker cache of the judge (judge_engine.js, L46-166): how *)
(* the judge's workers share one compiled checker (or interactor) per      *)
(* problem, find out that its file on disk has changed, and free the       *)
(* go-judge file of the version they replace.                              *)
(*                                                                         *)
(* Node runs one callback at a time, so a step of a worker is what runs    *)
(* between two awaits of real I/O: a file read, or a call to go-judge. A   *)
(* file operation takes effect in the thread pool before its callback      *)
(* runs; the two are steps of their own, so that another worker, or an     *)
(* edit of the problem, can come between.                                  *)
(*                                                                         *)
(* A slot is one (problem, role) pair, the role being checker or           *)
(* interactor: the code of the two roles differs in names only, and both   *)
(* share the two maps, under keys that never collide.                      *)
(***************************************************************************)
EXTENDS Naturals

CONSTANTS
  Workers,       \* the judge's workers (JUDGE_WORKERS of them)
  Slots,         \* the (problem, role) pairs
  Contents,      \* the contents a checker file may have, up to its sha1
  Broken,        \* the contents that do not compile
  FileIds,       \* the ids go-judge gives to the files it stores
  GoJudgeFails,  \* may a call to go-judge fail for a reason of its own?
  MaxEdits,      \* bound: how many times the problems are edited
  None           \* no file, no key, no worker

Kinds == {"src", "bin"}

\* chk:<pid>:<src|bin>:<sha1_of_contents>
Keys == [slot : Slots, kind : Kinds, hash : Contents]

ASSUME CacheAssumption ==
  /\ Broken \subseteq Contents
  /\ GoJudgeFails \in BOOLEAN
  /\ MaxEdits \in Nat
  /\ None \notin Workers \union Contents \union FileIds \union Keys

VARIABLES
  src,        \* the source file of each slot on disk (None: missing)
  bin,        \* its precompiled .bin (None: missing)
  edits,      \* how many edits the problems have had
  store,      \* go-judge: what each stored file was built from (None: no file)
  cache,      \* checkerCache: key -> go-judge file id
  compiling,  \* checkerCompiling: key -> the worker whose promise it holds
  activeKey,  \* checkerActiveKey and interactorActiveKey
  pc,         \* where each worker is in getOrCompile
  slot,       \* the slot of the worker's job
  want,       \* the key of the contents the worker has read
  file,       \* the go-judge file the worker holds
  undeleted,  \* history: the files a failed call has left in go-judge
  overtaken   \* history: the keys whose compile the active key has overtaken

diskVars == <<src, bin, edits>>
goJudgeVars == <<store, undeleted>>
cacheVars == <<cache, compiling, activeKey, overtaken>>
workerVars == <<pc, slot, want, file>>
vars == <<diskVars, goJudgeVars, cacheVars, workerVars>>

Pcs == {"idle", "stat", "readBin", "readSrc", "read", "deleting",
        "compiling", "compiled", "waiting", "judging"}

TypeOK ==
  /\ src \in [Slots -> Contents \union {None}]
  /\ bin \in [Slots -> Contents \union {None}]
  /\ edits \in 0 .. MaxEdits
  /\ store \in [FileIds -> Contents \union {None}]
  /\ cache \in [Keys -> FileIds \union {None}]
  /\ compiling \in [Keys -> Workers \union {None}]
  /\ activeKey \in [Slots -> Keys \union {None}]
  /\ pc \in [Workers -> Pcs]
  /\ slot \in [Workers -> Slots \union {None}]
  /\ want \in [Workers -> Keys \union {None}]
  /\ file \in [Workers -> FileIds \union {None}]
  /\ undeleted \subseteq FileIds
  /\ overtaken \subseteq Keys

Init ==
  /\ src \in [Slots -> Contents \union {None}]
  /\ bin \in [Slots -> Contents \union {None}]
  /\ edits = 0
  /\ store = [f \in FileIds |-> None]
  /\ cache = [k \in Keys |-> None]
  /\ compiling = [k \in Keys |-> None]
  /\ activeKey = [s \in Slots |-> None]
  /\ pc = [w \in Workers |-> "idle"]
  /\ slot = [w \in Workers |-> None]
  /\ want = [w \in Workers |-> None]
  /\ file = [w \in Workers |-> None]
  /\ undeleted = {}
  /\ overtaken = {}

-----------------------------------------------------------------------------
(* The operator of the problems: an edit of chk.cc, or the .bin that       *)
(* setupProblem writes. Nothing deletes a .bin of a problem in use.        *)

EditSource(s, c) ==
  /\ edits < MaxEdits
  /\ edits' = edits + 1
  /\ src' = [src EXCEPT ![s] = c]
  /\ UNCHANGED <<bin, goJudgeVars, cacheVars, workerVars>>

WriteBin(s, c) ==
  /\ edits < MaxEdits
  /\ edits' = edits + 1
  /\ bin' = [bin EXCEPT ![s] = c]
  /\ UNCHANGED <<src, goJudgeVars, cacheVars, workerVars>>

-----------------------------------------------------------------------------
(* _checkerCacheMaterial: look at the bytes on disk, the .bin first.       *)

StartJob(w, s) ==
  /\ pc[w] = "idle"
  /\ pc' = [pc EXCEPT ![w] = "stat"]
  /\ slot' = [slot EXCEPT ![w] = s]
  /\ UNCHANGED <<diskVars, goJudgeVars, cacheVars, want, file>>

\* A job that ends, with a verdict or with an error, leaves nothing behind.
EndJobs(W) ==
  /\ pc' = [w \in Workers |-> IF w \in W THEN "idle" ELSE pc[w]]
  /\ slot' = [w \in Workers |-> IF w \in W THEN None ELSE slot[w]]
  /\ want' = [w \in Workers |-> IF w \in W THEN None ELSE want[w]]
  /\ file' = [w \in Workers |-> IF w \in W THEN None ELSE file[w]]

StatBin(w) ==
  /\ pc[w] = "stat"
  /\ pc' = [pc EXCEPT ![w] = IF bin[slot[w]] # None THEN "readBin" ELSE "readSrc"]
  /\ UNCHANGED <<diskVars, goJudgeVars, cacheVars, slot, want, file>>

\* Fault: one key per problem, whatever its contents (the code's old keying).
Material_FirstKey(w, kind, c) ==
  /\ pc' = [pc EXCEPT ![w] = "read"]
  /\ want' = [want EXCEPT ![w] =
       IF activeKey[slot[w]] # None THEN activeKey[slot[w]]
       ELSE [slot |-> slot[w], kind |-> kind, hash |-> c]]
  /\ UNCHANGED <<diskVars, goJudgeVars, cacheVars, slot, file>>

Material(w, kind, c) ==
  /\ pc' = [pc EXCEPT ![w] = "read"]
  /\ want' = [want EXCEPT ![w] = [slot |-> slot[w], kind |-> kind, hash |-> c]]
  /\ UNCHANGED <<diskVars, goJudgeVars, cacheVars, slot, file>>

ReadBin(w) ==
  /\ pc[w] = "readBin"
  /\ Material(w, "bin", bin[slot[w]])

ReadSource(w) ==
  /\ pc[w] = "readSrc"
  /\ \/ /\ src[slot[w]] # None
        /\ Material(w, "src", src[slot[w]])
     \/ /\ src[slot[w]] = None
        /\ EndJobs({w})
        /\ UNCHANGED <<diskVars, goJudgeVars, cacheVars>>

-----------------------------------------------------------------------------
(* _evictStaleCacheEntry, then the lookup of getOrCompile. Eviction that   *)
(* deletes no file awaits no I/O: it is one step with the lookup.          *)

PreviousKey(w) == activeKey[slot[w]]

\* Fault: evict without comparing the keys.
HasStaleEntry_Always(w) ==
  PreviousKey(w) # None /\ cache[PreviousKey(w)] # None

\* Fault: the entry of a source stays when a .bin takes its place.
HasStaleEntry_OfKind(w) ==
  /\ PreviousKey(w) # None
  /\ PreviousKey(w) # want[w]
  /\ PreviousKey(w).kind = want[w].kind
  /\ cache[PreviousKey(w)] # None

HasStaleEntry(w) ==
  /\ PreviousKey(w) # None
  /\ PreviousKey(w) # want[w]
  /\ cache[PreviousKey(w)] # None

\* Fault: the file is deleted, the entry stays.
EvictStaleEntry_KeepsEntry(w) ==
  /\ pc[w] = "read"
  /\ HasStaleEntry(w)
  /\ file' = [file EXCEPT ![w] = cache[PreviousKey(w)]]
  /\ pc' = [pc EXCEPT ![w] = "deleting"]
  /\ UNCHANGED <<diskVars, goJudgeVars, cacheVars, slot, want>>

EvictStaleEntry(w) ==
  /\ pc[w] = "read"
  /\ HasStaleEntry(w)
  /\ cache' = [cache EXCEPT ![PreviousKey(w)] = None]
  /\ file' = [file EXCEPT ![w] = cache[PreviousKey(w)]]
  /\ pc' = [pc EXCEPT ![w] = "deleting"]
  /\ UNCHANGED <<diskVars, goJudgeVars, compiling, activeKey, overtaken, slot, want>>

\* The key that stops being active while it is still compiled, or that another
\* worker has made active and cached while this one awaited its deletion: no
\* eviction finds its entry until its contents are read again.
Overtakes(w) ==
  {k \in {PreviousKey(w)} \ {None, want[w]} :
     compiling[k] # None \/ (pc[w] = "deleting" /\ cache[k] # None)}

SetActive(w) ==
  /\ activeKey' = [activeKey EXCEPT ![slot[w]] = want[w]]
  /\ overtaken' = (overtaken \ {want[w]}) \union Overtakes(w)

\* Fault: no look at checkerCompiling.
Lookup_NoSingleFlight(w) ==
  \/ /\ cache[want[w]] # None
     /\ file' = [file EXCEPT ![w] = cache[want[w]]]
     /\ pc' = [pc EXCEPT ![w] = "judging"]
     /\ UNCHANGED compiling
  \/ /\ cache[want[w]] = None
     /\ compiling' = [compiling EXCEPT ![want[w]] = w]
     /\ file' = [file EXCEPT ![w] = None]
     /\ pc' = [pc EXCEPT ![w] = "compiling"]

\* A hit returns the entry, a compile in flight is awaited, a miss compiles.
Lookup(w) ==
  \/ /\ cache[want[w]] # None
     /\ file' = [file EXCEPT ![w] = cache[want[w]]]
     /\ pc' = [pc EXCEPT ![w] = "judging"]
     /\ UNCHANGED compiling
  \/ /\ cache[want[w]] = None
     /\ compiling[want[w]] # None
     /\ file' = [file EXCEPT ![w] = None]
     /\ pc' = [pc EXCEPT ![w] = "waiting"]
     /\ UNCHANGED compiling
  \/ /\ cache[want[w]] = None
     /\ compiling[want[w]] = None
     /\ compiling' = [compiling EXCEPT ![want[w]] = w]
     /\ file' = [file EXCEPT ![w] = None]
     /\ pc' = [pc EXCEPT ![w] = "compiling"]

LookupFresh(w) ==
  /\ pc[w] = "read"
  /\ ~HasStaleEntry(w)
  /\ SetActive(w)
  /\ Lookup(w)
  /\ UNCHANGED <<diskVars, goJudgeVars, cache, slot, want>>

\* deleteFile swallows every error: the file may survive the call.
LookupAfterDelete(w) ==
  /\ pc[w] = "deleting"
  /\ \/ store' = [store EXCEPT ![file[w]] = None] /\ UNCHANGED undeleted
     \/ GoJudgeFails /\ undeleted' = undeleted \union {file[w]} /\ UNCHANGED store
  /\ SetActive(w)
  /\ Lookup(w)
  /\ UNCHANGED <<diskVars, cache, slot, want>>

-----------------------------------------------------------------------------
(* _compileChecker and the rest of getOrCompile. A source is compiled from *)
(* the text that was hashed; a .bin is opened again, by its path.          *)

InUse(f) ==
  \/ store[f] # None
  \/ \E k \in Keys : cache[k] = f
  \/ \E w \in Workers : file[w] = f

\* Fault: the source is read again when it is compiled.
Built_ReadsAgain(w) ==
  IF want[w].kind = "src" THEN src[slot[w]] ELSE bin[slot[w]]

Built(w) ==
  IF want[w].kind = "src" THEN want[w].hash ELSE bin[slot[w]]

\* go-judge compiles the source, or stores the uploaded .bin.
CompileDone(w) ==
  /\ pc[w] = "compiling"
  /\ want[w].kind = "src" => want[w].hash \notin Broken
  /\ \E f \in FileIds :
       /\ ~InUse(f)
       /\ store' = [store EXCEPT ![f] = Built(w)]
       /\ file' = [file EXCEPT ![w] = f]
  /\ pc' = [pc EXCEPT ![w] = "compiled"]
  /\ UNCHANGED <<diskVars, undeleted, cacheVars, slot, want>>

\* Fault: only the owner of a compile hears of its end.
Waiters_Nobody(w) == {}

\* The promise settles: its owner and every worker that awaits it go on in
\* the same run of the microtask queue.
Waiters(w) == {v \in Workers : pc[v] = "waiting" /\ want[v] = want[w]}

CacheResult(w) ==
  /\ pc[w] = "compiled"
  /\ cache' = [cache EXCEPT ![want[w]] = file[w]]
  /\ compiling' = [compiling EXCEPT ![want[w]] = None]
  /\ pc' = [v \in Workers |-> IF v \in Waiters(w) \union {w} THEN "judging" ELSE pc[v]]
  /\ file' = [v \in Workers |-> IF v \in Waiters(w) THEN file[w] ELSE file[v]]
  /\ UNCHANGED <<diskVars, goJudgeVars, activeKey, overtaken, slot, want>>

\* The source does not compile, or the call fails or times out, in which
\* case go-judge may have stored a file that nobody will ever name.
CompileError(w) ==
  /\ pc[w] = "compiling"
  /\ \/ /\ want[w].kind = "src" /\ want[w].hash \in Broken
        /\ UNCHANGED goJudgeVars
     \/ /\ GoJudgeFails
        /\ \/ UNCHANGED goJudgeVars
           \/ \E f \in FileIds :
                /\ ~InUse(f)
                /\ store' = [store EXCEPT ![f] = Built(w)]
                /\ undeleted' = undeleted \union {f}
  /\ compiling' = [compiling EXCEPT ![want[w]] = None]
  /\ EndJobs(Waiters(w) \union {w})
  /\ UNCHANGED <<diskVars, cache, activeKey, overtaken>>

\* The cases have been run with the file the worker holds.
FinishJob(w) ==
  /\ pc[w] = "judging"
  /\ EndJobs({w})
  /\ UNCHANGED <<diskVars, goJudgeVars, cacheVars>>

-----------------------------------------------------------------------------
Edit == \E s \in Slots, c \in Contents : EditSource(s, c) \/ WriteBin(s, c)

WorkerStep(w) ==
  \/ StatBin(w) \/ ReadBin(w) \/ ReadSource(w)
  \/ EvictStaleEntry(w) \/ LookupFresh(w) \/ LookupAfterDelete(w)
  \/ CompileDone(w) \/ CacheResult(w) \/ CompileError(w)
  \/ FinishJob(w)

Next ==
  \/ Edit
  \/ \E w \in Workers, s \in Slots : StartJob(w, s)
  \/ \E w \in Workers : WorkerStep(w)

Spec == Init /\ [][Next]_vars

\* Every await is eventually answered: file I/O completes, and go-judge either
\* replies or its client gives up (gojudge.js L15: 300 s; uploads and deletions
\* have no timeout of their own, go-judge is assumed to answer them). Jobs need
\* not arrive.
FairSpec == Spec /\ \A w \in Workers : WF_vars(WorkerStep(w))
-----------------------------------------------------------------------------
(* What the cache promises.                                                *)

Building(w) == pc[w] \in {"compiling", "compiled"}

\* "Concurrent compile protection": no two workers ever build the same key at
\* the same time, however their reads, evictions and lookups interleave.
SingleFlight ==
  \A v, w \in Workers :
    Building(v) /\ Building(w) /\ want[v] = want[w] => v = w

\* A worker waits only for a compile that is really in flight, so a failed or
\* finished compile strands nobody on a promise that has been forgotten.
WaitersAwaitCompile ==
  \A v \in Workers :
    pc[v] = "waiting" => \E w \in Workers : Building(w) /\ want[w] = want[v]

\* The cache never hands out a file that go-judge has already dropped: an
\* entry leaves the cache before its file is deleted, and no two entries
\* share a file.
CachedFileIsLive ==
  \A k \in Keys : cache[k] # None => store[cache[k]] # None

\* A job whose checker comes from chk.cc is never judged by a checker built
\* from other contents than those it read, whoever compiled it; at worst the
\* file is gone (another worker read a newer version and evicted it).
CheckerMatchesRead ==
  \A w \in Workers :
    pc[w] = "judging" /\ want[w].kind = "src"
      => store[file[w]] \in {want[w].hash, None}

\* As long as no problem is edited, no running job loses its checker to an
\* eviction.
KeptWhileUnedited ==
  edits = 0 => \A w \in Workers : pc[w] = "judging" => store[file[w]] # None

\* The files of replaced versions go ("instead of leaking one go-judge file per
\* patch", L33; "so we don't accumulate dead go-judge files", L89), but not all
\* of them: each file go-judge stores is in the cache under the active key of
\* its problem, or with the worker that is about to cache or to delete it, or a
\* call that failed has left it, or it is cached under a key that stopped being
\* active in the middle of its compile, or of a deletion, and has not been read
\* since. The last are the leak the comments deny; there is no other.
OnlyOvertakenLinger ==
  \A f \in FileIds :
    store[f] # None /\ f \notin undeleted =>
      \/ \E k \in Keys : cache[k] = f /\ (activeKey[k.slot] = k \/ k \in overtaken)
      \/ \E w \in Workers : pc[w] \in {"compiled", "deleting"} /\ file[w] = f

-----------------------------------------------------------------------------
(* The abstract service: each job by itself, with nothing shared.          *)

Phase(w) ==
  CASE pc[w] = "idle" -> "idle"
    [] pc[w] \in {"stat", "readBin", "readSrc"} -> "asking"
    [] pc[w] = "judging" -> "given"
    [] OTHER -> "read"

Given(w) == IF pc[w] = "judging" THEN store[file[w]] ELSE None

Service == INSTANCE CheckerService
  WITH phase <- [w \in Workers |-> Phase(w)],
       read <- want,
       given <- [w \in Workers |-> Given(w)]

\* Sharing is transparent: through every interleaving of reads, evictions, awaited
\* compiles and edits, a job gets what a compile of its own would have given it,
\* or its error, and keeps it unless another job has read other contents of the
\* same problem.
SharingIsTransparent == Service!Spec

-----------------------------------------------------------------------------
\* Every job that starts gets its checker, or its error, and ends.
JobsEnd == \A w \in Workers : pc[w] # "idle" ~> pc[w] = "idle"

CurrentKey(s) ==
  IF bin[s] # None THEN [slot |-> s, kind |-> "bin", hash |-> bin[s]]
                   ELSE [slot |-> s, kind |-> "src", hash |-> src[s]]

\* Once the problems stop being edited, jobs are eventually all judged under
\* the key of what is on disk (the stale binary the pid-only keys returned).
EditsReachJobs ==
  \A w \in Workers : <>[](pc[w] = "judging" => want[w] = CurrentKey(slot[w]))
=============================================================================
