------------------------- MODULE CheckerCacheProofs -------------------------
(***************************************************************************)
(* The safety of the checker cache, and that it implements CheckerService, *)
(* for any number of workers, problems, contents and edits.                *)
(***************************************************************************)
EXTENDS CheckerCache, TLAPS

\* Where a worker has read its contents, and where it holds a file.
HasKey == {"read", "deleting", "compiling", "compiled", "waiting", "judging"}
HasFile == {"deleting", "compiled", "judging"}

\* What the program counter of a worker says of its local variables.
WorkerShape ==
  \A w \in Workers :
    /\ pc[w] # "idle" => slot[w] \in Slots
    /\ pc[w] = "readBin" => bin[slot[w]] # None
    /\ pc[w] \in HasKey =>
         /\ want[w] \in Keys
         /\ want[w].slot = slot[w]
         /\ want[w].kind = "bin" => bin[slot[w]] # None
    /\ pc[w] \in HasFile => file[w] \in FileIds

\* The promise under a key is held by exactly the worker that builds the key,
\* and the key is not cached yet.
CompilingMap ==
  /\ \A w \in Workers : Building(w) => compiling[want[w]] = w
  /\ \A k \in Keys : compiling[k] # None =>
       /\ Building(compiling[k])
       /\ want[compiling[k]] = k
       /\ cache[k] = None

WaitersHavePromise ==
  \A w \in Workers : pc[w] = "waiting" => compiling[want[w]] # None

\* A worker that has a file to cache or to delete is its only owner.
Owns(w) == pc[w] \in {"compiled", "deleting"}

OwnedFiles ==
  \A w \in Workers : Owns(w) =>
    /\ store[file[w]] # None
    /\ \A k \in Keys : cache[k] # file[w]
    /\ \A v \in Workers : Owns(v) /\ file[v] = file[w] => v = w

CacheInjective ==
  \A j, k \in Keys : cache[j] # None /\ cache[j] = cache[k] => j = k

\* What is cached, or about to be, under a source key was built from it.
SourceBuilds ==
  /\ \A k \in Keys : k.kind = "src" /\ cache[k] # None => store[cache[k]] = k.hash
  /\ \A w \in Workers : pc[w] = "compiled" /\ want[w].kind = "src"
       => store[file[w]] = want[w].hash

\* Every file of go-judge has an entry or an owner, or a failed call has left it.
NoOrphanFile ==
  \A f \in FileIds :
    store[f] # None /\ f \notin undeleted =>
      \/ \E k \in Keys : cache[k] = f
      \/ \E w \in Workers : Owns(w) /\ file[w] = f

\* What is cached, or being compiled, is under the active key of its problem, or
\* the active key has overtaken it.
ActiveOrOvertaken ==
  \A k \in Keys :
    cache[k] # None \/ compiling[k] # None => activeKey[k.slot] = k \/ k \in overtaken

IInv ==
  /\ TypeOK
  /\ WorkerShape
  /\ CompilingMap
  /\ WaitersHavePromise
  /\ CachedFileIsLive
  /\ OwnedFiles
  /\ CacheInjective
  /\ SourceBuilds
  /\ CheckerMatchesRead
  /\ NoOrphanFile
  /\ ActiveOrOvertaken

-----------------------------------------------------------------------------
\* An edit of the source touches the disk only.
LEMMA EditSourceKeeps ==
  ASSUME IInv, NEW s \in Slots, NEW c \in Contents, EditSource(s, c)
  PROVE  IInv'
<1> USE CacheAssumption DEF IInv, TypeOK, WorkerShape, HasKey, HasFile, Pcs,
      diskVars, goJudgeVars, cacheVars, workerVars, EditSource
<1>1. TypeOK'
  OBVIOUS
<1>2. WorkerShape'
  OBVIOUS
<1>3. QED
  BY <1>1, <1>2 DEF CompilingMap, Building, WaitersHavePromise,
      CachedFileIsLive, OwnedFiles, Owns, CacheInjective, SourceBuilds,
      CheckerMatchesRead, NoOrphanFile, ActiveOrOvertaken

\* A .bin that exists is only ever replaced by another.
LEMMA WriteBinKeeps ==
  ASSUME IInv, NEW s \in Slots, NEW c \in Contents, WriteBin(s, c)
  PROVE  IInv'
<1> USE CacheAssumption DEF IInv, TypeOK, WorkerShape, HasKey, HasFile, Pcs,
      diskVars, goJudgeVars, cacheVars, workerVars, WriteBin
<1>1. TypeOK'
  OBVIOUS
<1>2. WorkerShape'
  OBVIOUS
<1>3. QED
  BY <1>1, <1>2 DEF CompilingMap, Building, WaitersHavePromise,
      CachedFileIsLive, OwnedFiles, Owns, CacheInjective, SourceBuilds,
      CheckerMatchesRead, NoOrphanFile, ActiveOrOvertaken

\* A worker that starts a job holds nothing yet.
LEMMA StartJobKeeps ==
  ASSUME IInv, NEW w \in Workers, NEW s \in Slots, StartJob(w, s)
  PROVE  IInv'
<1> USE CacheAssumption DEF IInv, TypeOK, WorkerShape, HasKey, HasFile, Pcs,
      diskVars, goJudgeVars, cacheVars, workerVars, StartJob
<1>1. TypeOK'
  OBVIOUS
<1>2. WorkerShape'
  OBVIOUS
<1>3. QED
  BY <1>1, <1>2 DEF CompilingMap, Building, WaitersHavePromise,
      CachedFileIsLive, OwnedFiles, Owns, CacheInjective, SourceBuilds,
      CheckerMatchesRead, NoOrphanFile, ActiveOrOvertaken

\* A .bin that was seen is still there when it is read.
LEMMA StatBinKeeps ==
  ASSUME IInv, NEW w \in Workers, StatBin(w)
  PROVE  IInv'
<1> USE CacheAssumption DEF IInv, TypeOK, WorkerShape, HasKey, HasFile, Pcs,
      diskVars, goJudgeVars, cacheVars, workerVars, StatBin
<1>1. TypeOK'
  OBVIOUS
<1>2. WorkerShape'
  OBVIOUS
<1>3. QED
  BY <1>1, <1>2 DEF CompilingMap, Building, WaitersHavePromise,
      CachedFileIsLive, OwnedFiles, Owns, CacheInjective, SourceBuilds,
      CheckerMatchesRead, NoOrphanFile, ActiveOrOvertaken

\* The key of the .bin that was read.
LEMMA ReadBinKeeps ==
  ASSUME IInv, NEW w \in Workers, ReadBin(w)
  PROVE  IInv'
<1> USE CacheAssumption DEF IInv, TypeOK, WorkerShape, HasKey, HasFile, Pcs,
      diskVars, goJudgeVars, cacheVars, workerVars, ReadBin, Material, Keys, Kinds
<1>1. TypeOK'
  OBVIOUS
<1>2. WorkerShape'
  OBVIOUS
<1>3. QED
  BY <1>1, <1>2 DEF CompilingMap, Building, WaitersHavePromise,
      CachedFileIsLive, OwnedFiles, Owns, CacheInjective, SourceBuilds,
      CheckerMatchesRead, NoOrphanFile, ActiveOrOvertaken

\* The key of the source that was read, or the end of the job.
LEMMA ReadSourceKeeps ==
  ASSUME IInv, NEW w \in Workers, ReadSource(w)
  PROVE  IInv'
<1> USE CacheAssumption DEF IInv, TypeOK, WorkerShape, HasKey, HasFile, Pcs,
      diskVars, goJudgeVars, cacheVars, workerVars
<1>1. CASE src[slot[w]] # None
  <2> USE DEF Material, Keys, Kinds
  <2>1. slot[w] \in Slots /\ src[slot[w]] \in Contents
    BY <1>1 DEF ReadSource
  <2>2. Material(w, "src", src[slot[w]]) /\ pc[w] = "readSrc"
    BY <1>1 DEF ReadSource
  <2>3. TypeOK'
    BY <2>1, <2>2
  <2>4. WorkerShape'
    BY <2>1, <2>2
  <2>5. QED
    BY <2>2, <2>3, <2>4 DEF CompilingMap, Building, WaitersHavePromise,
        CachedFileIsLive, OwnedFiles, Owns, CacheInjective, SourceBuilds,
        CheckerMatchesRead, NoOrphanFile, ActiveOrOvertaken
<1>2. CASE src[slot[w]] = None
  <2> USE DEF ReadSource, EndJobs
  <2>1. TypeOK'
    BY <1>2
  <2>2. WorkerShape'
    BY <1>2
  <2>3. QED
    BY <1>2, <2>1, <2>2 DEF CompilingMap, Building, WaitersHavePromise,
        CachedFileIsLive, OwnedFiles, Owns, CacheInjective, SourceBuilds,
        CheckerMatchesRead, NoOrphanFile, ActiveOrOvertaken
<1>3. QED
  BY <1>1, <1>2

\* A job that ends gives up a file it did not own.
LEMMA FinishJobKeeps ==
  ASSUME IInv, NEW w \in Workers, FinishJob(w)
  PROVE  IInv'
<1> USE CacheAssumption DEF IInv, TypeOK, WorkerShape, HasKey, HasFile, Pcs,
      diskVars, goJudgeVars, cacheVars, workerVars, FinishJob, EndJobs
<1>1. TypeOK'
  OBVIOUS
<1>2. WorkerShape'
  OBVIOUS
<1>3. QED
  BY <1>1, <1>2 DEF CompilingMap, Building, WaitersHavePromise,
      CachedFileIsLive, OwnedFiles, Owns, CacheInjective, SourceBuilds,
      CheckerMatchesRead, NoOrphanFile, ActiveOrOvertaken

\* The evicted entry and its file pass from the cache to the worker.
LEMMA EvictStaleEntryKeeps ==
  ASSUME IInv, NEW w \in Workers, EvictStaleEntry(w)
  PROVE  IInv'
<1> USE CacheAssumption DEF IInv, TypeOK, WorkerShape, HasKey, HasFile, Pcs,
      diskVars, goJudgeVars, cacheVars, workerVars, EvictStaleEntry, HasStaleEntry,
      PreviousKey
<1>1. TypeOK'
  OBVIOUS
<1>2. WorkerShape'
  OBVIOUS
<1>3. CompilingMap'
  BY DEF CompilingMap, Building, WaitersHavePromise
<1>4. WaitersHavePromise'
  BY DEF WaitersHavePromise, CompilingMap, Building
<1>5. CachedFileIsLive'
  BY DEF CachedFileIsLive, OwnedFiles, Owns, CompilingMap, Building
<1>6. OwnedFiles'
  BY DEF OwnedFiles, Owns, CachedFileIsLive, CacheInjective, CompilingMap,
        Building
<1>7. CacheInjective'
  BY DEF CacheInjective, OwnedFiles, Owns
<1>8. SourceBuilds'
  BY DEF SourceBuilds, CachedFileIsLive, OwnedFiles, Owns
<1>9. CheckerMatchesRead'
  BY DEF CheckerMatchesRead, SourceBuilds, CachedFileIsLive
<1>10. NoOrphanFile'
  BY DEF NoOrphanFile, CompilingMap, Building, OwnedFiles, Owns
<1>11. ActiveOrOvertaken'
  BY DEF ActiveOrOvertaken, CompilingMap, Building
<1>12. QED
  BY <1>1, <1>2, <1>3, <1>4, <1>5, <1>6, <1>7, <1>8, <1>9, <1>10, <1>11

\* A worker that compiles holds the only promise under its key.
LEMMA LookupFreshKeeps ==
  ASSUME IInv, NEW w \in Workers, LookupFresh(w)
  PROVE  IInv'
<1> USE CacheAssumption DEF IInv, TypeOK, WorkerShape, HasKey, HasFile, Pcs,
      diskVars, goJudgeVars, cacheVars, workerVars, LookupFresh, SetActive, Overtakes,
      PreviousKey, HasStaleEntry, Lookup
<1>1. TypeOK'
  OBVIOUS
<1>2. WorkerShape'
  OBVIOUS
<1>3. CompilingMap'
  BY DEF CompilingMap, Building, WaitersHavePromise
<1>4. WaitersHavePromise'
  BY DEF WaitersHavePromise, CompilingMap, Building
<1>5. CachedFileIsLive'
  BY DEF CachedFileIsLive, OwnedFiles, Owns, CompilingMap, Building
<1>6. OwnedFiles'
  BY DEF OwnedFiles, Owns, CachedFileIsLive, CacheInjective, CompilingMap,
        Building
<1>7. CacheInjective'
  BY DEF CacheInjective, OwnedFiles, Owns
<1>8. SourceBuilds'
  BY DEF SourceBuilds, CachedFileIsLive, OwnedFiles, Owns
<1>9. CheckerMatchesRead'
  BY DEF CheckerMatchesRead, SourceBuilds, CachedFileIsLive
<1>10. NoOrphanFile'
  BY DEF NoOrphanFile, CompilingMap, Building, OwnedFiles, Owns
<1>11. ActiveOrOvertaken'
  BY DEF ActiveOrOvertaken, CompilingMap, Building
<1>12. QED
  BY <1>1, <1>2, <1>3, <1>4, <1>5, <1>6, <1>7, <1>8, <1>9, <1>10, <1>11

\* The file that goes is in no entry and has no other owner.
LEMMA LookupAfterDeleteKeeps ==
  ASSUME IInv, NEW w \in Workers, LookupAfterDelete(w)
  PROVE  IInv'
<1> USE CacheAssumption DEF IInv, TypeOK, WorkerShape, HasKey, HasFile, Pcs,
      diskVars, goJudgeVars, cacheVars, workerVars, LookupAfterDelete, SetActive, Overtakes,
      PreviousKey, HasStaleEntry, Lookup
<1>1. TypeOK'
  OBVIOUS
<1>2. WorkerShape'
  OBVIOUS
<1>3. CompilingMap'
  BY DEF CompilingMap, Building, WaitersHavePromise
<1>4. WaitersHavePromise'
  BY DEF WaitersHavePromise, CompilingMap, Building
<1>5. CachedFileIsLive'
  BY DEF CachedFileIsLive, OwnedFiles, Owns, CompilingMap, Building
<1>6. OwnedFiles'
  BY DEF OwnedFiles, Owns, CachedFileIsLive, CacheInjective, CompilingMap,
        Building
<1>7. CacheInjective'
  BY DEF CacheInjective, OwnedFiles, Owns
<1>8. SourceBuilds'
  BY DEF SourceBuilds, CachedFileIsLive, OwnedFiles, Owns
<1>9. CheckerMatchesRead'
  BY DEF CheckerMatchesRead, SourceBuilds, CachedFileIsLive
<1>10. NoOrphanFile'
  BY DEF NoOrphanFile, CompilingMap, Building, OwnedFiles, Owns
<1>11. ActiveOrOvertaken'
  BY DEF ActiveOrOvertaken, CompilingMap, Building
<1>12. QED
  BY <1>1, <1>2, <1>3, <1>4, <1>5, <1>6, <1>7, <1>8, <1>9, <1>10, <1>11

\* The new file is nobody else's.
LEMMA CompileDoneKeeps ==
  ASSUME IInv, NEW w \in Workers, CompileDone(w)
  PROVE  IInv'
<1> USE CacheAssumption DEF IInv, TypeOK, WorkerShape, HasKey, HasFile, Pcs,
      diskVars, goJudgeVars, cacheVars, workerVars, CompileDone, InUse, Built, Keys, Kinds
<1>1. TypeOK'
  OBVIOUS
<1>2. WorkerShape'
  OBVIOUS
<1>3. CompilingMap'
  BY DEF CompilingMap, Building, WaitersHavePromise
<1>4. WaitersHavePromise'
  BY DEF WaitersHavePromise, CompilingMap, Building
<1>5. CachedFileIsLive'
  BY DEF CachedFileIsLive, OwnedFiles, Owns, CompilingMap, Building
<1>6. OwnedFiles'
  BY DEF OwnedFiles, Owns, CachedFileIsLive, CacheInjective, CompilingMap,
        Building
<1>7. CacheInjective'
  BY DEF CacheInjective, OwnedFiles, Owns
<1>8. SourceBuilds'
  BY DEF SourceBuilds, CachedFileIsLive, OwnedFiles, Owns
<1>9. CheckerMatchesRead'
  BY DEF CheckerMatchesRead, SourceBuilds, CachedFileIsLive
<1>10. NoOrphanFile'
  BY DEF NoOrphanFile, CompilingMap, Building, OwnedFiles, Owns
<1>11. ActiveOrOvertaken'
  BY DEF ActiveOrOvertaken, CompilingMap, Building
<1>12. QED
  BY <1>1, <1>2, <1>3, <1>4, <1>5, <1>6, <1>7, <1>8, <1>9, <1>10, <1>11

\* The owner's file becomes the entry that the waiters share.
LEMMA CacheResultKeeps ==
  ASSUME IInv, NEW w \in Workers, CacheResult(w)
  PROVE  IInv'
<1> USE CacheAssumption DEF IInv, TypeOK, WorkerShape, HasKey, HasFile, Pcs,
      diskVars, goJudgeVars, cacheVars, workerVars, CacheResult, Waiters
<1>1. TypeOK'
  OBVIOUS
<1>2. WorkerShape'
  OBVIOUS
<1>3. CompilingMap'
  BY DEF CompilingMap, Building, WaitersHavePromise
<1>4. WaitersHavePromise'
  BY DEF WaitersHavePromise, CompilingMap, Building
<1>5. CachedFileIsLive'
  BY DEF CachedFileIsLive, OwnedFiles, Owns, CompilingMap, Building
<1>6. OwnedFiles'
  BY DEF OwnedFiles, Owns, CachedFileIsLive, CacheInjective, CompilingMap,
        Building
<1>7. CacheInjective'
  BY DEF CacheInjective, OwnedFiles, Owns
<1>8. SourceBuilds'
  BY DEF SourceBuilds, CachedFileIsLive, OwnedFiles, Owns
<1>9. CheckerMatchesRead'
  BY DEF CheckerMatchesRead, SourceBuilds, CachedFileIsLive
<1>10. NoOrphanFile'
  BY DEF NoOrphanFile, CompilingMap, Building, OwnedFiles, Owns
<1>11. ActiveOrOvertaken'
  BY DEF ActiveOrOvertaken, CompilingMap, Building
<1>12. QED
  BY <1>1, <1>2, <1>3, <1>4, <1>5, <1>6, <1>7, <1>8, <1>9, <1>10, <1>11

\* A failed compile forgets its promise and everyone who awaited it.
LEMMA CompileErrorKeeps ==
  ASSUME IInv, NEW w \in Workers, CompileError(w)
  PROVE  IInv'
<1> USE CacheAssumption DEF IInv, TypeOK, WorkerShape, HasKey, HasFile, Pcs,
      diskVars, goJudgeVars, cacheVars, workerVars, CompileError, EndJobs, Waiters
<1>1. TypeOK'
  BY DEF InUse, Built, Keys, Kinds
<1>2. WorkerShape'
  OBVIOUS
<1>3. CompilingMap'
  BY DEF CompilingMap, Building, WaitersHavePromise
<1>4. WaitersHavePromise'
  BY DEF WaitersHavePromise, CompilingMap, Building
<1>5. CachedFileIsLive'
  BY DEF CachedFileIsLive, OwnedFiles, Owns, CompilingMap, Building, InUse,
        Built
<1>6. OwnedFiles'
  BY DEF OwnedFiles, Owns, CachedFileIsLive, CacheInjective, CompilingMap,
        Building, InUse, Built
<1>7. CacheInjective'
  BY DEF CacheInjective, OwnedFiles, Owns
<1>8. SourceBuilds'
  BY DEF SourceBuilds, CachedFileIsLive, OwnedFiles, Owns, InUse, Built
<1>9. CheckerMatchesRead'
  BY DEF CheckerMatchesRead, SourceBuilds, CachedFileIsLive, InUse, Built
<1>10. NoOrphanFile'
  BY DEF NoOrphanFile, CompilingMap, Building, OwnedFiles, Owns
<1>11. ActiveOrOvertaken'
  BY DEF ActiveOrOvertaken, CompilingMap, Building
<1>12. QED
  BY <1>1, <1>2, <1>3, <1>4, <1>5, <1>6, <1>7, <1>8, <1>9, <1>10, <1>11
-----------------------------------------------------------------------------
LEMMA InitIInv == Init => IInv
  BY CacheAssumption
  DEF Init, IInv, TypeOK, Pcs, WorkerShape, HasKey, HasFile, CompilingMap, Building,
      WaitersHavePromise, CachedFileIsLive, OwnedFiles, Owns, CacheInjective,
      SourceBuilds, CheckerMatchesRead, NoOrphanFile, ActiveOrOvertaken

LEMMA NextIInv == IInv /\ [Next]_vars => IInv'
<1> SUFFICES ASSUME IInv, [Next]_vars PROVE IInv'
  OBVIOUS
<1>1. CASE Edit
  BY <1>1, EditSourceKeeps, WriteBinKeeps DEF Edit
<1>2. CASE \E w \in Workers, s \in Slots : StartJob(w, s)
  BY <1>2, StartJobKeeps
<1>3. ASSUME NEW w \in Workers, WorkerStep(w) PROVE IInv'
  BY <1>3, StatBinKeeps, ReadBinKeeps, ReadSourceKeeps, EvictStaleEntryKeeps,
     LookupFreshKeeps, LookupAfterDeleteKeeps, CompileDoneKeeps,
     CacheResultKeeps, CompileErrorKeeps, FinishJobKeeps DEF WorkerStep
<1>4. CASE UNCHANGED vars
  BY <1>4 DEF vars, diskVars, goJudgeVars, cacheVars, workerVars, IInv, TypeOK, WorkerShape,
       CompilingMap, Building, WaitersHavePromise, CachedFileIsLive, OwnedFiles,
       Owns, CacheInjective, SourceBuilds, CheckerMatchesRead, NoOrphanFile,
       ActiveOrOvertaken
<1>5. QED
  BY <1>1, <1>2, <1>3, <1>4 DEF Next

LEMMA SpecIInv == Spec => []IInv
  BY InitIInv, NextIInv, PTL DEF Spec

\* The types of the variables, in every behaviour of the cache.
THEOREM TypeCorrect == Spec => []TypeOK
<1>1. IInv => TypeOK
  BY DEF IInv
<1>2. QED
  BY SpecIInv, <1>1, PTL

\* No two workers ever build the same checker at the same time
\* (getOrCompileChecker, L110-123).
THEOREM SingleFlightHolds == Spec => []SingleFlight
<1>1. IInv => SingleFlight
  BY DEF IInv, CompilingMap, SingleFlight
<1>2. QED
  BY SpecIInv, <1>1, PTL

\* A worker that waits for a compile waits for one that is in flight.
THEOREM WaitersAwaitCompileHolds == Spec => []WaitersAwaitCompile
<1>1. IInv => WaitersAwaitCompile
  BY DEF IInv, TypeOK, WorkerShape, HasKey, WaitersHavePromise, CompilingMap,
         WaitersAwaitCompile
<1>2. QED
  BY SpecIInv, <1>1, PTL

\* No cache entry ever names a file that go-judge has dropped.
THEOREM CachedFileIsLiveHolds == Spec => []CachedFileIsLive
<1>1. IInv => CachedFileIsLive
  BY DEF IInv
<1>2. QED
  BY SpecIInv, <1>1, PTL

\* No job is judged by a checker built from a source other than the one it
\* read, whatever is edited, evicted or shared meanwhile.
THEOREM CheckerMatchesReadHolds == Spec => []CheckerMatchesRead
<1>1. IInv => CheckerMatchesRead
  BY DEF IInv
<1>2. QED
  BY SpecIInv, <1>1, PTL

\* The files of replaced versions are deleted, but for those a failed call has left
\* and those whose compile, or eviction, the active key has overtaken
\* (_evictStaleCacheEntry, L87-100).
THEOREM OnlyOvertakenLingerHolds == Spec => []OnlyOvertakenLinger
<1>1. IInv => OnlyOvertakenLinger
  <2> SUFFICES ASSUME IInv, NEW f \in FileIds, store[f] # None, f \notin undeleted
               PROVE  \/ \E k \in Keys :
                           cache[k] = f /\ (activeKey[k.slot] = k \/ k \in overtaken)
                      \/ \E w \in Workers : pc[w] \in {"compiled", "deleting"} /\ file[w] = f
    BY DEF OnlyOvertakenLinger
  <2>1. CASE \E k \in Keys : cache[k] = f
    BY <2>1, CacheAssumption DEF IInv, ActiveOrOvertaken
  <2>2. CASE \E w \in Workers : Owns(w) /\ file[w] = f
    BY <2>2 DEF Owns
  <2>3. QED
    BY <2>1, <2>2 DEF IInv, NoOrphanFile
<1>2. QED
  BY SpecIInv, <1>1, PTL

-----------------------------------------------------------------------------
(* Before the first edit every worker reads the same contents, so nothing  *)
(* is ever evicted.                                                        *)

Unedited ==
  edits = 0 =>
    /\ \A s \in Slots : activeKey[s] \in {None, CurrentKey(s)}
    /\ \A w \in Workers :
         /\ pc[w] = "readSrc" => bin[slot[w]] = None
         /\ pc[w] \in HasKey => pc[w] # "deleting" /\ want[w] = CurrentKey(slot[w])
         /\ pc[w] = "judging" => cache[want[w]] = file[w]

LEMMA InitUnedited == Init => Unedited
  BY DEF Init, Unedited, HasKey

LEMMA NextUnedited == IInv /\ Unedited /\ [Next]_vars => Unedited'
<1> SUFFICES ASSUME IInv, Unedited, [Next]_vars PROVE Unedited'
  OBVIOUS
<1> USE CacheAssumption
    DEF IInv, TypeOK, WorkerShape, HasKey, HasFile, Unedited, CurrentKey,
        diskVars, goJudgeVars, cacheVars, workerVars
<1>1. CASE Edit
  BY <1>1 DEF Edit, EditSource, WriteBin
<1>2. CASE \E w \in Workers, s \in Slots : StartJob(w, s)
  BY <1>2 DEF StartJob
<1>3. ASSUME NEW w \in Workers, WorkerStep(w) PROVE Unedited'
  <2>1. CASE StatBin(w)
    BY <2>1 DEF StatBin
  <2>2. CASE ReadBin(w)
    BY <2>2 DEF ReadBin, Material
  <2>3. CASE ReadSource(w)
    BY <2>3 DEF ReadSource, Material, EndJobs
  <2>4. CASE EvictStaleEntry(w)
    BY <2>4 DEF EvictStaleEntry, HasStaleEntry, PreviousKey
  <2>5. CASE LookupFresh(w)
    BY <2>5 DEF LookupFresh, SetActive, Lookup
  <2>6. CASE LookupAfterDelete(w)
    BY <2>6 DEF LookupAfterDelete
  <2>7. CASE CompileDone(w)
    BY <2>7 DEF CompileDone
  <2>8. CASE CacheResult(w)
    BY <2>8 DEF CacheResult, Waiters, CompilingMap, Building
  <2>9. CASE CompileError(w)
    BY <2>9 DEF CompileError, EndJobs
  <2>10. CASE FinishJob(w)
    BY <2>10 DEF FinishJob, EndJobs
  <2>11. QED
    BY <1>3, <2>1, <2>2, <2>3, <2>4, <2>5, <2>6, <2>7, <2>8, <2>9, <2>10
       DEF WorkerStep
<1>4. CASE UNCHANGED vars
  BY <1>4 DEF vars
<1>5. QED
  BY <1>1, <1>2, <1>3, <1>4 DEF Next

\* While no problem is edited, no running job loses its checker.
THEOREM KeptWhileUneditedHolds == Spec => []KeptWhileUnedited
<1>1. IInv /\ Unedited => KeptWhileUnedited
  BY CacheAssumption
  DEF IInv, Unedited, TypeOK, WorkerShape, HasKey, HasFile, CachedFileIsLive,
      KeptWhileUnedited
<1>2. QED
  BY InitIInv, NextIInv, InitUnedited, NextUnedited, <1>1, PTL DEF Spec

-----------------------------------------------------------------------------
(* The refinement of CheckerService.                                       *)

\* What a worker judges with is in the cache under the worker's own key or not at
\* all; if another is deleting it, that one has read other contents.
Held ==
  \A w \in Workers : pc[w] = "judging" =>
    /\ \A k \in Keys : cache[k] = file[w] => k = want[w]
    /\ \A v \in Workers :
         /\ pc[v] = "compiled" => file[v] # file[w]
         /\ pc[v] = "deleting" /\ file[v] = file[w] =>
              slot[v] = slot[w] /\ want[v] # want[w]

ActiveOwnSlot == \A s \in Slots : activeKey[s] # None => activeKey[s].slot = s

\* What may be built under a key.
Fits(k, c) == k.kind = "src" => c = k.hash /\ c \notin Broken

BuildsFit ==
  /\ \A k \in Keys : cache[k] # None =>
       Fits(k, store[cache[k]]) /\ (edits = 0 => store[cache[k]] = k.hash)
  /\ \A w \in Workers : pc[w] = "compiled" =>
       Fits(want[w], store[file[w]]) /\ (edits = 0 => store[file[w]] = want[w].hash)

RInv == IInv /\ Unedited /\ Held /\ ActiveOwnSlot /\ BuildsFit

LEMMA InitRInv == Init => RInv
  BY InitIInv, InitUnedited DEF RInv, Init, Held, ActiveOwnSlot, BuildsFit

LEMMA NextRInv == RInv /\ [Next]_vars => RInv'
<1> SUFFICES ASSUME RInv, [Next]_vars PROVE RInv'
  OBVIOUS
<1>1. IInv' /\ Unedited'
  BY NextIInv, NextUnedited DEF RInv
<1> USE CacheAssumption
    DEF RInv, IInv, TypeOK, WorkerShape, HasKey, HasFile, diskVars, goJudgeVars,
        cacheVars, workerVars
<1>2. CASE Edit
  BY <1>1, <1>2 DEF Edit, EditSource, WriteBin, Held, ActiveOwnSlot, BuildsFit, Fits
<1>3. CASE \E w \in Workers, s \in Slots : StartJob(w, s)
  BY <1>1, <1>3 DEF StartJob, Held, ActiveOwnSlot, BuildsFit, Fits
<1>4. ASSUME NEW w \in Workers, WorkerStep(w) PROVE RInv'
  <2>1. CASE StatBin(w)
    BY <1>1, <2>1 DEF StatBin, Held, ActiveOwnSlot, BuildsFit, Fits
  <2>2. CASE ReadBin(w)
    BY <1>1, <2>2 DEF ReadBin, Material, Held, ActiveOwnSlot, BuildsFit, Fits
  <2>3. CASE ReadSource(w)
    BY <1>1, <2>3 DEF ReadSource, Material, EndJobs, Held, ActiveOwnSlot, BuildsFit, Fits
  <2>4. CASE EvictStaleEntry(w)
    <3> USE <1>1, <2>4 DEF EvictStaleEntry, HasStaleEntry, PreviousKey
    <3>1. Held'
      BY DEF Held, ActiveOwnSlot, CacheInjective
    <3>2. ActiveOwnSlot' /\ BuildsFit'
      BY DEF ActiveOwnSlot, BuildsFit, Fits
    <3>3. QED
      BY <3>1, <3>2
  <2>5. CASE LookupFresh(w)
    <3> USE <1>1, <2>5 DEF LookupFresh, SetActive, Lookup
    <3>1. Held'
      BY DEF Held, CacheInjective, OwnedFiles, Owns
    <3>2. ActiveOwnSlot' /\ BuildsFit'
      BY DEF ActiveOwnSlot, BuildsFit, Fits
    <3>3. QED
      BY <3>1, <3>2
  <2>6. CASE LookupAfterDelete(w)
    <3> USE <1>1, <2>6 DEF LookupAfterDelete, SetActive, Lookup
    <3>1. Held'
      BY DEF Held, CacheInjective, OwnedFiles, Owns
    <3>2. ActiveOwnSlot'
      BY DEF ActiveOwnSlot
    <3>3. BuildsFit'
      BY DEF BuildsFit, Fits, OwnedFiles, Owns
    <3>4. QED
      BY <3>1, <3>2, <3>3
  <2>7. CASE CompileDone(w)
    <3> USE <1>1, <2>7 DEF CompileDone, InUse
    <3>1. Held' /\ ActiveOwnSlot'
      BY DEF Held, ActiveOwnSlot
    <3>2. BuildsFit'
      BY DEF BuildsFit, Fits, Built, Unedited, CurrentKey, Keys, Kinds
    <3>3. QED
      BY <3>1, <3>2
  <2>8. CASE CacheResult(w)
    <3> USE <1>1, <2>8 DEF CacheResult, Waiters
    <3>1. Held'
      BY DEF Held, CacheInjective, OwnedFiles, Owns
    <3>2. ActiveOwnSlot' /\ BuildsFit'
      BY DEF ActiveOwnSlot, BuildsFit, Fits
    <3>3. QED
      BY <3>1, <3>2
  <2>9. CASE CompileError(w)
    <3> USE <1>1, <2>9 DEF CompileError, EndJobs, InUse
    <3>1. Held' /\ ActiveOwnSlot'
      BY DEF Held, ActiveOwnSlot
    <3>2. BuildsFit'
      BY DEF BuildsFit, Fits
    <3>3. QED
      BY <3>1, <3>2
  <2>10. CASE FinishJob(w)
    BY <1>1, <2>10 DEF FinishJob, EndJobs, Held, ActiveOwnSlot, BuildsFit, Fits
  <2>11. QED
    BY <1>4, <2>1, <2>2, <2>3, <2>4, <2>5, <2>6, <2>7, <2>8, <2>9, <2>10
       DEF WorkerStep
<1>5. CASE UNCHANGED vars
  BY <1>1, <1>5 DEF vars, Held, ActiveOwnSlot, BuildsFit, Fits
<1>6. QED
  BY <1>2, <1>3, <1>4, <1>5 DEF Next

\* Steps of the implementation that the service does not see.
Same ==
  /\ UNCHANGED <<diskVars, slot, want>>
  /\ \A w \in Workers : Phase(w)' = Phase(w) /\ Given(w)' = Given(w)

LEMMA SameStutters ==
  ASSUME Same
  PROVE  UNCHANGED Service!vars
BY DEF Same, Service!vars, Service!diskVars, diskVars

\* The end of some jobs, as the service has it.
LEMMA EndIs ==
  ASSUME NEW W \in SUBSET Workers, EndJobs(W), UNCHANGED diskVars, RInv,
         \A w \in Workers \ W : pc[w] = "judging" => store'[file[w]] = store[file[w]]
  PROVE  Service!End(W)
<1>1. \A w \in Workers : Phase(w)' = IF w \in W THEN "idle" ELSE Phase(w)
  BY DEF EndJobs, Phase, RInv, IInv, TypeOK
<1>2. \A w \in Workers : Given(w)' = IF w \in W THEN None ELSE Given(w)
  BY DEF EndJobs, Given, RInv, IInv, TypeOK
<1>3. QED
  BY <1>1, <1>2 DEF EndJobs, Service!End, Service!diskVars, diskVars

\* A job that has the cached file of its own key is answered with what fits it.
LEMMA AnswerIs ==
  ASSUME RInv, UNCHANGED <<diskVars, slot, want>>,
         NEW W \in SUBSET Workers, NEW V \in SUBSET Workers, NEW c \in Contents \union {None},
         \A w \in W : Phase(w) = "read" /\ Service!CheckerOf(want[w], c),
         \A v, w \in W : want[v] = want[w],
         \A v \in V : Service!Outdated(v),
         \A w \in Workers : Phase(w)' = IF w \in W THEN "given" ELSE Phase(w),
         \A w \in Workers : Given(w)' = IF w \in W THEN c ELSE IF w \in V THEN None ELSE Given(w)
  PROVE  Service!Next
<1>1. Service!Answer(W, V)
  BY DEF Service!Answer, Service!diskVars, diskVars
<1>2. QED
  BY <1>1 DEF Service!Next

LEMMA EditIs ==
  ASSUME RInv, Edit
  PROVE  Service!Next
<1>1. Service!Edit
  BY DEF Edit, EditSource, WriteBin, workerVars, goJudgeVars, cacheVars, Phase, Given,
         Service!Edit, RInv, IInv, TypeOK
<1>2. QED
  BY <1>1 DEF Service!Next

LEMMA StartIs ==
  ASSUME RInv, NEW w \in Workers, NEW s \in Slots, StartJob(w, s)
  PROVE  Service!Next
<1>1. /\ pc[w] = "idle" /\ UNCHANGED <<diskVars, want>>
      /\ slot' = [slot EXCEPT ![w] = s]
      /\ \A v \in Workers : Phase(v)' = IF v = w THEN "asking" ELSE Phase(v)
      /\ \A v \in Workers : Given(v)' = Given(v)
  BY DEF StartJob, goJudgeVars, Phase, Given, RInv, IInv, TypeOK
<1>2. Service!Ask(w, s)
  BY <1>1 DEF Service!Ask, Service!diskVars, diskVars, Phase
<1>3. QED
  BY <1>2 DEF Service!Next

\* What a worker reads, it reads as one that shares nothing.
LEMMA ReadIs ==
  ASSUME RInv, NEW w \in Workers, NEW kind \in Kinds, NEW c \in Contents,
         pc[w] \in {"readBin", "readSrc"}, Material(w, kind, c),
         \/ kind = "bin" /\ c = bin[slot[w]]
         \/ kind = "src" /\ c = src[slot[w]] /\ Service!LooksAtSource(w)
  PROVE  Service!Next
<1>1. /\ UNCHANGED <<diskVars, slot>>
      /\ want' = [want EXCEPT ![w] = [slot |-> slot[w], kind |-> kind, hash |-> c]]
      /\ \A v \in Workers : Phase(v)' = IF v = w THEN "read" ELSE Phase(v)
      /\ \A v \in Workers : Given(v)' = Given(v)
  BY DEF Material, goJudgeVars, Phase, Given, RInv, IInv, TypeOK
<1>2. Phase(w) = "asking" /\ c # None
  BY CacheAssumption DEF Phase
<1>3. Service!Read(w)
  <2>1. \/ bin[slot[w]] # None /\ kind = "bin" /\ c = bin[slot[w]]
        \/ Service!LooksAtSource(w) /\ src[slot[w]] # None /\ kind = "src" /\ c = src[slot[w]]
    BY <1>2
  <2>2. /\ [v \in Workers |-> Phase(v)]' = [[v \in Workers |-> Phase(v)] EXCEPT ![w] = "read"]
        /\ [v \in Workers |-> Given(v)]' = [v \in Workers |-> Given(v)]
    BY <1>1
  <2>3. [v \in Workers |-> Phase(v)][w] = "asking"
    BY <1>2
  <2>4. UNCHANGED <<src, bin, edits, slot>>
    BY <1>1 DEF diskVars
  <2>5. QED
    BY <1>1, <2>1, <2>2, <2>3, <2>4 DEF Service!Read, Service!diskVars
<1>4. QED
  BY <1>3 DEF Service!Next

LEMMA ReadSourceIs ==
  ASSUME RInv, NEW w \in Workers, ReadSource(w)
  PROVE  Service!Next
<1>1. pc[w] = "readSrc" /\ slot[w] \in Slots /\ Service!LooksAtSource(w)
  BY DEF ReadSource, RInv, IInv, TypeOK, WorkerShape, Unedited, Service!LooksAtSource
<1>2. CASE src[slot[w]] # None
  BY <1>1, <1>2, ReadIs DEF ReadSource, Kinds, RInv, IInv, TypeOK
<1>3. CASE src[slot[w]] = None
  <2>1. EndJobs({w}) /\ UNCHANGED <<diskVars, goJudgeVars, cacheVars>>
    BY <1>3 DEF ReadSource
  <2>2. Service!End({w})
    BY <2>1, EndIs DEF goJudgeVars
  <2>3. Phase(w) = "asking"
    BY <1>1 DEF Phase
  <2>4. Service!NoChecker(w)
    BY <1>1, <1>3, <2>2, <2>3 DEF Service!NoChecker
  <2>5. QED
    BY <2>4 DEF Service!Next
<1>4. QED
  BY <1>2, <1>3

\* A cached checker is one the service may give.
LEMMA CachedFits ==
  ASSUME RInv, NEW w \in Workers, pc[w] \in {"read", "deleting"}, cache[want[w]] # None
  PROVE  /\ store[cache[want[w]]] \in Contents
         /\ Service!CheckerOf(want[w], store[cache[want[w]]])
<1>1. want[w] \in Keys /\ cache[want[w]] \in FileIds
  BY DEF RInv, IInv, TypeOK, WorkerShape, HasKey
<1>2. store[cache[want[w]]] \in Contents
  BY <1>1 DEF RInv, IInv, TypeOK, CachedFileIsLive
<1>3. QED
  BY <1>1, <1>2 DEF RInv, BuildsFit, Fits, Service!CheckerOf

LEMMA LookupFreshIs ==
  ASSUME RInv, NEW w \in Workers, LookupFresh(w)
  PROVE  Service!Next \/ UNCHANGED Service!vars
<1>1. pc[w] = "read" /\ UNCHANGED <<diskVars, slot, want, store>>
  BY DEF LookupFresh, goJudgeVars
<1>2. CASE cache[want[w]] # None
  <2> DEFINE c == store[cache[want[w]]]
  <2>1. c \in Contents /\ Service!CheckerOf(want[w], c)
    BY <1>1, <1>2, CachedFits
  <2>2. pc' = [pc EXCEPT ![w] = "judging"] /\ file' = [file EXCEPT ![w] = cache[want[w]]]
    BY <1>2 DEF LookupFresh, Lookup
  <2>3. \A v \in Workers : Phase(v)' = IF v \in {w} THEN "given" ELSE Phase(v)
    BY <2>2 DEF Phase, RInv, IInv, TypeOK
  <2>4. \A v \in Workers : Given(v)' = IF v \in {w} THEN c ELSE IF v \in {} THEN None ELSE Given(v)
    BY <1>1, <2>2 DEF Given, RInv, IInv, TypeOK
  <2>5. Phase(w) = "read"
    BY <1>1 DEF Phase
  <2> DEFINE W == {w}
             V == {}
  <2>6. /\ W \in SUBSET Workers /\ V \in SUBSET Workers
        /\ \A u, v \in W : want[u] = want[v]
        /\ \A v \in W : Phase(v) = "read" /\ Service!CheckerOf(want[v], c)
        /\ \A v \in V : Service!Outdated(v)
        /\ \A v \in Workers : Phase(v)' = IF v \in W THEN "given" ELSE Phase(v)
        /\ \A v \in Workers : Given(v)' = IF v \in W THEN c ELSE IF v \in V THEN None ELSE Given(v)
    BY <2>1, <2>3, <2>4, <2>5
  <2>7. UNCHANGED <<diskVars, slot, want>> /\ c \in Contents \union {None}
    BY <1>1, <2>1
  <2> HIDE DEF c, W, V
  <2>8. QED
    BY <2>6, <2>7, AnswerIs
<1>3. CASE cache[want[w]] = None
  <2>1. /\ pc'[w] \in {"waiting", "compiling"} /\ \A v \in Workers \ {w} : pc'[v] = pc[v]
        /\ \A v \in Workers \ {w} : file'[v] = file[v]
    BY <1>3 DEF LookupFresh, Lookup, RInv, IInv, TypeOK
  <2>2. Same
    BY <1>1, <2>1 DEF Same, Phase, Given
  <2>3. QED
    BY <2>2, SameStutters
<1>4. QED
  BY <1>2, <1>3

\* Whoever loses his checker loses it to a job that has read other contents.
LEMMA LookupAfterDeleteIs ==
  ASSUME RInv, NEW w \in Workers, LookupAfterDelete(w)
  PROVE  Service!Next
<1> DEFINE V == {v \in Workers : pc[v] = "judging" /\ file[v] = file[w] /\ store'[file[w]] = None}
           W == {v \in {w} : cache[want[w]] # None}
           c == IF cache[want[w]] # None THEN store[cache[want[w]]] ELSE None
<1>1. /\ pc[w] = "deleting" /\ UNCHANGED <<diskVars, slot, want, cache>>
      /\ file[w] \in FileIds
  BY DEF LookupAfterDelete, RInv, IInv, WorkerShape, HasFile
<1>2. /\ \A f \in FileIds \ {file[w]} : store'[f] = store[f]
      /\ store'[file[w]] \in {store[file[w]], None}
  BY <1>1 DEF LookupAfterDelete, RInv, IInv, TypeOK
<1>3. \A v \in Workers \ {w} : pc'[v] = pc[v] /\ file'[v] = file[v]
  BY DEF LookupAfterDelete, Lookup, RInv, IInv, TypeOK
<1>4. /\ cache[want[w]] # None => pc'[w] = "judging" /\ file'[w] = cache[want[w]]
      /\ cache[want[w]] = None => pc'[w] \in {"waiting", "compiling"}
  BY DEF LookupAfterDelete, Lookup, RInv, IInv, TypeOK
<1>5. \A v \in V : Service!Outdated(v)
  BY <1>1 DEF Service!Outdated, Phase, RInv, Held
<1>6. c \in Contents \union {None} /\ (cache[want[w]] # None => Service!CheckerOf(want[w], c))
  BY <1>1, CachedFits
<1>7. \A v \in Workers : Phase(v)' = IF v \in W THEN "given" ELSE Phase(v)
  BY <1>1, <1>3, <1>4 DEF Phase
<1>8. \A v \in Workers : Given(v)' = IF v \in W THEN c ELSE IF v \in V THEN None ELSE Given(v)
  <2>1. want[w] \in Keys /\ (cache[want[w]] # None => cache[want[w]] \in FileIds)
    BY <1>1 DEF RInv, IInv, TypeOK, WorkerShape, HasKey
  <2>2. cache[want[w]] # file[w]
    BY <1>1, <2>1 DEF RInv, IInv, OwnedFiles, Owns
  <2>3. Given(w)' = IF w \in W THEN c ELSE IF w \in V THEN None ELSE Given(w)
    BY <1>1, <1>2, <1>4, <2>1, <2>2 DEF Given
  <2>4. ASSUME NEW v \in Workers \ {w}
        PROVE  Given(v)' = IF v \in W THEN c ELSE IF v \in V THEN None ELSE Given(v)
    <3>1. pc[v] = "judging" => file[v] \in FileIds
      BY DEF RInv, IInv, WorkerShape, HasFile
    <3>2. QED
      BY <1>2, <1>3, <3>1 DEF Given
  <2>5. QED
    BY <2>3, <2>4
<1>9. \A v \in W : Phase(v) = "read" /\ Service!CheckerOf(want[v], c)
  BY <1>1, <1>6 DEF Phase
<1>10. W \in SUBSET Workers /\ V \in SUBSET Workers /\ \A u, v \in W : want[u] = want[v]
  OBVIOUS
<1>11. UNCHANGED <<diskVars, slot, want>> /\ c \in Contents \union {None}
  BY <1>1, <1>6
<1> HIDE DEF W, V, c
<1>12. QED
  BY <1>5, <1>7, <1>8, <1>9, <1>10, <1>11, AnswerIs

\* The file of a compile is nobody's until the compile has ended.
LEMMA CompileDoneIs ==
  ASSUME RInv, NEW w \in Workers, CompileDone(w)
  PROVE  Same
<1>1. PICK f \in FileIds :
        /\ ~InUse(f) /\ store' = [store EXCEPT ![f] = Built(w)]
        /\ file' = [file EXCEPT ![w] = f]
  BY DEF CompileDone
<1>2. \A v \in Workers : pc[v] = "judging" => file[v] \in FileIds /\ file[v] # f /\ v # w
  BY <1>1 DEF CompileDone, InUse, RInv, IInv, WorkerShape, HasFile
<1>3. \A v \in Workers : Given(v)' = Given(v)
  BY <1>1, <1>2 DEF CompileDone, Given, RInv, IInv, TypeOK
<1>4. QED
  BY <1>3 DEF CompileDone, Same, Phase, RInv, IInv, TypeOK

\* The owner of a compile and all who await it are answered together.
LEMMA CacheResultIs ==
  ASSUME RInv, NEW w \in Workers, CacheResult(w)
  PROVE  Service!Next
<1> DEFINE W == Waiters(w) \union {w}
           V == {}
           c == store[file[w]]
<1>1. pc[w] = "compiled" /\ UNCHANGED <<diskVars, slot, want, store>>
  BY DEF CacheResult, goJudgeVars
<1>2. c \in Contents /\ Service!CheckerOf(want[w], c)
  <2>1. c \in Contents
    BY <1>1 DEF RInv, IInv, TypeOK, WorkerShape, HasFile, OwnedFiles, Owns
  <2>2. QED
    BY <1>1, <2>1 DEF RInv, BuildsFit, Fits, Service!CheckerOf
<1>3. \A v \in Workers : pc'[v] = IF v \in W THEN "judging" ELSE pc[v]
  BY DEF CacheResult
<1>4. \A v \in Workers : file'[v] = IF v \in W THEN file[w] ELSE file[v]
  BY DEF CacheResult
<1>5. \A v \in W : pc[v] \in {"waiting", "compiled"} /\ want[v] = want[w]
  BY <1>1 DEF Waiters
<1>6. W \in SUBSET Workers /\ V \in SUBSET Workers /\ c \in Contents \union {None}
  BY <1>2 DEF Waiters
<1>7. /\ \A v \in W : Phase(v) = "read" /\ Service!CheckerOf(want[v], c)
      /\ \A u, v \in W : want[u] = want[v]
      /\ \A v \in V : Service!Outdated(v)
  BY <1>2, <1>5 DEF Phase
<1>8. \A v \in Workers : Phase(v)' = IF v \in W THEN "given" ELSE Phase(v)
  BY <1>3 DEF Phase
<1>9. \A v \in Workers : Given(v)' = IF v \in W THEN c ELSE IF v \in V THEN None ELSE Given(v)
  BY <1>1, <1>3, <1>4 DEF Given
<1>10. UNCHANGED <<diskVars, slot, want>>
  BY <1>1
<1> HIDE DEF W, V, c
<1>11. QED
  BY <1>6, <1>7, <1>8, <1>9, <1>10, AnswerIs

\* A compile that fails ends the jobs that would have shared it, and nobody else's.
LEMMA CompileErrorIs ==
  ASSUME RInv, NEW w \in Workers, CompileError(w)
  PROVE  Service!Next
<1> DEFINE W == Waiters(w) \union {w}
<1>1. /\ pc[w] = "compiling" /\ EndJobs(W) /\ UNCHANGED diskVars /\ W \in SUBSET Workers
      /\ GoJudgeFails \/ (want[w].kind = "src" /\ want[w].hash \in Broken)
  BY DEF CompileError, Waiters
<1>2. \A v \in W : pc[v] \in {"waiting", "compiling"} /\ want[v] = want[w]
  BY <1>1 DEF Waiters
<1>3. \A v \in Workers \ W : pc[v] = "judging" => store'[file[v]] = store[file[v]]
  <2>1. \A v \in Workers : pc[v] = "judging" => file[v] \in FileIds /\ InUse(file[v])
    BY DEF InUse, RInv, IInv, WorkerShape, HasFile
  <2>2. QED
    BY <2>1 DEF CompileError, goJudgeVars, RInv, IInv, TypeOK
<1>4. Service!End(W)
  BY <1>1, <1>3, EndIs
<1>5. \A v \in W : Phase(v) = "read"
  BY <1>2 DEF Phase
<1> HIDE DEF W
<1>6. Service!Fail(W)
  BY <1>1, <1>2, <1>4, <1>5 DEF Service!Fail
<1>7. QED
  BY <1>1, <1>6 DEF Service!Next

LEMMA FinishJobIs ==
  ASSUME RInv, NEW w \in Workers, FinishJob(w)
  PROVE  Service!Next
<1>1. pc[w] = "judging" /\ EndJobs({w}) /\ UNCHANGED diskVars /\ store' = store
  BY DEF FinishJob, goJudgeVars
<1>2. Service!End({w})
  BY <1>1, EndIs
<1>3. Service!Finish(w)
  BY <1>1, <1>2 DEF Service!Finish, Phase
<1>4. QED
  BY <1>3 DEF Service!Next

LEMMA StepIs ==
  ASSUME RInv, [Next]_vars
  PROVE  [Service!Next]_Service!vars
<1>1. CASE Edit
  BY <1>1, EditIs
<1>2. CASE \E w \in Workers, s \in Slots : StartJob(w, s)
  BY <1>2, StartIs
<1>3. ASSUME NEW w \in Workers, WorkerStep(w) PROVE [Service!Next]_Service!vars
  <2>1. CASE StatBin(w)
    <3>1. Same
      BY <2>1 DEF StatBin, Same, goJudgeVars, Phase, Given, RInv, IInv, TypeOK
    <3>2. QED
      BY <3>1, SameStutters
  <2>2. CASE ReadBin(w)
    <3>1. bin[slot[w]] \in Contents
      BY <2>2 DEF ReadBin, RInv, IInv, TypeOK, WorkerShape
    <3>2. Service!Next
      BY <2>2, <3>1, ReadIs DEF ReadBin, Kinds
    <3>3. QED
      BY <3>2
  <2>3. CASE ReadSource(w)
    BY <2>3, ReadSourceIs
  <2>4. CASE EvictStaleEntry(w)
    <3>1. Same
      BY <2>4 DEF EvictStaleEntry, Same, goJudgeVars, Phase, Given, RInv, IInv, TypeOK
    <3>2. QED
      BY <3>1, SameStutters
  <2>5. CASE LookupFresh(w)
    BY <2>5, LookupFreshIs
  <2>6. CASE LookupAfterDelete(w)
    BY <2>6, LookupAfterDeleteIs
  <2>7. CASE CompileDone(w)
    BY <2>7, CompileDoneIs, SameStutters
  <2>8. CASE CacheResult(w)
    BY <2>8, CacheResultIs
  <2>9. CASE CompileError(w)
    BY <2>9, CompileErrorIs
  <2>10. CASE FinishJob(w)
    BY <2>10, FinishJobIs
  <2>11. QED
    BY <1>3, <2>1, <2>2, <2>3, <2>4, <2>5, <2>6, <2>7, <2>8, <2>9, <2>10
       DEF WorkerStep
<1>4. CASE UNCHANGED vars
  <2>1. Same
    BY <1>4 DEF vars, diskVars, goJudgeVars, workerVars, Same, Phase, Given
  <2>2. QED
    BY <2>1, SameStutters
<1>5. QED
  BY <1>1, <1>2, <1>3, <1>4 DEF Next

\* Sharing is transparent: a job gets what a compile of its own would have given
\* it, or its error, and keeps it unless another job has read other contents.
THEOREM SharingIsTransparentHolds == Spec => SharingIsTransparent
<1>1. Init => Service!Init
  BY DEF Init, Service!Init, Phase, Given
<1>2. RInv /\ [Next]_vars => [Service!Next]_Service!vars
  BY StepIs
<1>3. QED
  BY <1>1, <1>2, InitRInv, NextRInv, PTL DEF Spec, SharingIsTransparent, Service!Spec
=============================================================================
